------------------------------ MODULE Ecourts ------------------------------
(***************************************************************************)
(* A case at eCourts: the number of its type, resolved from the prefix of  *)
(* its reference (services/resolve_ecourts_type), the search that finds    *)
(* its CNR and its history (ecourts_test._do_case_history), and what is    *)
(* kept of it: the cache of histories, and the row of tracked_cases.       *)
(*                                                                         *)
(* Requests and their background threads run at the same time, and every   *)
(* call of the repository commits by itself.  A bench and a user stand for *)
(* all: rows of others have nothing in common with theirs.  Histories are  *)
(* told apart by the case they are of, and the captcha by whether the      *)
(* search got through within its MAX_TRIES.                                *)
(***************************************************************************)
EXTENDS Integers, FiniteSets

CONSTANTS
  Refs, Prefixes, PrefixOf,   \* references of cases, and the prefix of each
  Types,           \* the bench's types at eCourts, numbered in the order of their ids as text
  Matching,        \* types whose names match a prefix
  Hardcoded,       \* type of a prefix in CASE_TYPE_IDS, or Unset
  Cnrs,
  Listed,          \* CNRs eCourts lists for a reference under a type
  Entries,         \* [cino, type] users may give, each of them Unset when it is not given
  Fetchers,        \* threads
  Unset,
  MaxFetches, MaxFetchFaults   \* bounds on requests and on failures

ASSUME EcourtsAssumption ==
  /\ PrefixOf \in [Refs -> Prefixes]
  /\ Types \subseteq Nat
  /\ Matching \in [Prefixes -> SUBSET Types]
  /\ Hardcoded \in [Prefixes -> Types \cup {Unset}]
  /\ Listed \in [Types \X Refs -> SUBSET Cnrs]
  /\ Entries \subseteq [cino : Cnrs \cup {Unset}, type : Types \cup {Unset}]
  /\ Unset \notin Types /\ Unset \notin Cnrs /\ Unset \notin Prefixes
  /\ MaxFetches \in Nat /\ MaxFetchFaults \in Nat

VARIABLES
  stored_types, \* ecourts_case_type_map: types it has
  prefix_of,   \* and the prefix of each, Unset when it is not known
  case_row,    \* the row of each reference, Unset = not tracked
  cache,       \* case_history_cache: the case whose history is under each CNR
  fpc, freq,   \* where each thread is and what it has read
  fetches, fetchFaults,
  \* history
  answers,     \* types a prefix was resolved to
  early,       \* types that were matched before all of them were stored
  given,       \* [cino, type] as the user gave them last
  crossed,     \* references for which a thread was under way then
  told_types,  \* types users gave for a prefix
  unlisted     \* CNRs that a search for them did not list

ecourtsVars == <<stored_types, prefix_of, case_row, cache, fpc, freq, fetches, fetchFaults,
                 answers, early, given, crossed, told_types, unlisted>>

typeMap == <<stored_types, prefix_of>>
fetchBounds == <<fetches, fetchFaults>>
resolved == <<answers, early>>
givenVars == <<given, crossed, told_types>>

CaseRow == [cino : Cnrs \cup {Unset}, type : Types \cup {Unset}]

ASSUME CaseRowAssumption == Unset \notin CaseRow

FetchStep ==
  {"idle", "add", "resolve", "populated", "list", "store", "again", "match", "persist", "type",
   "fresh", "search", "save", "cino", "learn", "update"}

NoCall == [kind |-> "none", ref |-> Unset, cino |-> Unset, type |-> Unset, left |-> {}, picked |-> Unset]

EcourtsTypeOK ==
  /\ stored_types \subseteq Types /\ prefix_of \in [Types -> Prefixes \cup {Unset}]
  /\ \A t \in Types \ stored_types : prefix_of[t] = Unset
  /\ case_row \in [Refs -> CaseRow \cup {Unset}]
  /\ cache \in [Cnrs -> Cnrs \cup {Unset}]
  /\ fpc \in [Fetchers -> FetchStep]
  /\ freq \in [Fetchers -> [kind : {"none", "fetch", "auto", "ask", "notify"}, ref : Refs \cup {Unset},
                            cino : Cnrs \cup {Unset}, type : Types \cup {Unset}, left : SUBSET Types,
                            picked : Cnrs \cup {Unset}]]
  /\ fetches \in 0 .. MaxFetches /\ fetchFaults \in 0 .. MaxFetchFaults
  /\ answers \in [Prefixes -> SUBSET Types] /\ early \in [Prefixes -> SUBSET Types]
  /\ given \in [Refs -> CaseRow] /\ crossed \subseteq Refs
  /\ told_types \in [Prefixes -> SUBSET Types] /\ unlisted \subseteq Cnrs

NothingGiven == [cino |-> Unset, type |-> Unset]

EcourtsInit ==
  /\ stored_types = {} /\ prefix_of = [t \in Types |-> Unset]
  /\ case_row = [c \in Refs |-> Unset] /\ cache = [n \in Cnrs |-> Unset]
  /\ fpc = [f \in Fetchers |-> "idle"] /\ freq = [f \in Fetchers |-> NoCall]
  /\ fetches = 0 /\ fetchFaults = 0
  /\ answers = [p \in Prefixes |-> {}] /\ early = [p \in Prefixes |-> {}]
  /\ given = [c \in Refs |-> NothingGiven] /\ crossed = {}
  /\ told_types = [p \in Prefixes |-> {}] /\ unlisted = {}

-----------------------------------------------------------------------------
(* Requests.                                                               *)

GoOn(f, step, request) ==
  /\ fpc' = [fpc EXCEPT ![f] = step]
  /\ freq' = [freq EXCEPT ![f] = request]

Leave(f) == GoOn(f, "idle", NoCall)

Fetch == fetches < MaxFetches /\ fetches' = fetches + 1 /\ UNCHANGED fetchFaults

Under(f) == PrefixOf[freq[f].ref]

\* The row is written as it is given, what is not given included.
add_tracked_case(ref, entry) ==
  /\ Fetch
  /\ case_row' = [case_row EXCEPT ![ref] = entry]
  /\ given' = [given EXCEPT ![ref] = entry]
  /\ crossed' = IF \E f \in Fetchers : freq[f].ref = ref THEN crossed \cup {ref} ELSE crossed \ {ref}
  /\ told_types' = [told_types EXCEPT ![PrefixOf[ref]] = @ \cup ({entry.type} \ {Unset})]
  /\ UNCHANGED <<typeMap, cache, fpc, freq, resolved, unlisted>>

remove_tracked_case(ref) ==
  /\ case_row[ref] # Unset
  /\ Fetch
  /\ case_row' = [case_row EXCEPT ![ref] = Unset]
  /\ given' = [given EXCEPT ![ref] = NothingGiven]
  /\ UNCHANGED <<typeMap, cache, fpc, freq, resolved, crossed, told_types, unlisted>>

\* POST /my-cases/{ref}/fetch-ecourts
FetchEcourts(f, ref) ==
  /\ fpc[f] = "idle" /\ case_row[ref] # Unset
  /\ Fetch
  /\ GoOn(f, IF case_row[ref].type = Unset THEN "resolve" ELSE "fresh",
          [NoCall EXCEPT !.kind = "fetch", !.ref = ref,
                          !.cino = case_row[ref].cino, !.type = case_row[ref].type])
  /\ UNCHANGED <<typeMap, case_row, cache, resolved, givenVars, unlisted>>

\* POST /case-search of a case that is not tracked: it will be.
unified_case_search(f, ref) ==
  /\ fpc[f] = "idle" /\ case_row[ref] = Unset
  /\ Fetch
  /\ GoOn(f, "add", [NoCall EXCEPT !.kind = "auto", !.ref = ref])
  /\ UNCHANGED <<typeMap, case_row, cache, resolved, givenVars, unlisted>>

\* subscribe_causelist_alert, POST /my-cases/notify, of a case that is not tracked: it will be.
NotifyTracks(f, ref) ==
  /\ fpc[f] = "idle" /\ case_row[ref] = Unset
  /\ Fetch
  /\ GoOn(f, "add", [NoCall EXCEPT !.kind = "notify", !.ref = ref])
  /\ UNCHANGED <<typeMap, case_row, cache, resolved, givenVars, unlisted>>

\* With neither CNR nor type, whatever the row has by now.
AutoTrack(f) ==
  /\ fpc[f] = "add"
  /\ case_row' = [case_row EXCEPT ![freq[f].ref] = NothingGiven]
  /\ IF freq[f].kind = "auto" THEN GoOn(f, "resolve", freq[f]) ELSE Leave(f)
  /\ UNCHANGED <<typeMap, cache, fetchBounds, resolved, givenVars, unlisted>>

\* POST /api/case-history.  Without a type only the cache is asked, which changes nothing.
get_case_history(f, ref, entry) ==
  /\ fpc[f] = "idle" /\ entry.cino # Unset /\ entry.type # Unset
  /\ Fetch
  /\ GoOn(f, "fresh", [NoCall EXCEPT !.kind = "ask", !.ref = ref,
                                   !.cino = entry.cino, !.type = entry.type])
  /\ UNCHANGED <<typeMap, case_row, cache, resolved, givenVars, unlisted>>

-----------------------------------------------------------------------------
(* resolve_prefix_to_type_id                                               *)

ResolvedTo(f, type) ==
  /\ answers' = [answers EXCEPT ![Under(f)] = @ \cup {type}]
  /\ GoOn(f, IF freq[f].kind = "fetch" THEN "type" ELSE "search", [freq[f] EXCEPT !.type = type])

Known(prefix) == {t \in stored_types : prefix_of[t] = prefix}

\* One of the rows of the prefix; looked up before the table is filled, and after it.
get_ecourts_type_id(f) ==
  /\ fpc[f] \in {"resolve", "again"}
  /\ \/ Known(Under(f)) = {}
        /\ GoOn(f, IF fpc[f] = "resolve" THEN "populated" ELSE "match", freq[f])
        /\ UNCHANGED answers
     \/ \E type \in Known(Under(f)) : ResolvedTo(f, type)
  /\ UNCHANGED <<typeMap, case_row, cache, fetchBounds, early, givenVars, unlisted>>

\* One row is enough.
ecourts_types_populated(f) ==
  /\ fpc[f] = "populated"
  /\ GoOn(f, IF stored_types = {} THEN "list" ELSE "again", freq[f])
  /\ UNCHANGED <<typeMap, case_row, cache, fetchBounds, resolved, givenVars, unlisted>>

\* Without an answer from eCourts there are no types.
fetch_bench_types(f) ==
  /\ fpc[f] = "list"
  /\ \/ GoOn(f, "store", [freq[f] EXCEPT !.left = Types])
     \/ GoOn(f, "again", freq[f])
  /\ UNCHANGED <<typeMap, case_row, cache, fetchBounds, resolved, givenVars, unlisted>>

\* In the order of the answer; a prefix that is known stays.
upsert_ecourts_type(f) ==
  /\ fpc[f] = "store"
  /\ \E type \in freq[f].left :
       /\ stored_types' = stored_types \cup {type}
       /\ GoOn(f, IF freq[f].left = {type} THEN "again" ELSE "store",
               [freq[f] EXCEPT !.left = @ \ {type}])
  /\ UNCHANGED <<prefix_of, case_row, cache, fetchBounds, resolved, givenVars, unlisted>>

FirstType(types) == CHOOSE t \in types : \A s \in types : t <= s

\* Mutant: the map in the code first.
MatchHardcodedFirst(prefix, types) ==
  IF Hardcoded[prefix] # Unset THEN Hardcoded[prefix]
  ELSE IF Matching[prefix] \cap types # {} THEN FirstType(Matching[prefix] \cap types) ELSE Unset

\* By the names that are stored, and only then by the map in the code.
Match(prefix, types) ==
  IF Matching[prefix] \cap types # {} THEN FirstType(Matching[prefix] \cap types) ELSE Hardcoded[prefix]

\* list_ecourts_types and _match_prefix_in_types
MatchPrefix(f) ==
  LET type == Match(Under(f), stored_types)
  IN
  /\ fpc[f] = "match"
  /\ IF stored_types = {} \/ type = Unset
     THEN Leave(f) /\ UNCHANGED early
     ELSE /\ GoOn(f, "persist", [freq[f] EXCEPT !.type = type])
          /\ early' = IF stored_types = Types THEN early ELSE [early EXCEPT ![Under(f)] = @ \cup {type}]
  /\ UNCHANGED <<typeMap, case_row, cache, fetchBounds, answers, givenVars, unlisted>>

\* Mutant: the type is not looked for.
set_prefix_anyway(f) == prefix_of' = [prefix_of EXCEPT ![freq[f].type] = Under(f)]

\* Only where the type has a row.
set_ecourts_type_prefix(f) ==
  prefix_of' = [t \in Types |-> IF t = freq[f].type /\ t \in stored_types THEN Under(f) ELSE prefix_of[t]]

PersistPrefix(f) ==
  /\ fpc[f] = "persist"
  /\ set_ecourts_type_prefix(f)
  /\ ResolvedTo(f, freq[f].type)
  /\ UNCHANGED <<stored_types, case_row, cache, fetchBounds, early, givenVars, unlisted>>

-----------------------------------------------------------------------------
(* The case: its row, the search and the cache.                            *)

\* A row that is gone stays so, and so does a column that is not given.
update_tracked_case(f, cino, type) ==
  case_row' = [case_row EXCEPT ![freq[f].ref] =
                IF @ = Unset THEN Unset
                ELSE [cino |-> IF cino = Unset THEN @.cino ELSE cino,
                      type |-> IF type = Unset THEN @.type ELSE type]]

PersistType(f) ==
  /\ fpc[f] = "type"
  /\ update_tracked_case(f, Unset, freq[f].type)
  /\ GoOn(f, "fresh", freq[f])
  /\ UNCHANGED <<typeMap, cache, fetchBounds, resolved, givenVars, unlisted>>

\* A history that is not too old is answered; ages are not counted.
get_case_history_cache(f) ==
  LET has == freq[f].cino # Unset /\ cache[freq[f].cino] # Unset
  IN
  /\ fpc[f] = "fresh"
  /\ \/ has /\ Leave(f)
     \/ GoOn(f, "search", freq[f])
  /\ UNCHANGED <<typeMap, case_row, cache, fetchBounds, resolved, givenVars, unlisted>>

\* The case that is asked for, when it is among the results, or the first of them.
_do_case_history(f) ==
  LET results == Listed[freq[f].type, freq[f].ref]
      target == freq[f].cino
  IN
  /\ fpc[f] = "search"
  /\ \E case \in results :
       /\ target \in results => case = target
       /\ GoOn(f, "save", [freq[f] EXCEPT !.picked = case])
  /\ unlisted' = IF target # Unset /\ target \notin results THEN unlisted \cup {target} ELSE unlisted
  /\ UNCHANGED <<typeMap, case_row, cache, fetchBounds, resolved, givenVars>>

\* No captcha was read, the case is not found, or eCourts does not answer.
SearchFails(f) ==
  /\ fpc[f] = "search"
  /\ Leave(f)
  /\ UNCHANGED <<typeMap, case_row, cache, fetchBounds, resolved, givenVars, unlisted>>

\* Under the CNR that was asked for.
CacheHistory(f) ==
  LET effective_cino == IF freq[f].cino # Unset THEN freq[f].cino ELSE freq[f].picked
  IN
  /\ fpc[f] = "save"
  /\ cache' = [cache EXCEPT ![effective_cino] = freq[f].picked]
  /\ CASE freq[f].kind = "ask" -> Leave(f)
       [] freq[f].kind = "auto" -> GoOn(f, "update", freq[f])
       [] freq[f].kind = "fetch" -> GoOn(f, IF freq[f].cino = Unset THEN "cino" ELSE "learn", freq[f])
  /\ UNCHANGED <<typeMap, case_row, fetchBounds, resolved, givenVars, unlisted>>

PersistCino(f) ==
  /\ fpc[f] = "cino"
  /\ update_tracked_case(f, freq[f].picked, Unset)
  /\ GoOn(f, "learn", freq[f])
  /\ UNCHANGED <<typeMap, cache, fetchBounds, resolved, givenVars, unlisted>>

record_learned_prefix(f) ==
  /\ fpc[f] = "learn"
  /\ set_ecourts_type_prefix(f)
  /\ Leave(f)
  /\ UNCHANGED <<stored_types, case_row, cache, fetchBounds, resolved, givenVars, unlisted>>

UpdateCase(f) ==
  /\ fpc[f] = "update"
  /\ update_tracked_case(f, freq[f].picked, freq[f].type)
  /\ Leave(f)
  /\ UNCHANGED <<typeMap, cache, fetchBounds, resolved, givenVars, unlisted>>

\* A call of the repository fails.  Where FetchEcourts catches it, it goes on; else
\* the request or the thread is over.
FetchCallFails(f) ==
  /\ fpc[f] # "idle"
  /\ fetchFaults < MaxFetchFaults /\ fetchFaults' = fetchFaults + 1
  /\ CASE fpc[f] = "type" -> GoOn(f, "fresh", freq[f])
       [] fpc[f] = "cino" -> GoOn(f, "learn", freq[f])
       [] fpc[f] = "fresh" /\ freq[f].kind = "ask" -> GoOn(f, "search", freq[f])
       [] OTHER -> Leave(f)
  /\ UNCHANGED <<typeMap, case_row, cache, fetches, resolved, givenVars, unlisted>>

EcourtsNext ==
  \/ \E ref \in Refs :
       \/ \E entry \in Entries : add_tracked_case(ref, entry)
       \/ remove_tracked_case(ref)
  \/ \E f \in Fetchers :
       \/ \E ref \in Refs :
            \/ FetchEcourts(f, ref)
            \/ unified_case_search(f, ref)
            \/ NotifyTracks(f, ref)
            \/ \E entry \in Entries : get_case_history(f, ref, entry)
       \/ AutoTrack(f)
       \/ get_ecourts_type_id(f) \/ ecourts_types_populated(f)
       \/ fetch_bench_types(f) \/ upsert_ecourts_type(f)
       \/ MatchPrefix(f) \/ PersistPrefix(f) \/ PersistType(f)
       \/ get_case_history_cache(f) \/ _do_case_history(f) \/ SearchFails(f)
       \/ CacheHistory(f) \/ PersistCino(f) \/ record_learned_prefix(f) \/ UpdateCase(f)
       \/ FetchCallFails(f)

EcourtsSpec == EcourtsInit /\ [][EcourtsNext]_ecourtsVars

-----------------------------------------------------------------------------
(* Properties.                                                             *)

Names(p) == Matching[p] \cup {Hardcoded[p]}

\* A prefix is resolved to a type its name matches or the code has for it, or to one that a
\* user gave and under which eCourts listed a case of the prefix; never to a type of another
\* prefix.  It is always the same type, the first its name matches among all of the bench's,
\* but for types a user gave and what was matched while the types were still being stored
\* (resolve_prefix_to_type_id takes one row for all of them, and what it then finds stays).
ResolvedAlike ==
  \A p \in Prefixes : \A t \in answers[p] :
    /\ \/ t \in Names(p)
       \/ t \in told_types[p] /\ \E ref \in Refs : PrefixOf[ref] = p /\ Listed[t, ref] # {}
    /\ t \notin early[p] \cup told_types[p] =>
         IF Matching[p] = {} THEN t = Hardcoded[p]
         ELSE t \in Matching[p] /\ \A s \in Matching[p] : t <= s

\* The history under a CNR is of that case, or else of one that eCourts listed where it was
\* searched for and did not list the CNR (_do_case_history takes the first result then).
CachedIsTheCase ==
  \A n \in Cnrs :
    cache[n] \notin {n, Unset} =>
      /\ n \in unlisted
      /\ \E t \in Types, ref \in Refs : cache[n] \in Listed[t, ref] /\ n \notin Listed[t, ref]

\* A row has the CNR and the type its user gave, or one that eCourts lists for the case and
\* one its prefix was resolved to, whoever else's requests run.  What was given is not written
\* over, unless a thread was at that case when it was given.
GivenIsKept ==
  \A ref \in Refs :
    case_row[ref] # Unset =>
      /\ case_row[ref].cino \in {given[ref].cino, Unset} \cup UNION {Listed[t, ref] : t \in Types}
      /\ case_row[ref].type \in {given[ref].type, Unset} \cup answers[PrefixOf[ref]]
      /\ ref \notin crossed =>
           given[ref].cino \in {case_row[ref].cino, Unset} /\ given[ref].type \in {case_row[ref].type, Unset}

\* Neither the map of types, nor the cache, nor the rows are spoilt by what is resolved and
\* fetched for several cases at once, beyond what the three say
\* (resolve_prefix_to_type_id, _do_case_history, FetchEcourts).
EcourtsKept == ResolvedAlike /\ CachedIsTheCase /\ GivenIsKept

=============================================================================
