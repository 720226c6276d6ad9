----------------------------- MODULE EventTrace -----------------------------
(***************************************************************************)
(* What the system does for its users, side by side: accounts, the         *)
(* contacts of users, what is fetched from eCourts for them, and the cause *)
(* lists that are read for their cases, with their parser.                 *)
(*                                                                         *)
(* They have no state in common but rows of users and tracked_cases, which *)
(* each of them reads as they are and models what others write to them as  *)
(* actions of its own.  A step of one is no step of another, and no        *)
(* property relates two of them, so a behaviour in which all of them run   *)
(* satisfies what the behaviours do in which one runs: part is the one.    *)
(***************************************************************************)
EXTENDS Accounts, Contacts, Ecourts, CauselistParser, Causelist

VARIABLE part

Init ==
  /\ part \in {"accounts", "contacts", "ecourts", "parser", "causelist"}
  /\ AccountsInit /\ ContactsInit /\ EcourtsInit
  /\ ParserInit /\ CauselistInit
  \* Where the parts that do not run have a choice, they begin in one way only.
  /\ part # "causelist" => tracking = {} /\ now = CHOOSE t \in StartTimes : TRUE

Next ==
  \/ part = "accounts" /\ AccountsNext
     /\ UNCHANGED <<part, contactsVars, ecourtsVars, parserVars, causelistVars>>
  \/ part = "contacts" /\ ContactsNext
     /\ UNCHANGED <<part, accountsVars, ecourtsVars, parserVars, causelistVars>>
  \/ part = "ecourts" /\ EcourtsNext
     /\ UNCHANGED <<part, accountsVars, contactsVars, parserVars, causelistVars>>
  \/ part = "parser" /\ ParserNext
     /\ UNCHANGED <<part, accountsVars, contactsVars, ecourtsVars, causelistVars>>
  \/ part = "causelist" /\ CauselistNext
     /\ UNCHANGED <<part, accountsVars, contactsVars, ecourtsVars, parserVars>>

vars == <<part, accountsVars, contactsVars, ecourtsVars, parserVars, causelistVars>>

Spec == Init /\ [][Next]_vars

\* Every part keeps its types; the others stay as they were at the beginning.
TypeOK ==
  CASE part = "accounts" -> AccountsTypeOK
    [] part = "contacts" -> ContactsTypeOK
    [] part = "ecourts" -> EcourtsTypeOK
    [] part = "parser" -> ParserTypeOK
    [] part = "causelist" -> CauselistTypeOK

\* What a list says of the users' cases reaches them: what is new of a case, and that it is
\* listed (run_daily_case_diff, and the alert jobs that the scheduler starts).
CasesAreTold == ChangesTold /\ ListedIsTold

=============================================================================
