-------------------------- MODULE EventTrace_proofs --------------------------
(***************************************************************************)
(* Proofs about the parts of EventTrace, each by itself, and about         *)
(* EventTrace, in which they run side by side.                             *)
(*                                                                         *)
(* Every part has an inductive invariant (ParserInv, AccountsInv,          *)
(* ContactsInv, EcourtsIInv, CauselistInv) with three lemmas: it holds in  *)
(* the beginning, every step keeps it, and the part's properties follow.   *)
(***************************************************************************)
EXTENDS EventTrace, TLAPS, FiniteSetTheorems, WellFoundedInduction

\* A set of numbers has a least one.
LEMMA LeastNumber ==
  ASSUME NEW T \in SUBSET Nat, T # {}
  PROVE  \E x \in T : \A y \in T : x <= y
<1> DEFINE Less == {ss \in Nat \X Nat : ss[1] < ss[2]}
<1>1. IsWellFoundedOn(Less, Nat)
  BY NatLessThanWellFounded DEF OpToRel
<1> HIDE DEF Less
<1>2. PICK x \in T : \A y \in T : ~ (<<y, x>> \in Less)
  BY <1>1, WFMin
<1>3. ASSUME NEW y \in T PROVE x <= y
  <2>1. <<y, x>> \in Less <=> y < x
    BY SMT DEF Less
  <2>2. QED
    BY <1>2, <2>1
<1>4. QED
  BY <1>3

-----------------------------------------------------------------------------
(* The parser of cause lists.                                               *)

LEMMA NextLine == ASSUME line \in Lines, line < MaxLines PROVE line + 1 \in Lines
BY ParserAssumption DEF Lines

\* What a step leaves of a case that is read, and what it makes of the list.
LEMMA ParserTypeInit == ParserInit => ParserTypeOK
<1> SUFFICES ASSUME ParserInit PROVE ParserTypeOK
  OBVIOUS
<1>1. 0 \in Lines
  BY ParserAssumption DEF Lines
<1>2. NoCase \in OpenCase
  BY <1>1 DEF NoCase, OpenCase
<1>3. NoSection \in SectionAt
  BY <1>1 DEF NoSection, SectionAt
<1>4. emitted \in EmittedCase
  BY <1>2, <1>3 DEF EmittedCase, ParserInit
<1>5. QED
  BY <1>1, <1>2, <1>3, <1>4 DEF ParserInit, ParserTypeOK

LEMMA FlushedType == 
  ASSUME open \in OpenCase, section \in SectionAt, emitted \in EmittedCase
  PROVE FlushedCase \in EmittedCase
BY DEF FlushedCase, EmittedCase

LEMMA ParserTypeNext == ASSUME ParserTypeOK, [ParserNext]_parserVars PROVE ParserTypeOK'
<1>0. /\ line \in Lines /\ open \in OpenCase /\ section \in SectionAt /\ emitted \in EmittedCase
      /\ 0 \in Lines /\ heading \in Lines /\ start \in Lines /\ firstRef \in Lines
      /\ FlushedCase \in EmittedCase /\ FlushedCase.case.serial \in Lines /\ NoCase \in OpenCase
      /\ unfinished \subseteq Lines
  <2>1. 0 \in Lines
    BY ParserAssumption DEF Lines
  <2>2. NoCase \in OpenCase
    BY <2>1 DEF NoCase, OpenCase
  <2>3. FlushedCase \in EmittedCase
    BY FlushedType DEF ParserTypeOK
  <2>4. FlushedCase.case.serial \in Lines
    BY <2>3 DEF EmittedCase, OpenCase
  <2>5. QED
    BY <2>1, <2>2, <2>3, <2>4 DEF ParserTypeOK
<1>1. ASSUME NEW k \in Kinds, Serial(k) PROVE ParserTypeOK'
  <2>1. line + 1 \in Lines
    BY <1>0, <1>1, NextLine DEF Serial, Read
  <2>2. open' \in OpenCase
    <3> DEFINE par == IF k = "with" THEN FlushedCase.case.serial ELSE 0
               wth == k = "with"
    <3>1. par \in Lines
      BY <1>0
    <3>3. wth \in BOOLEAN
      OBVIOUS
    <3>2. open' = [NoCase EXCEPT !.serial = line + 1, !.is_with_case = wth, !.parent = par, !.due = heading]
      BY <1>1 DEF Serial, flush
    <3> HIDE DEF par, wth
    <3>4. QED
      BY <1>0, <2>1, <3>1, <3>2, <3>3 DEF OpenCase
  <2>3. QED
    BY <1>0, <1>1, <2>1, <2>2 DEF ParserTypeOK, Serial, flush, Read
<1>2. CASE IaNumber
  <2>1. line + 1 \in Lines
    BY <1>0, <1>2, NextLine DEF IaNumber, Read
  <2>2. open' \in OpenCase
    BY <1>0, <1>2, <2>1 DEF IaNumber, OpenCase
  <2>3. QED
    BY <1>0, <1>2, <2>1, <2>2 DEF ParserTypeOK, IaNumber, Read
<1>3. ASSUME NEW k \in Kinds, SectionHeading(k) PROVE ParserTypeOK'
  <2>1. line + 1 \in Lines
    BY <1>0, <1>3, NextLine DEF SectionHeading, Read
  <2>2. open' \in OpenCase /\ emitted' \in EmittedCase
    BY <1>0, <1>3 DEF SectionHeading, flush
  <2>4. section' \in SectionAt
    BY <1>0, <1>3, <2>1 DEF SectionHeading, SectionAfter, SectionAt
  <2>3. QED
    BY <1>0, <1>3, <2>1, <2>2, <2>4 DEF ParserTypeOK, SectionHeading, HeadingSeen, Read
<1>4. CASE Subsection
  <2>1. line + 1 \in Lines
    BY <1>0, <1>4, NextLine DEF Subsection
  <2>2. section' \in SectionAt
    BY <1>0, <1>4, <2>1 DEF Subsection, SectionAt
  <2>3. QED
    BY <1>0, <1>4, <2>1, <2>2 DEF ParserTypeOK, Subsection
<1>5. CASE CaseRef
  <2>1. line + 1 \in Lines
    BY <1>0, <1>5, NextLine DEF CaseRef, Read
  <2>2. open' \in OpenCase
    BY <1>0, <1>5, <2>1 DEF CaseRef, OpenCase
  <2>3. QED
    BY <1>0, <1>5, <2>1, <2>2 DEF ParserTypeOK, CaseRef, Read
<1>6. CASE Annotation
  <2>1. line + 1 \in Lines
    BY <1>0, <1>6, NextLine DEF Annotation
  <2>2. open' \in OpenCase
    BY <1>0, <1>6, <2>1 DEF Annotation, OpenCase
  <2>3. QED
    BY <1>0, <1>6, <2>1, <2>2 DEF ParserTypeOK, Annotation
<1>7. ASSUME NEW k \in Kinds, Other(k) PROVE ParserTypeOK'
  <2>1. line + 1 \in Lines
    BY <1>0, <1>7, NextLine DEF Other, Read
  <2>2. open' \in OpenCase
    <3>1. [open EXCEPT !.after_vs = TRUE] \in OpenCase
      BY <1>0 DEF OpenCase
    <3>2. [open EXCEPT !.pet_parts = @ \cup {line + 1}] \in OpenCase
      BY <1>0, <2>1 DEF OpenCase
    <3>3. [open EXCEPT !.respondent = line + 1] \in OpenCase
      BY <1>0, <2>1 DEF OpenCase
    <3>4. [open EXCEPT !.advocate = line + 1] \in OpenCase
      BY <1>0, <2>1 DEF OpenCase
    <3>5. QED
      BY <1>0, <1>7, <3>1, <3>2, <3>3, <3>4 DEF Other, CaseAfter
  <2>3. QED
    BY <1>0, <1>7, <2>1, <2>2 DEF ParserTypeOK, Other, HeadingSeen, Read
<1>8. CASE EndOfBlock
  BY <1>0, <1>8 DEF ParserTypeOK, EndOfBlock, flush
<1>9. CASE UNCHANGED parserVars
  BY <1>9 DEF ParserTypeOK, parserVars
<1>10. QED
  BY <1>1, <1>2, <1>3, <1>4, <1>5, <1>6, <1>7, <1>8, <1>9 DEF ParserNext

\* A case has lines after its own serial number only, up to the n-th.
Whole(c, n) ==
  /\ c.serial <= n
  /\ \A p \in Parts(c) \ {0} : c.serial # 0 /\ p > c.serial
  /\ c.is_with_case => c.parent < c.serial

\* The case that is being read is the one of the last serial number, with the first
\* reference after it, if there is one; a case that is over and had one is in the list.
LastKept ==
  IF open.serial # 0 THEN open.serial = start /\ open.ref = firstRef
  ELSE firstRef # 0 => emitted.case.serial = start /\ emitted.case.ref = firstRef

InSection(sect, due_heading) == sect.heading = due_heading \/ due_heading \in unfinished

\* The section is the one of the last heading, or that heading came within a case: so for
\* the case that begins now, for the one that is read, and for the last of the list.
HeadingsKept ==
  /\ InSection(section, heading)
  /\ open.serial # 0 => InSection(section, open.due)
  /\ emitted.case.serial # 0 => InSection(emitted.section, emitted.case.due)

ParserInv ==
  /\ Whole(open, line) /\ Whole(emitted.case, line)
  /\ LastKept /\ HeadingsKept
  /\ ~ parsed /\ ahead = "annotation" => open.serial # 0

LEMMA ParserInvInit == ParserInit => ParserInv
<1> SUFFICES ASSUME ParserInit PROVE ParserInv
  OBVIOUS
<1>1. line \in Nat /\ open = NoCase /\ emitted.case = NoCase
  BY DEF ParserInit
<1>2. Whole(open, line) /\ Whole(emitted.case, line)
  BY <1>1 DEF Whole, Parts, NoCase
<1>3. LastKept /\ HeadingsKept
  BY DEF ParserInit, LastKept, HeadingsKept, InSection, NoSection, NoCase
<1>4. QED
  BY <1>2, <1>3 DEF ParserInv, ParserInit

LEMMA WholeNoCase == ASSUME NEW n \in Nat PROVE Whole(NoCase, n)
BY DEF Whole, Parts, NoCase

LEMMA WholeGrows ==
  ASSUME NEW c \in OpenCase, NEW d, NEW n \in Nat, Whole(c, n), d.serial = c.serial,
         d.is_with_case = c.is_with_case, d.parent = c.parent,
         Parts(d) \subseteq Parts(c) \cup {n + 1}, c.serial = 0 => d = c
  PROVE  Whole(d, n + 1)
<1>1. c.serial \in Nat /\ Parts(c) \subseteq Nat
  <2>1. c.serial \in Lines /\ Parts(c) \subseteq Lines
    BY DEF Parts, OpenCase
  <2>2. QED
    BY <2>1, ParserAssumption DEF Lines
<1>2. d.serial <= n + 1
  BY <1>1 DEF Whole
<1>3. ASSUME NEW p \in Parts(d) \ {0} PROVE d.serial # 0 /\ p > d.serial
  <2>1. CASE p \in Parts(c)
    BY <1>3, <2>1 DEF Whole
  <2>2. CASE p \notin Parts(c)
    BY <1>1, <1>3, <2>2 DEF Whole
  <2>3. QED
    BY <2>1, <2>2
<1>4. d.is_with_case => d.parent < d.serial
  BY DEF Whole
<1>5. QED
  BY <1>2, <1>3, <1>4 DEF Whole

LEMMA WholeStays == ASSUME NEW c \in OpenCase, NEW n \in Nat, Whole(c, n) PROVE Whole(c, n + 1)
BY WholeGrows

LEMMA ParserInvNext == ASSUME ParserTypeOK, ParserInv, [ParserNext]_parserVars PROVE ParserInv'
<1>0. /\ line \in Nat /\ open \in OpenCase /\ emitted.case \in OpenCase /\ heading \in Lines
      /\ FlushedCase \in {emitted, [case |-> open, section |-> section]}
      /\ FlushedCase.case \in {emitted.case, open}
      /\ Whole(FlushedCase.case, line)
  <2>0. line \in Nat
    <3>1. line \in Lines
      BY DEF ParserTypeOK
    <3>2. QED
      BY <3>1, ParserAssumption DEF Lines
  <2>1. /\ line \in Nat /\ open \in OpenCase /\ emitted.case \in OpenCase /\ heading \in Lines
    BY <2>0 DEF ParserTypeOK, EmittedCase
  <2>2. FlushedCase \in {emitted, [case |-> open, section |-> section]}
    BY DEF FlushedCase
  <2>3. FlushedCase.case \in {emitted.case, open}
    BY <2>2
  <2>4. QED
    BY <2>1, <2>2, <2>3 DEF ParserInv, ParserTypeOK
<1>1. ASSUME NEW k \in Kinds, Serial(k) PROVE ParserInv'
  <2> DEFINE par == IF k = "with" THEN FlushedCase.case.serial ELSE 0
             wth == k = "with"
  <2>1. /\ open' = [NoCase EXCEPT !.serial = line + 1, !.is_with_case = wth, !.parent = par, !.due = heading]
        /\ emitted' = FlushedCase /\ line' = line + 1
    BY <1>1 DEF Serial, flush, Read
  <2>2. par < line + 1
    BY <1>0 DEF Whole, OpenCase, Lines
  <2>3. Whole(emitted.case, line)'
    BY <1>0, <2>1, WholeStays
  <2>4. Parts(open') = {0} /\ open'.serial = line + 1 /\ open'.parent = par /\ open'.due = heading
        /\ open'.ref = 0
    <3> HIDE DEF par, wth
    <3>1. QED
      BY <2>1 DEF Parts, NoCase
  <2>5. Whole(open, line)'
    <3> HIDE DEF par, wth
    <3>1. QED
      BY <2>1, <2>2, <2>4, <1>0 DEF Whole
  <2>6. LastKept'
    BY <1>1, <2>4, <1>0 DEF LastKept, Serial
  <2>7. InSection(section, heading) /\ UNCHANGED <<section, heading, unfinished>>
    BY <1>1 DEF ParserInv, HeadingsKept, Serial
  <2>8. emitted'.case.serial # 0 => InSection(emitted'.section, emitted'.case.due)
    BY <2>1, <1>0 DEF ParserInv, HeadingsKept
  <2>9. HeadingsKept'
    BY <2>4, <2>7, <2>8 DEF HeadingsKept, InSection
  <2>10. QED
    BY <2>3, <2>5, <2>6, <2>9, <1>1 DEF ParserInv, Serial
<1>2. CASE IaNumber
  <2>1. line' = line + 1 /\ UNCHANGED emitted
    BY <1>2 DEF IaNumber, Read
  <2>2. Whole(emitted.case, line)'
    BY <1>0, <2>1, WholeStays DEF ParserInv
  <2>3. Whole(open, line)'
    <3>1. open' \in {open, [open EXCEPT !.ia_numbers = @ \cup {line + 1}]} /\ (open.serial = 0 => open' = open)
      BY <1>0, <1>2 DEF ParserInv, IaNumber
    <3>2. Parts(open') \subseteq Parts(open) \cup {line + 1}
      BY <1>0, <3>1 DEF Parts, OpenCase
    <3>3. open'.serial = open.serial /\ open'.is_with_case = open.is_with_case /\ open'.parent = open.parent
      BY <1>0, <3>1 DEF OpenCase
    <3>4. QED
      BY <1>0, <2>1, <3>1, <3>2, <3>3, WholeGrows DEF ParserInv
  <2>4. LastKept'
    BY <1>0, <2>1, <1>2 DEF ParserInv, LastKept, IaNumber, OpenCase
  <2>5. HeadingsKept'
    BY <1>0, <2>1, <1>2 DEF ParserInv, HeadingsKept, InSection, IaNumber, OpenCase
  <2>6. QED
    BY <1>0, <1>2, <2>2, <2>3, <2>4, <2>5 DEF ParserInv, IaNumber, OpenCase
<1>3. ASSUME NEW k \in Kinds, SectionHeading(k) PROVE ParserInv'
  <2>1. /\ line' = line + 1 /\ open' \in {open, NoCase} /\ emitted' \in {FlushedCase, emitted}
        /\ ahead' = "subsection"
        /\ open.serial = 0 => UNCHANGED <<open, emitted>>
        /\ open.serial # 0 => open' = NoCase /\ emitted' = [case |-> open, section |-> section]
    BY <1>3 DEF SectionHeading, flush, Read, Finished, FlushedCase
  <2>2. Whole(emitted.case, line)'
    BY <1>0, <2>1, WholeStays DEF ParserInv
  <2>3. Whole(open, line)'
    BY <1>0, <2>1, WholeStays, WholeNoCase DEF ParserInv, Whole, NoCase, Parts
  <2>4. LastKept'
    BY <2>1, <1>3 DEF ParserInv, LastKept, SectionHeading, NoCase
  <2>5. open'.serial = 0
    BY <2>1 DEF NoCase
  <2>6. InSection(section', heading') /\ UNCHANGED unfinished
    BY <1>3 DEF ParserInv, HeadingsKept, InSection, SectionHeading, SectionAfter, HeadingSeen
  <2>7. emitted'.case.serial # 0 => InSection(emitted'.section, emitted'.case.due)
    BY <2>1 DEF ParserInv, HeadingsKept
  <2>8. HeadingsKept'
    BY <2>5, <2>6, <2>7 DEF HeadingsKept, InSection
  <2>9. QED
    BY <2>1, <2>2, <2>3, <2>4, <2>8 DEF ParserInv
<1>4. CASE Subsection
  <2>1. line' = line + 1 /\ UNCHANGED emitted
    BY <1>4 DEF Subsection, Read
  <2>2. Whole(emitted.case, line)'
    BY <1>0, <2>1, WholeStays DEF ParserInv
  <2>3. Whole(open, line)'
    <3>1. open' = open
      BY <1>0, <1>4 DEF ParserInv, Subsection
    <3>2. Parts(open') \subseteq Parts(open) \cup {line + 1}
      BY <1>0, <3>1 DEF Parts, OpenCase
    <3>3. open'.serial = open.serial /\ open'.is_with_case = open.is_with_case /\ open'.parent = open.parent
      BY <1>0, <3>1 DEF OpenCase
    <3>4. QED
      BY <1>0, <2>1, <3>1, <3>2, <3>3, WholeGrows DEF ParserInv
  <2>4. LastKept'
    BY <1>0, <2>1, <1>4 DEF ParserInv, LastKept, Subsection, OpenCase
  <2>5. HeadingsKept'
    <3>1. section'.heading = section.heading
      BY <1>4 DEF Subsection, ParserTypeOK, SectionAt
    <3>2. QED
      BY <3>1, <2>1, <1>4 DEF ParserInv, HeadingsKept, InSection, Subsection
  <2>6. QED
    BY <1>0, <1>4, <2>2, <2>3, <2>4, <2>5 DEF ParserInv, Subsection, OpenCase
<1>5. CASE CaseRef
  <2>1. line' = line + 1 /\ UNCHANGED emitted
    BY <1>5 DEF CaseRef, Read
  <2>2. Whole(emitted.case, line)'
    BY <1>0, <2>1, WholeStays DEF ParserInv
  <2>3. Whole(open, line)'
    <3>1. open' = [open EXCEPT !.ref = line + 1] /\ open.serial # 0
      BY <1>0, <1>5 DEF ParserInv, CaseRef
    <3>2. Parts(open') \subseteq Parts(open) \cup {line + 1}
      BY <1>0, <3>1 DEF Parts, OpenCase
    <3>3. open'.serial = open.serial /\ open'.is_with_case = open.is_with_case /\ open'.parent = open.parent
      BY <1>0, <3>1 DEF OpenCase
    <3>4. QED
      BY <1>0, <2>1, <3>1, <3>2, <3>3, WholeGrows DEF ParserInv
  <2>4. LastKept'
    BY <1>0, <2>1, <1>5 DEF ParserInv, LastKept, CaseRef, OpenCase
  <2>5. HeadingsKept'
    BY <1>0, <2>1, <1>5 DEF ParserInv, HeadingsKept, InSection, CaseRef, OpenCase
  <2>6. QED
    BY <1>0, <1>5, <2>2, <2>3, <2>4, <2>5 DEF ParserInv, CaseRef, OpenCase
<1>6. CASE Annotation
  <2>1. line' = line + 1 /\ UNCHANGED emitted
    BY <1>6 DEF Annotation, Read
  <2>2. Whole(emitted.case, line)'
    BY <1>0, <2>1, WholeStays DEF ParserInv
  <2>3. Whole(open, line)'
    <3>1. open' = [open EXCEPT !.annotations = @ \cup {line + 1}] /\ open.serial # 0
      BY <1>0, <1>6 DEF ParserInv, Annotation
    <3>2. Parts(open') \subseteq Parts(open) \cup {line + 1}
      BY <1>0, <3>1 DEF Parts, OpenCase
    <3>3. open'.serial = open.serial /\ open'.is_with_case = open.is_with_case /\ open'.parent = open.parent
      BY <1>0, <3>1 DEF OpenCase
    <3>4. QED
      BY <1>0, <2>1, <3>1, <3>2, <3>3, WholeGrows DEF ParserInv
  <2>4. LastKept'
    BY <1>0, <2>1, <1>6 DEF ParserInv, LastKept, Annotation, OpenCase
  <2>5. HeadingsKept'
    BY <1>0, <2>1, <1>6 DEF ParserInv, HeadingsKept, InSection, Annotation, OpenCase
  <2>6. QED
    BY <1>0, <1>6, <2>2, <2>3, <2>4, <2>5 DEF ParserInv, Annotation, OpenCase
<1>7. ASSUME NEW k \in Kinds, Other(k) PROVE ParserInv'
  <2>1. line' = line + 1 /\ UNCHANGED <<emitted, section, start, firstRef>> /\ ahead' = ""
    BY <1>7 DEF Other, Read
  <2>2. Whole(emitted.case, line)'
    BY <1>0, <2>1, WholeStays DEF ParserInv
  <2>3. /\ open'.serial = open.serial /\ open'.ref = open.ref /\ open'.due = open.due
        /\ open'.is_with_case = open.is_with_case /\ open'.parent = open.parent
        /\ Parts(open') \subseteq Parts(open) \cup {line + 1}
        /\ open.serial = 0 => open' = open
    <3>0. open' = CaseAfter(k)
      BY <1>7 DEF Other
    <3>1. open.serial = 0 => open' = open
      BY <3>0 DEF CaseAfter
    <3>2. \/ open' = open
          \/ open' = [open EXCEPT !.after_vs = TRUE]
          \/ open' = [open EXCEPT !.pet_parts = @ \cup {line + 1}]
          \/ open' = [open EXCEPT !.respondent = line + 1]
          \/ open' = [open EXCEPT !.advocate = line + 1]
      BY <3>0 DEF CaseAfter
    <3>3. QED
      BY <3>1, <3>2, <1>0 DEF Parts, OpenCase
  <2>4. Whole(open, line)'
    BY <1>0, <2>1, <2>3, WholeGrows DEF ParserInv
  <2>5. LastKept'
    BY <2>1, <2>3 DEF ParserInv, LastKept
  <2>6. HeadingsKept'
    <3>1. /\ unfinished \subseteq unfinished'
          /\ heading' \in {heading, line + 1} /\ (heading' = heading \/ heading' \in unfinished')
      BY <1>7 DEF Other, HeadingSeen
    <3>2. QED
      BY <2>1, <2>3, <3>1 DEF ParserInv, HeadingsKept, InSection
  <2>7. QED
    BY <2>1, <2>2, <2>4, <2>5, <2>6 DEF ParserInv
<1>8. CASE EndOfBlock
  <2>1. line' = line /\ open' = NoCase /\ emitted' = FlushedCase
        /\ parsed' = TRUE
        /\ UNCHANGED <<section, heading, unfinished, start, firstRef>>
    BY <1>8 DEF EndOfBlock, flush
  <2>2. Whole(emitted.case, line)' /\ Whole(open, line)'
    BY <1>0, <2>1 DEF Whole, NoCase, Parts
  <2>3. open'.serial = 0
    BY <2>1 DEF NoCase
  <2>4. LastKept'
    BY <1>0, <2>1, <2>3 DEF ParserInv, LastKept, FlushedCase, OpenCase
  <2>5. emitted'.case.serial # 0 => InSection(emitted'.section, emitted'.case.due)
    BY <2>1, <1>0 DEF ParserInv, HeadingsKept
  <2>6. HeadingsKept'
    BY <2>1, <2>3, <2>5 DEF ParserInv, HeadingsKept, InSection
  <2>7. QED
    BY <2>1, <2>2, <2>4, <2>6 DEF ParserInv
<1>9. CASE UNCHANGED parserVars
  BY <1>9 DEF parserVars, ParserInv, Whole, LastKept, HeadingsKept, InSection
<1>10. QED
  BY <1>1, <1>2, <1>3, <1>4, <1>5, <1>6, <1>7, <1>8, <1>9 DEF ParserNext

LEMMA ParserInvBounds == ASSUME ParserTypeOK, ParserInv PROVE CasesRead
<1>1. CasesWhole
  BY DEF ParserInv, Whole, LastKept, CasesWhole
<1>2. UnderItsHeading
  BY DEF ParserInv, HeadingsKept, InSection, UnderItsHeading
<1>3. QED
  BY <1>1, <1>2 DEF CasesRead

\* A case of a cause list is read whole, with the lines that follow it up to the next case,
\* and under the heading it is printed under (parse_cases, flush), however the lines are
\* mixed, for lists of any length.
THEOREM CasesCorrect == ParserSpec => [](ParserTypeOK /\ CasesRead)
<1> DEFINE Inv == ParserTypeOK /\ ParserInv
<1>1. ParserInit => Inv
  BY ParserTypeInit, ParserInvInit
<1>2. Inv /\ [ParserNext]_parserVars => Inv'
  BY ParserTypeNext, ParserInvNext
<1>3. Inv => ParserTypeOK /\ CasesRead
  BY ParserInvBounds
<1>4. QED
  BY <1>1, <1>2, <1>3, PTL DEF ParserSpec

-----------------------------------------------------------------------------
(* Accounts.                                                                *)

\* LastOf finds the last of some rows.
LEMMA LastOfRows ==
  ASSUME NEW n \in Nat, NEW S \in SUBSET (1 .. n)
  PROVE  LastOf(S) = 0 \/ LastOf(S) \in S
<1>1. CASE S = {}
  BY <1>1 DEF LastOf
<1>2. CASE S # {}
  <2> DEFINE Above == {m \in Nat : \A i \in S : i <= m}
  <2>1. n \in Above
    OBVIOUS
  <2>2. PICK m \in Above : \A k \in Above : m <= k
    BY <2>1, LeastNumber
  <2>3. m \in S
    <3>1. SUFFICES ASSUME m \notin S PROVE FALSE
      OBVIOUS
    <3>2. m # 0
      <4>1. PICK i \in S : i \in 1 .. n /\ i <= m
        BY <1>2
      <4>2. QED
        BY <4>1
    <3>3. m - 1 \in Nat /\ \A i \in S : i <= m - 1
      BY <2>2, <3>1, <3>2
    <3>4. m - 1 \in Above
      BY <3>3
    <3>5. QED
      BY <2>2, <3>4
  <2>4. QED
    BY <1>2, <2>2, <2>3 DEF LastOf
<1>3. QED
  BY <1>1, <1>2

-----------------------------------------------------------------------------
(* Accounts.                                                               *)

ReqRow == [user : Users \cup {NoValue}, place : Places \cup {NoValue},
           right : BOOLEAN, row : Nat, read : Nat, seen : Nat]

UsersType == users \in [Users -> UserRow \cup {NoValue}]
ThreadsType == rpc \in [Requests -> RequestStep] /\ req \in [Requests -> ReqRow]
OtpsType == otps \in Seq(OtpRow)
SessionsType ==
  /\ refresh \in Seq(RefreshRow) /\ overlaps \in Seq(Nat) /\ Len(overlaps) = Len(refresh)
  /\ outs \subseteq 1 .. Len(refresh)
  /\ \A t \in 1 .. Len(refresh) : refresh[t].login \in 1 .. Len(refresh)
CountsType == minute \in 0 .. MaxMinutes /\ calls \in 0 .. MaxCalls

RowSteps == {"increment", "write", "mark", "apply", "number", "set", "session"}

HasAccount(u) == u \in Users /\ users[u] # NoValue

\* What a request refers to is there: the row of a code or of a token, and the account,
\* but for a log-in by phone, which creates it.
RefersTo(r) ==
  /\ rpc[r] \in RowSteps => req[r].row \in 1 .. Len(otps)
  /\ rpc[r] \in {"revoke", "rotate"} => req[r].row \in 1 .. Len(refresh)
  /\ rpc[r] \notin {"idle", "revoke", "rotate"} =>
       /\ req[r].user \in Users /\ req[r].place \in Places
       /\ req[r].place.kind = "phone" => req[r].place = PhoneOf[req[r].user]
  /\ rpc[r] \in {"owner", "limit"} /\ req[r].place.kind # "phone" => HasAccount(req[r].user)
  /\ rpc[r] = "upsert" => req[r].place.kind = "phone"
  /\ rpc[r] = "owner" => req[r].place.kind # "phone"
  /\ rpc[r] \in {"save"} \cup RowSteps => HasAccount(req[r].user)

\* A code is of an account that exists.
CodeHasAccount(i) ==
  /\ otps[i].place.kind = "phone" => \A u \in Users : PhoneOf[u] = otps[i].place => users[u] # NoValue
  /\ otps[i].place.kind # "phone" => HasAccount(otps[i].user)

References ==
  /\ \A r \in Requests : RefersTo(r)
  /\ \A i \in 1 .. Len(otps) : CodeHasAccount(i)

LEMMA AccountsStart ==
  ASSUME AccountsInit
  PROVE  UsersType /\ ThreadsType /\ OtpsType /\ SessionsType /\ CountsType /\ References
<1>1. Old \in UserRow
  BY DEF Old, UserRow, Addresses
<1>2. UsersType
  BY <1>1 DEF AccountsInit, UsersType
<1>3. Idle \in ReqRow
  BY DEF Idle, ReqRow
<1>4. ThreadsType
  BY <1>3 DEF AccountsInit, ThreadsType, RequestStep
<1>5. OtpsType /\ SessionsType
  BY DEF AccountsInit, OtpsType, SessionsType
<1>6. CountsType
  BY AccountsAssumption DEF AccountsInit, CountsType
<1>7. References
  <2>1. Len(otps) = 0 /\ \A r \in Requests : rpc[r] = "idle"
    BY DEF AccountsInit
  <2>2. QED
    BY <2>1 DEF References, RefersTo, RowSteps
<1>8. QED
  BY <1>2, <1>4, <1>5, <1>6, <1>7

\* Rows of users are written, never removed.
LEMMA UsersNext ==
  ASSUME UsersType, ThreadsType, References, [AccountsNext]_accountsVars
  PROVE  UsersType' /\ \A u \in Users : users[u] # NoValue => users'[u] # NoValue
<1>0. /\ users \in [Users -> UserRow \cup {NoValue}] /\ NoValue \notin UserRow
      /\ \A u \in Users : users[u] # NoValue => users[u] \in UserRow
  BY RowAssumption DEF UsersType
<1> DEFINE Kept == UsersType' /\ \A u \in Users : users[u] # NoValue => users'[u] # NoValue
<1> SUFFICES Kept
  OBVIOUS
<1>1. ASSUME NEW u \in Users, NEW row \in UserRow, users' = [users EXCEPT ![u] = row] PROVE Kept
  BY <1>0, <1>1 DEF UsersType
<1>2. CASE UNCHANGED users
  BY <1>0, <1>2 DEF UsersType
<1> HIDE DEF Kept
<1>3. Old \in UserRow
  BY DEF Old, UserRow, Addresses
<1>4. ASSUME NEW r \in Requests, upsert_user(r) PROVE Kept
  <2> DEFINE u == req[r].user
  <2>1. u \in Users
    BY <1>4 DEF upsert_user, References, RefersTo
  <2>2. PICK number \in {PhoneOf[u]} \cup Addresses("whatsapp") :
       users' = IF users[u] = NoValue
                THEN [users EXCEPT ![u] = [Old EXCEPT !.verified = FALSE, !.whatsapp_number = number]]
                ELSE IF users[u].whatsapp_number = NoValue /\ number # PhoneOf[u]
                THEN [users EXCEPT ![u].whatsapp_number = number]
                ELSE users
    BY <1>4 DEF upsert_user
  <2>3. number \in Places \cup {NoValue} \cup {PhoneOf[v] : v \in Users}
    BY <2>1 DEF Addresses
  <2> HIDE DEF u
  <2>4. [Old EXCEPT !.verified = FALSE, !.whatsapp_number = number] \in UserRow
    BY <1>3, <2>3 DEF UserRow
  <2>5. users[u] # NoValue => [users[u] EXCEPT !.whatsapp_number = number] \in UserRow
    BY <1>0, <2>1, <2>3 DEF UserRow
  <2>6. QED
    BY <1>0, <1>1, <1>2, <2>1, <2>2, <2>4, <2>5
<1>5. ASSUME NEW r \in Requests, mark_user_verified(r) PROVE Kept
  <2>1. HasAccount(req[r].user) /\ users[req[r].user] \in UserRow
    BY <1>0, <1>5 DEF mark_user_verified, References, RefersTo, RowSteps, HasAccount
  <2>2. [users[req[r].user] EXCEPT !.verified = TRUE] \in UserRow
    BY <2>1 DEF UserRow
  <2>3. QED
    BY <1>0, <1>1, <1>5, <2>1, <2>2 DEF mark_user_verified, HasAccount
<1>6. ASSUME NEW r \in Requests, SetPhoneNumber(r) PROVE Kept
  <2> DEFINE u == req[r].user
  <2>1. HasAccount(u) /\ users[u] \in UserRow
    BY <1>0, <1>6 DEF SetPhoneNumber, References, RefersTo, RowSteps, HasAccount
  <2>2. users' = [users EXCEPT ![u] = [[users[u] EXCEPT !.whatsapp_number = PhoneOf[u]] EXCEPT !.whatsapp_verified = TRUE]]
    BY <1>0, <1>6, <2>1 DEF SetPhoneNumber, HasAccount, UserRow
  <2> HIDE DEF u
  <2>3. [[users[u] EXCEPT !.whatsapp_number = PhoneOf[u]] EXCEPT !.whatsapp_verified = TRUE] \in UserRow
    BY <2>1 DEF UserRow, HasAccount
  <2>4. QED
    BY <1>1, <2>1, <2>2, <2>3 DEF HasAccount
<1>7. ASSUME NEW r \in Requests, VerifyEmail(r) PROVE Kept
  <2> DEFINE u == req[r].user
             p == req[r].place
  <2>1. HasAccount(u) /\ users[u] \in UserRow /\ p \in Addresses("email")
    BY <1>0, <1>7 DEF VerifyEmail, References, RefersTo, RowSteps, HasAccount, Addresses
  <2>2. \/ users' = users
        \/ users' = [users EXCEPT ![u] = [[users[u] EXCEPT !.email = p] EXCEPT !.email_verified = TRUE]]
    BY <1>0, <1>7, <2>1 DEF VerifyEmail, HasAccount, UserRow
  <2> HIDE DEF u, p
  <2>3. [[users[u] EXCEPT !.email = p] EXCEPT !.email_verified = TRUE] \in UserRow
    BY <2>1 DEF UserRow, HasAccount
  <2>4. QED
    <3>1. CASE users' = users
      BY <1>2, <3>1
    <3>2. CASE users' # users
      BY <1>1, <2>1, <2>2, <2>3, <3>2 DEF HasAccount
    <3>3. QED
      BY <3>1, <3>2
<1>8. ASSUME NEW r \in Requests, VerifyWhatsapp(r) PROVE Kept
  <2> DEFINE u == req[r].user
             p == req[r].place
  <2>1. HasAccount(u) /\ users[u] \in UserRow /\ p \in Places
    BY <1>0, <1>8 DEF VerifyWhatsapp, References, RefersTo, RowSteps, HasAccount
  <2>2. users' = [users EXCEPT ![u] = [[users[u] EXCEPT !.whatsapp_number = p] EXCEPT !.whatsapp_verified = TRUE]]
    BY <1>0, <1>8, <2>1 DEF VerifyWhatsapp, HasAccount, UserRow
  <2> HIDE DEF u, p
  <2>3. [[users[u] EXCEPT !.whatsapp_number = p] EXCEPT !.whatsapp_verified = TRUE] \in UserRow
    BY <2>1 DEF UserRow, HasAccount
  <2>4. QED
    BY <1>1, <2>1, <2>2, <2>3 DEF HasAccount
<1>9. ASSUME NEW u \in Users, UpdateProfile(u) PROVE Kept
  <2>1. users[u] \in UserRow
    BY <1>0, <1>9 DEF UpdateProfile
  <2>2. CASE \E email \in Addresses("email") : users' = [users EXCEPT ![u].email = email]
    <3>1. PICK email \in Addresses("email") : users' = [users EXCEPT ![u].email = email]
      BY <2>2
    <3>2. [users[u] EXCEPT !.email = email] \in UserRow
      BY <2>1 DEF UserRow
    <3>3. QED
      BY <1>0, <1>1, <3>1, <3>2
  <2>3. CASE \E number \in Addresses("whatsapp") : users' = [users EXCEPT ![u].whatsapp_number = number]
    <3>1. PICK number \in Addresses("whatsapp") : users' = [users EXCEPT ![u].whatsapp_number = number]
      BY <2>3
    <3>2. [users[u] EXCEPT !.whatsapp_number = number] \in UserRow
      BY <2>1 DEF UserRow, Addresses
    <3>3. QED
      BY <1>0, <1>1, <3>1, <3>2
  <2>4. QED
    BY <1>9, <2>2, <2>3 DEF UpdateProfile
<1>10. CASE UNCHANGED accountsVars \/ Minute \/ \E t \in DOMAIN refresh : Logout(t)
  BY <1>2, <1>10 DEF accountsVars, Minute, Logout
<1>11. ASSUME NEW r \in Requests,
              \/ \E u \in Users, place \in Places : SendOtp(r, u, place)
              \/ CheckOwner(r) \/ CheckLimit(r) \/ save_otp(r)
              \/ \E u \in Users, place \in Places, right \in BOOLEAN : Lookup(r, u, place, right)
              \/ ReadAttempts(r) \/ increment_otp_attempts(r) \/ mark_otp_used(r)
              \/ ReadNumber(r) \/ LogIn(r)
              \/ \E t \in DOMAIN refresh : Refresh(r, t)
              \/ revoke_refresh_token(r) \/ Rotate(r) \/ RequestFails(r)
       PROVE  Kept
  <2>1. UNCHANGED users
    BY <1>11 DEF SendOtp, CheckOwner, CheckLimit, save_otp, Lookup, ReadAttempts,
     increment_otp_attempts, mark_otp_used, ReadNumber, LogIn, Refresh, revoke_refresh_token,
     Rotate, RequestFails
  <2>2. QED
    BY <1>2, <2>1
<1>12. QED
  BY <1>4, <1>5, <1>6, <1>7, <1>8, <1>9, <1>10, <1>11 DEF AccountsNext, RequestNext, Kept

\* The rows of codes that a request looks at.
LEMMA LatestIsRow ==
  ASSUME OtpsType, NEW place \in Places
  PROVE  \/ Latest(place) = 0
         \/ /\ Latest(place) \in 1 .. Len(otps)
            /\ otps[Latest(place)].place = place /\ ~ otps[Latest(place)].used
<1> DEFINE S == {i \in DOMAIN otps : otps[i].place = place /\ ~ otps[i].used}
<1>1. DOMAIN otps = 1 .. Len(otps) /\ Len(otps) \in Nat
  BY DEF OtpsType
<1>2. S \in SUBSET (1 .. Len(otps)) /\ Latest(place) = LastOf(S)
  BY <1>1 DEF Latest
<1>3. LastOf(S) = 0 \/ LastOf(S) \in S
  BY <1>1, <1>2, LastOfRows
<1>4. QED
  BY <1>1, <1>2, <1>3

Moves(r) == \A q \in Requests \ {r} : rpc'[q] = rpc[q] /\ req'[q] = req[q]

\* A step of a request is no step of another one.
LEMMA OneMoves ==
  ASSUME ThreadsType, OtpsType, SessionsType, References, NEW r \in Requests, RequestNext(r)
  PROVE  ThreadsType' /\ Moves(r)
<1> DEFINE Good == ThreadsType' /\ Moves(r)
<1> SUFFICES Good
  OBVIOUS
<1>1. ASSUME NEW step \in RequestStep, NEW new \in ReqRow,
             rpc' = [rpc EXCEPT ![r] = step], req' = [req EXCEPT ![r] = new]
      PROVE  Good
  BY <1>1 DEF ThreadsType, Moves
<1>2. ASSUME NEW step \in RequestStep, Goto(r, step) PROVE Good
  BY <1>2 DEF ThreadsType, Moves, Goto
<1>3. Idle \in ReqRow
  BY DEF Idle, ReqRow
<1>4. Return(r) => Good
  BY <1>1, <1>3 DEF Return, RequestStep
<1> HIDE DEF Good
<1>5. ASSUME NEW u \in Users, NEW place \in Places, SendOtp(r, u, place) PROVE Good
  <2>1. [Idle EXCEPT !.user = u, !.place = place] \in ReqRow
    BY <1>3 DEF ReqRow
  <2>2. PICK step \in {"owner", "limit"} : Begin(r, step, [Idle EXCEPT !.user = u, !.place = place])
    BY <1>5 DEF SendOtp
  <2>3. step \in RequestStep
    BY <2>2 DEF RequestStep
  <2>4. QED
    BY <1>1, <2>1, <2>2, <2>3 DEF Begin
<1>6. ASSUME NEW u \in Users, NEW place \in Places, NEW right \in BOOLEAN, Lookup(r, u, place, right)
      PROVE  Good
  <2> DEFINE i == Latest(place)
             new == [user |-> u, place |-> place, right |-> right, row |-> i, read |-> 0,
                     seen |-> otps[i].compared]
  <2>1. i \in 1 .. Len(otps)
    BY <1>6, LatestIsRow DEF Lookup, MayUse
  <2>2. i \in Nat /\ otps[i].compared \in Nat
    <3> HIDE DEF i
    <3>1. otps[i] \in OtpRow
      BY <2>1 DEF OtpsType
    <3>2. QED
      BY <2>1, <3>1 DEF OtpRow
  <2>3. rpc' = [rpc EXCEPT ![r] = "increment"] /\ req' = [req EXCEPT ![r] = new]
    BY <1>6 DEF Lookup, Begin
  <2> HIDE DEF i
  <2>4. new \in ReqRow
    BY <2>2 DEF ReqRow
  <2>5. "increment" \in RequestStep
    BY DEF RequestStep
  <2> HIDE DEF new
  <2>6. QED
    BY <1>1, <2>3, <2>4, <2>5
<1>7. CASE ReadAttempts(r)
  <2>1. req[r] \in ReqRow /\ req[r].row \in 1 .. Len(otps)
    BY <1>7 DEF ReadAttempts, References, RefersTo, RowSteps, ThreadsType
  <2>2. otps[req[r].row].attempts \in Nat
    <3>1. otps[req[r].row] \in OtpRow
      BY <2>1 DEF OtpsType
    <3>2. QED
      BY <3>1 DEF OtpRow
  <2>3. [req[r] EXCEPT !.read = otps[req[r].row].attempts] \in ReqRow
    BY <2>1, <2>2 DEF ReqRow
  <2>4. "write" \in RequestStep
    BY DEF RequestStep
  <2>5. /\ rpc' = [rpc EXCEPT ![r] = "write"]
        /\ req' = [req EXCEPT ![r] = [req[r] EXCEPT !.read = otps[req[r].row].attempts]]
    BY <1>7, <2>1 DEF ReadAttempts, ThreadsType
  <2>6. QED
    BY <1>1, <2>3, <2>4, <2>5
<1>8. ASSUME NEW t \in DOMAIN refresh, Refresh(r, t) PROVE Good
  <2>0. t \in Nat
    BY <1>8 DEF SessionsType
  <2>1. [Idle EXCEPT !.row = t] \in ReqRow
    BY <1>3, <2>0 DEF ReqRow
  <2>2. Begin(r, "revoke", [Idle EXCEPT !.row = t]) /\ "revoke" \in RequestStep
    BY <1>8 DEF Refresh, RequestStep
  <2>3. QED
    BY <1>1, <2>1, <2>2 DEF Begin
<1>9. CASE \/ CheckOwner(r) \/ CheckLimit(r) \/ upsert_user(r) \/ save_otp(r)
           \/ increment_otp_attempts(r) \/ mark_otp_used(r) \/ mark_user_verified(r)
           \/ ReadNumber(r) \/ SetPhoneNumber(r) \/ VerifyEmail(r) \/ VerifyWhatsapp(r)
           \/ LogIn(r) \/ revoke_refresh_token(r) \/ Rotate(r) \/ RequestFails(r)
  <2>1. Return(r) \/ \E step \in RequestStep : Goto(r, step)
    <3> USE DEF RequestStep
    <3>1. CheckOwner(r) \/ CheckLimit(r) => Return(r) \/ \E step \in RequestStep : Goto(r, step)
      BY DEF CheckOwner, CheckLimit
    <3>2. upsert_user(r) \/ save_otp(r) \/ increment_otp_attempts(r) \/ mark_otp_used(r)
          => Return(r) \/ \E step \in RequestStep : Goto(r, step)
      BY DEF upsert_user, save_otp, increment_otp_attempts, mark_otp_used
    <3>3. mark_user_verified(r) \/ ReadNumber(r) \/ SetPhoneNumber(r) \/ VerifyEmail(r)
          => Return(r) \/ \E step \in RequestStep : Goto(r, step)
      BY DEF mark_user_verified, ReadNumber, SetPhoneNumber, VerifyEmail
    <3>4. VerifyWhatsapp(r) \/ LogIn(r) \/ revoke_refresh_token(r) \/ Rotate(r) \/ RequestFails(r)
          => Return(r) \/ \E step \in RequestStep : Goto(r, step)
      BY DEF VerifyWhatsapp, LogIn, revoke_refresh_token, Rotate, RequestFails
    <3>5. QED
      BY <1>9, <3>1, <3>2, <3>3, <3>4
  <2>2. QED
    BY <1>2, <1>4, <2>1
<1>10. QED
  BY <1>5, <1>6, <1>7, <1>8, <1>9 DEF RequestNext

\* Steps that are of no request.
LEMMA NobodyMoves ==
  [AccountsNext]_accountsVars =>
    (\E r \in Requests : RequestNext(r)) \/ UNCHANGED <<rpc, req>>
BY DEF AccountsNext, Minute, Logout, UpdateProfile, accountsVars

\* What a step does to the codes: nothing, one more, one comparison, one use.
NewCode(r) ==
  [place |-> req[r].place, user |-> IF req[r].place.kind = "phone" THEN NoValue ELSE req[r].user,
   expires_at |-> minute + OtpLife, attempts |-> 0, used |-> FALSE,
   compared |-> 0, overtaken |-> 0, accepted |-> 0]

Compared(r) ==
  LET code == otps[req[r].row]
  IN  [code EXCEPT !.attempts = req[r].read + 1, !.compared = @ + 1,
                   !.overtaken = @ + (code.compared - req[r].seen)]

Used(r) == [otps[req[r].row] EXCEPT !.used = TRUE, !.accepted = @ + 1]

LEMMA CodesStep ==
  ASSUME OtpsType, ThreadsType, References, [AccountsNext]_accountsVars
  PROVE  \/ UNCHANGED otps
         \/ \E r \in Requests : save_otp(r) /\ otps' = Append(otps, NewCode(r))
         \/ \E r \in Requests :
              increment_otp_attempts(r) /\ otps' = [otps EXCEPT ![req[r].row] = Compared(r)]
         \/ \E r \in Requests :
              mark_otp_used(r) /\ otps' = [otps EXCEPT ![req[r].row] = Used(r)]
<1>1. ASSUME NEW r \in Requests, save_otp(r) PROVE otps' = Append(otps, NewCode(r))
  BY <1>1 DEF save_otp, NewCode
<1>2. ASSUME NEW r \in Requests, increment_otp_attempts(r)
      PROVE  otps' = [otps EXCEPT ![req[r].row] = Compared(r)]
  <2>1. req[r].row \in 1 .. Len(otps)
    BY <1>2 DEF increment_otp_attempts, References, RefersTo, RowSteps
  <2>2. QED
    BY <1>2, <2>1 DEF increment_otp_attempts, Compared, OtpsType, OtpRow
<1>3. ASSUME NEW r \in Requests, mark_otp_used(r)
      PROVE  otps' = [otps EXCEPT ![req[r].row] = Used(r)]
  <2>1. req[r].row \in 1 .. Len(otps)
    BY <1>3 DEF mark_otp_used, References, RefersTo, RowSteps
  <2>2. QED
    BY <1>3, <2>1 DEF mark_otp_used, Used, OtpsType, OtpRow
<1>4. ASSUME NEW r \in Requests,
             \/ \E u \in Users, place \in Places : SendOtp(r, u, place)
             \/ CheckOwner(r) \/ CheckLimit(r) \/ upsert_user(r)
             \/ \E u \in Users, place \in Places, right \in BOOLEAN : Lookup(r, u, place, right)
             \/ ReadAttempts(r)
      PROVE  UNCHANGED otps
  BY <1>4 DEF SendOtp, CheckOwner, CheckLimit, upsert_user, Lookup, ReadAttempts
<1>5. ASSUME NEW r \in Requests,
             \/ mark_user_verified(r) \/ ReadNumber(r) \/ SetPhoneNumber(r) \/ VerifyEmail(r)
             \/ VerifyWhatsapp(r) \/ LogIn(r) \/ \E t \in DOMAIN refresh : Refresh(r, t)
             \/ revoke_refresh_token(r) \/ Rotate(r) \/ RequestFails(r)
      PROVE  UNCHANGED otps
  BY <1>5 DEF mark_user_verified, ReadNumber, SetPhoneNumber, VerifyEmail, VerifyWhatsapp,
     LogIn, Refresh, revoke_refresh_token, Rotate, RequestFails
<1>6. CASE UNCHANGED accountsVars \/ Minute \/ (\E t \in DOMAIN refresh : Logout(t))
           \/ \E u \in Users : UpdateProfile(u)
  BY <1>6 DEF accountsVars, Minute, Logout, UpdateProfile
<1>7. QED
  BY <1>1, <1>2, <1>3, <1>4, <1>5, <1>6 DEF AccountsNext, RequestNext

Comparing == {"increment", "write", "mark"}

Looks(r) == \E u \in Users, place \in Places, right \in BOOLEAN : Lookup(r, u, place, right)

\* Only Lookup begins with a code.
LEMMA ComparingSince ==
  ASSUME ThreadsType, NEW r \in Requests, RequestNext(r), rpc'[r] \in Comparing
  PROVE  \/ /\ rpc[r] \in Comparing /\ req'[r].row = req[r].row /\ req'[r].seen = req[r].seen
            /\ ReadAttempts(r) \/ increment_otp_attempts(r)
            /\ rpc'[r] = "mark" \/ ReadAttempts(r)
         \/ Looks(r)
<1> USE DEF Comparing, Goto, Return, ThreadsType
<1>1. ASSUME \E u \in Users, place \in Places : SendOtp(r, u, place) PROVE FALSE
  BY <1>1 DEF SendOtp, Begin
<1>2. ASSUME CheckOwner(r) \/ CheckLimit(r) \/ upsert_user(r) \/ save_otp(r) \/ mark_otp_used(r)
      PROVE FALSE
  BY <1>2 DEF CheckOwner, CheckLimit, upsert_user, save_otp, mark_otp_used
<1>3. ASSUME mark_user_verified(r) \/ ReadNumber(r) \/ SetPhoneNumber(r) \/ VerifyEmail(r)
             \/ VerifyWhatsapp(r) \/ LogIn(r) \/ revoke_refresh_token(r) \/ Rotate(r) \/ RequestFails(r)
      PROVE FALSE
  BY <1>3 DEF mark_user_verified, ReadNumber, SetPhoneNumber, VerifyEmail, VerifyWhatsapp, LogIn,
     revoke_refresh_token, Rotate, RequestFails
<1>4. ASSUME \E t \in DOMAIN refresh : Refresh(r, t) PROVE FALSE
  BY <1>4 DEF Refresh, Begin
<1>5. CASE ReadAttempts(r)
  <2>1. req[r] \in ReqRow /\ req'[r] = [req[r] EXCEPT !.read = otps[req[r].row].attempts]
    BY <1>5 DEF ReadAttempts
  <2>2. req'[r].row = req[r].row /\ req'[r].seen = req[r].seen
    BY <2>1 DEF ReqRow
  <2>3. QED
    BY <1>5, <2>2 DEF ReadAttempts
<1>6. CASE increment_otp_attempts(r)
  BY <1>6 DEF increment_otp_attempts
<1>7. QED
  BY <1>1, <1>2, <1>3, <1>4, <1>5, <1>6 DEF RequestNext, Looks

\* Requests that may still use a code.
MayAccept(i) == {r \in Requests : rpc[r] \in Comparing /\ req[r].row = i}

\* A code that is used is under comparison by requests of before.
CodeInv(i) ==
  /\ otps[i].compared <= otps[i].attempts + otps[i].overtaken
  /\ otps[i].compared <= OtpMaxAttempts + otps[i].overtaken
  /\ otps[i].accepted + Cardinality(MayAccept(i)) <= Cardinality(Requests)

Unused(i) == ~ otps[i].used => otps[i].accepted = 0

\* A request has seen the code within its attempts, and what it will set the counter back
\* by is what others compare in between.
CompareInv(r) ==
  LET code == otps[req[r].row]
  IN
  /\ rpc[r] \in {"increment", "write"} =>
       req[r].seen <= code.compared /\ req[r].seen < OtpMaxAttempts + code.overtaken
  /\ rpc[r] = "write" => req[r].seen <= req[r].read + code.overtaken

CodesInv ==
  /\ \A i \in 1 .. Len(otps) : CodeInv(i) /\ Unused(i)
  /\ \A r \in Requests : CompareInv(r)

LEMMA MayAcceptSize ==
  /\ IsFiniteSet(Requests) /\ Cardinality(Requests) \in Nat
  /\ \A i : /\ IsFiniteSet(MayAccept(i)) /\ Cardinality(MayAccept(i)) \in Nat
            /\ Cardinality(MayAccept(i)) <= Cardinality(Requests)
<1>1. \A i : MayAccept(i) \in SUBSET Requests
  BY DEF MayAccept
<1>2. QED
  BY <1>1, AccountsAssumption, FS_Subset, FS_CardinalityType

LEMMA MayAcceptNext ==
  ASSUME OtpsType, ThreadsType, SessionsType, References, [AccountsNext]_accountsVars,
         NEW i \in 1 .. Len(otps)
  PROVE  MayAccept(i)' \subseteq MayAccept(i) \/ ~ otps[i].used
<1>1. CASE UNCHANGED <<rpc, req>>
  BY <1>1 DEF MayAccept
<1>2. ASSUME NEW r \in Requests, RequestNext(r), otps[i].used PROVE MayAccept(i)' \subseteq MayAccept(i)
  <2>1. Moves(r)
    BY <1>2, OneMoves
  <2>2. r \in MayAccept(i)' => r \in MayAccept(i)
    <3>1. SUFFICES ASSUME rpc'[r] \in Comparing, req'[r].row = i PROVE r \in MayAccept(i)
      BY DEF MayAccept
    <3>2. CASE Looks(r)
      <4>1. PICK u \in Users, place \in Places, right \in BOOLEAN : Lookup(r, u, place, right)
        BY <3>2 DEF Looks
      <4>2. Latest(place) \in 1 .. Len(otps) /\ ~ otps[Latest(place)].used
        BY <4>1, LatestIsRow DEF Lookup, MayUse
      <4>3. req'[r].row = Latest(place)
        BY <4>1 DEF Lookup, Begin, ThreadsType
      <4>4. QED
        BY <1>2, <3>1, <4>2, <4>3
    <3>3. CASE ~ Looks(r)
      BY <1>2, <3>1, <3>3, ComparingSince DEF MayAccept
    <3>4. QED
      BY <3>2, <3>3
  <2>3. QED
    BY <2>1, <2>2 DEF Moves, MayAccept
<1>3. QED
  BY <1>1, <1>2, NobodyMoves

LEMMA CodesTypeNext ==
  ASSUME OtpsType, ThreadsType, References, CodesInv, CountsType, [AccountsNext]_accountsVars
  PROVE  OtpsType'
<1>1. CASE UNCHANGED otps
  BY <1>1 DEF OtpsType
<1>2. ASSUME NEW r \in Requests, save_otp(r), otps' = Append(otps, NewCode(r)) PROVE OtpsType'
  <2>1. req[r].place \in Places /\ req[r].user \in Users
    BY <1>2 DEF save_otp, References, RefersTo
  <2>2. minute + OtpLife \in Nat
    BY AccountsAssumption DEF CountsType
  <2>3. NewCode(r) \in OtpRow
    BY <2>1, <2>2 DEF NewCode, OtpRow
  <2>4. QED
    BY <1>2, <2>3 DEF OtpsType
<1>3. ASSUME NEW r \in Requests, increment_otp_attempts(r), otps' = [otps EXCEPT ![req[r].row] = Compared(r)]
      PROVE  OtpsType'
  <2> DEFINE code == otps[req[r].row]
  <2>1. req[r].row \in 1 .. Len(otps)
    BY <1>3 DEF increment_otp_attempts, References, RefersTo, RowSteps
  <2>2. code \in OtpRow /\ req[r] \in ReqRow
    BY <2>1 DEF OtpsType, ThreadsType
  <2>3. /\ req[r].seen <= code.compared /\ req[r].seen \in Nat /\ req[r].read \in Nat
        /\ code.compared \in Nat /\ code.overtaken \in Nat
    <3>1. req[r].seen <= code.compared
      BY <1>3 DEF increment_otp_attempts, CodesInv, CompareInv
    <3>2. QED
      BY <2>2, <3>1 DEF ReqRow, OtpRow
  <2>4. Compared(r) = [code EXCEPT !.attempts = req[r].read + 1, !.compared = @ + 1,
                                   !.overtaken = @ + (code.compared - req[r].seen)]
    BY DEF Compared
  <2> HIDE DEF code
  <2>5. code.overtaken + (code.compared - req[r].seen) \in Nat
    BY <2>3
  <2> DEFINE attempts == req[r].read + 1
             compared == code.compared + 1
             overtaken == code.overtaken + (code.compared - req[r].seen)
  <2>6. Compared(r) \in OtpRow
    <3>1. attempts \in Nat /\ compared \in Nat /\ overtaken \in Nat
      BY <2>3, <2>5
    <3>2. Compared(r) = [code EXCEPT !.attempts = attempts, !.compared = compared, !.overtaken = overtaken]
      BY <2>2, <2>4 DEF OtpRow
    <3> HIDE DEF attempts, compared, overtaken
    <3>3. QED
      BY <2>2, <3>1, <3>2 DEF OtpRow
  <2>7. QED
    BY <1>3, <2>1, <2>6 DEF OtpsType
<1>4. ASSUME NEW r \in Requests, mark_otp_used(r), otps' = [otps EXCEPT ![req[r].row] = Used(r)]
      PROVE  OtpsType'
  <2> DEFINE code == otps[req[r].row]
  <2>1. req[r].row \in 1 .. Len(otps)
    BY <1>4 DEF mark_otp_used, References, RefersTo, RowSteps
  <2>2. code \in OtpRow
    BY <2>1 DEF OtpsType
  <2>3. Used(r) = [code EXCEPT !.used = TRUE, !.accepted = @ + 1]
    BY DEF Used
  <2> HIDE DEF code
  <2>4. Used(r) \in OtpRow
    <3> DEFINE accepted == code.accepted + 1
    <3>1. accepted \in Nat
      BY <2>2 DEF OtpRow
    <3>2. Used(r) = [code EXCEPT !.used = TRUE, !.accepted = accepted]
      BY <2>2, <2>3 DEF OtpRow
    <3> HIDE DEF accepted
    <3>3. QED
      BY <2>2, <3>1, <3>2 DEF OtpRow
  <2>5. QED
    BY <1>4, <2>1, <2>4 DEF OtpsType
<1>5. QED
  BY <1>1, <1>2, <1>3, <1>4, CodesStep

\* Rows of codes are never removed, and their counts never go down but for attempts.
LEMMA CodesGrow ==
  ASSUME OtpsType, ThreadsType, References, CodesInv, CountsType, [AccountsNext]_accountsVars
  PROVE  /\ Len(otps) \in Nat /\ Len(otps') \in Nat /\ Len(otps) <= Len(otps')
         /\ \A i \in 1 .. Len(otps) :
              /\ otps[i] \in OtpRow /\ otps'[i] \in OtpRow
              /\ otps'[i].compared >= otps[i].compared /\ otps'[i].overtaken >= otps[i].overtaken
              /\ otps'[i].place = otps[i].place /\ otps'[i].user = otps[i].user
<1> USE DEF OtpsType
<1>0. /\ Len(otps) \in Nat /\ \A i \in 1 .. Len(otps) : otps[i] \in OtpRow
      /\ Len(otps') \in Nat /\ \A i \in 1 .. Len(otps') : otps'[i] \in OtpRow
  BY CodesTypeNext
<1>1. \A i \in 1 .. Len(otps) : otps[i].compared \in Nat /\ otps[i].overtaken \in Nat
  BY <1>0 DEF OtpRow
<1>2. CASE UNCHANGED otps
  BY <1>0, <1>1, <1>2
<1>3. ASSUME NEW r \in Requests, otps' = Append(otps, NewCode(r))
      PROVE  Len(otps) <= Len(otps') /\ \A i \in 1 .. Len(otps) : otps'[i] = otps[i]
  BY <1>0, <1>3
<1>4. ASSUME NEW r \in Requests, increment_otp_attempts(r), otps' = [otps EXCEPT ![req[r].row] = Compared(r)]
      PROVE  /\ Len(otps') = Len(otps)
             /\ \A i \in 1 .. Len(otps) \ {req[r].row} : otps'[i] = otps[i]
             /\ otps'[req[r].row].compared >= otps[req[r].row].compared
             /\ otps'[req[r].row].overtaken >= otps[req[r].row].overtaken
             /\ otps'[req[r].row].place = otps[req[r].row].place
             /\ otps'[req[r].row].user = otps[req[r].row].user
  <2> DEFINE i == req[r].row
             code == otps[i]
  <2>1. i \in 1 .. Len(otps)
    BY <1>4 DEF increment_otp_attempts, References, RefersTo, RowSteps
  <2>2. Len(otps') = Len(otps) /\ otps'[i] = Compared(r)
        /\ \A j \in 1 .. Len(otps) \ {i} : otps'[j] = otps[j]
    BY <1>4, <2>1, <1>0
  <2>3. code \in OtpRow /\ code.compared \in Nat /\ code.overtaken \in Nat /\ req[r].seen \in Nat
    <3>1. req[r] \in ReqRow
      BY DEF ThreadsType
    <3>2. QED
      BY <1>0, <1>1, <2>1, <3>1 DEF ReqRow
  <2>4. req[r].seen <= code.compared
    BY <1>4 DEF increment_otp_attempts, CodesInv, CompareInv
  <2>5. /\ Compared(r).compared = code.compared + 1
        /\ Compared(r).overtaken = code.overtaken + (code.compared - req[r].seen)
        /\ Compared(r).place = code.place /\ Compared(r).user = code.user
    BY <2>3 DEF Compared, OtpRow
  <2> HIDE DEF code, i
  <2>6. QED
    BY <2>2, <2>3, <2>4, <2>5 DEF code, i
<1>5. ASSUME NEW r \in Requests, mark_otp_used(r), otps' = [otps EXCEPT ![req[r].row] = Used(r)]
      PROVE  /\ Len(otps') = Len(otps)
             /\ \A i \in 1 .. Len(otps) \ {req[r].row} : otps'[i] = otps[i]
             /\ otps'[req[r].row].compared = otps[req[r].row].compared
             /\ otps'[req[r].row].overtaken = otps[req[r].row].overtaken
             /\ otps'[req[r].row].place = otps[req[r].row].place
             /\ otps'[req[r].row].user = otps[req[r].row].user
  <2> DEFINE i == req[r].row
  <2>1. i \in 1 .. Len(otps)
    BY <1>5 DEF mark_otp_used, References, RefersTo, RowSteps
  <2>2. Len(otps') = Len(otps) /\ otps'[i] = Used(r)
        /\ \A j \in 1 .. Len(otps) \ {i} : otps'[j] = otps[j]
    BY <1>5, <2>1, <1>0
  <2>3. otps[i] \in OtpRow
    BY <1>0, <2>1
  <2>4. QED
    BY <2>2, <2>3 DEF Used, OtpRow
<1> DEFINE Grown(i) ==
             /\ otps'[i].compared >= otps[i].compared /\ otps'[i].overtaken >= otps[i].overtaken
             /\ otps'[i].place = otps[i].place /\ otps'[i].user = otps[i].user
<1>6. ASSUME NEW i \in 1 .. Len(otps), otps'[i] = otps[i] PROVE Grown(i)
  BY <1>1, <1>6
<1>7. ASSUME NEW r \in Requests, increment_otp_attempts(r), otps' = [otps EXCEPT ![req[r].row] = Compared(r)]
      PROVE  Len(otps) <= Len(otps') /\ \A i \in 1 .. Len(otps) : Grown(i)
  <2>1. ASSUME NEW i \in 1 .. Len(otps) PROVE Grown(i)
    BY <1>4, <1>6, <1>7
  <2>2. QED
    BY <1>0, <1>4, <1>7, <2>1
<1>8. ASSUME NEW r \in Requests, mark_otp_used(r), otps' = [otps EXCEPT ![req[r].row] = Used(r)]
      PROVE  Len(otps) <= Len(otps') /\ \A i \in 1 .. Len(otps) : Grown(i)
  <2>1. ASSUME NEW i \in 1 .. Len(otps) PROVE Grown(i)
    <3>1. CASE i = req[r].row
      <4>1. otps'[i].compared = otps[i].compared /\ otps'[i].overtaken = otps[i].overtaken
            /\ otps'[i].place = otps[i].place /\ otps'[i].user = otps[i].user
        BY <1>5, <1>8, <3>1
      <4>2. QED
        BY <1>1, <4>1
    <3>2. CASE i # req[r].row
      BY <1>5, <1>6, <1>8, <3>2
    <3>3. QED
      BY <3>1, <3>2
  <2>2. QED
    BY <1>0, <1>5, <1>8, <2>1
<1>9. Len(otps) <= Len(otps') /\ \A i \in 1 .. Len(otps) : Grown(i)
  <2>1. CASE UNCHANGED otps
    BY <1>0, <1>6, <2>1
  <2>2. ASSUME NEW r \in Requests, otps' = Append(otps, NewCode(r))
        PROVE  Len(otps) <= Len(otps') /\ \A i \in 1 .. Len(otps) : Grown(i)
    BY <1>3, <1>6, <2>2
  <2> HIDE DEF Grown
  <2>3. QED
    BY <2>1, <2>2, <1>7, <1>8, CodesStep
<1>10. \A i \in 1 .. Len(otps) : i \in 1 .. Len(otps')
  BY <1>0, <1>9
<1>11. QED
  BY <1>0, <1>9, <1>10

LEMMA MayAcceptSizeNext ==
  ASSUME NEW i \in Nat
  PROVE  /\ Cardinality(MayAccept(i)') \in Nat
         /\ Cardinality(MayAccept(i)') <= Cardinality(Requests)
         /\ MayAccept(i)' \subseteq MayAccept(i) => Cardinality(MayAccept(i)') <= Cardinality(MayAccept(i))
         /\ \A r \in MayAccept(i) : MayAccept(i)' \subseteq MayAccept(i) \ {r} =>
              Cardinality(MayAccept(i)') + 1 <= Cardinality(MayAccept(i))
<1>1. IsFiniteSet(Requests) /\ MayAccept(i)' \in SUBSET Requests
  BY AccountsAssumption DEF MayAccept
<1>2. IsFiniteSet(MayAccept(i)') /\ IsFiniteSet(MayAccept(i))
  BY <1>1, MayAcceptSize, FS_Subset
<1>3. /\ Cardinality(MayAccept(i)') \in Nat /\ Cardinality(MayAccept(i)) \in Nat
      /\ Cardinality(MayAccept(i)') <= Cardinality(Requests)
  BY <1>1, <1>2, FS_Subset, FS_CardinalityType
<1>4. MayAccept(i)' \subseteq MayAccept(i) => Cardinality(MayAccept(i)') <= Cardinality(MayAccept(i))
  BY <1>2, FS_Subset
<1>5. ASSUME NEW r \in MayAccept(i), MayAccept(i)' \subseteq MayAccept(i) \ {r}
      PROVE  Cardinality(MayAccept(i)') + 1 <= Cardinality(MayAccept(i))
  <2>1. IsFiniteSet(MayAccept(i) \ {r}) /\ Cardinality(MayAccept(i) \ {r}) = Cardinality(MayAccept(i)) - 1
    BY <1>2, FS_RemoveElement
  <2>2. Cardinality(MayAccept(i)') <= Cardinality(MayAccept(i) \ {r})
    BY <1>5, <2>1, FS_Subset
  <2>3. QED
    BY <1>3, <2>1, <2>2
<1>6. QED
  BY <1>3, <1>4, <1>5

LEMMA CodeInvNext ==
  ASSUME OtpsType, ThreadsType, SessionsType, References, CodesInv, CountsType,
         [AccountsNext]_accountsVars, NEW i \in 1 .. Len(otps')
  PROVE  (CodeInv(i) /\ Unused(i))'
<1> DEFINE Q == Cardinality(Requests)
           M == Cardinality(MayAccept(i))
           N == Cardinality(MayAccept(i)')
<1>0. /\ i \in Nat /\ Q \in Nat /\ M \in Nat /\ N \in Nat /\ M <= Q /\ N <= Q
      /\ MayAccept(i)' \subseteq MayAccept(i) => N <= M
      /\ OtpMaxAttempts \in Nat
  <2>1. i \in Nat
    BY CodesGrow
  <2>2. QED
    BY <2>1, MayAcceptSize, MayAcceptSizeNext, AccountsAssumption
<1>1. i \in 1 .. Len(otps) => MayAccept(i)' \subseteq MayAccept(i) \/ ~ otps[i].used
  BY MayAcceptNext
<1>2. i \in 1 .. Len(otps) => CodeInv(i) /\ Unused(i) /\ otps[i] \in OtpRow
  BY CodesGrow DEF CodesInv
<1>3. ASSUME i \in 1 .. Len(otps), otps'[i] = otps[i] PROVE (CodeInv(i) /\ Unused(i))'
  <2>1. otps[i].accepted \in Nat
    BY <1>2, <1>3 DEF OtpRow
  <2>2. otps[i].accepted + N <= Q
    <3>1. CASE N <= M
      BY <1>0, <1>2, <1>3, <2>1, <3>1 DEF CodeInv
    <3>2. CASE ~ (N <= M)
      <4>1. otps[i].accepted = 0
        BY <1>0, <1>1, <1>2, <1>3, <3>2 DEF Unused
      <4>2. QED
        BY <1>0, <4>1
    <3>3. QED
      BY <3>1, <3>2
  <2>3. QED
    BY <1>2, <1>3, <2>2 DEF CodeInv, Unused
<1>4. ASSUME NEW r \in Requests, otps' = Append(otps, NewCode(r)), i \notin 1 .. Len(otps)
      PROVE  (CodeInv(i) /\ Unused(i))'
  <2>1. i = Len(otps) + 1 /\ otps'[i] = NewCode(r)
    BY <1>4 DEF OtpsType
  <2>2. /\ otps'[i].compared = 0 /\ otps'[i].attempts = 0 /\ otps'[i].overtaken = 0
        /\ otps'[i].accepted = 0
    BY <2>1 DEF NewCode
  <2>3. QED
    BY <1>0, <2>2 DEF CodeInv, Unused
<1>5. ASSUME NEW r \in Requests, increment_otp_attempts(r), otps' = [otps EXCEPT ![i] = Compared(r)],
             i = req[r].row, i \in 1 .. Len(otps)
      PROVE  (CodeInv(i) /\ Unused(i))'
  <2> DEFINE code == otps[i]
  <2>1. otps'[i] = Compared(r)
    BY <1>5 DEF OtpsType
  <2>2. code \in OtpRow /\ req[r] \in ReqRow
    BY <1>2, <1>5 DEF ThreadsType
  <2>3. /\ code.compared \in Nat /\ code.overtaken \in Nat /\ code.attempts \in Nat /\ code.accepted \in Nat
        /\ req[r].seen \in Nat /\ req[r].read \in Nat
    BY <2>2 DEF OtpRow, ReqRow
  <2>4. /\ req[r].seen <= code.compared /\ req[r].seen < OtpMaxAttempts + code.overtaken
        /\ req[r].seen <= req[r].read + code.overtaken
    BY <1>5 DEF increment_otp_attempts, CodesInv, CompareInv
  <2>5. /\ otps'[i].compared = code.compared + 1 /\ otps'[i].attempts = req[r].read + 1
        /\ otps'[i].overtaken = code.overtaken + (code.compared - req[r].seen)
        /\ otps'[i].accepted = code.accepted /\ otps'[i].used = code.used
    BY <1>5, <2>1, <2>2 DEF Compared, OtpRow
  <2>6. code.accepted + N <= Q
    <3>1. code.accepted + M <= Q /\ (~ code.used => code.accepted = 0)
      BY <1>2, <1>5 DEF CodeInv, Unused
    <3>2. CASE N <= M
      BY <1>0, <2>3, <3>1, <3>2
    <3>3. CASE ~ (N <= M)
      <4>1. code.accepted = 0
        BY <1>0, <1>1, <1>5, <3>1, <3>3
      <4>2. QED
        BY <1>0, <4>1
    <3>4. QED
      BY <3>2, <3>3
  <2>7. Unused(i)'
    BY <1>2, <1>5, <2>5 DEF Unused
  <2> HIDE DEF code, M, N, Q
  <2>8. /\ otps'[i].compared <= otps'[i].attempts + otps'[i].overtaken
        /\ otps'[i].compared <= OtpMaxAttempts + otps'[i].overtaken
        /\ otps'[i].accepted + N <= Q
    <3>1. OtpMaxAttempts \in Nat
      BY <1>0
    <3> DEFINE c == code.compared
               a == req[r].read
               o == code.overtaken
               s == req[r].seen
    <3>a. c \in Nat /\ a \in Nat /\ o \in Nat /\ s \in Nat
      BY <2>3
    <3>b. s <= c /\ s < OtpMaxAttempts + o /\ s <= a + o
      BY <2>4
    <3> HIDE DEF c, a, o, s
    <3>2. c + 1 <= (a + 1) + (o + (c - s))
      BY <3>a, <3>b
    <3>3. c + 1 <= OtpMaxAttempts + (o + (c - s))
      BY <3>1, <3>a, <3>b
    <3> USE DEF c, a, o, s
    <3>4. QED
      BY <2>5, <2>6, <3>2, <3>3
  <2>9. QED
    BY <2>7, <2>8 DEF CodeInv, N, Q
<1>6. ASSUME NEW r \in Requests, mark_otp_used(r), otps' = [otps EXCEPT ![i] = Used(r)],
             i = req[r].row, i \in 1 .. Len(otps)
      PROVE  (CodeInv(i) /\ Unused(i))'
  <2> DEFINE code == otps[i]
  <2>1. otps'[i] = Used(r)
    BY <1>6 DEF OtpsType
  <2>2. code \in OtpRow
    BY <1>2, <1>6
  <2>3. code.compared \in Nat /\ code.overtaken \in Nat /\ code.attempts \in Nat /\ code.accepted \in Nat
    BY <2>2 DEF OtpRow
  <2>4. /\ otps'[i].compared = code.compared /\ otps'[i].attempts = code.attempts
        /\ otps'[i].overtaken = code.overtaken /\ otps'[i].accepted = code.accepted + 1
        /\ otps'[i].used
    BY <1>6, <2>1, <2>2 DEF Used, OtpRow
  <2>5. r \in MayAccept(i) /\ MayAccept(i)' \subseteq MayAccept(i) \ {r}
    <3>1. r \in MayAccept(i)
      BY <1>6 DEF MayAccept, mark_otp_used, Comparing
    <3>2. Moves(r)
      BY <1>6, OneMoves DEF RequestNext
    <3>3. rpc'[r] = "apply"
      BY <1>6 DEF mark_otp_used, Goto, ThreadsType
    <3>4. r \notin MayAccept(i)'
      BY <3>3 DEF MayAccept, Comparing
    <3>5. QED
      BY <3>1, <3>2, <3>4 DEF Moves, MayAccept
  <2>6. N + 1 <= M
    BY <1>0, <2>5, MayAcceptSizeNext
  <2>7. CodeInv(i)
    BY <1>2, <1>6
  <2>8. /\ otps'[i].compared <= otps'[i].attempts + otps'[i].overtaken
        /\ otps'[i].compared <= OtpMaxAttempts + otps'[i].overtaken
    BY <2>4, <2>7 DEF CodeInv
  <2>9. otps'[i].accepted + N <= Q
    <3>1. code.accepted + M <= Q
      BY <2>7 DEF CodeInv
    <3> HIDE DEF code, M, N, Q
    <3>2. QED
      BY <1>0, <2>3, <2>4, <2>6, <3>1
  <2>10. QED
    BY <2>4, <2>8, <2>9 DEF CodeInv, Unused
<1> HIDE DEF Q, M, N
<1>7. CASE UNCHANGED otps
  BY <1>3, <1>7
<1>8. ASSUME NEW r \in Requests, otps' = Append(otps, NewCode(r)) PROVE (CodeInv(i) /\ Unused(i))'
  <2>1. i \in 1 .. Len(otps) => otps'[i] = otps[i]
    BY <1>8 DEF OtpsType
  <2>2. QED
    BY <1>3, <1>4, <1>8, <2>1
<1>9. ASSUME NEW r \in Requests, increment_otp_attempts(r), otps' = [otps EXCEPT ![req[r].row] = Compared(r)]
      PROVE  (CodeInv(i) /\ Unused(i))'
  <2>1. i \in 1 .. Len(otps) /\ (i # req[r].row => otps'[i] = otps[i])
    BY <1>9 DEF OtpsType
  <2>2. QED
    BY <1>3, <1>5, <1>9, <2>1
<1>10. ASSUME NEW r \in Requests, mark_otp_used(r), otps' = [otps EXCEPT ![req[r].row] = Used(r)]
       PROVE  (CodeInv(i) /\ Unused(i))'
  <2>1. i \in 1 .. Len(otps) /\ (i # req[r].row => otps'[i] = otps[i])
    BY <1>10 DEF OtpsType
  <2>2. QED
    BY <1>3, <1>6, <1>10, <2>1
<1>11. QED
  BY <1>7, <1>8, <1>9, <1>10, CodesStep

LEMMA CompareInvNext ==
  ASSUME OtpsType, ThreadsType, SessionsType, References, CodesInv, CountsType,
         [AccountsNext]_accountsVars, NEW q \in Requests
  PROVE  CompareInv(q)'
<1>0. OtpMaxAttempts \in Nat /\ req[q] \in ReqRow
  BY AccountsAssumption DEF ThreadsType
<1>1. ASSUME rpc[q] \in {"increment", "write"}, rpc'[q] = rpc[q] \/ rpc'[q] \notin {"increment", "write"},
             req'[q] = req[q]
      PROVE  CompareInv(q)'
  <2> DEFINE i == req[q].row
  <2>1. i \in 1 .. Len(otps)
    BY <1>1 DEF References, RefersTo, RowSteps
  <2>2. /\ otps[i] \in OtpRow /\ otps'[i] \in OtpRow
        /\ otps'[i].compared >= otps[i].compared /\ otps'[i].overtaken >= otps[i].overtaken
    BY <2>1, CodesGrow
  <2>3. /\ otps[i].compared \in Nat /\ otps[i].overtaken \in Nat
        /\ otps'[i].compared \in Nat /\ otps'[i].overtaken \in Nat
        /\ req[q].seen \in Nat /\ req[q].read \in Nat
    BY <1>0, <2>2 DEF OtpRow, ReqRow
  <2>4. CompareInv(q)
    BY DEF CodesInv
  <2>5. /\ req[q].seen <= otps[i].compared /\ req[q].seen < OtpMaxAttempts + otps[i].overtaken
        /\ rpc[q] = "write" => req[q].seen <= req[q].read + otps[i].overtaken
    BY <1>1, <2>4 DEF CompareInv
  <2>6. /\ req[q].seen <= otps'[i].compared /\ req[q].seen < OtpMaxAttempts + otps'[i].overtaken
        /\ rpc[q] = "write" => req[q].seen <= req[q].read + otps'[i].overtaken
    BY <1>0, <2>2, <2>3, <2>5
  <2>7. QED
    BY <1>1, <2>6 DEF CompareInv
<1>2. CASE rpc'[q] \notin {"increment", "write"}
  BY <1>2 DEF CompareInv
<1>3. CASE Looks(q)
  <2>1. PICK u \in Users, place \in Places, right \in BOOLEAN : Lookup(q, u, place, right)
    BY <1>3 DEF Looks
  <2> DEFINE i == Latest(place)
  <2>2. i \in 1 .. Len(otps)
    BY <2>1, LatestIsRow DEF Lookup, MayUse
  <2>3. otps[i].attempts < OtpMaxAttempts /\ UNCHANGED otps
    BY <2>1 DEF Lookup, MayUse
  <2>4. rpc'[q] = "increment" /\ req'[q].row = i /\ req'[q].seen = otps[i].compared
    BY <2>1 DEF Lookup, Begin, ThreadsType
  <2>5. otps[i] \in OtpRow /\ CodeInv(i)
    BY <2>2 DEF OtpsType, CodesInv
  <2> HIDE DEF i
  <2>6. otps[i].compared \in Nat /\ otps[i].overtaken \in Nat /\ otps[i].attempts \in Nat
    BY <2>5 DEF OtpRow
  <2>7. otps[i].compared < OtpMaxAttempts + otps[i].overtaken
    BY <1>0, <2>3, <2>5, <2>6 DEF CodeInv
  <2>8. QED
    BY <2>3, <2>4, <2>6, <2>7 DEF CompareInv
<1>4. CASE ReadAttempts(q)
  <2> DEFINE i == req[q].row
  <2>1. i \in 1 .. Len(otps)
    BY <1>4 DEF ReadAttempts, References, RefersTo, RowSteps
  <2>2. otps[i] \in OtpRow /\ CodeInv(i) /\ CompareInv(q) /\ UNCHANGED otps
    BY <1>4, <2>1 DEF ReadAttempts, OtpsType, CodesInv
  <2>3. /\ otps[i].compared \in Nat /\ otps[i].overtaken \in Nat /\ otps[i].attempts \in Nat
        /\ req[q].seen \in Nat
    BY <1>0, <2>2 DEF OtpRow, ReqRow
  <2>4. rpc'[q] = "write" /\ req'[q] = [req[q] EXCEPT !.read = otps[i].attempts]
    BY <1>4 DEF ReadAttempts, ThreadsType
  <2>5. req'[q].row = i /\ req'[q].seen = req[q].seen /\ req'[q].read = otps[i].attempts
    BY <1>0, <2>4 DEF ReqRow
  <2>6. req[q].seen <= otps[i].compared /\ req[q].seen < OtpMaxAttempts + otps[i].overtaken
    BY <1>4, <2>2 DEF ReadAttempts, CompareInv
  <2>7. req[q].seen <= otps[i].attempts + otps[i].overtaken
    BY <2>2, <2>3, <2>6 DEF CodeInv
  <2>8. QED
    BY <2>2, <2>4, <2>5, <2>6, <2>7 DEF CompareInv
<1>5. CASE UNCHANGED <<rpc, req>> /\ rpc'[q] \in {"increment", "write"}
  BY <1>1, <1>5
<1>6. ASSUME NEW r \in Requests, RequestNext(r), rpc'[q] \in {"increment", "write"} PROVE CompareInv(q)'
  <2>1. CASE r = q
    BY <1>3, <1>4, <1>6, <2>1, ComparingSince DEF Comparing
  <2>2. CASE r # q
    BY <1>1, <1>6, <2>2, OneMoves DEF Moves
  <2>3. QED
    BY <2>1, <2>2
<1>7. QED
  BY <1>2, <1>5, <1>6, NobodyMoves

LEMMA CodesInvNext ==
  ASSUME OtpsType, ThreadsType, SessionsType, References, CodesInv, CountsType, [AccountsNext]_accountsVars
  PROVE  CodesInv'
BY CodeInvNext, CompareInvNext DEF CodesInv

-----------------------------------------------------------------------------
(* Log-ins.                                                                *)

Token(u, login) == [user |-> u, login |-> login, revoked |-> FALSE]

Revoked(t) == [refresh EXCEPT ![t] = [refresh[t] EXCEPT !.revoked = TRUE]]

OneIf(b) == IF b THEN 1 ELSE 0

More(login, n) == [overlaps EXCEPT ![login] = overlaps[login] + n]

LEMMA RevokeIs ==
  ASSUME NEW r \in Requests, revoke_refresh_token(r)
  PROVE  /\ refresh' = Revoked(req[r].row)
         /\ overlaps' = More(refresh[req[r].row].login, OneIf(refresh[req[r].row].revoked))
         /\ UNCHANGED outs
BY DEF revoke_refresh_token, Overlap, Revoked, More, OneIf

LEMMA SessionsStep ==
  ASSUME SessionsType, ThreadsType, References, [AccountsNext]_accountsVars
  PROVE  \/ UNCHANGED <<refresh, outs, overlaps>>
         \/ \E r \in Requests :
              /\ LogIn(r)
              /\ refresh' = Append(refresh, Token(req[r].user, Len(refresh) + 1))
              /\ overlaps' = Append(overlaps, 0) /\ UNCHANGED outs
         \/ \E r \in Requests :
              /\ revoke_refresh_token(r)
              /\ refresh' = Revoked(req[r].row)
              /\ overlaps' = More(refresh[req[r].row].login, OneIf(refresh[req[r].row].revoked))
              /\ UNCHANGED outs
         \/ \E r \in Requests :
              /\ Rotate(r)
              /\ refresh' = Append(refresh, Token(refresh[req[r].row].user, refresh[req[r].row].login))
              /\ overlaps' = Append(overlaps, 0) /\ UNCHANGED outs
         \/ \E t \in 1 .. Len(refresh) :
              /\ Logout(t)
              /\ refresh' = Revoked(t)
              /\ overlaps' = More(refresh[t].login, OneIf(refresh[t].revoked))
              /\ outs' = outs \cup {refresh[t].login}
<1>0. DOMAIN refresh = 1 .. Len(refresh) /\ \A t \in 1 .. Len(refresh) : refresh[t] \in RefreshRow
  BY DEF SessionsType
<1>1. ASSUME NEW r \in Requests, LogIn(r)
      PROVE  /\ refresh' = Append(refresh, Token(req[r].user, Len(refresh) + 1))
             /\ overlaps' = Append(overlaps, 0) /\ UNCHANGED outs
  BY <1>1 DEF LogIn, SaveToken, Token
<1>2. ASSUME NEW r \in Requests, Rotate(r)
      PROVE  /\ refresh' = Append(refresh, Token(refresh[req[r].row].user, refresh[req[r].row].login))
             /\ overlaps' = Append(overlaps, 0) /\ UNCHANGED outs
  BY <1>2 DEF Rotate, SaveToken, Token
<1>3. ASSUME NEW r \in Requests, revoke_refresh_token(r)
      PROVE  /\ refresh' = Revoked(req[r].row)
             /\ overlaps' = More(refresh[req[r].row].login, OneIf(refresh[req[r].row].revoked))
             /\ UNCHANGED outs
  BY <1>3, RevokeIs
<1>4. ASSUME NEW t \in DOMAIN refresh, Logout(t)
      PROVE  /\ refresh' = Revoked(t)
             /\ overlaps' = More(refresh[t].login, OneIf(refresh[t].revoked))
             /\ outs' = outs \cup {refresh[t].login}
  BY <1>4 DEF Logout, Overlap, Revoked, More, OneIf
<1>5. ASSUME NEW r \in Requests,
             \/ \E u \in Users, place \in Places : SendOtp(r, u, place)
             \/ CheckOwner(r) \/ CheckLimit(r) \/ upsert_user(r) \/ save_otp(r)
             \/ \E u \in Users, place \in Places, right \in BOOLEAN : Lookup(r, u, place, right)
             \/ ReadAttempts(r)
      PROVE  UNCHANGED <<refresh, outs, overlaps>>
  BY <1>5 DEF SendOtp, CheckOwner, CheckLimit, upsert_user, save_otp, Lookup, ReadAttempts
<1>6. ASSUME NEW r \in Requests,
             \/ increment_otp_attempts(r) \/ mark_otp_used(r)
             \/ mark_user_verified(r) \/ ReadNumber(r) \/ SetPhoneNumber(r) \/ VerifyEmail(r)
             \/ VerifyWhatsapp(r) \/ (\E t \in DOMAIN refresh : Refresh(r, t)) \/ RequestFails(r)
      PROVE  UNCHANGED <<refresh, outs, overlaps>>
  BY <1>6 DEF increment_otp_attempts, mark_otp_used, mark_user_verified, ReadNumber, SetPhoneNumber,
     VerifyEmail, VerifyWhatsapp, Refresh, RequestFails
<1>7. CASE UNCHANGED accountsVars \/ Minute \/ \E u \in Users : UpdateProfile(u)
  BY <1>7 DEF accountsVars, Minute, UpdateProfile
<1>8. QED
  BY <1>0, <1>1, <1>2, <1>3, <1>4, <1>5, <1>6, <1>7 DEF AccountsNext, RequestNext

LEMMA SessionsTypeNext ==
  ASSUME SessionsType, ThreadsType, References, [AccountsNext]_accountsVars
  PROVE  SessionsType' /\ Len(refresh) <= Len(refresh')
<1>0. /\ Len(refresh) \in Nat
      /\ \A t \in 1 .. Len(refresh) : refresh[t] \in RefreshRow /\ refresh[t].login \in 1 .. Len(refresh)
  BY DEF SessionsType
<1>1. ASSUME NEW u \in Users, NEW login \in 1 .. Len(refresh) + 1, refresh' = Append(refresh, Token(u, login)),
             overlaps' = Append(overlaps, 0), UNCHANGED outs
      PROVE  SessionsType' /\ Len(refresh) <= Len(refresh')
  <2>1. Token(u, login) \in RefreshRow /\ Token(u, login).login = login
    BY <1>0 DEF Token, RefreshRow
  <2>2. Len(refresh') = Len(refresh) + 1 /\ refresh' \in Seq(RefreshRow)
    BY <1>1, <2>1 DEF SessionsType
  <2>3. overlaps' \in Seq(Nat) /\ Len(overlaps') = Len(refresh')
    BY <1>1, <2>2 DEF SessionsType
  <2>4. \A t \in 1 .. Len(refresh') : refresh'[t].login \in 1 .. Len(refresh')
    <3>1. ASSUME NEW t \in 1 .. Len(refresh') PROVE refresh'[t].login \in 1 .. Len(refresh')
      <4>1. CASE t \in 1 .. Len(refresh)
        BY <1>0, <1>1, <2>2, <4>1 DEF SessionsType
      <4>2. CASE t = Len(refresh) + 1
        BY <1>0, <1>1, <2>1, <2>2, <4>2 DEF SessionsType
      <4>3. QED
        BY <1>0, <2>2, <4>1, <4>2
    <3>2. QED
      BY <3>1
  <2>5. outs' \subseteq 1 .. Len(refresh')
    BY <1>0, <1>1, <2>2 DEF SessionsType
  <2>6. QED
    BY <1>0, <2>2, <2>3, <2>4, <2>5 DEF SessionsType
<1>2. ASSUME NEW t \in 1 .. Len(refresh), NEW n \in {0, 1}, refresh' = Revoked(t),
             overlaps' = More(refresh[t].login, n), outs' \subseteq outs \cup {refresh[t].login}
      PROVE  SessionsType' /\ Len(refresh) <= Len(refresh')
  <2>1. [refresh[t] EXCEPT !.revoked = TRUE] \in RefreshRow
    <3>1. refresh[t] \in RefreshRow
      BY <1>0
    <3>2. QED
      BY <3>1 DEF RefreshRow
  <2>2. refresh' \in Seq(RefreshRow) /\ Len(refresh') = Len(refresh)
    BY <1>2, <2>1 DEF Revoked, SessionsType
  <2>3. overlaps' \in Seq(Nat) /\ Len(overlaps') = Len(overlaps)
    <3>1. refresh[t].login \in 1 .. Len(overlaps) /\ overlaps \in Seq(Nat)
      BY <1>0 DEF SessionsType
    <3>2. overlaps[refresh[t].login] + n \in Nat
      BY <3>1
    <3>3. QED
      BY <1>2, <3>1, <3>2 DEF More
  <2>4. ASSUME NEW u \in 1 .. Len(refresh') PROVE refresh'[u].login \in 1 .. Len(refresh')
    <3>1. refresh'[u].login = refresh[u].login
      BY <1>0, <1>2, <2>2 DEF Revoked, RefreshRow, SessionsType
    <3>2. QED
      BY <1>0, <2>2, <3>1
  <2>5. outs' \subseteq 1 .. Len(refresh')
    BY <1>0, <1>2, <2>2 DEF SessionsType
  <2>6. QED
    BY <1>0, <2>2, <2>3, <2>4, <2>5 DEF SessionsType
<1>3. CASE UNCHANGED <<refresh, outs, overlaps>>
  BY <1>0, <1>3 DEF SessionsType
<1>4. ASSUME NEW r \in Requests, LogIn(r),
             refresh' = Append(refresh, Token(req[r].user, Len(refresh) + 1)),
             overlaps' = Append(overlaps, 0), UNCHANGED outs
      PROVE  SessionsType' /\ Len(refresh) <= Len(refresh')
  <2>1. req[r].user \in Users
    BY <1>4 DEF LogIn, References, RefersTo, RowSteps
  <2>2. Len(refresh) + 1 \in 1 .. Len(refresh) + 1
    BY <1>0
  <2>3. QED
    BY <1>1, <1>4, <2>1, <2>2
<1>5. ASSUME NEW r \in Requests, Rotate(r),
             refresh' = Append(refresh, Token(refresh[req[r].row].user, refresh[req[r].row].login)),
             overlaps' = Append(overlaps, 0), UNCHANGED outs
      PROVE  SessionsType' /\ Len(refresh) <= Len(refresh')
  <2>1. req[r].row \in 1 .. Len(refresh)
    BY <1>5 DEF Rotate, References, RefersTo
  <2>2. refresh[req[r].row].user \in Users /\ refresh[req[r].row].login \in 1 .. Len(refresh) + 1
    BY <1>0, <2>1 DEF RefreshRow
  <2>3. QED
    BY <1>1, <1>5, <2>2
<1>6. ASSUME NEW r \in Requests, revoke_refresh_token(r), refresh' = Revoked(req[r].row),
             overlaps' = More(refresh[req[r].row].login, OneIf(refresh[req[r].row].revoked)), UNCHANGED outs
      PROVE  SessionsType' /\ Len(refresh) <= Len(refresh')
  <2>1. req[r].row \in 1 .. Len(refresh)
    BY <1>6 DEF revoke_refresh_token, References, RefersTo
  <2>2. QED
    BY <1>2, <1>6, <2>1 DEF OneIf
<1>7. ASSUME NEW t \in 1 .. Len(refresh), refresh' = Revoked(t),
             overlaps' = More(refresh[t].login, OneIf(refresh[t].revoked)),
             outs' = outs \cup {refresh[t].login}
      PROVE  SessionsType' /\ Len(refresh) <= Len(refresh')
  BY <1>2, <1>7 DEF OneIf
<1>8. QED
  BY <1>3, <1>4, <1>5, <1>6, <1>7, SessionsStep

LEMMA LoginsKept ==
  ASSUME SessionsType, ThreadsType, References, [AccountsNext]_accountsVars,
         NEW t \in 1 .. Len(refresh)
  PROVE  /\ t \in 1 .. Len(refresh') /\ refresh'[t].login = refresh[t].login
         /\ refresh[t].revoked => refresh'[t].revoked
<1>0. refresh[t] \in RefreshRow /\ Len(refresh) \in Nat
  BY DEF SessionsType
<1>1. t \in 1 .. Len(refresh')
  BY SessionsTypeNext, <1>0 DEF SessionsType
<1>2. CASE UNCHANGED refresh
  BY <1>1, <1>2
<1>3. ASSUME NEW x, refresh' = Append(refresh, x) PROVE refresh'[t] = refresh[t]
  BY <1>0, <1>3 DEF SessionsType
<1>4. ASSUME NEW s \in 1 .. Len(refresh), refresh' = Revoked(s)
      PROVE  refresh'[t].login = refresh[t].login /\ (refresh[t].revoked => refresh'[t].revoked)
  <2> DEFINE x == [refresh[s] EXCEPT !.revoked = TRUE]
  <2>1. refresh'[t] = IF t = s THEN x ELSE refresh[t]
    <3>1. refresh' = [refresh EXCEPT ![s] = x] /\ t \in DOMAIN refresh
      BY <1>4 DEF Revoked, SessionsType
    <3> HIDE DEF x
    <3>2. QED
      BY <3>1
  <2>2. QED
    BY <1>0, <2>1 DEF RefreshRow
<1>5. ASSUME NEW r \in Requests, revoke_refresh_token(r) PROVE req[r].row \in 1 .. Len(refresh)
  BY <1>5 DEF revoke_refresh_token, References, RefersTo
<1>6. QED
  BY <1>1, <1>2, <1>3, <1>4, <1>5, SessionsStep

\* Rotations that have revoked the old token of a log-in and not saved the new one.
Rotating(login) == {r \in Requests : rpc[r] = "rotate" /\ refresh[req[r].row].login = login}

\* A log-in has a live token, or a rotation that will give it one, but for overlaps.
SessionInv(login) ==
  Cardinality(LiveTokens(login)) + Cardinality(Rotating(login)) <= OneIf(login \notin outs) + overlaps[login]

SessionsInv == \A login \in 1 .. Len(refresh) : SessionInv(login)

LEMMA RotateSince ==
  ASSUME ThreadsType, NEW r \in Requests, RequestNext(r), rpc'[r] = "rotate"
  PROVE  revoke_refresh_token(r)
<1> USE DEF Goto, Return, ThreadsType
<1>1. ASSUME \/ \E u \in Users, place \in Places : SendOtp(r, u, place)
             \/ \E u \in Users, place \in Places, right \in BOOLEAN : Lookup(r, u, place, right)
             \/ \E t \in DOMAIN refresh : Refresh(r, t)
      PROVE FALSE
  BY <1>1 DEF SendOtp, Lookup, Refresh, Begin
<1>2. ASSUME CheckOwner(r) \/ CheckLimit(r) \/ upsert_user(r) \/ save_otp(r) \/ mark_otp_used(r)
             \/ ReadAttempts(r) \/ increment_otp_attempts(r)
      PROVE FALSE
  BY <1>2 DEF CheckOwner, CheckLimit, upsert_user, save_otp, mark_otp_used, ReadAttempts,
     increment_otp_attempts
<1>3. ASSUME mark_user_verified(r) \/ ReadNumber(r) \/ SetPhoneNumber(r) \/ VerifyEmail(r)
             \/ VerifyWhatsapp(r) \/ LogIn(r) \/ Rotate(r) \/ RequestFails(r)
      PROVE FALSE
  BY <1>3 DEF mark_user_verified, ReadNumber, SetPhoneNumber, VerifyEmail, VerifyWhatsapp, LogIn,
     Rotate, RequestFails
<1>4. QED
  BY <1>1, <1>2, <1>3 DEF RequestNext

LEMMA RotatingNext ==
  ASSUME OtpsType, SessionsType, ThreadsType, References, [AccountsNext]_accountsVars,
         NEW login, NEW q \in Rotating(login)'
  PROVE  \/ q \in Rotating(login) /\ ~ Rotate(q)
         \/ revoke_refresh_token(q) /\ refresh[req[q].row].login = login
<1>0. q \in Requests /\ rpc'[q] = "rotate" /\ refresh'[req'[q].row].login = login
  BY DEF Rotating
<1>1. CASE rpc'[q] = rpc[q] /\ req'[q] = req[q]
  <2>1. req[q].row \in 1 .. Len(refresh)
    BY <1>0, <1>1 DEF References, RefersTo
  <2>2. refresh[req[q].row].login = login
    BY <1>0, <1>1, <2>1, LoginsKept
  <2>3. ~ Rotate(q)
    BY <1>0 DEF Rotate, Return, ThreadsType
  <2>4. QED
    BY <1>0, <1>1, <2>2, <2>3 DEF Rotating
<1>2. CASE revoke_refresh_token(q)
  <2>1. req'[q] = req[q] /\ req[q].row \in 1 .. Len(refresh)
    BY <1>2, <1>0 DEF revoke_refresh_token, Goto, References, RefersTo
  <2>2. QED
    BY <1>0, <1>2, <2>1, LoginsKept
<1>3. ASSUME NEW r \in Requests, RequestNext(r), r # q PROVE rpc'[q] = rpc[q] /\ req'[q] = req[q]
  BY <1>0, <1>3, OneMoves DEF Moves
<1>4. QED
  BY <1>0, <1>1, <1>2, <1>3, NobodyMoves, RotateSince

LEMMA SessionSizes ==
  ASSUME SessionsType, SessionsType', NEW login
  PROVE  /\ IsFiniteSet(LiveTokens(login)) /\ Cardinality(LiveTokens(login)) \in Nat
         /\ IsFiniteSet(LiveTokens(login)') /\ Cardinality(LiveTokens(login)') \in Nat
         /\ IsFiniteSet(Rotating(login)) /\ Cardinality(Rotating(login)) \in Nat
         /\ IsFiniteSet(Rotating(login)') /\ Cardinality(Rotating(login)') \in Nat
<1>1. /\ LiveTokens(login) \in SUBSET (1 .. Len(refresh)) /\ Len(refresh) \in Nat
      /\ LiveTokens(login)' \in SUBSET (1 .. Len(refresh')) /\ Len(refresh') \in Nat
  BY DEF LiveTokens, SessionsType
<1>2. Rotating(login) \in SUBSET Requests /\ Rotating(login)' \in SUBSET Requests
  BY DEF Rotating
<1>3. IsFiniteSet(1 .. Len(refresh)) /\ IsFiniteSet(1 .. Len(refresh')) /\ IsFiniteSet(Requests)
  BY <1>1, AccountsAssumption, FS_Interval
<1>4. QED
  BY <1>1, <1>2, <1>3, FS_Subset, FS_CardinalityType

\* What becomes of the live tokens of a log-in.
LEMMA LiveAfterAppend ==
  ASSUME SessionsType, NEW u, NEW l, refresh' = Append(refresh, Token(u, l)), NEW login
  PROVE  LiveTokens(login)' = IF login = l THEN LiveTokens(login) \cup {Len(refresh) + 1}
                              ELSE LiveTokens(login)
<1>1. /\ Len(refresh) \in Nat /\ DOMAIN refresh = 1 .. Len(refresh)
      /\ DOMAIN refresh' = 1 .. Len(refresh) + 1
      /\ \A t \in 1 .. Len(refresh) : refresh'[t] = refresh[t]
      /\ refresh'[Len(refresh) + 1] = Token(u, l)
  BY DEF SessionsType
<1>2. Token(u, l).login = l /\ ~ Token(u, l).revoked
  BY DEF Token
<1>3. ASSUME NEW t PROVE t \in LiveTokens(login)' <=>
        t \in (IF login = l THEN LiveTokens(login) \cup {Len(refresh) + 1} ELSE LiveTokens(login))
  <2>1. CASE t \in 1 .. Len(refresh)
    <3>1. t # Len(refresh) + 1
      BY <1>1, <2>1
    <3>2. QED
      BY <1>1, <2>1, <3>1 DEF LiveTokens
  <2>2. CASE t = Len(refresh) + 1
    <3>1. t \notin LiveTokens(login)
      BY <1>1, <2>2 DEF LiveTokens
    <3>2. t \in LiveTokens(login)' <=> l = login
      BY <1>1, <1>2, <2>2 DEF LiveTokens
    <3>3. QED
      BY <2>2, <3>1, <3>2
  <2>3. CASE t \notin 1 .. Len(refresh) + 1
    <3>1. t \notin LiveTokens(login) /\ t \notin LiveTokens(login)' /\ t # Len(refresh) + 1
      BY <1>1, <2>3 DEF LiveTokens
    <3>2. QED
      BY <3>1
  <2>4. QED
    BY <1>1, <2>1, <2>2, <2>3
<1>4. QED
  BY <1>3

LEMMA LiveAfterRevoked ==
  ASSUME SessionsType, NEW t \in 1 .. Len(refresh), refresh' = Revoked(t), NEW login
  PROVE  LiveTokens(login)' = LiveTokens(login) \ {t}
<1> DEFINE x == [refresh[t] EXCEPT !.revoked = TRUE]
<1>1. refresh[t] \in RefreshRow /\ refresh \in Seq(RefreshRow)
  BY DEF SessionsType
<1>2. x.revoked
  BY <1>1 DEF RefreshRow
<1>3. refresh' = [refresh EXCEPT ![t] = x]
  BY DEF Revoked
<1> HIDE DEF x
<1>4. DOMAIN refresh' = DOMAIN refresh /\ refresh'[t] = x
      /\ \A s \in DOMAIN refresh \ {t} : refresh'[s] = refresh[s]
  BY <1>1, <1>3
<1>5. QED
  BY <1>2, <1>4 DEF LiveTokens

LEMMA SessionsInvNext ==
  ASSUME OtpsType, SessionsType, ThreadsType, References, SessionsInv, [AccountsNext]_accountsVars
  PROVE  SessionsInv'
<1> SUFFICES ASSUME NEW login \in 1 .. Len(refresh') PROVE SessionInv(login)'
  BY DEF SessionsInv
<1> DEFINE L == Cardinality(LiveTokens(login))
           L1 == Cardinality(LiveTokens(login)')
           R == Cardinality(Rotating(login))
           R1 == Cardinality(Rotating(login)')
           o == OneIf(login \notin outs)
           o1 == OneIf(login \notin outs')
           v == overlaps[login]
<1>a. o \in {0, 1} /\ o1 \in {0, 1}
  BY DEF OneIf
<1>b. ASSUME NEW t
      PROVE  LET x == OneIf(refresh[t].revoked)
                 y == OneIf(~ refresh[t].revoked)
             IN  x \in {0, 1} /\ y \in {0, 1} /\ x + y = 1
  <2>1. CASE refresh[t].revoked
    BY <2>1 DEF OneIf
  <2>2. CASE ~ refresh[t].revoked
    BY <2>2 DEF OneIf
  <2>3. QED
    BY <2>1, <2>2
<1>0. SessionsType' /\ Len(refresh) \in Nat /\ Len(refresh') \in Nat
  BY SessionsTypeNext DEF SessionsType
<1>1. /\ IsFiniteSet(LiveTokens(login)) /\ IsFiniteSet(Rotating(login))
      /\ L \in Nat /\ L1 \in Nat /\ R \in Nat /\ R1 \in Nat
      /\ LiveTokens(login)' \subseteq LiveTokens(login) => L1 <= L
      /\ Rotating(login)' \subseteq Rotating(login) => R1 <= R
  BY <1>0, SessionSizes, FS_Subset
<1>2. login \in 1 .. Len(refresh) => SessionInv(login) /\ overlaps[login] \in Nat
  BY DEF SessionsInv, SessionsType
<1>3. ASSUME login \notin 1 .. Len(refresh)
      PROVE  LiveTokens(login) = {} /\ Rotating(login) = {}
  BY <1>3 DEF SessionsType, LiveTokens, Rotating, References, RefersTo
<1>4. ASSUME NEW t \in LiveTokens(login), LiveTokens(login)' = LiveTokens(login) \ {t}
      PROVE  L1 = L - 1
  BY <1>1, <1>4, FS_RemoveElement
<1>5. ASSUME NEW r, Rotating(login)' \subseteq Rotating(login) \cup {r} PROVE R1 <= R + 1
  <2>1. IsFiniteSet(Rotating(login) \cup {r}) /\ Cardinality(Rotating(login) \cup {r}) <= R + 1
    <3>1. /\ IsFiniteSet(Rotating(login) \cup {r})
          /\ Cardinality(Rotating(login) \cup {r}) = IF r \in Rotating(login) THEN R ELSE R + 1
      BY <1>1, FS_AddElement
    <3>2. R \in Nat
      BY <1>1
    <3> HIDE DEF R
    <3>3. QED
      BY <3>1, <3>2
  <2>2. R1 <= Cardinality(Rotating(login) \cup {r})
    BY <1>5, <2>1, FS_Subset
  <2>3. Cardinality(Rotating(login) \cup {r}) \in Nat
    BY <2>1, FS_CardinalityType
  <2>4. QED
    BY <1>1, <2>1, <2>2, <2>3
<1>6. ASSUME NEW r \in Requests, revoke_refresh_token(r) PROVE SessionInv(login)'
  <2> DEFINE t == req[r].row
  <2>1. t \in 1 .. Len(refresh)
    BY <1>6 DEF revoke_refresh_token, References, RefersTo
  <2>2. /\ refresh' = Revoked(t) /\ UNCHANGED outs
        /\ overlaps' = More(refresh[t].login, OneIf(refresh[t].revoked))
    BY <1>6, RevokeIs
  <2>3. LiveTokens(login)' = LiveTokens(login) \ {t}
    BY <2>1, <2>2, LiveAfterRevoked
  <2>4. login \in 1 .. Len(refresh)
    BY <2>1, <2>2 DEF Revoked, SessionsType
  <2>5. \A q \in Rotating(login)' : q \in Rotating(login) \/ (q = r /\ refresh[t].login = login)
    <3>1. SUFFICES ASSUME NEW q \in Rotating(login)', q \notin Rotating(login)
                   PROVE  q = r /\ refresh[t].login = login
      OBVIOUS
    <3>2. revoke_refresh_token(q) /\ refresh[req[q].row].login = login
      BY <3>1, RotatingNext
    <3>3. q = r
      <4>1. SUFFICES ASSUME q # r PROVE FALSE
        OBVIOUS
      <4>2. rpc'[q] = "rotate" /\ rpc[q] = "revoke" /\ q \in Requests
        BY <3>1, <3>2 DEF Rotating, revoke_refresh_token
      <4>3. Moves(r)
        BY <1>6, OneMoves DEF RequestNext
      <4>4. QED
        BY <4>1, <4>2, <4>3 DEF Moves
    <3>4. QED
      BY <3>2, <3>3
  <2>6. overlaps'[login] = overlaps[login] + (IF login = refresh[t].login THEN OneIf(refresh[t].revoked) ELSE 0)
    BY <2>1, <2>2, <2>4, <1>2 DEF More, SessionsType
  <2> HIDE DEF L, L1, R, R1
  <2>7. CASE refresh[t].login # login
    <3>1. R1 <= R
      BY <1>1, <2>5, <2>7
    <3>2. L1 <= L
      BY <1>1, <2>3
    <3>3. L + R <= OneIf(login \notin outs) + overlaps[login]
      BY <1>2, <2>4 DEF SessionInv, L, R
    <3>4. L1 + R1 <= OneIf(login \notin outs) + overlaps[login]
      BY <1>1, <1>2, <2>4, <3>1, <3>2, <3>3 DEF OneIf
    <3>5. QED
      BY <1>2, <2>2, <2>4, <2>6, <2>7, <3>4 DEF SessionInv, L1, R1
  <2>8. CASE refresh[t].login = login
    <3>1. R1 <= R + 1
      BY <1>5, <2>5
    <3>2. L1 + OneIf(~ refresh[t].revoked) <= L
      <4>1. CASE refresh[t].revoked
        BY <1>1, <2>3, <4>1 DEF OneIf
      <4>2. CASE ~ refresh[t].revoked
        <5>1. t \in LiveTokens(login)
          BY <2>1, <2>8, <4>2 DEF LiveTokens, SessionsType
        <5>2. QED
          BY <1>1, <1>4, <2>3, <4>2, <5>1 DEF OneIf
      <4>3. QED
        BY <4>1, <4>2
    <3>3. L + R <= OneIf(login \notin outs) + overlaps[login]
      BY <1>2, <2>4 DEF SessionInv, L, R
    <3> DEFINE x == OneIf(refresh[t].revoked)
               y == OneIf(~ refresh[t].revoked)
    <3>a. x \in {0, 1} /\ y \in {0, 1} /\ x + y = 1 /\ L1 + y <= L /\ L + R <= o + v /\ v \in Nat
      BY <1>b, <1>2, <2>4, <3>2, <3>3
    <3>b. overlaps'[login] = v + x /\ o1 = o
      BY <2>2, <2>6, <2>8
    <3> HIDE DEF x, y, o, v
    <3>4. L1 + R1 <= o + (v + x)
      BY <1>1, <1>a, <3>1, <3>a
    <3>5. L1 + R1 <= o1 + overlaps'[login]
      BY <3>4, <3>b
    <3>6. QED
      BY <3>5 DEF SessionInv, L1, R1, o1
  <2>9. QED
    BY <2>7, <2>8
<1>7. ASSUME \A r \in Requests : ~ revoke_refresh_token(r)
      PROVE  /\ Rotating(login)' \subseteq Rotating(login)
             /\ \A r \in Requests : Rotate(r) => Rotating(login)' \subseteq Rotating(login) \ {r}
  <2>1. \A q \in Rotating(login)' : q \in Requests
    BY DEF Rotating
  <2>2. QED
    BY <1>7, <2>1, RotatingNext
<1>8. ASSUME NEW u, NEW l, refresh' = Append(refresh, Token(u, l)), l = login \/ login = Len(refresh) + 1,
             l \in 1 .. Len(refresh) + 1, login \notin 1 .. Len(refresh),
             overlaps' = Append(overlaps, 0), UNCHANGED outs, \A r \in Requests : ~ revoke_refresh_token(r)
      PROVE  SessionInv(login)'
  <2>1. login = Len(refresh) + 1
    BY <1>0, <1>8
  <2>2. overlaps'[login] = 0 /\ login \notin outs'
    BY <1>0, <1>8, <2>1 DEF SessionsType
  <2>3. Rotating(login)' = {} /\ LiveTokens(login)' \subseteq {} \cup {Len(refresh) + 1}
    BY <1>3, <1>7, <1>8, LiveAfterAppend
  <2>4. R1 = 0
    BY <2>3, FS_EmptySet
  <2>5. L1 <= 1
    <3>1. LiveTokens(login)' \subseteq {Len(refresh) + 1}
      BY <2>3
    <3>2. IsFiniteSet({Len(refresh) + 1}) /\ Cardinality({Len(refresh) + 1}) = 1
      BY FS_Singleton
    <3>3. QED
      BY <3>1, <3>2, FS_Subset
  <2>a. o1 = 1
    BY <2>2 DEF OneIf
  <2> HIDE DEF L1, R1, o1
  <2>6. L1 + R1 <= o1 + overlaps'[login]
    BY <1>1, <2>a, <2>2, <2>4, <2>5
  <2>7. QED
    BY <2>6 DEF SessionInv, L1, R1, o1
<1>9. ASSUME login \in 1 .. Len(refresh), L1 + R1 <= L + R,
             overlaps'[login] = overlaps[login], UNCHANGED outs
      PROVE  SessionInv(login)'
  <2>1. L + R <= OneIf(login \notin outs) + overlaps[login]
    BY <1>2, <1>9 DEF SessionInv
  <2>a. L + R <= o + v /\ v \in Nat /\ o1 = o /\ overlaps'[login] = v
    BY <1>2, <1>9, <2>1
  <2> HIDE DEF L, L1, R, R1, o, o1, v
  <2>2. L1 + R1 <= o1 + overlaps'[login]
    BY <1>1, <1>a, <1>9, <2>a
  <2>3. QED
    BY <2>2 DEF SessionInv, L1, R1, o1
<1>10. ASSUME NEW r \in Requests, LogIn(r), refresh' = Append(refresh, Token(req[r].user, Len(refresh) + 1)),
              overlaps' = Append(overlaps, 0), UNCHANGED outs, \A q \in Requests : ~ revoke_refresh_token(q)
       PROVE  SessionInv(login)'
  <2>1. CASE login \in 1 .. Len(refresh)
    <3>1. LiveTokens(login)' = LiveTokens(login)
      BY <1>0, <1>10, <2>1, LiveAfterAppend
    <3>2. Rotating(login)' \subseteq Rotating(login)
      BY <1>7, <1>10
    <3>3. overlaps'[login] = overlaps[login]
      BY <1>10, <2>1 DEF SessionsType
    <3>4. L1 <= L /\ R1 <= R
      BY <1>1, <3>1, <3>2
    <3>5. L1 + R1 <= L + R
      BY <1>1, <3>4
    <3>6. QED
      BY <1>9, <1>10, <2>1, <3>3, <3>5
  <2>2. CASE login \notin 1 .. Len(refresh)
    <3>1. Len(refresh') = Len(refresh) + 1
      BY <1>10 DEF SessionsType
    <3>2. login = Len(refresh) + 1 /\ Len(refresh) + 1 \in 1 .. Len(refresh) + 1
      BY <1>0, <2>2, <3>1
    <3>3. QED
      BY <1>8, <1>10, <2>2, <3>2
  <2>3. QED
    BY <2>1, <2>2
<1>11. ASSUME NEW r \in Requests, Rotate(r),
              refresh' = Append(refresh, Token(refresh[req[r].row].user, refresh[req[r].row].login)),
              overlaps' = Append(overlaps, 0), UNCHANGED outs, \A q \in Requests : ~ revoke_refresh_token(q)
       PROVE  SessionInv(login)'
  <2> DEFINE l == refresh[req[r].row].login
  <2>0. req[r].row \in 1 .. Len(refresh) /\ l \in 1 .. Len(refresh)
    BY <1>11 DEF Rotate, References, RefersTo, SessionsType
  <2>1. CASE login \in 1 .. Len(refresh)
    <3>1. Rotating(login)' \subseteq Rotating(login) \ {r}
      BY <1>7, <1>11
    <3>2. overlaps'[login] = overlaps[login]
      BY <1>11, <2>1 DEF SessionsType
    <3>3. LiveTokens(login)' = IF login = l THEN LiveTokens(login) \cup {Len(refresh) + 1}
                              ELSE LiveTokens(login)
      BY <1>11, LiveAfterAppend
    <3>4. CASE login # l
      <4>1. L1 <= L /\ R1 <= R
        BY <1>1, <3>1, <3>3, <3>4
      <4>2. L1 + R1 <= L + R
        BY <1>1, <4>1
      <4>3. QED
        BY <1>9, <1>11, <2>1, <3>2, <4>2
    <3>5. CASE login = l
      <4>1. r \in Rotating(login)
        BY <1>11, <3>5 DEF Rotate, Rotating
      <4>2. IsFiniteSet(Rotating(login) \ {r}) /\ Cardinality(Rotating(login) \ {r}) = R - 1
        BY <1>1, <4>1, FS_RemoveElement
      <4>3. R1 <= R - 1
        BY <3>1, <4>2, FS_Subset
      <4>4. L1 <= L + 1
        <5>1. LiveTokens(login)' = LiveTokens(login) \cup {Len(refresh) + 1}
          BY <3>3, <3>5
        <5>2. L1 = IF Len(refresh) + 1 \in LiveTokens(login) THEN L ELSE L + 1
          BY <1>1, <5>1, FS_AddElement
        <5>3. L \in Nat
          BY <1>1
        <5> HIDE DEF L, L1
        <5>4. QED
          BY <5>2, <5>3
      <4>5. L1 + R1 <= L + R
        BY <1>1, <4>3, <4>4
      <4>6. QED
        BY <1>9, <1>11, <2>1, <3>2, <4>5
    <3>6. QED
      BY <3>4, <3>5
  <2>2. CASE login \notin 1 .. Len(refresh)
    <3>1. Len(refresh') = Len(refresh) + 1
      BY <1>11 DEF SessionsType
    <3>2. login = Len(refresh) + 1 /\ l \in 1 .. Len(refresh) + 1
      BY <1>0, <2>0, <2>2, <3>1
    <3>3. QED
      BY <1>8, <1>11, <2>2, <3>2
  <2>3. QED
    BY <2>1, <2>2
<1>12. ASSUME NEW t \in 1 .. Len(refresh), refresh' = Revoked(t),
              overlaps' = More(refresh[t].login, OneIf(refresh[t].revoked)),
              outs' = outs \cup {refresh[t].login}, \A q \in Requests : ~ revoke_refresh_token(q)
       PROVE  SessionInv(login)'
  <2>1. LiveTokens(login)' = LiveTokens(login) \ {t} /\ Rotating(login)' \subseteq Rotating(login)
    BY <1>7, <1>12, LiveAfterRevoked
  <2>2. login \in 1 .. Len(refresh)
    BY <1>12 DEF Revoked, SessionsType
  <2>3. L1 <= L /\ R1 <= R
    BY <1>1, <2>1
  <2>4. CASE refresh[t].login # login
    <3>1. overlaps'[login] = overlaps[login] /\ (login \in outs' <=> login \in outs)
      BY <1>12, <2>2, <2>4 DEF More, SessionsType
    <3>2. L + R <= OneIf(login \notin outs) + overlaps[login]
      BY <1>2, <2>2 DEF SessionInv
    <3>3. (login \notin outs') = (login \notin outs)
      BY <3>1
    <3>a. L + R <= o + v /\ v \in Nat /\ o1 = o /\ overlaps'[login] = v
      BY <1>2, <2>2, <3>1, <3>2, <3>3
    <3> HIDE DEF L, L1, R, R1, o, o1, v
    <3>4. L1 + R1 <= o1 + overlaps'[login]
      BY <1>1, <1>a, <2>3, <3>a
    <3>5. QED
      BY <3>4 DEF SessionInv, L1, R1, o1
  <2>5. CASE refresh[t].login = login
    <3>1. overlaps'[login] = overlaps[login] + OneIf(refresh[t].revoked) /\ login \in outs'
      BY <1>12, <2>2, <2>5 DEF More, SessionsType
    <3>2. L + R <= OneIf(login \notin outs) + overlaps[login]
      BY <1>2, <2>2 DEF SessionInv
    <3>3. L1 + OneIf(~ refresh[t].revoked) <= L
      <4>1. CASE refresh[t].revoked
        BY <1>1, <2>3, <4>1 DEF OneIf
      <4>2. CASE ~ refresh[t].revoked
        <5>1. t \in LiveTokens(login)
          BY <1>12, <2>5, <4>2 DEF LiveTokens, SessionsType
        <5>2. L1 = L - 1
          BY <1>4, <2>1, <5>1
        <5>3. OneIf(~ refresh[t].revoked) = 1
          BY <4>2 DEF OneIf
        <5> HIDE DEF L, L1
        <5>4. QED
          BY <1>1, <5>2, <5>3
      <4>3. QED
        BY <4>1, <4>2
    <3>4. o1 = 0
      BY <3>1 DEF OneIf
    <3> DEFINE x == OneIf(refresh[t].revoked)
               y == OneIf(~ refresh[t].revoked)
    <3>a. x \in {0, 1} /\ y \in {0, 1} /\ x + y = 1 /\ L1 + y <= L /\ L + R <= o + v /\ v \in Nat
      BY <1>b, <1>2, <2>2, <3>2, <3>3
    <3>b. overlaps'[login] = v + x
      BY <3>1
    <3> HIDE DEF L, L1, R, R1, x, y, o, o1, v
    <3>5. L1 + R1 <= o1 + overlaps'[login]
      BY <1>1, <1>a, <2>3, <3>4, <3>a, <3>b
    <3>6. QED
      BY <3>5 DEF SessionInv, L1, R1, o1
  <2>6. QED
    BY <2>4, <2>5
<1>13. ASSUME UNCHANGED <<refresh, outs, overlaps>>, \A q \in Requests : ~ revoke_refresh_token(q)
       PROVE  SessionInv(login)'
  <2>1. LiveTokens(login)' = LiveTokens(login) /\ Rotating(login)' \subseteq Rotating(login)
    BY <1>7, <1>13 DEF LiveTokens
  <2>2. L1 <= L /\ R1 <= R
    BY <1>1, <2>1
  <2>3. L1 + R1 <= L + R
    BY <1>1, <2>2
  <2>4. QED
    BY <1>9, <1>13, <2>3
<1> HIDE DEF L, L1, R, R1
<1>14. QED
  BY <1>6, <1>10, <1>11, <1>12, <1>13, SessionsStep

-----------------------------------------------------------------------------
(* What the requests refer to stays there.                                 *)

\* A request that does not move finds what it refers to where it was.
LEMMA StillThere ==
  ASSUME UsersType, OtpsType, ThreadsType, SessionsType, References, CodesInv, CountsType,
         [AccountsNext]_accountsVars, NEW q \in Requests, rpc'[q] = rpc[q], req'[q] = req[q]
  PROVE  RefersTo(q)'
<1>1. /\ \A i \in 1 .. Len(otps) : i \in 1 .. Len(otps')
      /\ \A i \in 1 .. Len(refresh) : i \in 1 .. Len(refresh')
  <2>1. Len(otps) \in Nat /\ Len(otps') \in Nat /\ Len(otps) <= Len(otps')
    BY CodesGrow
  <2>2. \A i \in 1 .. Len(refresh) : i \in 1 .. Len(refresh')
    BY LoginsKept
  <2>3. QED
    BY <2>1, <2>2
<1>2. \A u : HasAccount(u) => HasAccount(u)'
  BY UsersNext DEF HasAccount
<1>3. RefersTo(q)
  BY DEF References
<1>4. QED
  BY <1>1, <1>2, <1>3 DEF RefersTo

\* Where a request gets to.
LEMMA MovesOn ==
  ASSUME UsersType, OtpsType, ThreadsType, SessionsType, References, CodesInv, CountsType,
         NEW r \in Requests, RequestNext(r)
  PROVE  RefersTo(r)'
<1>0. [AccountsNext]_accountsVars
  BY DEF AccountsNext
<1>1. /\ Len(otps) \in Nat /\ Len(otps') \in Nat /\ Len(otps) <= Len(otps')
      /\ \A i \in 1 .. Len(otps) : i \in 1 .. Len(otps')
  BY <1>0, CodesGrow
<1>2. \A i \in 1 .. Len(refresh) : i \in 1 .. Len(refresh')
  BY <1>0, LoginsKept
<1>3. \A u : HasAccount(u) => HasAccount(u)'
  BY <1>0, UsersNext DEF HasAccount
<1>4. RefersTo(r)
  BY DEF References
<1>5. ASSUME Return(r) PROVE RefersTo(r)'
  <2>1. rpc'[r] = "idle"
    BY <1>5 DEF Return, ThreadsType
  <2>2. QED
    BY <2>1 DEF RefersTo, RowSteps
<1>6. ASSUME NEW step, Goto(r, step) PROVE rpc'[r] = step /\ req'[r] = req[r]
  BY <1>6 DEF Goto, ThreadsType
<1>7. ASSUME NEW step, NEW arguments, Begin(r, step, arguments) PROVE rpc'[r] = step /\ req'[r] = arguments
  BY <1>7 DEF Begin, ThreadsType
<1>8. ASSUME NEW u \in Users, NEW place \in Places, SendOtp(r, u, place) PROVE RefersTo(r)'
  <2>1. /\ rpc'[r] = IF place.kind = "email" THEN "owner" ELSE "limit"
        /\ req'[r] = [Idle EXCEPT !.user = u, !.place = place]
    BY <1>7, <1>8 DEF SendOtp
  <2>2. req'[r].user = u /\ req'[r].place = place
    BY <2>1 DEF Idle
  <2>3. place.kind # "phone" => HasAccount(u)'
    BY <1>3, <1>8 DEF SendOtp, HasAccount
  <2>4. place.kind = "phone" => place = PhoneOf[u]
    BY <1>8 DEF SendOtp
  <2>5. QED
    BY <2>1, <2>2, <2>3, <2>4 DEF RefersTo, RowSteps
<1>9. CASE CheckOwner(r)
  <2>1. CASE Return(r)
    BY <1>5, <2>1
  <2>2. CASE Goto(r, "limit")
    BY <1>3, <1>4, <1>6, <1>9, <2>2 DEF CheckOwner, RefersTo, RowSteps
  <2>3. QED
    BY <1>9, <2>1, <2>2 DEF CheckOwner
<1>10. CASE CheckLimit(r)
  <2>1. CASE Return(r)
    BY <1>5, <2>1
  <2>2. CASE Goto(r, IF req[r].place.kind = "phone" THEN "upsert" ELSE "save")
    <3>1. /\ rpc'[r] = IF req[r].place.kind = "phone" THEN "upsert" ELSE "save"
          /\ req'[r] = req[r] /\ rpc[r] = "limit"
      BY <1>6, <1>10, <2>2 DEF CheckLimit
    <3>2. QED
      BY <1>3, <1>4, <3>1 DEF RefersTo, RowSteps
  <2>3. QED
    BY <1>10, <2>1, <2>2 DEF CheckLimit
<1>11. CASE upsert_user(r)
  <2>1. rpc'[r] = "save" /\ req'[r] = req[r] /\ rpc[r] = "upsert"
    BY <1>6, <1>11 DEF upsert_user
  <2>2. HasAccount(req[r].user)'
    <3> DEFINE u == req[r].user
    <3>1. u \in Users
      BY <1>4, <2>1 DEF RefersTo
    <3>2. CASE users[u] # NoValue
      BY <1>3, <2>1, <3>1, <3>2 DEF HasAccount
    <3>3. CASE users[u] = NoValue
      <4> DEFINE row(number) == [Old EXCEPT !.verified = FALSE, !.whatsapp_number = number]
      <4>1. PICK number \in {PhoneOf[u]} \cup Addresses("whatsapp") : users' = [users EXCEPT ![u] = row(number)]
        BY <1>11, <3>3 DEF upsert_user
      <4>2. number \in Places \cup {NoValue} \cup {PhoneOf[w] : w \in Users}
        BY <3>1 DEF Addresses
      <4>3. row(number) \in UserRow
        BY <4>2 DEF Old, UserRow, Addresses
      <4> HIDE DEF row
      <4>4. users'[u] = row(number)
        BY <3>1, <4>1 DEF UsersType
      <4>5. req'[r].user = u
        BY <2>1
      <4>6. QED
        BY <3>1, <4>3, <4>4, <4>5, RowAssumption DEF HasAccount
    <3>4. QED
      BY <3>2, <3>3
  <2>3. QED
    BY <1>4, <2>1, <2>2 DEF RefersTo, RowSteps
<1>12. CASE save_otp(r) \/ VerifyEmail(r) \/ VerifyWhatsapp(r) \/ LogIn(r) \/ Rotate(r) \/ RequestFails(r)
  <2>1. Return(r)
    BY <1>12 DEF save_otp, VerifyEmail, VerifyWhatsapp, LogIn, Rotate, RequestFails
  <2>2. QED
    BY <1>5, <2>1
<1>13. ASSUME NEW u \in Users, NEW place \in Places, NEW right \in BOOLEAN, Lookup(r, u, place, right)
       PROVE  RefersTo(r)'
  <2> DEFINE i == Latest(place)
  <2>1. /\ rpc'[r] = "increment" /\ req'[r].user = u /\ req'[r].place = place /\ req'[r].row = i
    BY <1>7, <1>13 DEF Lookup
  <2>2. i \in 1 .. Len(otps) /\ otps[i].place = place
    BY <1>13, LatestIsRow DEF Lookup, MayUse
  <2>3. place.kind = "phone" => place = PhoneOf[u]
    BY <1>13 DEF Lookup
  <2>4. CodeHasAccount(i) /\ (place.kind # "phone" => otps[i].user = u)
    BY <1>13, <2>2 DEF References, Lookup, MayUse
  <2> HIDE DEF i
  <2>5. HasAccount(u)
    BY <2>2, <2>3, <2>4 DEF CodeHasAccount, HasAccount
  <2>6. QED
    BY <1>1, <1>3, <2>1, <2>2, <2>3, <2>5 DEF RefersTo, RowSteps
<1>14. CASE ReadAttempts(r)
  <2>1. /\ rpc'[r] = "write" /\ rpc[r] = "increment"
        /\ req'[r].user = req[r].user /\ req'[r].place = req[r].place /\ req'[r].row = req[r].row
    BY <1>14 DEF ReadAttempts, ThreadsType, ReqRow
  <2>2. QED
    BY <1>1, <1>3, <1>4, <2>1 DEF RefersTo, RowSteps
<1>15. CASE increment_otp_attempts(r)
  <2>1. CASE Return(r)
    BY <1>5, <2>1
  <2>2. CASE Goto(r, "mark")
    <3>1. rpc'[r] = "mark" /\ rpc[r] = "write" /\ req'[r] = req[r]
      BY <1>6, <1>15, <2>2 DEF increment_otp_attempts
    <3>2. QED
      BY <1>1, <1>3, <1>4, <3>1 DEF RefersTo, RowSteps
  <2>3. QED
    BY <1>15, <2>1, <2>2 DEF increment_otp_attempts
<1>16. CASE mark_otp_used(r) \/ mark_user_verified(r) \/ ReadNumber(r) \/ SetPhoneNumber(r)
  <2>1. /\ rpc[r] \in RowSteps /\ rpc'[r] \in {"apply", "number", "set", "session"}
        /\ req'[r] = req[r]
    <3>1. CASE mark_otp_used(r)
      BY <1>6, <3>1 DEF mark_otp_used, RowSteps
    <3>2. CASE mark_user_verified(r)
      BY <1>6, <3>2 DEF mark_user_verified, RowSteps
    <3>3. CASE ReadNumber(r)
      BY <1>6, <3>3 DEF ReadNumber, RowSteps
    <3>4. CASE SetPhoneNumber(r)
      BY <1>6, <3>4 DEF SetPhoneNumber, RowSteps
    <3>5. QED
      BY <1>16, <3>1, <3>2, <3>3, <3>4
  <2>2. QED
    BY <1>1, <1>3, <1>4, <2>1 DEF RefersTo, RowSteps
<1>17. ASSUME NEW t \in DOMAIN refresh, Refresh(r, t) PROVE RefersTo(r)'
  <2>1. rpc'[r] = "revoke" /\ req'[r] = [Idle EXCEPT !.row = t] /\ t \in 1 .. Len(refresh)
    BY <1>7, <1>17 DEF Refresh, SessionsType
  <2>2. req'[r].row = t
    BY <2>1 DEF Idle
  <2>3. QED
    BY <1>2, <2>1, <2>2 DEF RefersTo, RowSteps
<1>18. CASE revoke_refresh_token(r)
  <2>1. rpc[r] = "revoke" /\ rpc'[r] = "rotate" /\ req'[r] = req[r]
    BY <1>6, <1>18 DEF revoke_refresh_token
  <2>2. QED
    BY <1>2, <1>4, <2>1 DEF RefersTo, RowSteps
<1>19. QED
  BY <1>8, <1>9, <1>10, <1>11, <1>12, <1>13, <1>14, <1>15, <1>16, <1>17, <1>18 DEF RequestNext

LEMMA ReferencesNext ==
  ASSUME UsersType, OtpsType, ThreadsType, SessionsType, References, CodesInv, CountsType,
         [AccountsNext]_accountsVars
  PROVE  References'
<1>1. ASSUME NEW q \in Requests PROVE RefersTo(q)'
  <2>1. CASE UNCHANGED <<rpc, req>>
    BY <2>1, StillThere
  <2>2. CASE \E r \in Requests : RequestNext(r)
    <3>1. PICK r \in Requests : RequestNext(r)
      BY <2>2
    <3>2. CASE q = r
      BY <3>1, <3>2, MovesOn
    <3>3. CASE q # r
      <4>1. rpc'[q] = rpc[q] /\ req'[q] = req[q]
        BY <3>1, <3>3, OneMoves DEF Moves
      <4>2. QED
        BY <4>1, StillThere
    <3>4. QED
      BY <3>2, <3>3
  <2>3. QED
    BY <2>1, <2>2, NobodyMoves
<1>2. ASSUME NEW i \in 1 .. Len(otps') PROVE CodeHasAccount(i)'
  <2>1. \A u \in Users : users[u] # NoValue => users'[u] # NoValue
    BY UsersNext
  <2>2. CASE i \in 1 .. Len(otps)
    <3>1. otps'[i].place = otps[i].place /\ otps'[i].user = otps[i].user
      BY <2>2, CodesGrow
    <3>2. CodeHasAccount(i)
      BY <2>2 DEF References
    <3>3. QED
      BY <2>1, <3>1, <3>2 DEF CodeHasAccount, HasAccount
  <2>3. CASE i \notin 1 .. Len(otps)
    <3>1. ~ UNCHANGED otps
      BY <2>3
    <3>2. ASSUME NEW j, NEW e, otps' = [otps EXCEPT ![j] = e] PROVE FALSE
      <4>1. Len(otps') = Len(otps)
        BY <3>2 DEF OtpsType
      <4>2. QED
        BY <2>3, <4>1
    <3>3. PICK r \in Requests : save_otp(r) /\ otps' = Append(otps, NewCode(r))
      BY <3>1, <3>2, CodesStep
    <3>4. i = Len(otps) + 1 /\ otps'[i] = NewCode(r)
      BY <2>3, <3>3 DEF OtpsType
    <3>5. RefersTo(r) /\ rpc[r] = "save"
      BY <3>3 DEF References, save_otp
    <3>6. /\ HasAccount(req[r].user) /\ req[r].user \in Users
          /\ req[r].place.kind = "phone" => req[r].place = PhoneOf[req[r].user]
      BY <3>5 DEF RefersTo
    <3>7. \A u \in Users : PhoneOf[u] = PhoneOf[req[r].user] => u = req[r].user
      BY <3>6, AccountsAssumption
    <3>8. QED
      BY <2>1, <3>4, <3>6, <3>7 DEF CodeHasAccount, HasAccount, NewCode
  <2>4. QED
    BY <2>2, <2>3
<1>3. QED
  BY <1>1, <1>2 DEF References

LEMMA CountsTypeNext == CountsType /\ [AccountsNext]_accountsVars => CountsType'
<1> SUFFICES ASSUME CountsType, [AccountsNext]_accountsVars PROVE CountsType'
  OBVIOUS
<1>0. MaxMinutes \in Nat /\ MaxCalls \in Nat
  BY AccountsAssumption
<1>1. Minute => CountsType'
  BY <1>0 DEF Minute, CountsType
<1>2. UNCHANGED minute /\ (UNCHANGED calls \/ Call) => CountsType'
  BY <1>0 DEF Call, CountsType
<1>3. (\E t \in DOMAIN refresh : Logout(t)) \/ (\E u \in Users : UpdateProfile(u)) \/ UNCHANGED accountsVars
      => UNCHANGED minute /\ (UNCHANGED calls \/ Call)
  BY DEF Logout, UpdateProfile, accountsVars
<1>4. ASSUME NEW r \in Requests, RequestNext(r) PROVE UNCHANGED minute /\ (UNCHANGED calls \/ Call)
  <2>1. CASE \/ \E u \in Users, place \in Places : SendOtp(r, u, place)
             \/ \E u \in Users, place \in Places, right \in BOOLEAN : Lookup(r, u, place, right)
             \/ \E t \in DOMAIN refresh : Refresh(r, t)
    BY <2>1 DEF SendOtp, Lookup, Refresh, Begin
  <2>2. CASE CheckOwner(r) \/ CheckLimit(r) \/ upsert_user(r) \/ save_otp(r) \/ ReadAttempts(r)
    BY <2>2 DEF CheckOwner, CheckLimit, upsert_user, save_otp, ReadAttempts
  <2>3. CASE increment_otp_attempts(r) \/ mark_otp_used(r) \/ mark_user_verified(r) \/ ReadNumber(r)
    BY <2>3 DEF increment_otp_attempts, mark_otp_used, mark_user_verified, ReadNumber
  <2>4. CASE SetPhoneNumber(r) \/ VerifyEmail(r) \/ VerifyWhatsapp(r) \/ LogIn(r)
             \/ revoke_refresh_token(r) \/ Rotate(r) \/ RequestFails(r)
    BY <2>4 DEF SetPhoneNumber, VerifyEmail, VerifyWhatsapp, LogIn, revoke_refresh_token, Rotate, RequestFails
  <2>5. QED
    BY <1>4, <2>1, <2>2, <2>3, <2>4 DEF RequestNext
<1>5. QED
  BY <1>1, <1>2, <1>3, <1>4 DEF AccountsNext

-----------------------------------------------------------------------------

AccountsInv ==
  /\ UsersType /\ ThreadsType /\ OtpsType /\ SessionsType /\ CountsType /\ References
  /\ CodesInv /\ SessionsInv

LEMMA AccountsInvInit == AccountsInit => AccountsInv
<1> SUFFICES ASSUME AccountsInit PROVE AccountsInv
  OBVIOUS
<1>1. UsersType /\ ThreadsType /\ OtpsType /\ SessionsType /\ CountsType /\ References
  BY AccountsStart
<1>2. Len(otps) = 0 /\ Len(refresh) = 0 /\ \A r \in Requests : rpc[r] = "idle"
  BY DEF AccountsInit
<1>3. CodesInv /\ SessionsInv
  BY <1>2 DEF CodesInv, CompareInv, SessionsInv
<1>4. QED
  BY <1>1, <1>3 DEF AccountsInv

LEMMA AccountsInvNext == AccountsInv /\ [AccountsNext]_accountsVars => AccountsInv'
<1> SUFFICES ASSUME AccountsInv, [AccountsNext]_accountsVars PROVE AccountsInv'
  OBVIOUS
<1> USE DEF AccountsInv
<1>1. UsersType' /\ OtpsType' /\ SessionsType' /\ CountsType'
  BY UsersNext, CodesTypeNext, SessionsTypeNext, CountsTypeNext
<1>2. ThreadsType'
  <2>1. CASE UNCHANGED <<rpc, req>>
    BY <2>1 DEF ThreadsType
  <2>2. QED
    BY <2>1, NobodyMoves, OneMoves
<1>3. References' /\ CodesInv' /\ SessionsInv'
  BY ReferencesNext, CodesInvNext, SessionsInvNext
<1>4. QED
  BY <1>1, <1>2, <1>3

LEMMA AccountsInvImplies == AccountsInv => AccountsTypeOK /\ AccountsKept
<1> SUFFICES ASSUME AccountsInv PROVE AccountsTypeOK /\ AccountsKept
  BY DEF AccountsInv
<1> USE DEF AccountsInv
<1>1. AccountsTypeOK
  <2>1. DOMAIN otps = 1 .. Len(otps) /\ DOMAIN refresh = 1 .. Len(refresh)
    BY DEF OtpsType, SessionsType
  <2>2. overlaps \in [1 .. Len(refresh) -> Nat]
    BY DEF SessionsType
  <2>3. \A r \in Requests : RefersTo(r)
    BY DEF References
  <2>4. QED
    BY <2>1, <2>2, <2>3 DEF AccountsTypeOK, UsersType, ThreadsType, OtpsType, SessionsType, CountsType,
       ReqRow, RefersTo, RowSteps
<1>2. CodesLimited
  <2>1. SUFFICES ASSUME NEW i \in 1 .. Len(otps)
                 PROVE  /\ otps[i].compared <= OtpMaxAttempts + otps[i].overtaken
                        /\ otps[i].accepted <= Cardinality(Requests)
    BY DEF CodesLimited, OtpsType
  <2>2. CodeInv(i) /\ otps[i] \in OtpRow
    BY DEF CodesInv, OtpsType
  <2>3. otps[i].accepted \in Nat
    BY <2>2 DEF OtpRow
  <2>4. Cardinality(MayAccept(i)) \in Nat /\ Cardinality(Requests) \in Nat
    BY MayAcceptSize
  <2> DEFINE M == Cardinality(MayAccept(i))
             N == Cardinality(Requests)
             a == otps[i].accepted
  <2>5. a + M <= N
    BY <2>2 DEF CodeInv
  <2>6. a <= N
    <3> HIDE DEF a, M, N
    <3>1. a \in Nat /\ M \in Nat /\ N \in Nat
      BY <2>3, <2>4 DEF a, M, N
    <3>2. QED
      BY <2>5, <3>1
  <2>7. QED
    BY <2>2, <2>6 DEF CodeInv
<1>3. SessionsBounded
  <2>1. SUFFICES ASSUME NEW login \in 1 .. Len(refresh)
                 PROVE  Cardinality(LiveTokens(login)) <= (IF login \in outs THEN 0 ELSE 1) + overlaps[login]
    BY DEF SessionsBounded, SessionsType
  <2> DEFINE L == Cardinality(LiveTokens(login))
             R == Cardinality(Rotating(login))
             o == OneIf(login \notin outs)
             v == overlaps[login]
  <2>2. L + R <= o + v
    BY DEF SessionsInv, SessionInv
  <2>3. L \in Nat /\ R \in Nat
    <3>1. LiveTokens(login) \in SUBSET (1 .. Len(refresh)) /\ IsFiniteSet(1 .. Len(refresh))
      BY FS_Interval DEF LiveTokens, SessionsType
    <3>2. Rotating(login) \in SUBSET Requests /\ IsFiniteSet(Requests)
      BY AccountsAssumption DEF Rotating
    <3>3. QED
      BY <3>1, <3>2, FS_Subset, FS_CardinalityType
  <2>4. o = (IF login \in outs THEN 0 ELSE 1)
    BY DEF OneIf
  <2>5. o \in Nat /\ v \in Nat
    BY DEF OneIf, SessionsType
  <2> HIDE DEF L, R, o, v
  <2>6. L <= o + v
    BY <2>2, <2>3, <2>5
  <2>7. QED
    BY <2>4, <2>6 DEF L, v
<1>4. QED
  BY <1>1, <1>2, <1>3 DEF AccountsKept

\* Codes are not guessed and sessions not multiplied by requests at the same time, but for
\* those that are at the same row, for any number of users, addresses and requests.
THEOREM AccountsCorrect == AccountsSpec => [](AccountsTypeOK /\ AccountsKept)
<1>1. AccountsSpec => []AccountsInv
  BY AccountsInvInit, AccountsInvNext, PTL DEF AccountsSpec
<1>2. QED
  BY <1>1, AccountsInvImplies, PTL

-----------------------------------------------------------------------------
(* Contacts: the threads.                                                  *)

HandlerRow ==
  [who : Persons \cup {None}, where : Emails \cup Chats \cup {None},
   channels : SUBSET MessageChannels, row : PersonRow \cup {None},
   update : Updates \cup {<< >>},
   seen : [Keys -> BOOLEAN] \cup {<< >>}, overlapped : SUBSET Keys]

\* What a thread has read by then.
WellFormed(step, request) ==
  /\ step # "idle" => request.who \in Persons
  /\ step = "merge" => request.update \in Updates /\ request.seen \in [Keys -> BOOLEAN]
  /\ step = "pref" => request.row \in PersonRow /\ request.channels = {"email"}
  /\ step = "post" => \E ch \in MessageChannels : request.channels = {ch}

HandlersType ==
  /\ hpc \in [Handlers -> HandlerStep] /\ hreq \in [Handlers -> HandlerRow]
  /\ \A r \in Handlers : WellFormed(hpc[r], hreq[r])

SettingsType ==
  /\ settings \in [Persons -> [Keys -> BOOLEAN]] /\ wanted \in [Persons -> [Keys -> BOOLEAN]]
  /\ disturbed \subseteq Persons \X Keys
PersonType == person \in [Persons -> PersonRow]
PrefType == alert_pref \in [Persons -> AlertPref \cup {None}]
MailType == mailed \subseteq Emails /\ bounced \subseteq Emails /\ held \subseteq Persons \X Emails
StopsType ==
  /\ queued \in [Persons \X MessageChannels -> Nat]
  /\ stopped \subseteq Persons \X Stops
  /\ owed \in [Persons \X Stops -> Nat] /\ heard \in [Persons \X Stops -> Nat]
LimitsType == contactCalls \in 0 .. MaxContactCalls /\ contactFaults \in 0 .. MaxContactFaults

\* A step of a thread leaves the others where they are, with what they have read.
Stays(q) ==
  /\ hpc'[q] = hpc[q] /\ hreq'[q].who = hreq[q].who /\ hreq'[q].where = hreq[q].where
  /\ hreq'[q].channels = hreq[q].channels /\ hreq'[q].row = hreq[q].row
  /\ hreq'[q].update = hreq[q].update /\ hreq'[q].seen = hreq[q].seen
  /\ hreq[q].overlapped \subseteq hreq'[q].overlapped

Others(r) == HandlersType' /\ \A q \in Handlers \ {r} : Stays(q)

LEMMA NoRequestType == NoRequest \in HandlerRow /\ WellFormed("idle", NoRequest) /\ "idle" \in HandlerStep
<1>1. NoRequest \in HandlerRow
  BY DEF NoRequest, HandlerRow
<1>2. QED
  BY <1>1 DEF WellFormed, HandlerStep

LEMMA ProceedMoves ==
  ASSUME HandlersType, NEW r \in Handlers, NEW step \in HandlerStep, NEW request \in HandlerRow,
         WellFormed(step, request), Proceed(r, step, request)
  PROVE  Others(r) /\ hpc'[r] = step /\ hreq'[r] = request
BY DEF HandlersType, Proceed, Others, Stays

LEMMA DoneMoves ==
  ASSUME HandlersType, NEW r \in Handlers, HandlerDone(r)
  PROVE  Others(r) /\ hpc'[r] = "idle" /\ hreq'[r] = NoRequest
BY ProceedMoves, NoRequestType DEF HandlerDone

LEMMA ContactsStart ==
  ASSUME ContactsInit
  PROVE  HandlersType /\ SettingsType /\ PersonType /\ PrefType /\ MailType /\ StopsType /\ LimitsType
<1>1. HandlersType
  BY NoRequestType DEF ContactsInit, HandlersType
<1>2. SettingsType /\ PrefType /\ StopsType
  BY DEF ContactsInit, SettingsType, PrefType, StopsType
<1>3. LimitsType
  BY ContactsAssumption DEF ContactsInit, LimitsType
<1>4. Newcomer \in PersonRow
  BY DEF Newcomer, PersonRow
<1>5. Settled(FirstEmail, FirstChat) \in PersonRow
  BY <1>4, ContactsAssumption DEF Settled, PersonRow
<1>6. PersonType
  BY <1>4, <1>5 DEF ContactsInit, PersonType
<1>7. MailType
  <2>1. \A u \in Persons : person[u].email_verified => u = First
    BY DEF ContactsInit, Newcomer
  <2>2. person[First].email = FirstEmail
    BY <1>4, ContactsAssumption DEF ContactsInit, Settled, PersonRow
  <2>3. held \subseteq Persons \X Emails
    BY <2>1, <2>2, ContactsAssumption DEF ContactsInit
  <2>4. QED
    BY <2>3 DEF ContactsInit, MailType
<1>8. QED
  BY <1>1, <1>2, <1>3, <1>6, <1>7

\* Where the threads get to: what each of them does by itself.
LEMMA get_notification_prefsMoves ==
  ASSUME HandlersType, SettingsType, NEW r \in Handlers, NEW u \in Persons, NEW update \in Updates,
         get_notification_prefs(r, u, update)
  PROVE  /\ Others(r) /\ hpc'[r] = "merge"
         /\ hreq'[r] = [NoRequest EXCEPT !.who = u, !.update = update, !.seen = settings[u]]
<1> DEFINE request == [NoRequest EXCEPT !.who = u, !.update = update, !.seen = settings[u]]
<1>1. settings[u] \in [Keys -> BOOLEAN]
  BY DEF SettingsType
<1>2. request \in HandlerRow /\ request.who = u /\ request.update = update /\ request.seen = settings[u]
  BY <1>1, NoRequestType DEF HandlerRow
<1>3. Proceed(r, "merge", request)
  BY DEF get_notification_prefs
<1> HIDE DEF request
<1>4. WellFormed("merge", request) /\ "merge" \in HandlerStep
  BY <1>1, <1>2 DEF WellFormed, HandlerStep
<1>5. QED
  BY <1>2, <1>3, <1>4, ProceedMoves DEF request

LEMMA subscribe_causelist_alertMoves ==
  ASSUME HandlersType, NEW r \in Handlers, NEW u \in Persons, subscribe_causelist_alert(r, u)
  PROVE  Others(r) /\ hpc'[r] = "enable" /\ hreq'[r].who = u
<1> DEFINE request == [NoRequest EXCEPT !.who = u]
<1>1. request \in HandlerRow /\ request.who = u
  BY NoRequestType DEF HandlerRow
<1>2. Proceed(r, "enable", request)
  BY DEF subscribe_causelist_alert
<1> HIDE DEF request
<1>3. WellFormed("enable", request) /\ "enable" \in HandlerStep
  BY <1>1 DEF WellFormed, HandlerStep
<1>4. QED
  BY <1>1, <1>2, <1>3, ProceedMoves

LEMMA ReadUserMoves ==
  ASSUME HandlersType, PersonType, NEW r \in Handlers, NEW u \in Persons, ReadUser(r, u)
  PROVE  Others(r) /\ hpc'[r] = "pref" /\ hreq'[r].who = u /\ hreq'[r].row = person[u]
<1> DEFINE request == [NoRequest EXCEPT !.who = u, !.row = person[u], !.channels = {"email"}]
<1>1. person[u] \in PersonRow
  BY DEF PersonType
<1>2. request \in HandlerRow /\ request.who = u /\ request.row = person[u] /\ request.channels = {"email"}
  BY <1>1, NoRequestType DEF HandlerRow, MessageChannels
<1>3. Proceed(r, "pref", request)
  BY DEF ReadUser
<1> HIDE DEF request
<1>4. WellFormed("pref", request) /\ "pref" \in HandlerStep
  BY <1>1, <1>2 DEF WellFormed, HandlerStep
<1>5. QED
  BY <1>2, <1>3, <1>4, ProceedMoves

LEMMA ChooseMoves ==
  ASSUME HandlersType, NEW r \in Handlers, hpc[r] = "pref", NEW pref \in AlertPref \cup {None}, Choose(r, pref)
  PROVE  /\ Others(r) /\ ChannelsOf(hreq[r].row, pref) \subseteq MessageChannels
         /\ \/ hpc'[r] = "idle" /\ hreq'[r] = NoRequest
            \/ /\ hpc'[r] = "queue" /\ hreq'[r].who = hreq[r].who
               /\ hreq'[r].channels = ChannelsOf(hreq[r].row, pref)
               /\ pref # None => pref.enabled
<1>1. CASE HandlerDone(r)
  <2>1. hreq[r].row \in PersonRow
    BY DEF HandlersType, WellFormed
  <2>2. ChannelsOf(hreq[r].row, pref) \subseteq MessageChannels
    BY <2>1 DEF ChannelsOf, PersonRow, AlertPref, MessageChannels
  <2>3. QED
    BY <1>1, <2>2, DoneMoves
<1>2. CASE /\ pref # None => pref.enabled
           /\ Proceed(r, "queue", [hreq[r] EXCEPT !.channels = ChannelsOf(hreq[r].row, pref)])
  <2> DEFINE channels == ChannelsOf(hreq[r].row, pref)
             request == [hreq[r] EXCEPT !.channels = channels]
  <2>1. hreq[r] \in HandlerRow /\ hreq[r].row \in PersonRow /\ hreq[r].who \in Persons
    BY DEF HandlersType, WellFormed
  <2>2. channels \subseteq MessageChannels
    BY <2>1 DEF ChannelsOf, PersonRow, AlertPref, MessageChannels
  <2> HIDE DEF channels
  <2>3. request \in HandlerRow /\ request.who = hreq[r].who /\ request.channels = channels
    BY <2>1, <2>2 DEF HandlerRow
  <2>4. Proceed(r, "queue", request)
    BY <1>2 DEF channels
  <2> HIDE DEF request
  <2>5. WellFormed("queue", request) /\ "queue" \in HandlerStep
    BY <2>1, <2>3 DEF WellFormed, HandlerStep
  <2>6. Others(r) /\ hpc'[r] = "queue" /\ hreq'[r] = request
    BY <2>3, <2>4, <2>5, ProceedMoves
  <2>7. QED
    BY <1>2, <2>2, <2>3, <2>6 DEF channels
<1>3. QED
  BY <1>1, <1>2 DEF Choose

LEMMA WriteRowMoves ==
  ASSUME HandlersType, NEW r \in Handlers, NEW ch \in MessageChannels, WriteRow(r, ch)
  PROVE  /\ Others(r)
         /\ \/ hreq[r].channels = {ch} /\ hpc'[r] = "idle"
            \/ /\ hpc'[r] = "queue" /\ hreq'[r].who = hreq[r].who
               /\ hreq'[r].channels = hreq[r].channels \ {ch}
<1>1. CASE hreq[r].channels \ {ch} = {}
  BY <1>1, DoneMoves DEF WriteRow
<1>2. CASE hreq[r].channels \ {ch} # {}
  <2> DEFINE request == [hreq[r] EXCEPT !.channels = hreq[r].channels \ {ch}]
  <2>1. hreq[r] \in HandlerRow /\ hreq[r].who \in Persons
    BY DEF HandlersType, WellFormed, WriteRow
  <2>2. hreq[r].channels \ {ch} \in SUBSET MessageChannels
    BY <2>1 DEF HandlerRow
  <2>3. request \in HandlerRow /\ request.who = hreq[r].who /\ request.channels = hreq[r].channels \ {ch}
    BY <2>1, <2>2 DEF HandlerRow
  <2>4. Proceed(r, "queue", request)
    BY <1>2 DEF WriteRow
  <2> HIDE DEF request
  <2>5. WellFormed("queue", request) /\ "queue" \in HandlerStep
    BY <2>1, <2>3 DEF WellFormed, HandlerStep
  <2>6. QED
    BY <2>3, <2>4, <2>5, ProceedMoves
<1>3. QED
  BY <1>1, <1>2

LEMMA AddressType ==
  ASSUME NEW row \in PersonRow, NEW ch \in MessageChannels
  PROVE  /\ Address(row, ch) \in Emails \cup Chats \cup {None}
         /\ ch = "email" /\ Address(row, ch) # None =>
              row.email_verified /\ row.email = Address(row, ch) /\ row.email \in Emails
         /\ ch = "telegram" => Address(row, ch) = row.telegram_chat_id
BY DEF Address, PersonRow, MessageChannels

LEMMA TakeRowMoves ==
  ASSUME HandlersType, PersonType, NEW r \in Handlers, NEW u \in Persons, NEW ch \in MessageChannels,
         TakeRow(r, u, ch)
  PROVE  \/ UNCHANGED threadVars
         \/ /\ Address(person[u], ch) # None
            /\ Others(r) /\ hpc'[r] = "post"
            /\ hreq'[r].who = u /\ hreq'[r].channels = {ch} /\ hreq'[r].where = Address(person[u], ch)
<1>1. CASE Address(person[u], ch) = None
  BY <1>1 DEF TakeRow
<1>2. CASE Address(person[u], ch) # None
  <2> DEFINE a == Address(person[u], ch)
             request == [NoRequest EXCEPT !.who = u, !.channels = {ch}, !.where = a]
  <2>1. a \in Emails \cup Chats \cup {None}
    BY AddressType DEF PersonType
  <2>2. Proceed(r, "post", request)
    BY <1>2 DEF TakeRow
  <2> HIDE DEF a
  <2>3. request \in HandlerRow /\ request.who = u /\ request.channels = {ch} /\ request.where = a
    BY <2>1, NoRequestType DEF HandlerRow
  <2> HIDE DEF request
  <2>4. WellFormed("post", request) /\ "post" \in HandlerStep
    BY <2>3 DEF WellFormed, HandlerStep
  <2>5. QED
    BY <1>2, <2>2, <2>3, <2>4, ProceedMoves DEF a
<1>3. QED
  BY <1>1, <1>2

LEMMA InvalidMoves ==
  ASSUME HandlersType, NEW r \in Handlers, NEW u \in Persons, NEW email \in Emails \cup Chats \cup {None},
         Proceed(r, "invalid", [NoRequest EXCEPT !.who = u, !.where = email])
  PROVE  Others(r) /\ hpc'[r] = "invalid" /\ hreq'[r].who = u /\ hreq'[r].where = email
<1> DEFINE request == [NoRequest EXCEPT !.who = u, !.where = email]
<1>1. request \in HandlerRow /\ request.who = u /\ request.where = email
  BY NoRequestType DEF HandlerRow
<1>2. Proceed(r, "invalid", request)
  OBVIOUS
<1> HIDE DEF request
<1>3. WellFormed("invalid", request) /\ "invalid" \in HandlerStep
  BY <1>1 DEF WellFormed, HandlerStep
<1>4. QED
  BY <1>1, <1>2, <1>3, ProceedMoves

LEMMA update_notification_prefsMoves ==
  ASSUME HandlersType, NEW r \in Handlers, update_notification_prefs(r)
  PROVE  /\ Others(r) /\ hpc'[r] = "idle"
         /\ \A q \in Handlers \ {r} :
              hreq'[q].overlapped =
                IF hpc[q] = "merge" /\ hreq[q].who = hreq[r].who
                THEN hreq[q].overlapped \cup DOMAIN hreq[r].update \cup hreq[r].overlapped
                ELSE hreq[q].overlapped
<1> DEFINE more == DOMAIN hreq[r].update \cup hreq[r].overlapped
<1>1. hreq[r] \in HandlerRow /\ hreq[r].update \in Updates
  BY DEF HandlersType, WellFormed, update_notification_prefs
<1>2. more \subseteq Keys
  BY <1>1, ContactsAssumption DEF HandlerRow
<1>3. /\ hpc' = [hpc EXCEPT ![r] = "idle"]
      /\ hreq' = [q \in Handlers |->
           IF q = r THEN NoRequest
           ELSE IF hpc[q] = "merge" /\ hreq[q].who = hreq[r].who
           THEN [hreq[q] EXCEPT !.overlapped = @ \cup DOMAIN hreq[r].update \cup hreq[r].overlapped]
           ELSE hreq[q]]
  BY DEF update_notification_prefs
<1>4. ASSUME NEW q \in Handlers \ {r}
      PROVE  /\ hreq'[q] \in HandlerRow /\ Stays(q) /\ WellFormed(hpc'[q], hreq'[q])
             /\ hreq'[q].overlapped =
                  IF hpc[q] = "merge" /\ hreq[q].who = hreq[r].who
                  THEN hreq[q].overlapped \cup DOMAIN hreq[r].update \cup hreq[r].overlapped
                  ELSE hreq[q].overlapped
  <2>1. hreq[q] \in HandlerRow /\ WellFormed(hpc[q], hreq[q]) /\ hpc'[q] = hpc[q]
    BY <1>3 DEF HandlersType
  <2>2. CASE hpc[q] = "merge" /\ hreq[q].who = hreq[r].who
    <3>1. hreq'[q] = [hreq[q] EXCEPT !.overlapped = hreq[q].overlapped \cup DOMAIN hreq[r].update \cup hreq[r].overlapped]
      BY <1>3, <2>1, <2>2 DEF HandlerRow
    <3> DEFINE o == hreq[q].overlapped \cup DOMAIN hreq[r].update \cup hreq[r].overlapped
    <3>2. o \subseteq Keys
      BY <1>2, <2>1 DEF HandlerRow
    <3>a. hreq[q].overlapped \subseteq o
      OBVIOUS
    <3> HIDE DEF o
    <3>3. hreq'[q] = [hreq[q] EXCEPT !.overlapped = o]
      BY <3>1 DEF o
    <3>4. hreq'[q] \in HandlerRow /\ Stays(q) /\ hreq'[q].overlapped = o
      BY <2>1, <3>a, <3>2, <3>3 DEF HandlerRow, Stays
    <3>5. QED
      BY <2>1, <2>2, <3>4 DEF WellFormed, Stays, o
  <2>3. CASE ~ (hpc[q] = "merge" /\ hreq[q].who = hreq[r].who)
    BY <1>3, <2>1, <2>3 DEF Stays
  <2>4. QED
    BY <2>2, <2>3
<1>5. hpc'[r] = "idle" /\ hreq'[r] = NoRequest
  BY <1>3 DEF HandlersType
<1>6. hpc' \in [Handlers -> HandlerStep] /\ hreq' \in [Handlers -> HandlerRow]
  BY <1>3, <1>4, <1>5, NoRequestType DEF HandlersType
<1>7. HandlersType'
  BY <1>4, <1>5, <1>6, NoRequestType DEF HandlersType
<1>8. QED
  BY <1>4, <1>5, <1>7 DEF Others

LEMMA NobodyMovesContacts ==
  ASSUME HandlersType, UNCHANGED threadVars PROVE HandlersType' /\ \A q \in Handlers : Stays(q)
BY DEF HandlersType, threadVars, Stays

\* A step of a thread is no step of another one, nor of a user.
LEMMA HandlerMoves ==
  ASSUME HandlersType, PersonType, SettingsType, PrefType, NEW r \in Handlers, HandlerNext(r)
  PROVE  Others(r)
<1>1. ASSUME NEW u \in Persons, NEW update \in Updates, get_notification_prefs(r, u, update) PROVE Others(r)
  BY <1>1, get_notification_prefsMoves
<1>2. ASSUME NEW u \in Persons, subscribe_causelist_alert(r, u) \/ ReadUser(r, u) PROVE Others(r)
  BY <1>2, subscribe_causelist_alertMoves, ReadUserMoves
<1>3. UNCHANGED threadVars => Others(r)
  BY NobodyMovesContacts DEF Others
<1>4. ASSUME NEW u \in Persons, NEW ch \in MessageChannels, TakeRow(r, u, ch) PROVE Others(r)
  BY <1>3, <1>4, TakeRowMoves
<1>5. update_notification_prefs(r) => Others(r)
  BY update_notification_prefsMoves
<1>6. EnableAlert(r) \/ Post(r) \/ PostFails(r) \/ set_email_invalid(r) \/ HandlerFails(r) => Others(r)
  BY DoneMoves DEF EnableAlert, Post, PostFails, set_email_invalid, HandlerFails
<1>7. ReadPref(r) => Others(r)
  <2>1. ReadPref(r) => hreq[r].who \in Persons
    BY DEF ReadPref, HandlersType, WellFormed
  <2>2. ReadPref(r) => alert_pref[hreq[r].who] \in AlertPref \cup {None}
    BY <2>1 DEF PrefType
  <2>3. QED
    BY <2>2, ChooseMoves DEF ReadPref
<1>8. ReadPrefFails(r) => Others(r)
  BY ChooseMoves DEF ReadPrefFails
<1>9. ASSUME NEW ch \in MessageChannels, WriteRow(r, ch) PROVE Others(r)
  BY <1>9, WriteRowMoves
<1>10. PostRefused(r) => Others(r)
  <2>1. PostRefused(r) => hreq[r].who \in Persons /\ hreq[r].where \in Emails \cup Chats \cup {None}
    BY DEF PostRefused, HandlersType, WellFormed, HandlerRow
  <2>2. QED
    BY <2>1, InvalidMoves DEF PostRefused
<1>11. ASSUME NEW email \in Emails, Bounce(r, email) PROVE Others(r)
  <2>1. CASE \E u \in Persons : HasVerified(u, email)
    <3>1. (CHOOSE u \in Persons : HasVerified(u, email)) \in Persons
      BY <2>1
    <3>2. QED
      BY <1>11, <2>1, <3>1, InvalidMoves DEF Bounce
  <2>2. CASE ~ \E u \in Persons : HasVerified(u, email)
    BY <1>3, <1>11, <2>2 DEF Bounce
  <2>3. QED
    BY <2>1, <2>2
<1>12. QED
  BY <1>1, <1>2, <1>4, <1>5, <1>6, <1>7, <1>8, <1>9, <1>10, <1>11 DEF HandlerNext

LEMMA PersonStays == ASSUME NEW u \in Persons, PersonNext(u) PROVE UNCHANGED threadVars
BY DEF PersonNext, set_email_verified, ChangeEmail, GiveUsername, set_telegram_chat_id_by_username,
   clear_telegram_chat_id, update_user_notification_prefs, PatchPref, upsert_alert_prefs, MonitorMails

LEMMA HandlersTypeNext ==
  ASSUME HandlersType, PersonType, SettingsType, PrefType, [ContactsNext]_contactsVars
  PROVE  HandlersType'
<1>1. CASE \E r \in Handlers : HandlerNext(r)
  BY <1>1, HandlerMoves DEF Others
<1>2. CASE UNCHANGED threadVars
  BY <1>2, NobodyMovesContacts
<1>3. UNCHANGED contactsVars => UNCHANGED threadVars
  BY DEF contactsVars, threadVars
<1>4. QED
  BY <1>1, <1>2, <1>3, PersonStays DEF ContactsNext

-----------------------------------------------------------------------------
(* Rows of users.                                                          *)

\* What a step makes of one: another address, of which it is known that mail may go there,
\* a chat, or a mark that the address bounced.
RowStep(u) ==
  \/ person'[u] = person[u]
  \/ /\ person'[u].email_valid = person[u].email_valid
     /\ person'[u].telegram_chat_id = person[u].telegram_chat_id
     /\ Hold(u)
  \/ /\ person'[u].email_valid = person[u].email_valid
     /\ person'[u].email = person[u].email /\ person'[u].email_verified = person[u].email_verified
     /\ \/ person'[u].telegram_chat_id = person[u].telegram_chat_id
        \/ clear_telegram_chat_id(u) /\ person'[u].telegram_chat_id = None
        \/ \E chat \in Chats : set_telegram_chat_id_by_username(u, chat)
  \/ \E r \in Handlers :
       /\ set_email_invalid(r) /\ hreq[r].who = u
       /\ ~ person'[u].email_valid /\ person'[u].telegram_chat_id = person[u].telegram_chat_id
       /\ person'[u].email = person[u].email /\ person'[u].email_verified = person[u].email_verified

LEMMA PersonStep ==
  ASSUME HandlersType, PersonType, [ContactsNext]_contactsVars
  PROVE  PersonType' /\ \A u \in Persons : RowStep(u)
<1> DEFINE Good == PersonType' /\ \A u \in Persons : RowStep(u)
<1> SUFFICES Good
  OBVIOUS
<1>1. ASSUME NEW u \in Persons, NEW row \in PersonRow, person' = [person EXCEPT ![u] = row],
             person'[u] = row => RowStep(u)
      PROVE  Good
  <2>1. PersonType' /\ person'[u] = row /\ \A v \in Persons \ {u} : person'[v] = person[v]
    BY <1>1 DEF PersonType
  <2>2. QED
    BY <1>1, <2>1 DEF RowStep
<1>2. UNCHANGED person => Good
  BY DEF PersonType, RowStep
<1>3. \A u \in Persons : person[u] \in PersonRow
  BY DEF PersonType
<1> HIDE DEF Good
<1>4. ASSUME NEW u \in Persons, NEW email \in Emails, set_email_verified(u, email) PROVE Good
  <2> DEFINE row == [[person[u] EXCEPT !.email = email] EXCEPT !.email_verified = TRUE]
  <2>1. /\ row \in PersonRow /\ row.email_valid = person[u].email_valid
        /\ row.telegram_chat_id = person[u].telegram_chat_id
    BY <1>3 DEF PersonRow
  <2>2. person' = [person EXCEPT ![u] = row]
    BY <1>3, <1>4 DEF set_email_verified, PersonType, PersonRow
  <2>3. Hold(u)
    BY <1>4 DEF set_email_verified
  <2> HIDE DEF row
  <2>4. QED
    BY <1>1, <2>1, <2>2, <2>3 DEF RowStep
<1>5. ASSUME NEW u \in Persons, NEW email \in Emails, ChangeEmail(u, email) PROVE Good
  <2> DEFINE row == [person[u] EXCEPT !.email = email]
  <2>1. /\ row \in PersonRow /\ row.email_valid = person[u].email_valid
        /\ row.telegram_chat_id = person[u].telegram_chat_id
    BY <1>3 DEF PersonRow
  <2>2. person' = [person EXCEPT ![u] = row]
    BY <1>3, <1>5 DEF ChangeEmail, PersonType
  <2>3. Hold(u)
    BY <1>5 DEF ChangeEmail
  <2> HIDE DEF row
  <2>4. QED
    BY <1>1, <2>1, <2>2, <2>3 DEF RowStep
<1>6. ASSUME NEW u \in Persons, NEW chat \in Chats, GiveUsername(u, chat) PROVE Good
  <2> DEFINE row == [person[u] EXCEPT !.telegram_username = chat]
  <2>1. /\ row \in PersonRow /\ row.email_valid = person[u].email_valid
        /\ row.telegram_chat_id = person[u].telegram_chat_id
        /\ row.email = person[u].email /\ row.email_verified = person[u].email_verified
    BY <1>3 DEF PersonRow
  <2>2. person' = [person EXCEPT ![u] = row]
    BY <1>3, <1>6 DEF GiveUsername, PersonType
  <2> HIDE DEF row
  <2>3. QED
    BY <1>1, <2>1, <2>2 DEF RowStep
<1>7. ASSUME NEW u \in Persons, NEW chat \in Chats, set_telegram_chat_id_by_username(u, chat) PROVE Good
  <2> DEFINE row == [person[u] EXCEPT !.telegram_chat_id = chat]
  <2>1. /\ row \in PersonRow /\ row.email_valid = person[u].email_valid
        /\ row.email = person[u].email /\ row.email_verified = person[u].email_verified
    BY <1>3 DEF PersonRow
  <2>2. person' = [person EXCEPT ![u] = row]
    BY <1>3, <1>7 DEF set_telegram_chat_id_by_username, PersonType
  <2> HIDE DEF row
  <2>3. QED
    BY <1>1, <1>7, <2>1, <2>2 DEF RowStep
<1>8. ASSUME NEW u \in Persons, clear_telegram_chat_id(u) PROVE Good
  <2> DEFINE row == [[person[u] EXCEPT !.telegram_chat_id = None] EXCEPT !.telegram_username = None]
  <2>1. /\ row \in PersonRow /\ row.email_valid = person[u].email_valid /\ row.telegram_chat_id = None
        /\ row.email = person[u].email /\ row.email_verified = person[u].email_verified
    BY <1>3 DEF PersonRow
  <2>2. person' = [person EXCEPT ![u] = row]
    BY <1>3, <1>8 DEF clear_telegram_chat_id, PersonType, PersonRow
  <2> HIDE DEF row
  <2>3. QED
    BY <1>1, <1>8, <2>1, <2>2 DEF RowStep
<1>9. ASSUME NEW u \in Persons, NEW channel \in {"telegram", "email"}, update_user_notification_prefs(u, channel)
      PROVE Good
  <2> DEFINE row == [person[u] EXCEPT !.preferred_channel = channel]
  <2>1. /\ row \in PersonRow /\ row.email_valid = person[u].email_valid
        /\ row.telegram_chat_id = person[u].telegram_chat_id
        /\ row.email = person[u].email /\ row.email_verified = person[u].email_verified
    BY <1>3 DEF PersonRow
  <2>2. person' = [person EXCEPT ![u] = row]
    BY <1>3, <1>9 DEF update_user_notification_prefs, PersonType
  <2> HIDE DEF row
  <2>3. QED
    BY <1>1, <2>1, <2>2 DEF RowStep
<1>10. ASSUME NEW r \in Handlers, set_email_invalid(r) PROVE Good
  <2> DEFINE u == hreq[r].who
             row == [person[u] EXCEPT !.email_valid = FALSE]
  <2>0. u \in Persons
    BY <1>10 DEF set_email_invalid, HandlersType, WellFormed
  <2>1. /\ row \in PersonRow /\ ~ row.email_valid
        /\ row.telegram_chat_id = person[u].telegram_chat_id
        /\ row.email = person[u].email /\ row.email_verified = person[u].email_verified
    BY <1>3, <2>0 DEF PersonRow
  <2>2. person' = [person EXCEPT ![u] = row]
    BY <1>3, <1>10, <2>0 DEF set_email_invalid, PersonType
  <2>3. set_email_invalid(r) /\ hreq[r].who = u
    BY <1>10
  <2> HIDE DEF row, u
  <2>4. person'[u] = row => RowStep(u)
    BY <2>1, <2>3 DEF RowStep
  <2>5. QED
    BY <1>1, <2>0, <2>1, <2>2, <2>4
<1>11. ASSUME NEW u \in Persons, PatchPref(u) \/ upsert_alert_prefs(u) \/ MonitorMails(u) PROVE Good
  BY <1>2, <1>11 DEF PatchPref, upsert_alert_prefs, MonitorMails
<1>12. ASSUME NEW r \in Handlers,
              \/ \E u \in Persons, update \in Updates : get_notification_prefs(r, u, update)
              \/ \E u \in Persons : subscribe_causelist_alert(r, u) \/ ReadUser(r, u)
              \/ \E u \in Persons, ch \in MessageChannels : TakeRow(r, u, ch)
              \/ update_notification_prefs(r) \/ EnableAlert(r)
              \/ ReadPref(r) \/ ReadPrefFails(r) \/ \E ch \in MessageChannels : WriteRow(r, ch)
       PROVE  Good
  BY <1>2, <1>12 DEF get_notification_prefs, subscribe_causelist_alert, ReadUser, TakeRow,
     update_notification_prefs, EnableAlert, ReadPref, ReadPrefFails, WriteRow
<1>13. ASSUME NEW r \in Handlers,
              Post(r) \/ PostFails(r) \/ PostRefused(r) \/ (\E email \in Emails : Bounce(r, email)) \/ HandlerFails(r)
       PROVE  Good
  BY <1>2, <1>13 DEF Post, PostFails, PostRefused, Bounce, HandlerFails
<1>14. UNCHANGED contactsVars => Good
  BY <1>2 DEF contactsVars
<1>15. QED
  BY <1>4, <1>5, <1>6, <1>7, <1>8, <1>9, <1>10, <1>11, <1>12, <1>13, <1>14
     DEF ContactsNext, HandlerNext, PersonNext

-----------------------------------------------------------------------------
(* Settings.                                                               *)

\* What a thread will write back is what was wanted, but where another got in the way.
MergeInv(r) ==
  hpc[r] = "merge" =>
    \A k \in Keys : \/ hreq[r].seen[k] = wanted[hreq[r].who][k]
                    \/ k \in hreq[r].overlapped \/ <<hreq[r].who, k>> \in disturbed

\* Settings are changed by one action; only threads that have read them since will.
LEMMA SettingsStep ==
  ASSUME HandlersType, PersonType, SettingsType, PrefType, [ContactsNext]_contactsVars
  PROVE  \/ \E r \in Handlers : update_notification_prefs(r)
         \/ /\ UNCHANGED settingVars
            /\ \A q \in Handlers : hpc'[q] = "merge" =>
                 \/ hpc[q] = "merge" /\ Stays(q)
                 \/ \E u \in Persons, update \in Updates : get_notification_prefs(q, u, update)
<1>1. ASSUME UNCHANGED settingVars, UNCHANGED threadVars
      PROVE  /\ UNCHANGED settingVars
             /\ \A q \in Handlers : hpc'[q] = "merge" => hpc[q] = "merge" /\ Stays(q)
  BY <1>1, NobodyMovesContacts DEF threadVars
<1>2. UNCHANGED contactsVars => UNCHANGED settingVars /\ UNCHANGED threadVars
  BY DEF contactsVars, settingVars, threadVars
<1>3. ASSUME NEW u \in Persons, PersonNext(u) PROVE UNCHANGED settingVars /\ UNCHANGED threadVars
  BY <1>3, PersonStays DEF PersonNext, set_email_verified, ChangeEmail, GiveUsername,
     set_telegram_chat_id_by_username, clear_telegram_chat_id, update_user_notification_prefs,
     PatchPref, upsert_alert_prefs, MonitorMails
<1>4. ASSUME NEW r \in Handlers, HandlerNext(r), ~ update_notification_prefs(r)
      PROVE  UNCHANGED settingVars
  BY <1>4 DEF HandlerNext, get_notification_prefs, subscribe_causelist_alert, ReadUser, TakeRow,
     EnableAlert, ReadPref, ReadPrefFails, WriteRow, Post, PostFails, PostRefused, Bounce,
     set_email_invalid, HandlerFails
<1>5. ASSUME NEW r \in Handlers, HandlerNext(r), ~ update_notification_prefs(r), ~ UNCHANGED threadVars,
             hpc'[r] = "merge"
      PROVE  \E u \in Persons, update \in Updates : get_notification_prefs(r, u, update)
  <2>1. ASSUME NEW u \in Persons, subscribe_causelist_alert(r, u) \/ ReadUser(r, u) PROVE FALSE
    BY <1>5, <2>1, subscribe_causelist_alertMoves, ReadUserMoves
  <2>2. ASSUME NEW u \in Persons, NEW ch \in MessageChannels, TakeRow(r, u, ch) PROVE FALSE
    BY <1>5, <2>2, TakeRowMoves
  <2>3. ASSUME EnableAlert(r) \/ Post(r) \/ PostFails(r) \/ set_email_invalid(r) \/ HandlerFails(r)
        PROVE  FALSE
    BY <1>5, <2>3, DoneMoves DEF EnableAlert, Post, PostFails, set_email_invalid, HandlerFails
  <2>4. ASSUME ReadPref(r) PROVE FALSE
    <3>1. hreq[r].who \in Persons /\ hpc[r] = "pref"
      BY <2>4 DEF ReadPref, HandlersType, WellFormed
    <3>2. alert_pref[hreq[r].who] \in AlertPref \cup {None}
      BY <3>1 DEF PrefType
    <3>3. QED
      BY <1>5, <2>4, <3>1, <3>2, ChooseMoves DEF ReadPref
  <2>5. ASSUME ReadPrefFails(r) PROVE FALSE
    BY <1>5, <2>5, ChooseMoves DEF ReadPrefFails
  <2>6. ASSUME NEW ch \in MessageChannels, WriteRow(r, ch) PROVE FALSE
    BY <1>5, <2>6, WriteRowMoves
  <2>7. ASSUME PostRefused(r) PROVE FALSE
    <3>1. hreq[r].who \in Persons /\ hreq[r].where \in Emails \cup Chats \cup {None}
      BY <2>7 DEF PostRefused, HandlersType, WellFormed, HandlerRow
    <3>2. QED
      BY <1>5, <2>7, <3>1, InvalidMoves DEF PostRefused
  <2>8. ASSUME NEW email \in Emails, Bounce(r, email) PROVE FALSE
    <3>1. CASE \E u \in Persons : HasVerified(u, email)
      <4>1. (CHOOSE u \in Persons : HasVerified(u, email)) \in Persons
        BY <3>1
      <4>2. QED
        BY <1>5, <2>8, <3>1, <4>1, InvalidMoves DEF Bounce
    <3>2. CASE ~ \E u \in Persons : HasVerified(u, email)
      BY <1>5, <2>8, <3>2 DEF Bounce
    <3>3. QED
      BY <3>1, <3>2
  <2>9. QED
    BY <1>5, <2>1, <2>2, <2>3, <2>4, <2>5, <2>6, <2>7, <2>8 DEF HandlerNext
<1>6. ASSUME NEW r \in Handlers, HandlerNext(r), ~ update_notification_prefs(r), ~ UNCHANGED threadVars,
             NEW q \in Handlers, hpc'[q] = "merge"
      PROVE  \/ hpc[q] = "merge" /\ Stays(q)
             \/ \E u \in Persons, update \in Updates : get_notification_prefs(q, u, update)
  <2>1. CASE q = r
    BY <1>5, <1>6, <2>1
  <2>2. CASE q # r
    BY <1>6, <2>2, HandlerMoves DEF Others, Stays
  <2>3. QED
    BY <2>1, <2>2
<1>7. QED
  BY <1>1, <1>2, <1>3, <1>4, <1>6 DEF ContactsNext

LEMMA SettingsNext ==
  ASSUME HandlersType, PersonType, SettingsType, PrefType, SettingsKept, \A r \in Handlers : MergeInv(r),
         [ContactsNext]_contactsVars
  PROVE  SettingsType' /\ SettingsKept' /\ \A r \in Handlers : MergeInv(r)'
<1>1. CASE \E r \in Handlers : update_notification_prefs(r)
  <2>1. PICK r \in Handlers : update_notification_prefs(r)
    BY <1>1
  <2> DEFINE u == hreq[r].who
             update == hreq[r].update
             named == DOMAIN update
             kept == hreq[r].overlapped
             before == hreq[r].seen
             merged == Merged(before, update)
             want == [k \in Keys |-> IF k \in named THEN update[k] ELSE wanted[u][k]]
  <2>2. /\ u \in Persons /\ update \in Updates /\ before \in [Keys -> BOOLEAN] /\ kept \subseteq Keys
        /\ hpc[r] = "merge" /\ MergeInv(r)
    BY <2>1 DEF HandlersType, WellFormed, HandlerRow, update_notification_prefs
  <2>3. named \subseteq Keys /\ \A k \in named : update[k] \in BOOLEAN
    BY <2>2, ContactsAssumption
  <2>4. /\ settings' = [settings EXCEPT ![u] = merged]
        /\ disturbed' = (disturbed \ {<<u, k>> : k \in named}) \cup {<<u, k>> : k \in kept \ named}
    BY <2>1 DEF update_notification_prefs
  <2>5. wanted' = [wanted EXCEPT ![u] = want]
    BY <2>1, <2>2 DEF update_notification_prefs, SettingsType
  <2>6. merged \in [Keys -> BOOLEAN] /\ want \in [Keys -> BOOLEAN]
    BY <2>2, <2>3 DEF Merged, SettingsType
  <2>7. \A k \in Keys : merged[k] = IF k \in named THEN update[k] ELSE before[k]
    BY DEF Merged
  <2>8. \A k \in Keys : want[k] = IF k \in named THEN update[k] ELSE wanted[u][k]
    OBVIOUS
  <2>9. \A k \in Keys \ named : before[k] = wanted[u][k] \/ k \in kept \/ <<u, k>> \in disturbed
    BY <2>2 DEF MergeInv
  <2>10. /\ Others(r) /\ hpc'[r] = "idle"
         /\ \A q \in Handlers \ {r} : hpc[q] = "merge" /\ hreq[q].who = u =>
              named \cup kept \subseteq hreq'[q].overlapped
    BY <2>1, update_notification_prefsMoves
  <2> HIDE DEF u, update, named, kept, before, merged, want
  <2>11. SettingsType'
    BY <2>2, <2>3, <2>4, <2>5, <2>6 DEF SettingsType
  <2>12. \A v \in Persons : settings'[v] = (IF v = u THEN merged ELSE settings[v])
                          /\ wanted'[v] = (IF v = u THEN want ELSE wanted[v])
    BY <2>2, <2>4, <2>5 DEF SettingsType
  <2>13. \A v \in Persons, k \in Keys :
           <<v, k>> \in disturbed' <=>
             \/ <<v, k>> \in disturbed /\ ~ (v = u /\ k \in named)
             \/ v = u /\ k \in kept \ named
    BY <2>4
  <2>14. SettingsKept'
    <3>1. SUFFICES ASSUME NEW v \in Persons, NEW k \in Keys, settings'[v][k] # wanted'[v][k]
                   PROVE  <<v, k>> \in disturbed'
      BY DEF SettingsKept
    <3>2. CASE v = u
      BY <2>7, <2>8, <2>9, <2>12, <2>13, <3>1, <3>2
    <3>3. CASE v # u
      BY <2>12, <2>13, <3>1, <3>3 DEF SettingsKept
    <3>4. QED
      BY <3>2, <3>3
  <2>15. ASSUME NEW q \in Handlers PROVE MergeInv(q)'
    <3>1. SUFFICES ASSUME hpc'[q] = "merge", NEW k \in Keys
                   PROVE  \/ hreq'[q].seen[k] = wanted'[hreq'[q].who][k]
                          \/ k \in hreq'[q].overlapped \/ <<hreq'[q].who, k>> \in disturbed'
      BY DEF MergeInv
    <3>2. q # r /\ Stays(q) /\ hpc[q] = "merge"
      BY <2>10, <3>1 DEF Others, Stays
    <3>3. /\ hreq'[q].who = hreq[q].who /\ hreq'[q].seen = hreq[q].seen
          /\ hreq[q].overlapped \subseteq hreq'[q].overlapped
          /\ hreq[q].who \in Persons
      BY <3>2 DEF Stays, HandlersType, WellFormed
    <3>4. MergeInv(q)
      OBVIOUS
    <3>5. CASE hreq[q].who = u
      <4>1. named \cup kept \subseteq hreq'[q].overlapped
        BY <2>10, <3>2, <3>5
      <4>2. CASE k \in named \cup kept
        BY <4>1, <4>2
      <4>3. CASE k \notin named \cup kept
        BY <2>2, <2>8, <2>12, <2>13, <3>2, <3>3, <3>4, <3>5, <4>3 DEF MergeInv
      <4>4. QED
        BY <4>2, <4>3
    <3>6. CASE hreq[q].who # u
      BY <2>12, <2>13, <3>2, <3>3, <3>4, <3>6 DEF MergeInv
    <3>7. QED
      BY <3>5, <3>6
  <2>16. QED
    BY <2>11, <2>14, <2>15
<1>2. CASE /\ UNCHANGED settingVars
           /\ \A q \in Handlers : hpc'[q] = "merge" =>
                \/ hpc[q] = "merge" /\ Stays(q)
                \/ \E u \in Persons, update \in Updates : get_notification_prefs(q, u, update)
  <2>1. SettingsType' /\ SettingsKept'
    BY <1>2 DEF settingVars, SettingsType, SettingsKept
  <2>2. ASSUME NEW q \in Handlers, hpc'[q] = "merge" PROVE MergeInv(q)'
    <3>1. CASE hpc[q] = "merge" /\ Stays(q)
      BY <1>2, <3>1 DEF MergeInv, Stays, settingVars
    <3>2. ASSUME NEW u \in Persons, NEW update \in Updates, get_notification_prefs(q, u, update)
          PROVE  MergeInv(q)'
      <4>1. hreq'[q].who = u /\ hreq'[q].seen = settings[u]
        <5>1. settings[u] \in [Keys -> BOOLEAN]
          BY DEF SettingsType
        <5>2. hreq'[q] = [NoRequest EXCEPT !.who = u, !.update = update, !.seen = settings[u]]
          BY <3>2, get_notification_prefsMoves
        <5>3. QED
          BY <5>2 DEF NoRequest
      <4>2. \A k \in Keys : settings[u][k] = wanted[u][k] \/ <<u, k>> \in disturbed
        BY DEF SettingsKept
      <4>3. UNCHANGED settingVars
        BY <1>2
      <4>4. QED
        BY <4>1, <4>2, <4>3 DEF MergeInv, settingVars
    <3>3. QED
      BY <1>2, <2>2, <3>1, <3>2
  <2>3. QED
    BY <2>1, <2>2 DEF MergeInv
<1>3. QED
  BY <1>1, <1>2, SettingsStep

-----------------------------------------------------------------------------
(* Addresses that bounce.                                                  *)

\* It is known of every address of a user that mail may go there, from the moment on that
\* it does to the one at which it is refused.
HeldInv ==
  \A u \in Persons : person[u].email_verified /\ person[u].email # None => <<u, person[u].email>> \in held

CauseInv(r) ==
  /\ hpc[r] = "post" /\ hreq[r].channels = {"email"} => <<hreq[r].who, hreq[r].where>> \in held
  /\ hpc[r] = "invalid" => hreq[r].where \in bounced /\ <<hreq[r].who, hreq[r].where>> \in held

\* History is not forgotten, and mail only goes to addresses.
LEMMA MailStep ==
  ASSUME HandlersType, PersonType, MailType, \A r \in Handlers : CauseInv(r), [ContactsNext]_contactsVars
  PROVE  MailType' /\ held \subseteq held' /\ bounced \subseteq bounced'
<1> DEFINE Good == MailType' /\ held \subseteq held' /\ bounced \subseteq bounced'
<1> SUFFICES Good
  OBVIOUS
<1>1. UNCHANGED mailVars => Good
  BY DEF MailType, mailVars
<1>2. ASSUME NEW u \in Persons, Hold(u), UNCHANGED <<mailed, bounced>> PROVE Good
  <2>1. person'[u].email # None => person'[u].email \in Emails
    <3>1. person'[u] \in PersonRow
      BY PersonStep DEF PersonType
    <3>2. QED
      BY <3>1 DEF PersonRow
  <2>2. QED
    BY <1>2, <2>1 DEF Hold, MailType
<1>3. ASSUME NEW r \in Handlers, Post(r) PROVE Good
  <2> DEFINE ch == CHOOSE c \in hreq[r].channels : TRUE
  <2>1. hpc[r] = "post" /\ CauseInv(r)
    BY <1>3 DEF Post
  <2>2. PICK c \in MessageChannels : hreq[r].channels = {c}
    BY <2>1 DEF HandlersType, WellFormed
  <2>3. ch = c
    BY <2>2
  <2>4. ch = "email" => hreq[r].where \in Emails
    BY <2>1, <2>2, <2>3 DEF CauseInv, MailType
  <2>5. mailed' = IF ch = "email" THEN mailed \cup {hreq[r].where} ELSE mailed
    BY <1>3 DEF Post
  <2>6. UNCHANGED <<held, bounced>>
    BY <1>3 DEF Post
  <2> HIDE DEF ch
  <2>7. QED
    BY <2>4, <2>5, <2>6 DEF MailType
<1>4. ASSUME NEW r \in Handlers, PostRefused(r) PROVE Good
  BY <1>4 DEF PostRefused, CauseInv, MailType
<1>5. ASSUME NEW r \in Handlers, NEW email \in Emails, Bounce(r, email) PROVE Good
  BY <1>5 DEF Bounce, MailType
<1>6. ASSUME NEW u \in Persons, MonitorMails(u) PROVE Good
  <2>1. person[u] \in PersonRow
    BY DEF PersonType
  <2>2. person[u].email \in Emails
    BY <1>6, <2>1 DEF MonitorMails, Address, PersonRow
  <2>3. QED
    BY <1>6, <2>2 DEF MonitorMails, MailType
<1> HIDE DEF Good
<1>7. ASSUME NEW u \in Persons, PersonNext(u) PROVE Good
  <2>1. ASSUME NEW email \in Emails, set_email_verified(u, email) \/ ChangeEmail(u, email) PROVE Good
    BY <1>2, <2>1 DEF set_email_verified, ChangeEmail
  <2>2. ASSUME NEW chat \in Chats, GiveUsername(u, chat) \/ set_telegram_chat_id_by_username(u, chat)
        PROVE  Good
    BY <1>1, <2>2 DEF GiveUsername, set_telegram_chat_id_by_username
  <2>3. ASSUME clear_telegram_chat_id(u) \/ PatchPref(u) \/ upsert_alert_prefs(u) PROVE Good
    BY <1>1, <2>3 DEF clear_telegram_chat_id, PatchPref, upsert_alert_prefs
  <2>4. ASSUME NEW channel, update_user_notification_prefs(u, channel) PROVE Good
    BY <1>1, <2>4 DEF update_user_notification_prefs
  <2>5. QED
    BY <1>6, <1>7, <2>1, <2>2, <2>3, <2>4 DEF PersonNext
<1>8. ASSUME NEW r \in Handlers,
             \/ \E u \in Persons, update \in Updates : get_notification_prefs(r, u, update)
             \/ \E u \in Persons : subscribe_causelist_alert(r, u) \/ ReadUser(r, u)
             \/ \E u \in Persons, ch \in MessageChannels : TakeRow(r, u, ch)
             \/ update_notification_prefs(r) \/ EnableAlert(r)
             \/ ReadPref(r) \/ ReadPrefFails(r) \/ (\E ch \in MessageChannels : WriteRow(r, ch))
             \/ PostFails(r) \/ set_email_invalid(r) \/ HandlerFails(r)
      PROVE  Good
  BY <1>1, <1>8 DEF get_notification_prefs, subscribe_causelist_alert, ReadUser, TakeRow,
     update_notification_prefs, EnableAlert, ReadPref, ReadPrefFails, WriteRow, PostFails,
     set_email_invalid, HandlerFails
<1>9. UNCHANGED contactsVars => Good
  BY <1>1 DEF contactsVars, mailVars
<1>10. QED
  BY <1>3, <1>4, <1>5, <1>7, <1>8, <1>9 DEF ContactsNext, HandlerNext

\* Who mails, and who is told of a bounce.
LEMMA CauseMoves ==
  ASSUME HandlersType, PersonType, SettingsType, PrefType, MailType, HeldInv,
         NEW r \in Handlers, CauseInv(r), HandlerNext(r)
  PROVE  CauseInv(r)'
<1>1. ASSUME NEW u \in Persons, NEW update \in Updates, get_notification_prefs(r, u, update)
      PROVE  CauseInv(r)'
  BY <1>1, get_notification_prefsMoves DEF CauseInv
<1>2. ASSUME NEW u \in Persons, subscribe_causelist_alert(r, u) \/ ReadUser(r, u) PROVE CauseInv(r)'
  BY <1>2, subscribe_causelist_alertMoves, ReadUserMoves DEF CauseInv
<1>3. ASSUME NEW u \in Persons, NEW ch \in MessageChannels, TakeRow(r, u, ch) PROVE CauseInv(r)'
  <2>1. UNCHANGED <<held, bounced>> /\ hpc[r] = "idle"
    BY <1>3 DEF TakeRow, mailVars
  <2>2. CASE UNCHANGED threadVars
    BY <2>1, <2>2 DEF CauseInv, threadVars
  <2>3. CASE /\ Address(person[u], ch) # None
             /\ hpc'[r] = "post"
             /\ hreq'[r].who = u /\ hreq'[r].channels = {ch} /\ hreq'[r].where = Address(person[u], ch)
    <3>1. ch = "email" => person[u].email_verified /\ person[u].email = Address(person[u], ch)
      BY <2>3, AddressType DEF PersonType
    <3>2. ch = "email" => <<u, Address(person[u], ch)>> \in held
      BY <2>3, <3>1 DEF HeldInv
    <3>3. {ch} = {"email"} => ch = "email"
      OBVIOUS
    <3>4. QED
      BY <2>1, <2>3, <3>2, <3>3 DEF CauseInv
  <2>4. QED
    BY <1>3, <2>2, <2>3, TakeRowMoves
<1>4. update_notification_prefs(r) => CauseInv(r)'
  BY update_notification_prefsMoves DEF CauseInv
<1>5. EnableAlert(r) \/ Post(r) \/ PostFails(r) \/ set_email_invalid(r) \/ HandlerFails(r) => CauseInv(r)'
  BY DoneMoves DEF EnableAlert, Post, PostFails, set_email_invalid, HandlerFails, CauseInv
<1>6. ReadPref(r) => CauseInv(r)'
  <2>1. ReadPref(r) => hreq[r].who \in Persons
    BY DEF ReadPref, HandlersType, WellFormed
  <2>2. ReadPref(r) => alert_pref[hreq[r].who] \in AlertPref \cup {None}
    BY <2>1 DEF PrefType
  <2>3. QED
    BY <2>2, ChooseMoves DEF ReadPref, CauseInv
<1>7. ReadPrefFails(r) => CauseInv(r)'
  BY ChooseMoves DEF ReadPrefFails, CauseInv
<1>8. ASSUME NEW ch \in MessageChannels, WriteRow(r, ch) PROVE CauseInv(r)'
  BY <1>8, WriteRowMoves DEF CauseInv
<1>9. ASSUME PostRefused(r) PROVE CauseInv(r)'
  <2>1. hreq[r].who \in Persons /\ hreq[r].where \in Emails \cup Chats \cup {None}
    BY <1>9 DEF PostRefused, HandlersType, WellFormed, HandlerRow
  <2>a. Proceed(r, "invalid", [NoRequest EXCEPT !.who = hreq[r].who, !.where = hreq[r].where])
    BY <1>9 DEF PostRefused
  <2>b. ASSUME NEW u \in Persons, NEW email \in Emails \cup Chats \cup {None},
               u = hreq[r].who, email = hreq[r].where
        PROVE  hpc'[r] = "invalid" /\ hreq'[r].who = u /\ hreq'[r].where = email
    <3>1. Proceed(r, "invalid", [NoRequest EXCEPT !.who = u, !.where = email])
      BY <2>a, <2>b
    <3>2. QED
      BY <3>1, InvalidMoves
  <2>2. hpc'[r] = "invalid" /\ hreq'[r].who = hreq[r].who /\ hreq'[r].where = hreq[r].where
    BY <2>1, <2>b
  <2>3. <<hreq[r].who, hreq[r].where>> \in held
    BY <1>9 DEF PostRefused, CauseInv
  <2>4. QED
    BY <1>9, <2>2, <2>3 DEF PostRefused, CauseInv
<1>10. ASSUME NEW email \in Emails, Bounce(r, email) PROVE CauseInv(r)'
  <2>1. CASE \E u \in Persons : HasVerified(u, email)
    <3> DEFINE u == CHOOSE u \in Persons : HasVerified(u, email)
    <3>1. u \in Persons /\ HasVerified(u, email)
      BY <2>1
    <3>2. Proceed(r, "invalid", [NoRequest EXCEPT !.who = u, !.where = email])
      BY <1>10, <2>1 DEF Bounce
    <3> HIDE DEF u
    <3>3. hpc'[r] = "invalid" /\ hreq'[r].who = u /\ hreq'[r].where = email
      BY <3>1, <3>2, InvalidMoves
    <3>4. email # None
      BY ContactsAssumption
    <3>5. <<u, email>> \in held
      BY <3>1, <3>4 DEF HasVerified, HeldInv
    <3>6. QED
      BY <1>10, <3>3, <3>5 DEF Bounce, CauseInv
  <2>2. CASE ~ \E u \in Persons : HasVerified(u, email)
    BY <1>10, <2>2 DEF Bounce, CauseInv, threadVars
  <2>3. QED
    BY <2>1, <2>2
<1>11. QED
  BY <1>1, <1>2, <1>3, <1>4, <1>5, <1>6, <1>7, <1>8, <1>9, <1>10 DEF HandlerNext

LEMMA CauseNext ==
  ASSUME HandlersType, PersonType, SettingsType, PrefType, MailType, HeldInv, BouncesHaveCause,
         \A r \in Handlers : CauseInv(r), [ContactsNext]_contactsVars
  PROVE  HeldInv' /\ BouncesHaveCause' /\ \A r \in Handlers : CauseInv(r)'
<1>0. held \subseteq held' /\ bounced \subseteq bounced' /\ PersonType' /\ \A u \in Persons : RowStep(u)
  BY MailStep, PersonStep
<1>1. HeldInv'
  <2>1. SUFFICES ASSUME NEW u \in Persons, person'[u].email_verified, person'[u].email # None
                 PROVE  <<u, person'[u].email>> \in held'
    BY DEF HeldInv
  <2>2. CASE person'[u].email = person[u].email /\ person'[u].email_verified = person[u].email_verified
    BY <1>0, <2>1, <2>2 DEF HeldInv
  <2>3. CASE Hold(u)
    BY <2>1, <2>3 DEF Hold
  <2>4. QED
    BY <1>0, <2>2, <2>3 DEF RowStep
<1>2. BouncesHaveCause'
  <2>1. SUFFICES ASSUME NEW u \in Persons, ~ person'[u].email_valid
                 PROVE  \E email \in bounced' : <<u, email>> \in held'
    BY DEF BouncesHaveCause
  <2>2. CASE ~ person[u].email_valid
    <3>1. PICK email \in bounced : <<u, email>> \in held
      BY <2>2 DEF BouncesHaveCause
    <3>2. QED
      BY <1>0, <3>1
  <2>3. CASE person[u].email_valid
    <3>1. RowStep(u)
      BY <1>0
    <3>2. PICK r \in Handlers : set_email_invalid(r) /\ hreq[r].who = u
      BY <2>1, <2>3, <3>1 DEF RowStep
    <3>3. hreq[r].where \in bounced /\ <<u, hreq[r].where>> \in held
      BY <3>2 DEF set_email_invalid, CauseInv
    <3>4. QED
      BY <1>0, <3>3
  <2>4. QED
    BY <2>2, <2>3
<1>3. ASSUME NEW q \in Handlers, Stays(q) PROVE CauseInv(q)'
  <2>1. CauseInv(q)
    OBVIOUS
  <2>2. QED
    BY <1>0, <1>3, <2>1 DEF CauseInv, Stays
<1>4. ASSUME NEW q \in Handlers PROVE CauseInv(q)'
  <2>1. CASE UNCHANGED threadVars
    BY <1>3, <2>1, NobodyMovesContacts
  <2>2. CASE \E r \in Handlers : HandlerNext(r)
    <3>1. PICK r \in Handlers : HandlerNext(r)
      BY <2>2
    <3>2. CASE q = r
      BY <3>1, <3>2, CauseMoves
    <3>3. CASE q # r
      BY <1>3, <3>1, <3>3, HandlerMoves DEF Others
    <3>4. QED
      BY <3>2, <3>3
  <2>3. UNCHANGED contactsVars => UNCHANGED threadVars
    BY DEF contactsVars, threadVars
  <2>4. QED
    BY <2>1, <2>2, <2>3, PersonStays DEF ContactsNext
<1>5. QED
  BY <1>1, <1>2, <1>4

-----------------------------------------------------------------------------
(* What a user has stopped.                                                *)

\* Threads that may still give the user mail, rows that are about to be written, messages
\* that are about to be sent.
InMail(r, u) ==
  /\ hreq[r].who = u
  /\ \/ hpc[r] = "pref" /\ hreq[r].row.email_valid
     \/ hpc[r] \in {"queue", "post"} /\ "email" \in hreq[r].channels

InStep(r, u, step, ch) == hpc[r] = step /\ hreq[r].who = u /\ ch \in hreq[r].channels

MailThreads(u) == {r \in Handlers : InMail(r, u)}
StepThreads(u, step, ch) == {r \in Handlers : InStep(r, u, step, ch)}

\* What may still come of what was stopped.
MailDue(u) == queued[<<u, "email">>] + Cardinality(MailThreads(u))
ChatDue(u) == At(u, "post", "telegram")
AlertDue(u) == At(u, "queue", "email") + At(u, "queue", "telegram") + At(u, "queue", "whatsapp")

MailStops(u) ==
  <<u, "email">> \in stopped =>
    ~ person[u].email_valid /\ heard[<<u, "email">>] + MailDue(u) <= owed[<<u, "email">>]

ChatStops(u) ==
  <<u, "telegram">> \in stopped =>
    /\ person[u].telegram_chat_id = None
    /\ heard[<<u, "telegram">>] + ChatDue(u) <= owed[<<u, "telegram">>]

AlertStops(u) ==
  <<u, "alert">> \in stopped =>
    /\ alert_pref[u] # None /\ ~ alert_pref[u].enabled
    /\ heard[<<u, "alert">>] + AlertDue(u) <= owed[<<u, "alert">>]

\* Of two sets of threads that differ in one, one is larger by what it has of that one.
LEMMA CountsDiffer ==
  ASSUME NEW S \in SUBSET Handlers, NEW T \in SUBSET Handlers, NEW r \in Handlers,
         \A q \in Handlers \ {r} : q \in S <=> q \in T
  PROVE  /\ Cardinality(S) \in Nat /\ Cardinality(T) \in Nat
         /\ Cardinality(T) + OneIf(r \in S) = Cardinality(S) + OneIf(r \in T)
         /\ OneIf(r \in S) \in {0, 1} /\ OneIf(r \in T) \in {0, 1}
<1>1. IsFiniteSet(S) /\ IsFiniteSet(T)
  BY ContactsAssumption, FS_Subset
<1>2. Cardinality(S) \in Nat /\ Cardinality(T) \in Nat
  BY <1>1, FS_CardinalityType
<1>3. OneIf(r \in S) \in {0, 1} /\ OneIf(r \in T) \in {0, 1}
  BY DEF OneIf
<1>4. CASE (r \in S) = (r \in T)
  <2>1. S = T
    BY <1>4
  <2>2. QED
    BY <1>2, <1>3, <2>1
<1>5. CASE r \in S /\ r \notin T
  <2>1. T = S \ {r}
    BY <1>5
  <2>2. Cardinality(T) = Cardinality(S) - 1
    BY <1>1, <1>5, <2>1, FS_RemoveElement
  <2>3. OneIf(r \in S) = 1 /\ OneIf(r \in T) = 0
    BY <1>5 DEF OneIf
  <2>4. QED
    BY <1>2, <2>2, <2>3
<1>6. CASE r \notin S /\ r \in T
  <2>1. T = S \cup {r}
    BY <1>6
  <2>2. Cardinality(T) = Cardinality(S) + 1
    BY <1>1, <1>6, <2>1, FS_AddElement
  <2>3. OneIf(r \in S) = 0 /\ OneIf(r \in T) = 1
    BY <1>6 DEF OneIf
  <2>4. QED
    BY <1>2, <2>2, <2>3
<1>7. QED
  BY <1>4, <1>5, <1>6

LEMMA MailThreadsDiffer ==
  ASSUME HandlersType, NEW r \in Handlers, Others(r), NEW u
  PROVE  /\ Cardinality(MailThreads(u)) \in Nat /\ Cardinality(MailThreads(u)') \in Nat
         /\ Cardinality(MailThreads(u)') + OneIf(InMail(r, u)) = Cardinality(MailThreads(u)) + OneIf(InMail(r, u)')
         /\ OneIf(InMail(r, u)) \in {0, 1} /\ OneIf(InMail(r, u)') \in {0, 1}
<1> DEFINE S == MailThreads(u)
           T == MailThreads(u)'
<1>1. S \in SUBSET Handlers /\ T \in SUBSET Handlers
  BY DEF MailThreads
<1>2. \A q \in Handlers \ {r} : q \in S <=> q \in T
  BY DEF Others, Stays, MailThreads, InMail
<1>3. (r \in S <=> InMail(r, u)) /\ (r \in T <=> InMail(r, u)')
  BY DEF MailThreads, InMail
<1>a. OneIf(r \in S) = OneIf(InMail(r, u)) /\ OneIf(r \in T) = OneIf(InMail(r, u)')
  BY <1>3 DEF OneIf
<1> HIDE DEF S, T
<1>4. /\ Cardinality(S) \in Nat /\ Cardinality(T) \in Nat
      /\ Cardinality(T) + OneIf(r \in S) = Cardinality(S) + OneIf(r \in T)
      /\ OneIf(r \in S) \in {0, 1} /\ OneIf(r \in T) \in {0, 1}
  BY <1>1, <1>2, CountsDiffer
<1>5. QED
  BY <1>a, <1>4 DEF S, T

LEMMA AtDiffers ==
  ASSUME HandlersType, NEW r \in Handlers, Others(r), NEW u, NEW step, NEW ch
  PROVE  /\ At(u, step, ch) \in Nat /\ At(u, step, ch)' \in Nat
         /\ At(u, step, ch)' + OneIf(InStep(r, u, step, ch)) = At(u, step, ch) + OneIf(InStep(r, u, step, ch)')
         /\ OneIf(InStep(r, u, step, ch)) \in {0, 1} /\ OneIf(InStep(r, u, step, ch)') \in {0, 1}
<1> DEFINE S == StepThreads(u, step, ch)
           T == StepThreads(u, step, ch)'
<1>1. S \in SUBSET Handlers /\ T \in SUBSET Handlers
  BY DEF StepThreads
<1>2. \A q \in Handlers \ {r} : q \in S <=> q \in T
  BY DEF Others, Stays, StepThreads, InStep
<1>3. (r \in S) = InStep(r, u, step, ch) /\ (r \in T) = InStep(r, u, step, ch)'
  BY DEF StepThreads, InStep
<1>a. At(u, step, ch) = Cardinality(S) /\ At(u, step, ch)' = Cardinality(T)
  BY DEF At, StepThreads, InStep
<1> HIDE DEF S, T
<1>4. /\ Cardinality(S) \in Nat /\ Cardinality(T) \in Nat
      /\ Cardinality(T) + OneIf(r \in S) = Cardinality(S) + OneIf(r \in T)
      /\ OneIf(r \in S) \in {0, 1} /\ OneIf(r \in T) \in {0, 1}
  BY <1>1, <1>2, CountsDiffer
<1>5. QED
  BY <1>3, <1>4, <1>a

LEMMA DueSizes ==
  ASSUME NEW u, NEW step, NEW ch
  PROVE  /\ At(u, step, ch) \in Nat
         /\ Cardinality(MailThreads(u)) \in Nat
         /\ HandlersType => Cardinality(MailThreads(u)) <= At(u, "pref", "email") + At(u, "queue", "email") + At(u, "post", "email")
<1> DEFINE P == StepThreads(u, "pref", "email")
           Q == StepThreads(u, "queue", "email")
           O == StepThreads(u, "post", "email")
           M == MailThreads(u)
<1>1. IsFiniteSet(P) /\ IsFiniteSet(Q) /\ IsFiniteSet(O) /\ IsFiniteSet(M) /\ IsFiniteSet(StepThreads(u, step, ch))
  BY ContactsAssumption, FS_Subset DEF StepThreads, MailThreads
<1>2. HandlersType => M \subseteq (P \cup Q) \cup O
  BY DEF MailThreads, InMail, StepThreads, InStep, HandlersType, WellFormed
<1>3. /\ At(u, "pref", "email") = Cardinality(P) /\ At(u, "queue", "email") = Cardinality(Q)
      /\ At(u, "post", "email") = Cardinality(O) /\ At(u, step, ch) = Cardinality(StepThreads(u, step, ch))
  BY DEF At, StepThreads, InStep
<1> HIDE DEF P, Q, O, M
<1>4. /\ Cardinality(P) \in Nat /\ Cardinality(Q) \in Nat /\ Cardinality(O) \in Nat /\ Cardinality(M) \in Nat
      /\ Cardinality(StepThreads(u, step, ch)) \in Nat
  BY <1>1, FS_CardinalityType
<1>5. /\ IsFiniteSet(P \cup Q) /\ Cardinality(P \cup Q) \in Nat /\ Cardinality(P \cup Q) <= Cardinality(P) + Cardinality(Q)
  <2>1. IsFiniteSet(P \cup Q) /\ Cardinality(P \cup Q) = Cardinality(P) + Cardinality(Q) - Cardinality(P \cap Q)
    BY <1>1, FS_Union
  <2>2. Cardinality(P \cap Q) \in Nat /\ Cardinality(P \cup Q) \in Nat
    BY <1>1, <2>1, FS_Intersection, FS_CardinalityType
  <2>3. QED
    BY <1>4, <2>1, <2>2
<1>6. /\ IsFiniteSet((P \cup Q) \cup O) /\ Cardinality((P \cup Q) \cup O) \in Nat
      /\ Cardinality((P \cup Q) \cup O) <= Cardinality(P \cup Q) + Cardinality(O)
  <2> DEFINE X == P \cup Q
  <2>0. IsFiniteSet(X) /\ Cardinality(X) \in Nat
    BY <1>5
  <2> HIDE DEF X
  <2>1. IsFiniteSet(X \cup O) /\ Cardinality(X \cup O) = Cardinality(X) + Cardinality(O) - Cardinality(X \cap O)
    BY <1>1, <2>0, FS_Union
  <2>2. Cardinality(X \cap O) \in Nat /\ Cardinality(X \cup O) \in Nat
    BY <1>1, <2>0, <2>1, FS_Intersection, FS_CardinalityType
  <2>3. IsFiniteSet(X \cup O) /\ Cardinality(X \cup O) \in Nat /\ Cardinality(X \cup O) <= Cardinality(X) + Cardinality(O)
    BY <1>4, <2>0, <2>1, <2>2
  <2>4. QED
    BY <2>3 DEF X
<1>7. HandlersType => Cardinality(M) <= Cardinality((P \cup Q) \cup O)
  BY <1>2, <1>6, FS_Subset
<1>8. QED
  BY <1>3, <1>4, <1>5, <1>6, <1>7 DEF M

\* The history of what was stopped.
Same(x) == heard'[x] = heard[x] /\ owed'[x] = owed[x] /\ (x \in stopped' <=> x \in stopped)

HistoryType ==
  /\ stopped \subseteq Persons \X Stops
  /\ owed \in [Persons \X Stops -> Nat] /\ heard \in [Persons \X Stops -> Nat]

LEMMA UnderWayType == ASSUME StopsType, NEW u \in Persons, NEW stop \in Stops PROVE UnderWay(u, stop) \in Nat
<1>1. queued[<<u, "email">>] \in Nat
  BY DEF StopsType, MessageChannels
<1>2. \A step, ch : At(u, step, ch) \in Nat
  BY DueSizes
<1>3. CASE stop = "email"
  <2>1. UnderWay(u, stop) = queued[<<u, "email">>] + At(u, "pref", "email") + At(u, "queue", "email") + At(u, "post", "email")
    BY <1>3 DEF UnderWay
  <2>2. QED
    BY <1>1, <1>2, <2>1
<1>4. CASE stop = "telegram"
  BY <1>2, <1>4 DEF UnderWay
<1>5. CASE stop = "alert"
  <2>1. UnderWay(u, stop) = At(u, "queue", "email") + At(u, "queue", "telegram") + At(u, "queue", "whatsapp")
    BY <1>5 DEF UnderWay
  <2>2. QED
    BY <1>2, <2>1
<1>6. QED
  BY <1>3, <1>4, <1>5 DEF Stops

LEMMA StopIs ==
  ASSUME StopsType, NEW u \in Persons, NEW stop \in Stops, Stop(u, stop)
  PROVE  /\ HistoryType' /\ \A x \in Persons \X Stops : x # <<u, stop>> => Same(x)
         /\ <<u, stop>> \in stopped'
         /\ IF <<u, stop>> \in stopped THEN Same(<<u, stop>>)
            ELSE owed'[<<u, stop>>] = UnderWay(u, stop) /\ heard'[<<u, stop>>] = 0
<1>1. UnderWay(u, stop) \in Nat
  BY UnderWayType
<1> DEFINE w == UnderWay(u, stop)
<1>2. /\ stopped' = stopped \cup {<<u, stop>>}
      /\ IF <<u, stop>> \in stopped
         THEN UNCHANGED <<owed, heard>>
         ELSE /\ owed' = [owed EXCEPT ![<<u, stop>>] = w]
              /\ heard' = [heard EXCEPT ![<<u, stop>>] = 0]
  BY DEF Stop
<1>3. w \in Nat
  BY <1>1
<1> HIDE DEF w
<1>4. QED
  BY <1>2, <1>3 DEF StopsType, HistoryType, Same, w

LEMMA ResumeIs ==
  ASSUME StopsType, NEW u \in Persons, NEW stop \in Stops, Resume(u, stop)
  PROVE  /\ HistoryType' /\ \A x \in Persons \X Stops : x # <<u, stop>> => Same(x)
         /\ <<u, stop>> \notin stopped'
BY DEF StopsType, HistoryType, Same, Resume

LEMMA HearIs ==
  ASSUME StopsType, NEW u \in Persons, NEW stop, Hear(u, stop)
  PROVE  /\ HistoryType' /\ \A x \in Persons \X Stops : x # <<u, stop>> => Same(x)
         /\ UNCHANGED <<stopped, owed>>
         /\ stop \in Stops => heard'[<<u, stop>>] = IF <<u, stop>> \in stopped THEN heard[<<u, stop>>] + 1
                                                  ELSE heard[<<u, stop>>]
BY DEF StopsType, HistoryType, Same, Hear

LEMMA NothingHeard ==
  ASSUME StopsType, UNCHANGED stopVars PROVE HistoryType' /\ \A x : Same(x)
BY DEF StopsType, HistoryType, Same, stopVars

\* The preference of an alert switches it off, on, or neither.
LEMMA PrefIs ==
  ASSUME StopsType, PrefType, NEW u \in Persons, NEW channel \in MessageChannels \cup {None},
         NEW enabled \in BOOLEAN \cup {None}, upsert_single_alert_pref(u, channel, enabled)
  PROVE  /\ PrefType' /\ \A v \in Persons \ {u} : alert_pref'[v] = alert_pref[v]
         /\ \/ enabled = None /\ UNCHANGED stopVars
            \/ enabled # None /\ Switch(u, enabled)
         /\ alert_pref'[u] # None
         /\ alert_pref[u] # None /\ enabled = None => alert_pref'[u].enabled = alert_pref[u].enabled
         /\ enabled # None => alert_pref'[u].enabled = enabled
<1> DEFINE old == IF alert_pref[u] = None THEN DefaultPref ELSE alert_pref[u]
           new == [channel |-> IF channel = None THEN old.channel ELSE channel,
                   enabled |-> IF enabled = None THEN old.enabled ELSE enabled]
<1>1. old \in AlertPref
  BY DEF PrefType, DefaultPref, AlertPref, MessageChannels
<1>2. old.channel \in MessageChannels /\ old.enabled \in BOOLEAN
  BY <1>1 DEF AlertPref
<1>3. new \in AlertPref
  <2> HIDE DEF old
  <2>1. QED
    BY <1>2 DEF AlertPref
<1>4. alert_pref' = [alert_pref EXCEPT ![u] = new]
  BY DEF upsert_single_alert_pref
<1>5. new # None /\ new.enabled = (IF enabled = None THEN old.enabled ELSE enabled)
  BY <1>3, AlertPrefAssumption
<1>6. alert_pref[u] # None => old.enabled = alert_pref[u].enabled
  OBVIOUS
<1> HIDE DEF new, old
<1>7. PrefType' /\ alert_pref'[u] = new /\ \A v \in Persons \ {u} : alert_pref'[v] = alert_pref[v]
  BY <1>3, <1>4 DEF PrefType
<1>8. (enabled = None /\ UNCHANGED stopVars) \/ (enabled # None /\ Switch(u, enabled))
  BY DEF upsert_single_alert_pref
<1>9. QED
  BY <1>5, <1>6, <1>7, <1>8

\* Who stops, resumes or hears what, and who writes a preference.
HistoryStep(u) ==
  /\ \/ Same(<<u, "email">>)
     \/ \E r \in Handlers : set_email_invalid(r) /\ hreq[r].who = u
     \/ \E r \in Handlers : Post(r) /\ hreq[r].who = u /\ hreq[r].channels = {"email"}
  /\ \/ Same(<<u, "telegram">>)
     \/ clear_telegram_chat_id(u) \/ \E chat \in Chats : set_telegram_chat_id_by_username(u, chat)
     \/ \E r \in Handlers : Post(r) /\ hreq[r].who = u /\ hreq[r].channels = {"telegram"}
  /\ \/ Same(<<u, "alert">>) /\ alert_pref'[u] = alert_pref[u]
     \/ PatchPref(u) \/ upsert_alert_prefs(u)
     \/ \E r \in Handlers :
          /\ hreq[r].who = u
          /\ EnableAlert(r) \/ ReadPrefFails(r) \/ \E ch \in MessageChannels : WriteRow(r, ch)

LEMMA HistorySteps ==
  ASSUME HandlersType, PersonType, PrefType, StopsType, [ContactsNext]_contactsVars
  PROVE  HistoryType' /\ PrefType' /\ \A u \in Persons : HistoryStep(u)
<1> DEFINE Good == HistoryType' /\ PrefType' /\ \A u \in Persons : HistoryStep(u)
<1> SUFFICES Good
  OBVIOUS
<1>0. /\ \A u \in Persons : <<u, "email">> \in Persons \X Stops
      /\ \A u \in Persons : <<u, "telegram">> \in Persons \X Stops
      /\ \A u \in Persons : <<u, "alert">> \in Persons \X Stops
  BY DEF Stops
<1>1. UNCHANGED <<stopVars, alert_pref>> => Good
  BY NothingHeard DEF HistoryStep, PrefType
<1>2. ASSUME NEW r \in Handlers, set_email_invalid(r) PROVE Good
  <2>1. hreq[r].who \in Persons /\ "email" \in Stops
    BY <1>2 DEF set_email_invalid, HandlersType, WellFormed, Stops
  <2>2. Stop(hreq[r].who, "email") /\ UNCHANGED alert_pref
    BY <1>2 DEF set_email_invalid
  <2>3. HistoryType' /\ \A x \in Persons \X Stops : x # <<hreq[r].who, "email">> => Same(x)
    <3>1. ASSUME NEW u \in Persons, u = hreq[r].who
          PROVE  HistoryType' /\ \A x \in Persons \X Stops : x # <<u, "email">> => Same(x)
      BY <2>1, <2>2, <3>1, StopIs
    <3>2. QED
      BY <2>1, <3>1
  <2>4. ASSUME NEW u \in Persons PROVE HistoryStep(u)
    BY <1>0, <1>2, <2>2, <2>3 DEF HistoryStep
  <2>5. QED
    BY <2>2, <2>3, <2>4 DEF PrefType
<1>3. ASSUME NEW r \in Handlers, Post(r) PROVE Good
  <2> DEFINE ch == CHOOSE c \in hreq[r].channels : TRUE
             u == hreq[r].who
  <2>1. u \in Persons /\ \E c \in MessageChannels : hreq[r].channels = {c}
    BY <1>3 DEF Post, HandlersType, WellFormed
  <2>2. hreq[r].channels = {ch}
    BY <2>1
  <2>3. Hear(u, ch) /\ UNCHANGED alert_pref
    BY <1>3 DEF Post
  <2>6. hreq[r].who = u
    OBVIOUS
  <2> HIDE DEF ch, u
  <2>4. HistoryType' /\ \A x \in Persons \X Stops : x # <<u, ch>> => Same(x)
    BY <2>1, <2>3, HearIs
  <2>5. ASSUME NEW v \in Persons PROVE HistoryStep(v)
    <3>1. ch = "alert" => FALSE
      BY <2>1, <2>2 DEF MessageChannels
    <3>2. QED
      BY <1>0, <1>3, <2>2, <2>3, <2>4, <2>6, <3>1 DEF HistoryStep
  <2>7. QED
    BY <2>3, <2>4, <2>5 DEF PrefType
<1>4. ASSUME NEW u \in Persons, clear_telegram_chat_id(u) PROVE Good
  <2>1. Stop(u, "telegram") /\ UNCHANGED alert_pref /\ "telegram" \in Stops
    BY <1>4 DEF clear_telegram_chat_id, Stops
  <2>2. HistoryType' /\ \A x \in Persons \X Stops : x # <<u, "telegram">> => Same(x)
    BY <2>1, StopIs
  <2>3. ASSUME NEW v \in Persons PROVE HistoryStep(v)
    BY <1>0, <1>4, <2>1, <2>2 DEF HistoryStep
  <2>4. QED
    BY <2>1, <2>2, <2>3 DEF PrefType
<1>5. ASSUME NEW u \in Persons, NEW chat \in Chats, set_telegram_chat_id_by_username(u, chat) PROVE Good
  <2>1. Resume(u, "telegram") /\ UNCHANGED alert_pref /\ "telegram" \in Stops
    BY <1>5 DEF set_telegram_chat_id_by_username, Stops
  <2>2. HistoryType' /\ \A x \in Persons \X Stops : x # <<u, "telegram">> => Same(x)
    BY <2>1, ResumeIs
  <2>3. ASSUME NEW v \in Persons PROVE HistoryStep(v)
    BY <1>0, <1>5, <2>1, <2>2 DEF HistoryStep
  <2>4. QED
    BY <2>1, <2>2, <2>3 DEF PrefType
<1>6. ASSUME NEW u \in Persons, NEW channel \in MessageChannels \cup {None},
             NEW enabled \in BOOLEAN \cup {None}, upsert_single_alert_pref(u, channel, enabled)
      PROVE  /\ HistoryType' /\ PrefType' /\ \A v \in Persons \ {u} : alert_pref'[v] = alert_pref[v]
             /\ \A x \in Persons \X Stops : x # <<u, "alert">> => Same(x)
  <2>1. /\ PrefType' /\ \A v \in Persons \ {u} : alert_pref'[v] = alert_pref[v]
        /\ UNCHANGED stopVars \/ Switch(u, enabled)
    BY <1>6, PrefIs
  <2>2. CASE UNCHANGED stopVars
    BY <2>1, <2>2, NothingHeard
  <2>3. CASE Switch(u, enabled)
    <3>1. Stop(u, "alert") \/ Resume(u, "alert")
      BY <2>3 DEF Switch
    <3>2. "alert" \in Stops
      BY DEF Stops
    <3>3. HistoryType' /\ \A x \in Persons \X Stops : x # <<u, "alert">> => Same(x)
      BY <3>1, <3>2, StopIs, ResumeIs
    <3>4. QED
      BY <2>1, <3>3
  <2>4. QED
    BY <2>1, <2>2, <2>3
<1>7. ASSUME NEW u \in Persons, PatchPref(u) \/ upsert_alert_prefs(u) PROVE Good
  <2>1. PICK channel \in MessageChannels \cup {None}, enabled \in BOOLEAN \cup {None} :
          upsert_single_alert_pref(u, channel, enabled)
    <3>1. CASE PatchPref(u)
      BY <3>1 DEF PatchPref
    <3>2. CASE upsert_alert_prefs(u)
      <4>1. PICK pref \in AlertPref : upsert_single_alert_pref(u, pref.channel, pref.enabled)
        BY <3>2 DEF upsert_alert_prefs
      <4>2. pref.channel \in MessageChannels /\ pref.enabled \in BOOLEAN
        BY DEF AlertPref
      <4>3. QED
        BY <4>1, <4>2
    <3>3. QED
      BY <1>7, <3>1, <3>2
  <2>2. /\ HistoryType' /\ PrefType' /\ \A v \in Persons \ {u} : alert_pref'[v] = alert_pref[v]
        /\ \A x \in Persons \X Stops : x # <<u, "alert">> => Same(x)
    BY <1>6, <2>1
  <2>3. ASSUME NEW v \in Persons PROVE HistoryStep(v)
    BY <1>0, <1>7, <2>2 DEF HistoryStep
  <2>4. QED
    BY <2>2, <2>3
<1>8. ASSUME NEW r \in Handlers, EnableAlert(r) PROVE Good
  <2> DEFINE u == hreq[r].who
  <2>1. u \in Persons /\ upsert_single_alert_pref(u, None, TRUE) /\ hreq[r].who = u
    BY <1>8 DEF EnableAlert, HandlersType, WellFormed
  <2> HIDE DEF u
  <2>2. /\ HistoryType' /\ PrefType' /\ \A v \in Persons \ {u} : alert_pref'[v] = alert_pref[v]
        /\ \A x \in Persons \X Stops : x # <<u, "alert">> => Same(x)
    BY <1>6, <2>1
  <2>3. ASSUME NEW v \in Persons PROVE HistoryStep(v)
    BY <1>0, <1>8, <2>1, <2>2 DEF HistoryStep
  <2>4. QED
    BY <2>2, <2>3
<1>9. ASSUME NEW r \in Handlers, ReadPrefFails(r) PROVE Good
  <2> DEFINE u == hreq[r].who
             n == Cardinality(ChannelsOf(hreq[r].row, None))
  <2>1. u \in Persons /\ hpc[r] = "pref" /\ hreq[r].who = u
    BY <1>9 DEF ReadPrefFails, HandlersType, WellFormed
  <2>2. n \in Nat
    <3>1. ChannelsOf(hreq[r].row, None) \subseteq MessageChannels
      BY <1>9, <2>1, ChooseMoves DEF ReadPrefFails
    <3>2. IsFiniteSet(MessageChannels)
      <4>1. MessageChannels = ({"telegram"} \cup {"email"}) \cup {"whatsapp"}
        BY DEF MessageChannels
      <4>2. QED
        BY <4>1, FS_EmptySet, FS_Singleton, FS_Union
    <3>3. QED
      BY <3>1, <3>2, FS_Subset, FS_CardinalityType
  <2>3. owed' = (IF <<u, "alert">> \in stopped THEN [owed EXCEPT ![<<u, "alert">>] = owed[<<u, "alert">>] + n]
                ELSE owed)
        /\ UNCHANGED <<alert_pref, stopped, heard>>
    BY <1>9 DEF ReadPrefFails
  <2> HIDE DEF u, n
  <2>4. HistoryType' /\ \A x \in Persons \X Stops : x # <<u, "alert">> => Same(x)
    BY <1>0, <2>1, <2>2, <2>3 DEF StopsType, HistoryType, Same
  <2>5. ASSUME NEW v \in Persons PROVE HistoryStep(v)
    BY <1>0, <1>9, <2>1, <2>3, <2>4 DEF HistoryStep
  <2>6. QED
    BY <2>3, <2>4, <2>5 DEF PrefType
<1>10. ASSUME NEW r \in Handlers, NEW ch \in MessageChannels, WriteRow(r, ch) PROVE Good
  <2> DEFINE u == hreq[r].who
  <2>1. u \in Persons /\ Hear(u, "alert") /\ UNCHANGED alert_pref /\ hreq[r].who = u
    BY <1>10 DEF WriteRow, HandlersType, WellFormed
  <2> HIDE DEF u
  <2>2. HistoryType' /\ \A x \in Persons \X Stops : x # <<u, "alert">> => Same(x)
    BY <2>1, HearIs
  <2>3. ASSUME NEW v \in Persons PROVE HistoryStep(v)
    BY <1>0, <1>10, <2>1, <2>2 DEF HistoryStep
  <2>4. QED
    BY <2>1, <2>2, <2>3 DEF PrefType
<1> HIDE DEF Good
<1>11. ASSUME NEW u \in Persons,
              \/ \E email \in Emails : set_email_verified(u, email) \/ ChangeEmail(u, email)
              \/ \E chat \in Chats : GiveUsername(u, chat)
              \/ \E channel \in {"telegram", "email"} : update_user_notification_prefs(u, channel)
              \/ MonitorMails(u)
       PROVE  Good
  BY <1>1, <1>11 DEF set_email_verified, ChangeEmail, GiveUsername, update_user_notification_prefs, MonitorMails
<1>12. ASSUME NEW r \in Handlers,
              \/ \E u \in Persons, update \in Updates : get_notification_prefs(r, u, update)
              \/ \E u \in Persons : subscribe_causelist_alert(r, u) \/ ReadUser(r, u)
              \/ \E u \in Persons, ch \in MessageChannels : TakeRow(r, u, ch)
              \/ update_notification_prefs(r) \/ ReadPref(r)
       PROVE  Good
  BY <1>1, <1>12 DEF get_notification_prefs, subscribe_causelist_alert, ReadUser, TakeRow,
     update_notification_prefs, ReadPref
<1>13. ASSUME NEW r \in Handlers,
              PostFails(r) \/ PostRefused(r) \/ (\E email \in Emails : Bounce(r, email)) \/ HandlerFails(r)
       PROVE  Good
  BY <1>1, <1>13 DEF PostFails, PostRefused, Bounce, HandlerFails
<1>14. UNCHANGED contactsVars => Good
  BY <1>1 DEF contactsVars, stopVars
<1>15. QED
  BY <1>2, <1>3, <1>4, <1>5, <1>7, <1>8, <1>9, <1>10, <1>11, <1>12, <1>13, <1>14
     DEF ContactsNext, HandlerNext, PersonNext

\* Rows of the queue, by the one action of a thread that is at them.
QueueType == queued \in [Persons \X MessageChannels -> Nat]

LEMMA QueueUntouched ==
  ASSUME [ContactsNext]_contactsVars
  PROVE  \/ UNCHANGED queued
         \/ \E r \in Handlers :
              /\ HandlerNext(r)
              /\ \/ \E u \in Persons, ch \in MessageChannels : TakeRow(r, u, ch)
                 \/ \E ch \in MessageChannels : WriteRow(r, ch)
                 \/ PostFails(r) \/ PostRefused(r) \/ HandlerFails(r)
<1>1. ASSUME NEW u \in Persons, PersonNext(u) PROVE UNCHANGED queued
  BY <1>1 DEF PersonNext, set_email_verified, ChangeEmail, GiveUsername,
     set_telegram_chat_id_by_username, clear_telegram_chat_id, update_user_notification_prefs,
     PatchPref, upsert_alert_prefs, MonitorMails
<1>2. ASSUME NEW r \in Handlers,
             \/ \E u \in Persons, update \in Updates : get_notification_prefs(r, u, update)
             \/ \E u \in Persons : subscribe_causelist_alert(r, u) \/ ReadUser(r, u)
             \/ update_notification_prefs(r) \/ EnableAlert(r) \/ ReadPref(r) \/ ReadPrefFails(r)
             \/ Post(r) \/ (\E email \in Emails : Bounce(r, email)) \/ set_email_invalid(r)
      PROVE  UNCHANGED queued
  BY <1>2 DEF get_notification_prefs, subscribe_causelist_alert, ReadUser, update_notification_prefs,
     EnableAlert, ReadPref, ReadPrefFails, Post, Bounce, set_email_invalid
<1>3. UNCHANGED contactsVars => UNCHANGED queued
  BY DEF contactsVars
<1>4. QED
  BY <1>1, <1>2, <1>3 DEF ContactsNext, HandlerNext

\* One row more or less.
LEMMA QueueCell ==
  ASSUME QueueType, NEW x \in Persons \X MessageChannels, NEW n \in Nat, queued' = [queued EXCEPT ![x] = n]
  PROVE  QueueType' /\ queued'[x] = n /\ \A y \in Persons \X MessageChannels : y # x => queued'[y] = queued[y]
BY DEF QueueType

LEMMA QueueSteps ==
  ASSUME HandlersType, QueueType, [ContactsNext]_contactsVars
  PROVE  QueueType'
<1>1. CASE UNCHANGED queued
  BY <1>1 DEF QueueType
<1>2. ASSUME NEW r \in Handlers, NEW u \in Persons, NEW ch \in MessageChannels, TakeRow(r, u, ch)
      PROVE  QueueType'
  <2>1. queued[<<u, ch>>] \in Nat /\ queued[<<u, ch>>] > 0
    BY <1>2 DEF TakeRow, QueueType
  <2>2. queued' = [queued EXCEPT ![<<u, ch>>] = queued[<<u, ch>>] - 1]
    BY <1>2 DEF TakeRow
  <2> DEFINE n == queued[<<u, ch>>]
  <2>3. n - 1 \in Nat
    <3>1. n \in Nat /\ n > 0
      BY <2>1
    <3> HIDE DEF n
    <3>2. QED
      BY <3>1
  <2>4. QED
    BY <2>2, <2>3 DEF QueueType
<1>3. ASSUME NEW r \in Handlers, NEW ch \in MessageChannels, WriteRow(r, ch) PROVE QueueType'
  <2>1. hreq[r].who \in Persons
    BY <1>3 DEF WriteRow, HandlersType, WellFormed
  <2>2. queued[<<hreq[r].who, ch>>] \in Nat
    BY <2>1 DEF QueueType
  <2>3. queued' = [queued EXCEPT ![<<hreq[r].who, ch>>] = queued[<<hreq[r].who, ch>>] + 1]
        /\ queued[<<hreq[r].who, ch>>] + 1 \in Nat
    BY <1>3, <2>2 DEF WriteRow
  <2>4. QED
    BY <2>1, <2>3 DEF QueueType
<1>4. ASSUME NEW r \in Handlers, PostFails(r) \/ PostRefused(r) \/ HandlerFails(r) PROVE QueueType'
  <2>1. CASE hpc[r] = "post"
    <3> DEFINE c == CHOOSE c \in hreq[r].channels : TRUE
    <3>1. hreq[r].who \in Persons /\ \E ch \in MessageChannels : hreq[r].channels = {ch}
      BY <2>1 DEF HandlersType, WellFormed
    <3>2. c \in MessageChannels /\ hreq[r].channels = {c}
      BY <3>1
    <3>3. hreq[r].channels = {"email"} => c = "email"
      BY <3>2
    <3>4. \E again \in {0, 1} : queued' = [queued EXCEPT ![<<hreq[r].who, c>>] = queued[<<hreq[r].who, c>>] + again]
      <4>1. PostFails(r) => \E again \in {0, 1} : queued' = [queued EXCEPT ![<<hreq[r].who, c>>] = queued[<<hreq[r].who, c>>] + again]
        BY DEF PostFails
      <4>2. PostRefused(r) => \E again \in {0, 1} : queued' = [queued EXCEPT ![<<hreq[r].who, c>>] = queued[<<hreq[r].who, c>>] + again]
        BY <3>3 DEF PostRefused
      <4>3. HandlerFails(r) => queued' = [queued EXCEPT ![<<hreq[r].who, c>>] = queued[<<hreq[r].who, c>>] + 1]
        BY <2>1 DEF HandlerFails
      <4>4. QED
        BY <1>4, <4>1, <4>2, <4>3
    <3> HIDE DEF c
    <3>5. queued[<<hreq[r].who, c>>] \in Nat
      BY <3>1, <3>2 DEF QueueType
    <3>6. QED
      BY <3>1, <3>2, <3>4, <3>5 DEF QueueType
  <2>2. CASE hpc[r] # "post"
    BY <1>1, <1>4, <2>2 DEF PostFails, PostRefused, HandlerFails
  <2>3. QED
    BY <2>1, <2>2
<1>5. QED
  BY <1>1, <1>2, <1>3, <1>4, QueueUntouched

\* What becomes of mail that is due to a user whose mail is off: it is given, or fewer.
LEMMA MailMoves ==
  ASSUME HandlersType, PersonType, SettingsType, PrefType, QueueType, NEW r \in Handlers, HandlerNext(r),
         NEW u \in Persons, ~ person[u].email_valid
  PROVE  queued'[<<u, "email">>] + OneIf(InMail(r, u)') + OneIf(Post(r) /\ InMail(r, u))
           <= queued[<<u, "email">>] + OneIf(InMail(r, u))
<1> DEFINE q == queued[<<u, "email">>]
           q1 == queued'[<<u, "email">>]
           b == OneIf(InMail(r, u))
           b1 == OneIf(InMail(r, u)')
           p == OneIf(Post(r) /\ InMail(r, u))
           Good == q1 + b1 + p <= q + b
<1> SUFFICES Good
  OBVIOUS
<1>0. /\ q \in Nat /\ b \in {0, 1} /\ b1 \in {0, 1} /\ p \in {0, 1}
      /\ <<u, "email">> \in Persons \X MessageChannels
  BY DEF QueueType, OneIf, MessageChannels
<1>a. (InMail(r, u) => b = 1) /\ (~ InMail(r, u) => b = 0 /\ p = 0)
  BY DEF OneIf
<1>b. (~ InMail(r, u)' => b1 = 0) /\ (~ Post(r) => p = 0)
  BY DEF OneIf
<1>c. p <= b
  BY <1>a, <1>0
<1> HIDE DEF b, b1, p
<1>1. ASSUME UNCHANGED queued, ~ InMail(r, u)' PROVE Good
  <2>1. q1 = q /\ b1 = 0
    BY <1>1, <1>b
  <2> HIDE DEF q, q1
  <2>2. QED
    BY <1>0, <1>c, <2>1
<1>2. ASSUME UNCHANGED queued, InMail(r, u), ~ Post(r) PROVE Good
  <2>1. q1 = q /\ b = 1 /\ p = 0
    BY <1>2, <1>a, <1>b
  <2> HIDE DEF q, q1
  <2>2. QED
    BY <1>0, <2>1
<1>3. ASSUME q1 = q + 1 \/ q1 = q, InMail(r, u), ~ InMail(r, u)', ~ Post(r) PROVE Good
  <2>1. b = 1 /\ b1 = 0 /\ p = 0
    BY <1>3, <1>a, <1>b
  <2> HIDE DEF q, q1
  <2>2. QED
    BY <1>0, <1>3, <2>1
<1>d. /\ Post(r) => hpc[r] = "post" /\ hpc'[r] = "idle"
      /\ hpc[r] # "post" => ~ Post(r)
  BY DoneMoves DEF Post
<1>e. hpc[r] \in {"idle", "merge", "enable", "invalid"} => ~ InMail(r, u)
  BY DEF InMail
<1>f. hpc'[r] \in {"idle", "merge", "enable", "invalid"} => ~ InMail(r, u)'
  BY DEF InMail
<1> HIDE DEF q, q1, Good
<1>4. ASSUME NEW w \in Persons, NEW update \in Updates, get_notification_prefs(r, w, update) PROVE Good
  BY <1>1, <1>4, <1>f, get_notification_prefsMoves DEF get_notification_prefs
<1>5. ASSUME NEW w \in Persons, subscribe_causelist_alert(r, w) PROVE Good
  BY <1>1, <1>5, <1>f, subscribe_causelist_alertMoves DEF subscribe_causelist_alert
<1>6. ASSUME NEW w \in Persons, ReadUser(r, w) PROVE Good
  <2>1. ~ InMail(r, u)'
    BY <1>6, ReadUserMoves DEF InMail
  <2>2. QED
    BY <1>1, <1>6, <2>1 DEF ReadUser
<1>7. ASSUME NEW w \in Persons, NEW ch \in MessageChannels, TakeRow(r, w, ch) PROVE Good
  <2>0. hpc[r] = "idle" /\ b = 0 /\ p = 0
    BY <1>7, <1>a, <1>e DEF TakeRow
  <2>1. CASE w = u /\ ch = "email"
    <3>1. q1 = q - 1
      BY <1>7, <2>1 DEF TakeRow, QueueType, q, q1
    <3>2. QED
      BY <1>0, <2>0, <3>1 DEF Good
  <2>2. CASE ~ (w = u /\ ch = "email")
    <3>1. q1 = q
      BY <1>7, <2>2 DEF TakeRow, QueueType, q, q1, MessageChannels
    <3>2. ~ InMail(r, u)'
      <4>1. CASE UNCHANGED threadVars
        BY <2>0, <4>1 DEF InMail, threadVars
      <4>2. CASE hpc'[r] = "post" /\ hreq'[r].who = w /\ hreq'[r].channels = {ch}
        BY <2>2, <4>2 DEF InMail
      <4>3. QED
        BY <1>7, <4>1, <4>2, TakeRowMoves
    <3>3. b1 = 0
      BY <1>b, <3>2
    <3>4. QED
      BY <1>0, <2>0, <3>1, <3>3 DEF Good
  <2>3. QED
    BY <2>1, <2>2
<1>8. ASSUME update_notification_prefs(r) \/ EnableAlert(r) \/ Post(r) \/ set_email_invalid(r) PROVE Good
  <2>1. hpc'[r] = "idle"
    BY <1>8, DoneMoves, update_notification_prefsMoves DEF EnableAlert, Post, set_email_invalid
  <2>2. UNCHANGED queued
    BY <1>8 DEF update_notification_prefs, EnableAlert, Post, set_email_invalid
  <2>3. QED
    BY <1>1, <1>f, <2>1, <2>2
<1>9. ASSUME hpc[r] = "pref", NEW pref \in AlertPref \cup {None}, Choose(r, pref), UNCHANGED queued PROVE Good
  <2>1. CASE InMail(r, u)'
    <3>1. hpc'[r] = "queue" /\ hreq'[r].who = hreq[r].who /\ hreq'[r].channels = ChannelsOf(hreq[r].row, pref)
      BY <1>9, <2>1, <1>f, ChooseMoves
    <3>2. hreq[r].who = u /\ "email" \in ChannelsOf(hreq[r].row, pref)
      BY <2>1, <3>1 DEF InMail
    <3>3. hreq[r].row.email_valid
      BY <3>2 DEF ChannelsOf, Emailable
    <3>4. InMail(r, u)
      BY <1>9, <3>2, <3>3 DEF InMail
    <3>5. QED
      BY <1>2, <1>9, <1>d, <3>4
  <2>2. CASE ~ InMail(r, u)'
    BY <1>1, <1>9, <2>2
  <2>3. QED
    BY <2>1, <2>2
<1>10. ASSUME ReadPref(r) PROVE Good
  <2>1. hreq[r].who \in Persons /\ hpc[r] = "pref"
    BY <1>10 DEF ReadPref, HandlersType, WellFormed
  <2>2. alert_pref[hreq[r].who] \in AlertPref \cup {None}
    BY <2>1 DEF PrefType
  <2>3. QED
    BY <1>9, <1>10, <2>1, <2>2 DEF ReadPref
<1>11. ASSUME ReadPrefFails(r) PROVE Good
  BY <1>9, <1>11 DEF ReadPrefFails
<1>12. ASSUME NEW ch \in MessageChannels, WriteRow(r, ch) PROVE Good
  <2>0. hpc[r] = "queue" /\ ~ Post(r) /\ ch \in hreq[r].channels
    BY <1>12, <1>d DEF WriteRow
  <2>1. CASE hreq[r].who = u /\ ch = "email"
    <3>1. InMail(r, u)
      BY <2>0, <2>1 DEF InMail
    <3>2. q1 = q + 1
      BY <1>12, <2>1 DEF WriteRow, QueueType, q, q1, MessageChannels
    <3>3. ~ InMail(r, u)'
      <4>1. CASE hpc'[r] = "idle"
        BY <1>f, <4>1
      <4>2. CASE hpc'[r] = "queue" /\ hreq'[r].channels = hreq[r].channels \ {ch}
        BY <2>1, <4>2 DEF InMail
      <4>3. QED
        BY <1>12, <4>1, <4>2, WriteRowMoves
    <3>4. QED
      BY <1>3, <2>0, <3>1, <3>2, <3>3
  <2>2. CASE ~ (hreq[r].who = u /\ ch = "email")
    <3>1. q1 = q
      <4>1. hreq[r].who \in Persons
        BY <2>0 DEF HandlersType, WellFormed
      <4>2. QED
        BY <1>12, <2>2, <4>1 DEF WriteRow, QueueType, q, q1, MessageChannels
    <3>2. InMail(r, u)' => InMail(r, u)
      <4>1. CASE hpc'[r] = "idle"
        BY <1>f, <4>1
      <4>2. CASE hpc'[r] = "queue" /\ hreq'[r].who = hreq[r].who /\ hreq'[r].channels = hreq[r].channels \ {ch}
        BY <2>0, <4>2 DEF InMail
      <4>3. QED
        BY <1>12, <4>1, <4>2, WriteRowMoves
    <3>3. b1 <= b
      BY <1>0, <1>a, <1>b, <3>2
    <3>4. p = 0
      BY <1>b, <2>0
    <3>5. QED
      BY <1>0, <3>1, <3>3, <3>4 DEF Good
  <2>3. QED
    BY <2>1, <2>2
<1>13. ASSUME hpc[r] = "post", hpc'[r] \in {"idle", "invalid"}, ~ Post(r), NEW again \in {0, 1},
              NEW c \in MessageChannels, hreq[r].channels = {c},
              queued' = [queued EXCEPT ![<<hreq[r].who, c>>] = @ + again]
       PROVE  Good
  <2>1. ~ InMail(r, u)' /\ b1 = 0 /\ p = 0 /\ hreq[r].who \in Persons
    BY <1>13, <1>b, <1>f DEF HandlersType, WellFormed
  <2>2. CASE hreq[r].who = u /\ c = "email"
    <3>1. InMail(r, u)
      BY <1>13, <2>2 DEF InMail
    <3>2. q1 = q + again
      BY <1>13, <2>2 DEF QueueType, q, q1, MessageChannels
    <3>3. b = 1
      BY <1>a, <3>1
    <3>4. QED
      BY <1>0, <2>1, <3>2, <3>3 DEF Good
  <2>3. CASE ~ (hreq[r].who = u /\ c = "email")
    <3>1. q1 = q
      BY <1>13, <2>1, <2>3 DEF QueueType, q, q1, MessageChannels
    <3>2. QED
      BY <1>0, <2>1, <3>1 DEF Good
  <2>4. QED
    BY <2>2, <2>3
<1>14. ASSUME PostFails(r) \/ PostRefused(r) \/ HandlerFails(r) PROVE Good
  <2>1. CASE hpc[r] = "post" /\ ~ Post(r)
    <3> DEFINE c == CHOOSE c \in hreq[r].channels : TRUE
    <3>1. hreq[r].who \in Persons /\ \E ch \in MessageChannels : hreq[r].channels = {ch}
      BY <2>1 DEF HandlersType, WellFormed
    <3>2. c \in MessageChannels /\ hreq[r].channels = {c}
      BY <3>1
    <3>3. hreq[r].channels = {"email"} => c = "email"
      BY <3>2
    <3>4. hpc'[r] \in {"idle", "invalid"}
      <4>1. PostFails(r) \/ HandlerFails(r) => hpc'[r] = "idle"
        BY DoneMoves DEF PostFails, HandlerFails
      <4>2. PostRefused(r) => hpc'[r] = "invalid"
        BY DEF PostRefused, Proceed, HandlersType
      <4>3. QED
        BY <1>14, <4>1, <4>2
    <3>5. \E again \in {0, 1} : queued' = [queued EXCEPT ![<<hreq[r].who, c>>] = @ + again]
      <4>1. PostFails(r) => \E again \in {0, 1} : queued' = [queued EXCEPT ![<<hreq[r].who, c>>] = @ + again]
        BY DEF PostFails
      <4>2. PostRefused(r) => \E again \in {0, 1} : queued' = [queued EXCEPT ![<<hreq[r].who, c>>] = @ + again]
        BY <3>3 DEF PostRefused
      <4>3. HandlerFails(r) => queued' = [queued EXCEPT ![<<hreq[r].who, c>>] = @ + 1]
        BY <2>1 DEF HandlerFails
      <4>4. QED
        BY <1>14, <4>1, <4>2, <4>3
    <3> HIDE DEF c
    <3>6. QED
      BY <1>13, <2>1, <3>2, <3>4, <3>5
  <2>2. CASE hpc[r] # "post"
    <3>1. HandlerFails(r)
      BY <1>14, <2>2 DEF PostFails, PostRefused
    <3>2. hpc'[r] = "idle" /\ UNCHANGED queued
      BY <2>2, <3>1, DoneMoves DEF HandlerFails
    <3>3. QED
      BY <1>1, <1>f, <3>2
  <2>3. CASE Post(r)
    BY <1>8, <2>3
  <2>4. QED
    BY <2>1, <2>2, <2>3
<1>15. ASSUME NEW email \in Emails, Bounce(r, email) PROVE Good
  <2>1. ~ InMail(r, u)'
    <3>1. hpc[r] = "idle"
      BY <1>15 DEF Bounce
    <3>2. CASE UNCHANGED threadVars
      BY <1>e, <3>1, <3>2 DEF InMail, threadVars
    <3>3. CASE ~ UNCHANGED threadVars
      <4>1. hpc'[r] = "invalid"
        BY <1>15, <3>3 DEF Bounce, Proceed, HandlersType
      <4>2. QED
        BY <1>f, <4>1
    <3>4. QED
      BY <3>2, <3>3
  <2>2. QED
    BY <1>1, <1>15, <2>1 DEF Bounce
<1>16. QED
  BY <1>4, <1>5, <1>6, <1>7, <1>8, <1>10, <1>11, <1>12, <1>14, <1>15 DEF HandlerNext

\* A user who is told something.
LEMMA PostIs ==
  ASSUME HandlersType, StopsType, NEW r \in Handlers, Post(r), NEW u \in Persons, NEW stop \in Stops
  PROVE  /\ hpc[r] = "post" /\ UNCHANGED <<stopped, owed, queued>> /\ Others(r) /\ hpc'[r] = "idle"
         /\ \/ Same(<<u, stop>>)
            \/ /\ InStep(r, u, "post", stop)
               /\ heard'[<<u, stop>>] = heard[<<u, stop>>] + 1
<1> DEFINE ch == CHOOSE c \in hreq[r].channels : TRUE
           w == hreq[r].who
<1>1. w \in Persons /\ hpc[r] = "post" /\ \E c \in MessageChannels : hreq[r].channels = {c}
  BY DEF Post, HandlersType, WellFormed
<1>2. ch \in hreq[r].channels
  BY <1>1
<1>3. Hear(w, ch) /\ UNCHANGED queued
  BY DEF Post
<1>4. Others(r) /\ hpc'[r] = "idle"
  BY DoneMoves DEF Post
<1>5. w = hreq[r].who
  OBVIOUS
<1> HIDE DEF ch, w
<1>6. /\ UNCHANGED <<stopped, owed>>
      /\ \A x \in Persons \X Stops : x # <<w, ch>> => Same(x)
      /\ ch \in Stops => heard'[<<w, ch>>] = IF <<w, ch>> \in stopped THEN heard[<<w, ch>>] + 1
                                           ELSE heard[<<w, ch>>]
  BY <1>1, <1>3, HearIs
<1>7. CASE w = u /\ ch = stop
  <2>1. InStep(r, u, "post", stop)
    BY <1>1, <1>2, <1>5, <1>7 DEF InStep
  <2>2. \/ heard'[<<u, stop>>] = heard[<<u, stop>>] + 1
        \/ heard'[<<u, stop>>] = heard[<<u, stop>>]
    BY <1>6, <1>7
  <2>3. QED
    BY <1>1, <1>3, <1>4, <1>6, <2>1, <2>2 DEF Same
<1>8. CASE ~ (w = u /\ ch = stop)
  <2>1. <<u, stop>> # <<w, ch>> /\ <<u, stop>> \in Persons \X Stops
    BY <1>8
  <2>2. Same(<<u, stop>>)
    BY <1>6, <2>1
  <2>3. QED
    BY <1>1, <1>3, <1>4, <1>6, <2>2
<1>9. QED
  BY <1>7, <1>8

ContactsTypes ==
  HandlersType /\ PersonType /\ SettingsType /\ PrefType /\ StopsType /\ QueueType

LEMMA MailStopsNext ==
  ASSUME ContactsTypes, NEW u \in Persons, MailStops(u), [ContactsNext]_contactsVars
  PROVE  MailStops(u)'
<1> USE DEF ContactsTypes
<1> DEFINE x == <<u, "email">>
           q == queued[x]
           q1 == queued'[x]
           h == heard[x]
           h1 == heard'[x]
           w == owed[x]
           w1 == owed'[x]
           M == Cardinality(MailThreads(u))
           M1 == Cardinality(MailThreads(u)')
<1>0. x \in Persons \X Stops /\ x \in Persons \X MessageChannels /\ "email" \in Stops
  BY DEF Stops, MessageChannels
<1>1. /\ q \in Nat /\ h \in Nat /\ w \in Nat /\ M \in Nat
  BY <1>0, DueSizes DEF QueueType, StopsType
<1>2. QueueType' /\ HistoryType' /\ HistoryStep(u) /\ RowStep(u)
  BY QueueSteps, HistorySteps, PersonStep
<1>3. q1 \in Nat /\ h1 \in Nat /\ w1 \in Nat
  BY <1>0, <1>2 DEF QueueType, HistoryType
<1> SUFFICES ASSUME x \in stopped'
             PROVE  ~ person'[u].email_valid /\ h1 + (q1 + M1) <= w1
  BY DEF MailStops, MailDue
<1>4. CASE x \in stopped
  <2>1. ~ person[u].email_valid /\ h + (q + M) <= w
    BY <1>4 DEF MailStops, MailDue
  <2>2. ~ person'[u].email_valid
    BY <1>2, <2>1 DEF RowStep
  <2>3. ASSUME NEW r \in Handlers, HandlerNext(r), h1 <= h + OneIf(Post(r) /\ InMail(r, u)), w1 = w
        PROVE  h1 + (q1 + M1) <= w1
    <3> DEFINE p == OneIf(Post(r) /\ InMail(r, u))
               b == OneIf(InMail(r, u))
               b1 == OneIf(InMail(r, u)')
    <3>1. q1 + b1 + p <= q + b
      BY <2>1, <2>3, MailMoves
    <3>2. M1 \in Nat /\ M1 + b = M + b1 /\ b \in {0, 1} /\ b1 \in {0, 1}
      BY <2>3, HandlerMoves, MailThreadsDiffer
    <3>3. p \in {0, 1} /\ h1 <= h + p
      BY <2>3 DEF OneIf
    <3> HIDE DEF p, b, b1, q, q1, h, h1, w, w1, M, M1
    <3>4. h1 + (q1 + M1) <= h + (q + M)
      BY <1>1, <1>3, <3>1, <3>2, <3>3
    <3>5. QED
      BY <1>1, <1>3, <2>1, <2>3, <3>2, <3>4
  <2>4. CASE \E r \in Handlers : Post(r)
    <3>1. PICK r \in Handlers : Post(r)
      BY <2>4
    <3>2. /\ UNCHANGED <<stopped, owed, queued>>
          /\ Same(x) \/ (InStep(r, u, "post", "email") /\ h1 = h + 1)
      BY <1>0, <3>1, PostIs
    <3>3. h1 <= h + OneIf(Post(r) /\ InMail(r, u))
      <4>1. CASE Same(x)
        <5>1. h1 = h /\ OneIf(Post(r) /\ InMail(r, u)) \in {0, 1}
          BY <4>1 DEF Same, OneIf
        <5> HIDE DEF h, h1
        <5>2. QED
          BY <1>1, <5>1
      <4>2. CASE InStep(r, u, "post", "email") /\ h1 = h + 1
        <5>1. InMail(r, u)
          BY <4>2 DEF InStep, InMail
        <5>2. OneIf(Post(r) /\ InMail(r, u)) = 1
          BY <3>1, <5>1 DEF OneIf
        <5> HIDE DEF h, h1
        <5>3. QED
          BY <1>1, <4>2, <5>2
      <4>3. QED
        BY <3>2, <4>1, <4>2
    <3>4. w1 = w
      BY <3>2
    <3>5. HandlerNext(r)
      BY <3>1 DEF HandlerNext
    <3>6. QED
      BY <2>2, <2>3, <3>1, <3>3, <3>4, <3>5
  <2>5. CASE ~ \E r \in Handlers : Post(r)
    <3>1. Same(x)
      <4>1. ASSUME NEW r \in Handlers, set_email_invalid(r), hreq[r].who = u PROVE Same(x)
        <5>1. Stop(u, "email")
          BY <4>1 DEF set_email_invalid
        <5>2. QED
          BY <1>0, <1>4, <5>1, StopIs
      <4>2. QED
        BY <1>2, <2>5, <4>1 DEF HistoryStep
    <3>2. h1 = h /\ w1 = w
      BY <3>1 DEF Same
    <3>3. CASE \E r \in Handlers : HandlerNext(r)
      <4>1. PICK r \in Handlers : HandlerNext(r)
        BY <3>3
      <4>2. h1 <= h + OneIf(Post(r) /\ InMail(r, u))
        <5>1. OneIf(Post(r) /\ InMail(r, u)) \in {0, 1}
          BY DEF OneIf
        <5> HIDE DEF h, h1
        <5>2. QED
          BY <1>1, <3>2, <5>1
      <4>3. QED
        BY <2>2, <2>3, <3>2, <4>1, <4>2
    <3>4. CASE ~ \E r \in Handlers : HandlerNext(r)
      <4>1. UNCHANGED threadVars
        BY <3>4, PersonStays DEF ContactsNext, contactsVars, threadVars
      <4>2. UNCHANGED queued
        BY <3>4, QueueUntouched
      <4>3. M1 = M /\ q1 = q
        BY <4>1, <4>2 DEF MailThreads, InMail, threadVars
      <4>4. QED
        BY <2>1, <2>2, <3>2, <4>3
    <3>5. QED
      BY <3>3, <3>4
  <2>6. QED
    BY <2>4, <2>5
<1>5. CASE x \notin stopped
  <2>1. ~ Same(x)
    BY <1>5 DEF Same
  <2>2. ASSUME NEW r \in Handlers, Post(r) PROVE FALSE
    BY <1>0, <1>5, <2>2, PostIs
  <2>3. PICK r \in Handlers : set_email_invalid(r) /\ hreq[r].who = u
    BY <1>2, <2>1, <2>2 DEF HistoryStep
  <2>4. ~ person'[u].email_valid
    <3>1. person' = [person EXCEPT ![u].email_valid = FALSE] /\ person[u] \in PersonRow
      BY <2>3 DEF set_email_invalid, PersonType
    <3>2. QED
      BY <3>1 DEF PersonType, PersonRow
  <2>5. Stop(u, "email") /\ UNCHANGED queued /\ HandlerDone(r)
    BY <2>3 DEF set_email_invalid
  <2>6. h1 = 0 /\ w1 = UnderWay(u, "email")
    BY <1>0, <1>5, <2>5, StopIs
  <2> DEFINE P == At(u, "pref", "email")
             Q == At(u, "queue", "email")
             O == At(u, "post", "email")
  <2>7. w1 = q + P + Q + O
    BY <2>6 DEF UnderWay
  <2>8. P \in Nat /\ Q \in Nat /\ O \in Nat /\ M <= P + Q + O
    BY DueSizes
  <2>9. M1 \in Nat /\ M1 <= M
    <3> DEFINE b == OneIf(InMail(r, u))
               b1 == OneIf(InMail(r, u)')
    <3>1. M1 \in Nat /\ M1 + b = M + b1 /\ b \in {0, 1}
      BY <2>5, DoneMoves, MailThreadsDiffer
    <3>2. b1 = 0
      <4>1. hpc'[r] = "idle"
        BY <2>5, DoneMoves
      <4>2. QED
        BY <4>1 DEF InMail, OneIf
    <3> HIDE DEF b, b1, M, M1
    <3>3. QED
      BY <1>1, <3>1, <3>2
  <2>10. q1 = q
    BY <2>5
  <2>11. h1 + (q1 + M1) <= w1
    <3> HIDE DEF P, Q, O, M, M1, h1, q, q1, w1
    <3>1. QED
      BY <1>1, <2>6, <2>7, <2>8, <2>9, <2>10
  <2>12. QED
    BY <2>4, <2>11
<1>6. QED
  BY <1>4, <1>5

\* The chat: once it is unlinked no message is addressed to it.
LEMMA ChatMoves ==
  ASSUME HandlersType, PersonType, SettingsType, PrefType, NEW r \in Handlers, HandlerNext(r), ~ Post(r),
         NEW u \in Persons, person[u].telegram_chat_id = None
  PROVE  ~ InStep(r, u, "post", "telegram")'
<1>1. SUFFICES ASSUME hpc'[r] = "post", hreq'[r].who = u, "telegram" \in hreq'[r].channels PROVE FALSE
  BY DEF InStep
<1>2. ASSUME NEW w \in Persons, NEW ch \in MessageChannels, TakeRow(r, w, ch) PROVE FALSE
  <2>1. CASE UNCHANGED threadVars
    BY <1>1, <1>2, <2>1 DEF TakeRow, threadVars
  <2>2. CASE Address(person[w], ch) # None /\ hreq'[r].who = w /\ hreq'[r].channels = {ch}
    <3>1. w = u /\ ch = "telegram"
      BY <1>1, <2>2
    <3>2. Address(person[u], "telegram") = person[u].telegram_chat_id
      BY DEF Address
    <3>3. QED
      BY <2>2, <3>1, <3>2
  <2>3. QED
    BY <1>2, <2>1, <2>2, TakeRowMoves
<1>3. ASSUME NEW w \in Persons, NEW update \in Updates, get_notification_prefs(r, w, update) PROVE FALSE
  BY <1>1, <1>3, get_notification_prefsMoves
<1>4. ASSUME NEW w \in Persons, subscribe_causelist_alert(r, w) \/ ReadUser(r, w) PROVE FALSE
  BY <1>1, <1>4, subscribe_causelist_alertMoves, ReadUserMoves
<1>5. ASSUME update_notification_prefs(r) PROVE FALSE
  BY <1>1, <1>5, update_notification_prefsMoves
<1>6. ASSUME EnableAlert(r) \/ PostFails(r) \/ set_email_invalid(r) \/ HandlerFails(r) PROVE FALSE
  BY <1>1, <1>6, DoneMoves DEF EnableAlert, PostFails, set_email_invalid, HandlerFails
<1>7. ASSUME ReadPref(r) PROVE FALSE
  <2>1. hreq[r].who \in Persons /\ hpc[r] = "pref"
    BY <1>7 DEF ReadPref, HandlersType, WellFormed
  <2>2. alert_pref[hreq[r].who] \in AlertPref \cup {None}
    BY <2>1 DEF PrefType
  <2>3. QED
    BY <1>1, <1>7, <2>1, <2>2, ChooseMoves DEF ReadPref
<1>8. ASSUME ReadPrefFails(r) PROVE FALSE
  BY <1>1, <1>8, ChooseMoves DEF ReadPrefFails
<1>9. ASSUME NEW ch \in MessageChannels, WriteRow(r, ch) PROVE FALSE
  BY <1>1, <1>9, WriteRowMoves
<1>10. ASSUME PostRefused(r) PROVE FALSE
  BY <1>1, <1>10 DEF PostRefused, Proceed, HandlersType
<1>11. ASSUME NEW email \in Emails, Bounce(r, email) PROVE FALSE
  BY <1>1, <1>11 DEF Bounce, Proceed, HandlersType, threadVars
<1>12. QED
  BY <1>2, <1>3, <1>4, <1>5, <1>6, <1>7, <1>8, <1>9, <1>10, <1>11 DEF HandlerNext

LEMMA ChatStopsNext ==
  ASSUME ContactsTypes, NEW u \in Persons, ChatStops(u), [ContactsNext]_contactsVars
  PROVE  ChatStops(u)'
<1> USE DEF ContactsTypes
<1> DEFINE x == <<u, "telegram">>
           h == heard[x]
           h1 == heard'[x]
           w == owed[x]
           w1 == owed'[x]
           M == At(u, "post", "telegram")
           M1 == At(u, "post", "telegram")'
<1>0. x \in Persons \X Stops /\ "telegram" \in Stops
  BY DEF Stops
<1>1. /\ h \in Nat /\ w \in Nat /\ M \in Nat
  BY <1>0, DueSizes DEF StopsType
<1>2. HistoryType' /\ HistoryStep(u) /\ RowStep(u)
  BY HistorySteps, PersonStep
<1>3. h1 \in Nat /\ w1 \in Nat
  BY <1>0, <1>2 DEF HistoryType
<1> SUFFICES ASSUME x \in stopped'
             PROVE  person'[u].telegram_chat_id = None /\ h1 + M1 <= w1
  BY DEF ChatStops, ChatDue
<1>a. UNCHANGED threadVars => M1 = M
  BY DEF At, threadVars
<1>b. ASSUME NEW chat \in Chats, set_telegram_chat_id_by_username(u, chat) PROVE FALSE
  <2>1. Resume(u, "telegram")
    BY <1>b DEF set_telegram_chat_id_by_username
  <2>2. QED
    BY <1>0, <2>1, ResumeIs
<1>4. CASE x \in stopped
  <2>1. person[u].telegram_chat_id = None /\ h + M <= w
    BY <1>4 DEF ChatStops, ChatDue
  <2>2. person'[u].telegram_chat_id = None
    BY <1>2, <1>b, <2>1 DEF RowStep
  <2>3. CASE \E r \in Handlers : Post(r)
    <3>1. PICK r \in Handlers : Post(r)
      BY <2>3
    <3>2. /\ UNCHANGED <<stopped, owed, queued>> /\ Others(r) /\ hpc'[r] = "idle"
          /\ Same(x) \/ (InStep(r, u, "post", "telegram") /\ h1 = h + 1)
      BY <1>0, <3>1, PostIs
    <3> DEFINE b == OneIf(InStep(r, u, "post", "telegram"))
               b1 == OneIf(InStep(r, u, "post", "telegram")')
    <3>3. M1 \in Nat /\ M1 + b = M + b1 /\ b \in {0, 1}
      BY <3>2, AtDiffers
    <3>4. b1 = 0 /\ w1 = w
      BY <3>2 DEF InStep, OneIf
    <3>5. h1 <= h + b
      <4>1. CASE Same(x)
        <5>1. h1 = h
          BY <4>1 DEF Same
        <5> HIDE DEF h, h1, b
        <5>2. QED
          BY <1>1, <3>3, <5>1
      <4>2. CASE InStep(r, u, "post", "telegram") /\ h1 = h + 1
        <5>1. b = 1
          BY <4>2 DEF OneIf
        <5> HIDE DEF h, h1, b
        <5>2. QED
          BY <1>1, <4>2, <5>1
      <4>3. QED
        BY <3>2, <4>1, <4>2
    <3> HIDE DEF b, b1, h, h1, w, w1, M, M1
    <3>6. h1 + M1 <= w1
      BY <1>1, <1>3, <2>1, <3>3, <3>4, <3>5
    <3>7. QED
      BY <2>2, <3>6
  <2>4. CASE ~ \E r \in Handlers : Post(r)
    <3>1. Same(x)
      <4>1. clear_telegram_chat_id(u) => Same(x)
        <5>1. clear_telegram_chat_id(u) => Stop(u, "telegram")
          BY DEF clear_telegram_chat_id
        <5>2. QED
          BY <1>0, <1>4, <5>1, StopIs
      <4>2. QED
        BY <1>2, <1>b, <2>4, <4>1 DEF HistoryStep
    <3>2. h1 = h /\ w1 = w
      BY <3>1 DEF Same
    <3>3. CASE \E r \in Handlers : HandlerNext(r)
      <4>1. PICK r \in Handlers : HandlerNext(r)
        BY <3>3
      <4> DEFINE b == OneIf(InStep(r, u, "post", "telegram"))
                 b1 == OneIf(InStep(r, u, "post", "telegram")')
      <4>2. M1 \in Nat /\ M1 + b = M + b1 /\ b \in {0, 1}
        BY <4>1, HandlerMoves, AtDiffers
      <4>3. b1 = 0
        BY <2>1, <2>4, <4>1, ChatMoves DEF OneIf
      <4> HIDE DEF b, b1, h, h1, w, w1, M, M1
      <4>4. h1 + M1 <= w1
        BY <1>1, <1>3, <2>1, <3>2, <4>2, <4>3
      <4>5. QED
        BY <2>2, <4>4
    <3>4. CASE ~ \E r \in Handlers : HandlerNext(r)
      <4>1. UNCHANGED threadVars
        BY <3>4, PersonStays DEF ContactsNext, contactsVars, threadVars
      <4>2. QED
        BY <1>a, <2>1, <2>2, <3>2, <4>1
    <3>5. QED
      BY <3>3, <3>4
  <2>5. QED
    BY <2>3, <2>4
<1>5. CASE x \notin stopped
  <2>1. ~ Same(x)
    BY <1>5 DEF Same
  <2>2. ASSUME NEW r \in Handlers, Post(r) PROVE FALSE
    BY <1>0, <1>5, <2>2, PostIs
  <2>3. clear_telegram_chat_id(u)
    BY <1>2, <1>b, <2>1, <2>2 DEF HistoryStep
  <2>4. person'[u].telegram_chat_id = None
    <3>1. person' = [person EXCEPT ![u].telegram_chat_id = None, ![u].telegram_username = None]
          /\ person[u] \in PersonRow
      BY <2>3 DEF clear_telegram_chat_id, PersonType
    <3>2. QED
      BY <3>1 DEF PersonType, PersonRow
  <2>5. Stop(u, "telegram") /\ UNCHANGED threadVars
    BY <2>3 DEF clear_telegram_chat_id
  <2>6. h1 = 0 /\ w1 = UnderWay(u, "telegram")
    BY <1>0, <1>5, <2>5, StopIs
  <2>7. w1 = M
    BY <2>6 DEF UnderWay
  <2>8. M1 = M
    BY <1>a, <2>5
  <2>9. h1 + M1 <= w1
    <3> HIDE DEF M, M1, h1, w1
    <3>1. QED
      BY <1>1, <2>6, <2>7, <2>8
  <2>10. QED
    BY <2>4, <2>9
<1>6. QED
  BY <1>4, <1>5

\* A set of channels, counted one by one.
LEMMA ChannelsCount ==
  ASSUME NEW S \in SUBSET MessageChannels
  PROVE  Cardinality(S) = OneIf("email" \in S) + OneIf("telegram" \in S) + OneIf("whatsapp" \in S)
<1>0. IsFiniteSet(MessageChannels)
  <2>1. MessageChannels = ({"telegram"} \cup {"email"}) \cup {"whatsapp"}
    BY DEF MessageChannels
  <2>2. QED
    BY <2>1, FS_EmptySet, FS_Singleton, FS_Union
<1>1. ASSUME NEW T \in SUBSET MessageChannels, NEW e
      PROVE  /\ Cardinality(T) \in Nat /\ Cardinality(T \ {e}) \in Nat
             /\ Cardinality(T) = Cardinality(T \ {e}) + OneIf(e \in T)
  <2>1. IsFiniteSet(T) /\ Cardinality(T) \in Nat
    BY <1>0, FS_Subset, FS_CardinalityType
  <2>2. CASE e \in T
    <3>1. IsFiniteSet(T \ {e}) /\ Cardinality(T \ {e}) = Cardinality(T) - 1 /\ Cardinality(T \ {e}) \in Nat
      BY <2>1, <2>2, FS_RemoveElement, FS_CardinalityType
    <3>2. OneIf(e \in T) = 1
      BY <2>2 DEF OneIf
    <3>3. QED
      BY <2>1, <3>1, <3>2
  <2>3. CASE e \notin T
    <3> DEFINE n == Cardinality(T)
               d == OneIf(e \in T)
    <3>1. T \ {e} = T /\ d = 0 /\ n \in Nat
      BY <2>1, <2>3 DEF OneIf
    <3>2. Cardinality(T \ {e}) = n
      BY <3>1
    <3> HIDE DEF n, d
    <3>3. n = n + d
      BY <3>1
    <3>4. QED
      BY <3>1, <3>2, <3>3 DEF n, d
  <2>4. QED
    BY <2>2, <2>3
<1> DEFINE A == S \ {"email"}
           B == A \ {"telegram"}
           C == B \ {"whatsapp"}
<1>2. C = {} /\ A \in SUBSET MessageChannels /\ B \in SUBSET MessageChannels
  BY DEF MessageChannels
<1>3. OneIf("telegram" \in A) = OneIf("telegram" \in S) /\ OneIf("whatsapp" \in B) = OneIf("whatsapp" \in S)
  BY DEF OneIf
<1>4. /\ Cardinality(S) = Cardinality(A) + OneIf("email" \in S)
      /\ Cardinality(A) = Cardinality(B) + OneIf("telegram" \in A)
      /\ Cardinality(B) = Cardinality(C) + OneIf("whatsapp" \in B)
      /\ Cardinality(C) = 0
  BY <1>1, <1>2, FS_EmptySet
<1> DEFINE a == OneIf("email" \in S)
           b == OneIf("telegram" \in S)
           c == OneIf("whatsapp" \in S)
<1>5. a \in {0, 1} /\ b \in {0, 1} /\ c \in {0, 1}
  BY DEF OneIf
<1>6. Cardinality(S) = Cardinality(A) + a /\ Cardinality(A) = Cardinality(B) + b /\ Cardinality(B) = 0 + c
  BY <1>3, <1>4
<1> HIDE DEF A, B, C, a, b, c
<1>7. Cardinality(S) = a + b + c
  BY <1>5, <1>6
<1>8. QED
  BY <1>7 DEF a, b, c

\* The alert: while it is off nobody who reads its preference goes on.
LEMMA AlertMoves ==
  ASSUME HandlersType, PersonType, SettingsType, PrefType, NEW r \in Handlers, HandlerNext(r),
         ~ ReadPrefFails(r), \A ch \in MessageChannels : ~ WriteRow(r, ch),
         NEW u \in Persons, alert_pref[u] # None, ~ alert_pref[u].enabled
  PROVE  ~ (hpc'[r] = "queue" /\ hreq'[r].who = u)
<1>1. SUFFICES ASSUME hpc'[r] = "queue", hreq'[r].who = u PROVE FALSE
  OBVIOUS
<1>2. ASSUME NEW w \in Persons, NEW ch \in MessageChannels, TakeRow(r, w, ch) PROVE FALSE
  BY <1>1, <1>2, TakeRowMoves DEF TakeRow, threadVars
<1>3. ASSUME NEW w \in Persons, NEW update \in Updates, get_notification_prefs(r, w, update) PROVE FALSE
  BY <1>1, <1>3, get_notification_prefsMoves
<1>4. ASSUME NEW w \in Persons, subscribe_causelist_alert(r, w) \/ ReadUser(r, w) PROVE FALSE
  BY <1>1, <1>4, subscribe_causelist_alertMoves, ReadUserMoves
<1>5. ASSUME update_notification_prefs(r) PROVE FALSE
  BY <1>1, <1>5, update_notification_prefsMoves
<1>6. ASSUME EnableAlert(r) \/ Post(r) \/ PostFails(r) \/ set_email_invalid(r) \/ HandlerFails(r) PROVE FALSE
  BY <1>1, <1>6, DoneMoves DEF EnableAlert, Post, PostFails, set_email_invalid, HandlerFails
<1>7. ASSUME ReadPref(r) PROVE FALSE
  <2>1. hreq[r].who \in Persons /\ hpc[r] = "pref"
    BY <1>7 DEF ReadPref, HandlersType, WellFormed
  <2>2. alert_pref[hreq[r].who] \in AlertPref \cup {None} /\ Choose(r, alert_pref[hreq[r].who])
    BY <1>7, <2>1 DEF PrefType, ReadPref
  <2>3. hreq[r].who = u /\ alert_pref[hreq[r].who].enabled
    <3>1. ASSUME NEW pref \in AlertPref \cup {None}, Choose(r, pref)
          PROVE  hreq[r].who = u /\ (pref # None => pref.enabled)
      BY <1>1, <2>1, <3>1, ChooseMoves
    <3>2. QED
      BY <2>2, <3>1
  <2>4. QED
    BY <2>3
<1>8. ASSUME PostRefused(r) PROVE FALSE
  BY <1>1, <1>8 DEF PostRefused, Proceed, HandlersType
<1>9. ASSUME NEW email \in Emails, Bounce(r, email) PROVE FALSE
  BY <1>1, <1>9 DEF Bounce, Proceed, HandlersType, threadVars
<1>10. QED
  BY <1>2, <1>3, <1>4, <1>5, <1>6, <1>7, <1>8, <1>9 DEF HandlerNext

\* Rows that are about to be written, after a step of a thread.
LEMMA AlertDueDiffers ==
  ASSUME HandlersType, NEW r \in Handlers, Others(r), NEW u
  PROVE  LET In(ch) == OneIf(InStep(r, u, "queue", ch))
             In1(ch) == OneIf(InStep(r, u, "queue", ch)')
         IN  /\ AlertDue(u) \in Nat /\ AlertDue(u)' \in Nat
             /\ \A ch : In(ch) \in {0, 1} /\ In1(ch) \in {0, 1}
             /\ AlertDue(u)' + (In("email") + In("telegram") + In("whatsapp"))
                  = AlertDue(u) + (In1("email") + In1("telegram") + In1("whatsapp"))
<1> DEFINE In(ch) == OneIf(InStep(r, u, "queue", ch))
           In1(ch) == OneIf(InStep(r, u, "queue", ch)')
           A(ch) == At(u, "queue", ch)
           A1(ch) == At(u, "queue", ch)'
<1>1. ASSUME NEW ch PROVE A(ch) \in Nat /\ A1(ch) \in Nat /\ A1(ch) + In(ch) = A(ch) + In1(ch)
                          /\ In(ch) \in {0, 1} /\ In1(ch) \in {0, 1}
  BY AtDiffers
<1>2. AlertDue(u) = A("email") + A("telegram") + A("whatsapp")
  BY DEF AlertDue
<1>3. AlertDue(u)' = A1("email") + A1("telegram") + A1("whatsapp")
  BY DEF AlertDue
<1> HIDE DEF In, In1, A, A1
<1>4. /\ AlertDue(u) \in Nat /\ AlertDue(u)' \in Nat
      /\ AlertDue(u)' + (In("email") + In("telegram") + In("whatsapp"))
           = AlertDue(u) + (In1("email") + In1("telegram") + In1("whatsapp"))
  BY <1>1, <1>2, <1>3
<1>5. QED
  BY <1>1, <1>4 DEF In, In1

\* A row is written: one message less is to come, one more has come.
LEMMA WriteRowDue ==
  ASSUME HandlersType, StopsType, NEW r \in Handlers, NEW ch \in MessageChannels, WriteRow(r, ch),
         NEW u \in Persons
  PROVE  /\ UNCHANGED <<alert_pref, stopped, owed>>
         /\ \/ /\ hreq[r].who = u /\ AlertDue(u)' + 1 = AlertDue(u)
               /\ <<u, "alert">> \in stopped => heard'[<<u, "alert">>] = heard[<<u, "alert">>] + 1
            \/ AlertDue(u)' = AlertDue(u) /\ heard'[<<u, "alert">>] = heard[<<u, "alert">>]
<1> DEFINE In(c) == OneIf(InStep(r, u, "queue", c))
           In1(c) == OneIf(InStep(r, u, "queue", c)')
           w == hreq[r].who
<1>1. w \in Persons /\ hpc[r] = "queue" /\ ch \in hreq[r].channels
  BY DEF WriteRow, HandlersType, WellFormed
<1>2. Hear(w, "alert") /\ UNCHANGED alert_pref
  BY DEF WriteRow
<1>3. UNCHANGED <<stopped, owed>>
  BY DEF WriteRow, Hear
<1>4. /\ Others(r)
      /\ \/ hreq[r].channels = {ch} /\ hpc'[r] = "idle"
         \/ /\ hpc'[r] = "queue" /\ hreq'[r].who = hreq[r].who
            /\ hreq'[r].channels = hreq[r].channels \ {ch}
  BY WriteRowMoves
<1> DEFINE e == In("email")
           t == In("telegram")
           a == In("whatsapp")
           e1 == In1("email")
           t1 == In1("telegram")
           a1 == In1("whatsapp")
           D == AlertDue(u)
           D1 == AlertDue(u)'
<1>5. /\ D \in Nat /\ D1 \in Nat
      /\ e \in {0, 1} /\ t \in {0, 1} /\ a \in {0, 1} /\ e1 \in {0, 1} /\ t1 \in {0, 1} /\ a1 \in {0, 1}
      /\ D1 + (e + t + a) = D + (e1 + t1 + a1)
  BY <1>4, AlertDueDiffers
<1>6. CASE w # u
  <2>1. \A c : ~ InStep(r, u, "queue", c) /\ ~ InStep(r, u, "queue", c)'
    BY <1>4, <1>6 DEF InStep
  <2>2. e = 0 /\ t = 0 /\ a = 0 /\ e1 = 0 /\ t1 = 0 /\ a1 = 0
    BY <2>1 DEF OneIf
  <2>3. D1 = D
    <3> HIDE DEF e, t, a, e1, t1, a1, D, D1
    <3>1. QED
      BY <1>5, <2>2
  <2>4. heard'[<<u, "alert">>] = heard[<<u, "alert">>]
    BY <1>1, <1>2, <1>6, HearIs DEF Same, Stops
  <2>5. QED
    BY <1>2, <1>3, <2>3, <2>4
<1>7. CASE w = u
  <2>1. InStep(r, u, "queue", ch) /\ ~ InStep(r, u, "queue", ch)'
    BY <1>1, <1>4, <1>7 DEF InStep
  <2>2. \A c : c # ch => (InStep(r, u, "queue", c) <=> InStep(r, u, "queue", c)')
    BY <1>1, <1>4, <1>7 DEF InStep
  <2>3. In(ch) = 1 /\ In1(ch) = 0 /\ \A c : c # ch => In(c) = In1(c)
    BY <2>1, <2>2 DEF OneIf
  <2>4. \/ e = 1 /\ e1 = 0 /\ t = t1 /\ a = a1
        \/ t = 1 /\ t1 = 0 /\ e = e1 /\ a = a1
        \/ a = 1 /\ a1 = 0 /\ e = e1 /\ t = t1
    <3> HIDE DEF In, In1
    <3>1. CASE ch = "email"
      BY <2>3, <3>1
    <3>2. CASE ch = "telegram"
      BY <2>3, <3>2
    <3>3. CASE ch = "whatsapp"
      BY <2>3, <3>3
    <3>4. QED
      BY <3>1, <3>2, <3>3 DEF MessageChannels
  <2>5. D1 + 1 = D
    <3> HIDE DEF e, t, a, e1, t1, a1, D, D1
    <3>1. QED
      BY <1>5, <2>4
  <2>6. <<u, "alert">> \in stopped => heard'[<<u, "alert">>] = heard[<<u, "alert">>] + 1
    BY <1>1, <1>2, <1>7, HearIs DEF Stops
  <2>7. QED
    BY <1>2, <1>3, <1>7, <2>5, <2>6
<1>8. QED
  BY <1>6, <1>7

\* A preference that cannot be read: what may come of it is owed.
LEMMA ReadFailsDue ==
  ASSUME HandlersType, StopsType, NEW r \in Handlers, ReadPrefFails(r),
         NEW u \in Persons, <<u, "alert">> \in stopped
  PROVE  /\ UNCHANGED <<alert_pref, stopped, heard>>
         /\ \E n \in Nat :
              AlertDue(u)' <= AlertDue(u) + n /\ owed'[<<u, "alert">>] = owed[<<u, "alert">>] + n
<1> DEFINE In(c) == OneIf(InStep(r, u, "queue", c))
           In1(c) == OneIf(InStep(r, u, "queue", c)')
           w == hreq[r].who
           S == ChannelsOf(hreq[r].row, None)
           x == <<u, "alert">>
<1>1. w \in Persons /\ hpc[r] = "pref"
  BY DEF ReadPrefFails, HandlersType, WellFormed
<1>2. UNCHANGED <<alert_pref, stopped, heard>>
  BY DEF ReadPrefFails
<1>3. Choose(r, None) /\ owed' = IF <<w, "alert">> \in stopped
                               THEN [owed EXCEPT ![<<w, "alert">>] = @ + Cardinality(S)]
                               ELSE owed
  BY DEF ReadPrefFails
<1>4. /\ Others(r) /\ S \in SUBSET MessageChannels
      /\ \/ hpc'[r] = "idle"
         \/ /\ hpc'[r] = "queue" /\ hreq'[r].who = hreq[r].who
            /\ hreq'[r].channels = S
  BY <1>1, <1>3, ChooseMoves
<1> DEFINE e == In("email")
           t == In("telegram")
           a == In("whatsapp")
           e1 == In1("email")
           t1 == In1("telegram")
           a1 == In1("whatsapp")
           se == OneIf("email" \in S)
           st == OneIf("telegram" \in S)
           sa == OneIf("whatsapp" \in S)
           D == AlertDue(u)
           D1 == AlertDue(u)'
           n == Cardinality(S)
<1>5. /\ D \in Nat /\ D1 \in Nat
      /\ e1 \in {0, 1} /\ t1 \in {0, 1} /\ a1 \in {0, 1}
      /\ D1 + (e + t + a) = D + (e1 + t1 + a1)
  BY <1>4, AlertDueDiffers
<1>6. e = 0 /\ t = 0 /\ a = 0
  BY <1>1 DEF InStep, OneIf
<1>7. se \in {0, 1} /\ st \in {0, 1} /\ sa \in {0, 1}
  BY DEF OneIf
<1>8. n = se + st + sa
  BY <1>4, ChannelsCount
<1>n. n \in Nat
  <2> HIDE DEF n, se, st, sa
  <2>1. QED
    BY <1>7, <1>8
<1>9. CASE w # u
  <2>1. e1 = 0 /\ t1 = 0 /\ a1 = 0
    BY <1>4, <1>9 DEF InStep, OneIf
  <2>2. owed'[x] = owed[x] /\ owed[x] \in Nat
    BY <1>3, <1>9 DEF StopsType, Stops
  <2>3. D1 <= D + 0
    <3> HIDE DEF e, t, a, e1, t1, a1, D, D1
    <3>1. QED
      BY <1>5, <1>6, <2>1
  <2>4. owed'[x] = owed[x] + 0
    BY <2>2
  <2>5. QED
    BY <1>2, <2>3, <2>4
<1>10. CASE w = u
  <2>1. e1 \in {0, se} /\ t1 \in {0, st} /\ a1 \in {0, sa}
    BY <1>4 DEF InStep, OneIf
  <2>2. D1 <= D + n
    <3> HIDE DEF e, t, a, e1, t1, a1, D, D1, se, st, sa, n
    <3>1. QED
      BY <1>5, <1>6, <1>7, <1>8, <2>1
  <2>3. owed'[x] = owed[x] + n
    <3> HIDE DEF n
    <3>0. owed' = [owed EXCEPT ![x] = owed[x] + n]
      BY <1>3, <1>10 DEF n
    <3>1. x \in Persons \X Stops
      BY DEF Stops
    <3>2. QED
      BY <3>0, <3>1 DEF StopsType
  <2>4. QED
    BY <1>2, <1>n, <2>2, <2>3
<1>11. QED
  BY <1>9, <1>10

\* The user's own request leaves the alert as it is, switches it off, or on.
LEMMA Switches ==
  ASSUME StopsType, PrefType, NEW u \in Persons, PatchPref(u) \/ upsert_alert_prefs(u)
  PROVE  /\ UNCHANGED threadVars /\ alert_pref'[u] # None
         /\ \/ /\ UNCHANGED stopVars
               /\ alert_pref[u] # None => alert_pref'[u].enabled = alert_pref[u].enabled
            \/ Stop(u, "alert") /\ ~ alert_pref'[u].enabled
            \/ Resume(u, "alert")
<1>1. PICK channel \in MessageChannels \cup {None}, enabled \in BOOLEAN \cup {None} :
        upsert_single_alert_pref(u, channel, enabled)
  BY DEF PatchPref, upsert_alert_prefs, AlertPref
<1>2. enabled \in BOOLEAN \cup {None}
  OBVIOUS
<1>3. /\ alert_pref'[u] # None
      /\ (enabled = None /\ UNCHANGED stopVars) \/ (enabled # None /\ Switch(u, enabled))
      /\ alert_pref[u] # None /\ enabled = None => alert_pref'[u].enabled = alert_pref[u].enabled
      /\ enabled # None => alert_pref'[u].enabled = enabled
  BY <1>1, PrefIs
<1>4. UNCHANGED threadVars
  BY DEF PatchPref, upsert_alert_prefs
<1>5. CASE enabled = None
  BY <1>3, <1>4, <1>5
<1>6. CASE enabled # None
  BY <1>2, <1>3, <1>4, <1>6 DEF Switch
<1>7. QED
  BY <1>5, <1>6

LEMMA AlertStopsNext ==
  ASSUME ContactsTypes, NEW u \in Persons, AlertStops(u), [ContactsNext]_contactsVars
  PROVE  AlertStops(u)'
<1> USE DEF ContactsTypes
<1> DEFINE x == <<u, "alert">>
           h == heard[x]
           h1 == heard'[x]
           w == owed[x]
           w1 == owed'[x]
           D == AlertDue(u)
           D1 == AlertDue(u)'
           Off == alert_pref'[u] # None /\ ~ alert_pref'[u].enabled
<1>0. x \in Persons \X Stops /\ "alert" \in Stops
  BY DEF Stops
<1>1. /\ h \in Nat /\ w \in Nat
      /\ At(u, "queue", "email") \in Nat /\ At(u, "queue", "telegram") \in Nat /\ At(u, "queue", "whatsapp") \in Nat
  BY <1>0, DueSizes DEF StopsType
<1>d. D \in Nat
  BY <1>1 DEF AlertDue
<1>2. HistoryType' /\ HistoryStep(u)
  BY HistorySteps
<1>3. h1 \in Nat /\ w1 \in Nat
  BY <1>0, <1>2 DEF HistoryType
<1>a. UNCHANGED threadVars => D1 = D
  BY DEF AlertDue, At, threadVars
<1> SUFFICES ASSUME x \in stopped' PROVE Off /\ h1 + D1 <= w1
  BY DEF AlertStops
<1>b. ASSUME Resume(u, "alert") PROVE FALSE
  BY <1>0, <1>b, ResumeIs
<1>4. x \in stopped => alert_pref[u] # None /\ ~ alert_pref[u].enabled /\ h + D <= w
  BY DEF AlertStops
<1>5. CASE \E r \in Handlers, ch \in MessageChannels : WriteRow(r, ch)
  <2>1. PICK r \in Handlers, ch \in MessageChannels : WriteRow(r, ch)
    BY <1>5
  <2>2. /\ UNCHANGED <<alert_pref, stopped, owed>>
        /\ \/ D1 + 1 = D /\ (x \in stopped => h1 = h + 1)
           \/ D1 = D /\ h1 = h
    BY <2>1, WriteRowDue
  <2>3. x \in stopped /\ w1 = w /\ Off
    BY <1>4, <2>2
  <2>t. D1 \in Nat
    <3>1. Others(r)
      BY <2>1, WriteRowMoves
    <3>2. QED
      BY <3>1, AlertDueDiffers
  <2>4. h + D <= w /\ ((D1 + 1 = D /\ h1 = h + 1) \/ (D1 = D /\ h1 = h))
    BY <1>4, <2>2, <2>3
  <2>5. h1 + D1 <= w1
    <3> HIDE DEF h, h1, w, w1, D, D1
    <3>1. QED
      BY <1>1, <1>d, <1>3, <2>3, <2>t, <2>4
  <2>6. QED
    BY <2>3, <2>5
<1>6. CASE \E r \in Handlers : ReadPrefFails(r)
  <2>1. PICK r \in Handlers : ReadPrefFails(r)
    BY <1>6
  <2>2. x \in stopped
    BY <2>1 DEF ReadPrefFails
  <2>3. /\ UNCHANGED <<alert_pref, stopped, heard>>
        /\ \E n \in Nat : D1 <= D + n /\ w1 = w + n
    BY <2>1, <2>2, ReadFailsDue
  <2>t. D1 \in Nat
    <3>1. hreq[r].who \in Persons /\ hpc[r] = "pref" /\ Choose(r, None)
      BY <2>1 DEF ReadPrefFails, HandlersType, WellFormed
    <3>2. Others(r)
      BY <3>1, ChooseMoves
    <3>3. QED
      BY <3>2, AlertDueDiffers
  <2>4. Off /\ h + D <= w /\ h1 = h
    BY <1>4, <2>2, <2>3
  <2>5. h1 + D1 <= w1
    <3> HIDE DEF h, h1, w, w1, D, D1
    <3>1. PICK n \in Nat : D1 <= D + n /\ w1 = w + n
      BY <2>3
    <3>2. QED
      BY <1>1, <1>d, <1>3, <2>t, <2>4, <3>1
  <2>6. QED
    BY <2>4, <2>5
<1>7. CASE PatchPref(u) \/ upsert_alert_prefs(u)
  <2>1. /\ UNCHANGED threadVars /\ alert_pref'[u] # None
        /\ \/ /\ UNCHANGED stopVars
              /\ alert_pref[u] # None => alert_pref'[u].enabled = alert_pref[u].enabled
           \/ Stop(u, "alert") /\ ~ alert_pref'[u].enabled
    BY <1>7, <1>b, Switches
  <2>2. D1 = D
    BY <1>a, <2>1
  <2>3. CASE Stop(u, "alert") /\ ~ alert_pref'[u].enabled /\ x \notin stopped
    <3>1. h1 = 0 /\ w1 = UnderWay(u, "alert")
      BY <1>0, <2>3, StopIs
    <3>2. w1 = D
      BY <3>1 DEF UnderWay, AlertDue
    <3>3. h1 + D1 <= w1
      <4> HIDE DEF h, h1, w, w1, D, D1
      <4>1. QED
        BY <1>1, <1>d, <1>3, <2>2, <3>1, <3>2
    <3>4. QED
      BY <2>1, <2>3, <3>3
  <2>4. CASE x \in stopped
    <3>1. Off
      BY <1>4, <2>1, <2>4
    <3>2. h1 = h /\ w1 = w
      <4>1. UNCHANGED stopVars => h1 = h /\ w1 = w
        BY DEF stopVars
      <4>2. Stop(u, "alert") => Same(x)
        BY <1>0, <2>4, StopIs
      <4>3. QED
        BY <2>1, <4>1, <4>2 DEF Same
    <3>3. h1 + D1 <= w1
      <4> HIDE DEF h, h1, w, w1, D, D1
      <4>1. QED
        BY <1>1, <1>d, <1>4, <2>2, <2>4, <3>2
    <3>4. QED
      BY <3>1, <3>3
  <2>5. x \notin stopped => ~ UNCHANGED stopVars
    BY DEF stopVars
  <2>6. QED
    BY <2>1, <2>3, <2>4, <2>5
<1>8. CASE /\ Same(x) /\ alert_pref'[u] = alert_pref[u]
           /\ ~ \E r \in Handlers, ch \in MessageChannels : WriteRow(r, ch)
           /\ ~ \E r \in Handlers : ReadPrefFails(r)
  <2>1. x \in stopped /\ h1 = h /\ w1 = w
    BY <1>8 DEF Same
  <2>2. Off /\ alert_pref[u] # None /\ ~ alert_pref[u].enabled /\ h + D <= w
    BY <1>4, <1>8, <2>1
  <2>3. CASE \E r \in Handlers : HandlerNext(r)
    <3>1. PICK r \in Handlers : HandlerNext(r)
      BY <2>3
    <3>2. ~ (hpc'[r] = "queue" /\ hreq'[r].who = u)
      BY <1>8, <2>2, <3>1, AlertMoves
    <3> DEFINE e == OneIf(InStep(r, u, "queue", "email"))
               t == OneIf(InStep(r, u, "queue", "telegram"))
               a == OneIf(InStep(r, u, "queue", "whatsapp"))
               e1 == OneIf(InStep(r, u, "queue", "email")')
               t1 == OneIf(InStep(r, u, "queue", "telegram")')
               a1 == OneIf(InStep(r, u, "queue", "whatsapp")')
    <3>3. e1 = 0 /\ t1 = 0 /\ a1 = 0
      BY <3>2 DEF InStep, OneIf
    <3>4. UNCHANGED threadVars \/ Others(r)
      BY <3>1, HandlerMoves
    <3>5. CASE UNCHANGED threadVars
      <4>1. D1 = D
        BY <1>a, <3>5
      <4> HIDE DEF h, h1, w, w1, D, D1, Off
      <4>2. QED
        BY <2>1, <2>2, <4>1
    <3>6. CASE Others(r)
      <4>1. /\ D1 \in Nat
            /\ e \in {0, 1} /\ t \in {0, 1} /\ a \in {0, 1}
            /\ D1 + (e + t + a) = D + (e1 + t1 + a1)
        BY <3>6, AlertDueDiffers
      <4> HIDE DEF e, t, a, e1, t1, a1, h, h1, w, w1, D, D1, Off
      <4>2. D1 <= D
        BY <1>d, <3>3, <4>1
      <4>3. h1 + D1 <= w1
        BY <1>1, <1>d, <2>1, <2>2, <4>1, <4>2
      <4>4. QED
        BY <2>2, <4>3
    <3>7. QED
      BY <3>4, <3>5, <3>6
  <2>4. CASE ~ \E r \in Handlers : HandlerNext(r)
    <3>1. UNCHANGED threadVars
      BY <2>4, PersonStays DEF ContactsNext, contactsVars, threadVars
    <3>2. D1 = D
      BY <1>a, <3>1
    <3> HIDE DEF h, h1, w, w1, D, D1, Off
    <3>3. QED
      BY <2>1, <2>2, <3>2
  <2>5. QED
    BY <2>3, <2>4
<1>9. ASSUME NEW r \in Handlers, hreq[r].who = u, EnableAlert(r) PROVE FALSE
  <2>1. hpc[r] = "enable" /\ upsert_single_alert_pref(u, None, TRUE)
    BY <1>9 DEF EnableAlert
  <2>2. (TRUE = None /\ UNCHANGED stopVars) \/ (TRUE # None /\ Switch(u, TRUE))
    BY <2>1, PrefIs
  <2>3. TRUE # None
    BY AlertPrefAssumption
  <2>4. QED
    BY <1>b, <2>2, <2>3 DEF Switch
<1>10. QED
  BY <1>2, <1>5, <1>6, <1>7, <1>8, <1>9 DEF HistoryStep

-----------------------------------------------------------------------------
(* Contacts: together.                                                     *)

LEMMA LimitsTypeNext == ASSUME LimitsType, [ContactsNext]_contactsVars PROVE LimitsType'
<1> DEFINE c == contactCalls
           f == contactFaults
           Counted == contactCalls' = c \/ (c < MaxContactCalls /\ contactCalls' = c + 1)
           Failed == contactFaults' = f \/ (f < MaxContactFaults /\ contactFaults' = f + 1)
<1>1. c \in 0 .. MaxContactCalls /\ f \in 0 .. MaxContactFaults
      /\ MaxContactCalls \in Nat /\ MaxContactFaults \in Nat
  BY ContactsAssumption DEF LimitsType
<1>2. ContactCall => Counted /\ Failed
  BY DEF ContactCall
<1>3. UNCHANGED limitVars => Counted /\ Failed
  BY DEF limitVars
<1>4. ASSUME NEW u \in Persons, PersonNext(u) PROVE Counted /\ Failed
  <2> HIDE DEF Counted, Failed
  <2>1. QED
    BY <1>2, <1>3, <1>4 DEF PersonNext, set_email_verified, ChangeEmail, GiveUsername,
       set_telegram_chat_id_by_username, clear_telegram_chat_id, update_user_notification_prefs,
       PatchPref, upsert_alert_prefs, MonitorMails
<1>5. ASSUME NEW r \in Handlers, HandlerNext(r) PROVE Counted /\ Failed
  <2>1. ASSUME NEW u \in Persons, \/ \E update \in Updates : get_notification_prefs(r, u, update)
                                 \/ subscribe_causelist_alert(r, u) \/ ReadUser(r, u)
        PROVE  Counted /\ Failed
    <3> HIDE DEF Counted, Failed
    <3>1. QED
      BY <1>2, <2>1 DEF get_notification_prefs, subscribe_causelist_alert, ReadUser
  <2>2. ASSUME \/ \E u \in Persons, ch \in MessageChannels : TakeRow(r, u, ch)
               \/ update_notification_prefs(r) \/ EnableAlert(r) \/ ReadPref(r)
               \/ \E ch \in MessageChannels : WriteRow(r, ch)
               \/ Post(r) \/ PostFails(r) \/ PostRefused(r) \/ set_email_invalid(r)
        PROVE  Counted /\ Failed
    <3> HIDE DEF Counted, Failed
    <3>1. QED
      BY <1>3, <2>2 DEF TakeRow, update_notification_prefs, EnableAlert, ReadPref, WriteRow, Post,
         PostFails, PostRefused, set_email_invalid
  <2>3. ASSUME NEW email \in Emails, Bounce(r, email) PROVE Counted /\ Failed
    <3> HIDE DEF Counted, Failed
    <3>1. QED
      BY <1>2, <2>3 DEF Bounce
  <2>4. ASSUME ReadPrefFails(r) \/ HandlerFails(r) PROVE Counted /\ Failed
    BY <2>4 DEF ReadPrefFails, HandlerFails
  <2>5. QED
    BY <1>5, <2>1, <2>2, <2>3, <2>4 DEF HandlerNext
<1>6. UNCHANGED contactsVars => Counted /\ Failed
  BY DEF contactsVars
<1>7. Counted /\ Failed
  BY <1>4, <1>5, <1>6 DEF ContactsNext
<1>8. QED
  BY <1>1, <1>7 DEF LimitsType

\* What holds of the contacts in every state.
StopsInv(u) == MailStops(u) /\ ChatStops(u) /\ AlertStops(u)

ContactsInv ==
  /\ HandlersType /\ PersonType /\ SettingsType /\ PrefType /\ MailType /\ StopsType /\ LimitsType
  /\ SettingsKept /\ BouncesHaveCause /\ HeldInv
  /\ \A r \in Handlers : MergeInv(r) /\ CauseInv(r)
  /\ \A u \in Persons : StopsInv(u)

LEMMA ContactsInvInit == ContactsInit => ContactsInv
<1> SUFFICES ASSUME ContactsInit PROVE ContactsInv
  OBVIOUS
<1>1. HandlersType /\ SettingsType /\ PersonType /\ PrefType /\ MailType /\ StopsType /\ LimitsType
  BY ContactsStart
<1>2. SettingsKept
  BY DEF ContactsInit, SettingsKept
<1>3. BouncesHaveCause
  <2>1. \A u \in Persons : person[u].email_valid
    BY DEF ContactsInit, Settled, Newcomer
  <2>2. QED
    BY <2>1 DEF BouncesHaveCause
<1>4. HeldInv
  BY DEF ContactsInit, HeldInv
<1>5. ASSUME NEW r \in Handlers PROVE MergeInv(r) /\ CauseInv(r)
  BY DEF ContactsInit, MergeInv, CauseInv
<1>6. ASSUME NEW u \in Persons PROVE StopsInv(u)
  BY DEF ContactsInit, StopsInv, MailStops, ChatStops, AlertStops
<1>7. QED
  BY <1>1, <1>2, <1>3, <1>4, <1>5, <1>6 DEF ContactsInv

LEMMA ContactsInvNext == ContactsInv /\ [ContactsNext]_contactsVars => ContactsInv'
<1> SUFFICES ASSUME ContactsInv, [ContactsNext]_contactsVars PROVE ContactsInv'
  OBVIOUS
<1>1. /\ HandlersType /\ PersonType /\ SettingsType /\ PrefType /\ MailType /\ StopsType /\ LimitsType
      /\ SettingsKept /\ BouncesHaveCause /\ HeldInv
      /\ \A r \in Handlers : MergeInv(r) /\ CauseInv(r)
      /\ \A u \in Persons : StopsInv(u)
  BY DEF ContactsInv
<1>2. QueueType
  BY <1>1 DEF StopsType, QueueType
<1>3. SettingsType' /\ SettingsKept' /\ \A r \in Handlers : MergeInv(r)'
  BY <1>1, SettingsNext
<1>4. HeldInv' /\ BouncesHaveCause' /\ \A r \in Handlers : CauseInv(r)'
  BY <1>1, CauseNext
<1>5. MailType'
  BY <1>1, MailStep
<1>6. PersonType'
  BY <1>1, PersonStep
<1>7. HistoryType' /\ PrefType'
  BY <1>1, HistorySteps
<1>8. QueueType'
  BY <1>1, <1>2, QueueSteps
<1>9. StopsType'
  BY <1>7, <1>8 DEF HistoryType, QueueType, StopsType
<1>10. LimitsType'
  BY <1>1, LimitsTypeNext
<1>11. HandlersType'
  BY <1>1, HandlersTypeNext
<1>12. ASSUME NEW u \in Persons PROVE StopsInv(u)'
  <2>1. ContactsTypes /\ MailStops(u) /\ ChatStops(u) /\ AlertStops(u)
    BY <1>1, <1>2 DEF ContactsTypes, StopsInv
  <2>2. MailStops(u)' /\ ChatStops(u)' /\ AlertStops(u)'
    BY <2>1, MailStopsNext, ChatStopsNext, AlertStopsNext
  <2>3. QED
    BY <2>2 DEF StopsInv
<1>13. QED
  BY <1>3, <1>4, <1>5, <1>6, <1>7, <1>9, <1>10, <1>11, <1>12 DEF ContactsInv

LEMMA ContactsInvImplies == ContactsInv => ContactsTypeOK /\ ContactsKept
<1> SUFFICES ASSUME ContactsInv PROVE ContactsTypeOK /\ ContactsKept
  OBVIOUS
<1>1. ContactsTypeOK
  BY DEF ContactsInv, ContactsTypeOK, HandlersType, PersonType, SettingsType, PrefType, MailType,
     StopsType, LimitsType, HandlerRow
<1>2. ASSUME NEW u \in Persons, NEW stop \in Stops, <<u, stop>> \in stopped
      PROVE  heard[<<u, stop>>] <= owed[<<u, stop>>]
  <2>1. MailStops(u) /\ ChatStops(u) /\ AlertStops(u)
    BY DEF ContactsInv, StopsInv
  <2> DEFINE h == heard[<<u, stop>>]
             w == owed[<<u, stop>>]
  <2>2. h \in Nat /\ w \in Nat
    BY DEF ContactsInv, StopsType
  <2>3. queued[<<u, "email">>] \in Nat
    BY DEF ContactsInv, StopsType, MessageChannels
  <2>4. /\ Cardinality(MailThreads(u)) \in Nat
        /\ \A step, ch : At(u, step, ch) \in Nat
    BY DueSizes
  <2>5. MailDue(u) \in Nat
    BY <2>3, <2>4 DEF MailDue
  <2>6. ChatDue(u) \in Nat
    BY <2>4 DEF ChatDue
  <2>7. AlertDue(u) \in Nat
    <3>1. /\ At(u, "queue", "email") \in Nat /\ At(u, "queue", "telegram") \in Nat
          /\ At(u, "queue", "whatsapp") \in Nat
      BY <2>4
    <3>2. QED
      BY <3>1 DEF AlertDue
  <2>8. \E n \in Nat : h + n <= w
    <3>1. CASE stop = "email"
      BY <1>2, <2>1, <2>5, <3>1 DEF MailStops
    <3>2. CASE stop = "telegram"
      BY <1>2, <2>1, <2>6, <3>2 DEF ChatStops
    <3>3. CASE stop = "alert"
      BY <1>2, <2>1, <2>7, <3>3 DEF AlertStops
    <3>4. QED
      BY <3>1, <3>2, <3>3 DEF Stops
  <2> HIDE DEF h, w
  <2>9. h <= w
    BY <2>2, <2>8
  <2>10. QED
    BY <2>9 DEF h, w
<1>3. StopsHold
  BY <1>2 DEF ContactsInv, StopsType, StopsHold
<1>4. QED
  BY <1>1, <1>3 DEF ContactsInv, ContactsKept

\* No update of an account's contacts is lost or outlived, but for requests and messages that
\* were under way (routes/auth, routes/webhooks, enqueue_notification, _dispatch_queue_item).
THEOREM ContactsCorrect == ContactsSpec => [](ContactsTypeOK /\ ContactsKept)
<1>1. ContactsInit => ContactsInv
  BY ContactsInvInit
<1>2. ContactsInv /\ [ContactsNext]_contactsVars => ContactsInv'
  BY ContactsInvNext
<1>3. ContactsInv => ContactsTypeOK /\ ContactsKept
  BY ContactsInvImplies
<1>4. QED
  BY <1>1, <1>2, <1>3, PTL DEF ContactsSpec

-----------------------------------------------------------------------------
(* Ecourts: what a thread has read.                                        *)

CallRow ==
  [kind : {"none", "fetch", "auto", "ask", "notify"}, ref : Refs \cup {Unset},
   cino : Cnrs \cup {Unset}, type : Types \cup {Unset}, left : SUBSET Types, picked : Cnrs \cup {Unset}]

\* The type of a prefix by its name among all of the bench's.
ByName(p, t) ==
  IF Matching[p] = {} THEN t = Hardcoded[p] ELSE t \in Matching[p] /\ \A s \in Matching[p] : t <= s

\* A type that may be answered for a prefix, with the types of early and told_types.
Fits(p, t, e, o) == t \in e[p] \cup o[p] \/ ByName(p, t)

\* Where a thread can be with what it has.
Placed(step, call) ==
  /\ step # "idle" => call.ref \in Refs
  /\ call.kind = "none" <=> step = "idle"
  /\ call.kind = "ask" => step \in {"fresh", "search", "save"}
  /\ step \in {"persist", "type", "fresh", "search", "save", "cino", "learn", "update"} => call.type \in Types
  /\ step \in {"save", "cino", "learn", "update"} => call.picked \in Cnrs
  /\ step \in {"type", "cino", "learn"} => call.kind = "fetch"
  /\ call.kind = "notify" => step = "add"
  /\ step = "add" => call.kind \in {"auto", "notify"}
  /\ step = "update" => call.kind = "auto"
  /\ step = "fresh" => call.kind \in {"fetch", "ask"}
  /\ step = "cino" => call.cino = Unset

\* A thread that the row is for has a type that fits.
CallFits(step, call, e, o) ==
  call.kind \in {"fetch", "auto"} /\ call.type # Unset => Fits(PrefixOf[call.ref], call.type, e, o)

\* It has found the case it looked for, or that it is not listed.
CallFinds(step, call, n) ==
  step = "save" /\ call.cino # Unset => call.picked = call.cino \/ call.cino \in n

Resolving == {"resolve", "populated", "list", "store", "again", "match", "persist", "type"}

\* It only writes what was not given.
CallGives(step, call, g, x) ==
  call.ref \in Refs \ x =>
    /\ call.kind \in {"auto", "notify"} => g[call.ref].cino = Unset /\ g[call.ref].type = Unset
    /\ call.kind = "fetch" /\ step \in Resolving => g[call.ref].type = Unset
    /\ call.kind = "fetch" /\ call.cino = Unset => g[call.ref].cino = Unset

CallOK(step, call, e, o, n, g, x) ==
  /\ step \in FetchStep /\ call \in CallRow /\ Placed(step, call)
  /\ CallFits(step, call, e, o) /\ CallFinds(step, call, n) /\ CallGives(step, call, g, x)

FetchersInv ==
  /\ fpc \in [Fetchers -> FetchStep] /\ freq \in [Fetchers -> CallRow]
  /\ \A f \in Fetchers : CallOK(fpc[f], freq[f], early, told_types, unlisted, given, crossed)

MapInv ==
  /\ stored_types \subseteq Types /\ prefix_of \in [Types -> Prefixes \cup {Unset}]
  /\ \A t \in Types \ stored_types : prefix_of[t] = Unset
  /\ \A t \in Types : prefix_of[t] # Unset => Fits(prefix_of[t], t, early, told_types)

AnswersInv ==
  /\ answers \in [Prefixes -> SUBSET Types] /\ early \in [Prefixes -> SUBSET Types]
  /\ told_types \in [Prefixes -> SUBSET Types]
  /\ \A p \in Prefixes : \A t \in answers[p] : Fits(p, t, early, told_types)

\* What was given while no thread was at the case stays.
GivenStays ==
  \A ref \in Refs \ crossed :
    case_row[ref] # Unset =>
      given[ref].cino \in {case_row[ref].cino, Unset} /\ given[ref].type \in {case_row[ref].type, Unset}

RowsInv ==
  /\ case_row \in [Refs -> CaseRow \cup {Unset}] /\ given \in [Refs -> CaseRow] /\ crossed \subseteq Refs
  /\ \A ref \in Refs :
       /\ case_row[ref] # Unset /\ case_row[ref].type # Unset =>
            Fits(PrefixOf[ref], case_row[ref].type, early, told_types)
       /\ case_row[ref] = Unset => given[ref].cino = Unset /\ given[ref].type = Unset

\* A wrong history is under a CNR that was not listed.
CachedAsFound == \A n \in Cnrs \ unlisted : cache[n] \in {n, Unset}

CacheInv == cache \in [Cnrs -> Cnrs \cup {Unset}] /\ unlisted \subseteq Cnrs /\ CachedAsFound

FetchesInv == fetches \in 0 .. MaxFetches /\ fetchFaults \in 0 .. MaxFetchFaults

\* What fits goes on fitting.
LEMMA FitsStay ==
  ASSUME NEW p \in Prefixes, NEW t, NEW e, NEW o, NEW e1, NEW o1,
         e[p] \subseteq e1[p], o[p] \subseteq o1[p], Fits(p, t, e, o)
  PROVE  Fits(p, t, e1, o1)
BY DEF Fits

LEMMA CallStays ==
  ASSUME NEW step, NEW call, NEW e, NEW o, NEW n, NEW g, NEW x, NEW e1, NEW o1, NEW n1,
         CallOK(step, call, e, o, n, g, x),
         \A p \in Prefixes : e[p] \subseteq e1[p] /\ o[p] \subseteq o1[p], n \subseteq n1
  PROVE  CallOK(step, call, e1, o1, n1, g, x)
<1>1. CallFinds(step, call, n1) /\ CallGives(step, call, g, x) /\ Placed(step, call)
  BY DEF CallOK, CallFinds
<1>2. CallFits(step, call, e1, o1)
  <2>1. SUFFICES ASSUME call.kind \in {"fetch", "auto"}, call.type # Unset
                 PROVE  Fits(PrefixOf[call.ref], call.type, e1, o1)
    BY DEF CallFits
  <2>2. call.ref \in Refs
    BY <2>1 DEF CallOK, Placed, CallFits
  <2>3. QED
    BY <2>1, <2>2, FitsStay, EcourtsAssumption DEF CallOK, CallFits
<1>3. QED
  BY <1>1, <1>2 DEF CallOK

Grows ==
  /\ \A p \in Prefixes : early[p] \subseteq early'[p] /\ told_types[p] \subseteq told_types'[p]
  /\ unlisted \subseteq unlisted'

\* One thread goes on.
Advances(f) ==
  \E step, call : /\ GoOn(f, step, call)
                  /\ CallOK(step, call, early', told_types', unlisted', given', crossed')

LEMMA FetchersGoOn ==
  ASSUME FetchersInv, NEW f \in Fetchers, Advances(f), Grows, UNCHANGED <<given, crossed>>
  PROVE  FetchersInv'
<1>1. PICK step, call : /\ GoOn(f, step, call)
                        /\ CallOK(step, call, early', told_types', unlisted', given', crossed')
  BY DEF Advances
<1>2. step \in FetchStep /\ call \in CallRow
  BY <1>1 DEF CallOK
<1>3. fpc' \in [Fetchers -> FetchStep] /\ freq' \in [Fetchers -> CallRow]
  BY <1>1, <1>2 DEF GoOn, FetchersInv
<1>4. ASSUME NEW q \in Fetchers
      PROVE  CallOK(fpc'[q], freq'[q], early', told_types', unlisted', given', crossed')
  <2>1. CASE q = f
    <3>1. fpc'[q] = step /\ freq'[q] = call
      BY <1>1, <2>1 DEF GoOn, FetchersInv
    <3>2. QED
      BY <1>1, <3>1
  <2>2. CASE q # f
    <3>1. fpc'[q] = fpc[q] /\ freq'[q] = freq[q]
      BY <1>1, <2>2 DEF GoOn, FetchersInv
    <3>2. CallOK(fpc[q], freq[q], early, told_types, unlisted, given, crossed)
      BY DEF FetchersInv
    <3> HIDE DEF FetchersInv
    <3>3. CallOK(fpc[q], freq[q], early', told_types', unlisted', given, crossed)
      BY <3>2, CallStays DEF Grows
    <3>4. QED
      BY <3>1, <3>3
  <2>3. QED
    BY <2>1, <2>2
<1>5. QED
  BY <1>3, <1>4 DEF FetchersInv

\* Nothing else changes.
Tables == <<typeMap, case_row, cache, resolved, givenVars, unlisted>>
TablesInv == MapInv /\ AnswersInv /\ RowsInv /\ CacheInv /\ GivenStays

LEMMA TablesStay ==
  ASSUME TablesInv, UNCHANGED Tables
  PROVE  TablesInv' /\ Grows /\ UNCHANGED <<given, crossed, early, told_types, unlisted>>
<1>0. /\ stored_types' = stored_types /\ prefix_of' = prefix_of /\ case_row' = case_row /\ cache' = cache
      /\ answers' = answers /\ early' = early /\ given' = given /\ crossed' = crossed
      /\ told_types' = told_types /\ unlisted' = unlisted
  BY DEF Tables, typeMap, resolved, givenVars
<1>1. MapInv'
  BY <1>0 DEF TablesInv, MapInv
<1>2. AnswersInv'
  BY <1>0 DEF TablesInv, AnswersInv
<1>3. RowsInv'
  BY <1>0 DEF TablesInv, RowsInv
<1>4. CacheInv'
  BY <1>0 DEF TablesInv, CacheInv, CachedAsFound
<1>5. GivenStays'
  BY <1>0 DEF TablesInv, GivenStays
<1>6. QED
  BY <1>0, <1>1, <1>2, <1>3, <1>4, <1>5 DEF TablesInv, Grows

\* Threads that leave, and calls with another type, rest or case.
LEMMA LeaveIs ==
  ASSUME NEW f, Leave(f) PROVE Advances(f)
<1>1. NoCall \in CallRow /\ NoCall.kind = "none"
  BY DEF NoCall, CallRow
<1>2. CallOK("idle", NoCall, early', told_types', unlisted', given', crossed')
  BY <1>1 DEF CallOK, Placed, CallFits, CallFinds, CallGives, FetchStep, Resolving
<1>3. QED
  BY <1>2 DEF Advances, Leave

LEMMA CallWith ==
  ASSUME NEW call \in CallRow
  PROVE  /\ \A t \in Types \cup {Unset} : LET c == [call EXCEPT !.type = t] IN
              /\ c \in CallRow /\ c.kind = call.kind /\ c.ref = call.ref /\ c.cino = call.cino
              /\ c.type = t /\ c.picked = call.picked
         /\ \A l \in SUBSET Types : LET c == [call EXCEPT !.left = l] IN
              /\ c \in CallRow /\ c.kind = call.kind /\ c.ref = call.ref /\ c.cino = call.cino
              /\ c.type = call.type /\ c.picked = call.picked
         /\ \A n \in Cnrs : LET c == [call EXCEPT !.picked = n] IN
              /\ c \in CallRow /\ c.kind = call.kind /\ c.ref = call.ref /\ c.cino = call.cino
              /\ c.type = call.type /\ c.picked = n
BY DEF CallRow

\* Every step of a thread.
LEMMA FetchEcourtsAdvances ==
  ASSUME FetchersInv, TablesInv, NEW f \in Fetchers, NEW ref \in Refs, FetchEcourts(f, ref)
  PROVE  Advances(f) /\ UNCHANGED Tables
<1> DEFINE row == case_row[ref]
           n == row.cino
           t == row.type
           call == [NoCall EXCEPT !.kind = "fetch", !.ref = ref, !.cino = n, !.type = t]
           step == IF t = Unset THEN "resolve" ELSE "fresh"
<1>1. row # Unset /\ row \in CaseRow
  BY DEF FetchEcourts, TablesInv, RowsInv
<1>2. n \in Cnrs \cup {Unset} /\ t \in Types \cup {Unset}
  BY <1>1 DEF CaseRow
<1>3. /\ t # Unset => Fits(PrefixOf[ref], t, early, told_types)
      /\ ref \notin crossed => given[ref].cino \in {n, Unset} /\ given[ref].type \in {t, Unset}
  BY <1>1 DEF TablesInv, RowsInv, GivenStays
<1>4. GoOn(f, step, call) /\ UNCHANGED Tables
  BY DEF FetchEcourts, Tables
<1> HIDE DEF n, t
<1>5. /\ call \in CallRow /\ call.kind = "fetch" /\ call.ref = ref /\ call.cino = n /\ call.type = t
  BY <1>2 DEF NoCall, CallRow
<1> HIDE DEF call
<1>6. /\ step \in FetchStep /\ Placed(step, call) /\ CallFinds(step, call, unlisted)
  BY <1>2, <1>5 DEF Placed, CallFinds, FetchStep
<1>7. CallFits(step, call, early, told_types)
  BY <1>3, <1>5 DEF CallFits
<1>8. CallGives(step, call, given, crossed)
  BY <1>2, <1>3, <1>5 DEF CallGives, Resolving
<1>9. CallOK(step, call, early, told_types, unlisted, given, crossed)
  BY <1>5, <1>6, <1>7, <1>8 DEF CallOK
<1>10. UNCHANGED <<given, crossed, early, told_types, unlisted>>
  BY <1>4, TablesStay
<1>11. QED
  BY <1>4, <1>9, <1>10 DEF Advances

LEMMA unified_case_searchAdvances ==
  ASSUME FetchersInv, TablesInv, NEW f \in Fetchers, NEW ref \in Refs, unified_case_search(f, ref)
  PROVE  Advances(f) /\ UNCHANGED Tables
<1> DEFINE call == [NoCall EXCEPT !.kind = "auto", !.ref = ref]
<1>1. case_row[ref] = Unset /\ given[ref].cino = Unset /\ given[ref].type = Unset
  BY DEF unified_case_search, TablesInv, RowsInv
<1>2. GoOn(f, "add", call) /\ UNCHANGED Tables
  BY DEF unified_case_search, Tables
<1>3. call \in CallRow /\ call.kind = "auto" /\ call.ref = ref /\ call.cino = Unset /\ call.type = Unset
  BY DEF NoCall, CallRow
<1> HIDE DEF call
<1>4. CallOK("add", call, early, told_types, unlisted, given, crossed)
  BY <1>1, <1>3 DEF CallOK, Placed, CallFits, CallFinds, CallGives, FetchStep, Resolving
<1>5. UNCHANGED <<given, crossed, early, told_types, unlisted>>
  BY <1>2, TablesStay
<1>6. QED
  BY <1>2, <1>4, <1>5 DEF Advances

LEMMA NotifyTracksAdvances ==
  ASSUME FetchersInv, TablesInv, NEW f \in Fetchers, NEW ref \in Refs, NotifyTracks(f, ref)
  PROVE  Advances(f) /\ UNCHANGED Tables
<1> DEFINE call == [NoCall EXCEPT !.kind = "notify", !.ref = ref]
<1>1. case_row[ref] = Unset /\ given[ref].cino = Unset /\ given[ref].type = Unset
  BY DEF NotifyTracks, TablesInv, RowsInv
<1>2. GoOn(f, "add", call) /\ UNCHANGED Tables
  BY DEF NotifyTracks, Tables
<1>3. call \in CallRow /\ call.kind = "notify" /\ call.ref = ref /\ call.cino = Unset /\ call.type = Unset
  BY DEF NoCall, CallRow
<1> HIDE DEF call
<1>4. CallOK("add", call, early, told_types, unlisted, given, crossed)
  BY <1>1, <1>3 DEF CallOK, Placed, CallFits, CallFinds, CallGives, FetchStep, Resolving
<1>5. UNCHANGED <<given, crossed, early, told_types, unlisted>>
  BY <1>2, TablesStay
<1>6. QED
  BY <1>2, <1>4, <1>5 DEF Advances

LEMMA get_case_historyAdvances ==
  ASSUME FetchersInv, TablesInv, NEW f \in Fetchers, NEW ref \in Refs, NEW entry \in Entries,
         get_case_history(f, ref, entry)
  PROVE  Advances(f) /\ UNCHANGED Tables
<1> DEFINE n == entry.cino
           t == entry.type
           call == [NoCall EXCEPT !.kind = "ask", !.ref = ref, !.cino = n, !.type = t]
<1>1. n \in Cnrs /\ t \in Types
  BY EcourtsAssumption DEF get_case_history
<1>2. GoOn(f, "fresh", call) /\ UNCHANGED Tables
  BY DEF get_case_history, Tables
<1> HIDE DEF n, t
<1>3. call \in CallRow /\ call.kind = "ask" /\ call.ref = ref /\ call.cino = n /\ call.type = t
  BY <1>1 DEF NoCall, CallRow
<1> HIDE DEF call
<1>4. CallOK("fresh", call, early, told_types, unlisted, given, crossed)
  BY <1>1, <1>3 DEF CallOK, Placed, CallFits, CallFinds, CallGives, FetchStep, Resolving
<1>5. UNCHANGED <<given, crossed, early, told_types, unlisted>>
  BY <1>2, TablesStay
<1>6. QED
  BY <1>2, <1>4, <1>5 DEF Advances

\* A thread that goes on with what it has, or with the whole list of types.
LEMMA SameCall ==
  ASSUME FetchersInv, TablesInv, NEW f \in Fetchers, UNCHANGED Tables,
         \/ ecourts_types_populated(f) \/ fetch_bench_types(f) \/ get_case_history_cache(f)
         \/ SearchFails(f) \/ FetchCallFails(f)
  PROVE  Advances(f)
<1> DEFINE call == freq[f]
<1>1. CallOK(fpc[f], call, early, told_types, unlisted, given, crossed)
  BY DEF FetchersInv
<1>2. UNCHANGED <<given, crossed, early, told_types, unlisted>>
  BY TablesStay
<1>3. ASSUME NEW step \in {"list", "again", "fresh", "search", "learn"}, GoOn(f, step, call),
             \/ fpc[f] = "populated" /\ step \in {"list", "again"}
             \/ fpc[f] = "list" /\ step = "again"
             \/ fpc[f] = "type" /\ step = "fresh"
             \/ fpc[f] = "fresh" /\ step = "search"
             \/ fpc[f] = "cino" /\ step = "learn"
      PROVE  Advances(f)
  <2> HIDE DEF call
  <2>1. CallOK(step, call, early, told_types, unlisted, given, crossed)
    BY <1>1, <1>3 DEF CallOK, Placed, CallFits, CallFinds, CallGives, FetchStep, Resolving
  <2>2. QED
    BY <1>2, <1>3, <2>1 DEF Advances, call
<1>4. CASE ecourts_types_populated(f)
  BY <1>3, <1>4 DEF ecourts_types_populated
<1>5. CASE fetch_bench_types(f)
  <2>1. CASE GoOn(f, "again", call)
    BY <1>3, <1>5, <2>1 DEF fetch_bench_types
  <2>2. CASE GoOn(f, "store", [call EXCEPT !.left = Types])
    <3> DEFINE c == [call EXCEPT !.left = Types]
    <3>1. call \in CallRow /\ fpc[f] = "list"
      BY <1>1, <1>5 DEF CallOK, fetch_bench_types
    <3>2. /\ c \in CallRow /\ c.kind = call.kind /\ c.ref = call.ref /\ c.cino = call.cino
          /\ c.type = call.type /\ c.picked = call.picked
      BY <3>1, CallWith
    <3>3. GoOn(f, "store", c)
      BY <2>2
    <3> HIDE DEF c, call
    <3>4. CallOK("store", c, early, told_types, unlisted, given, crossed)
      BY <1>1, <3>1, <3>2 DEF CallOK, Placed, CallFits, CallFinds, CallGives, FetchStep, Resolving
    <3>5. QED
      BY <1>2, <3>3, <3>4 DEF Advances
  <2>3. QED
    BY <1>5, <2>1, <2>2 DEF fetch_bench_types
<1>6. CASE get_case_history_cache(f)
  BY <1>3, <1>6, LeaveIs DEF get_case_history_cache
<1>7. CASE SearchFails(f)
  BY <1>7, LeaveIs DEF SearchFails
<1>8. CASE FetchCallFails(f)
  <2>1. \/ fpc[f] = "type" /\ GoOn(f, "fresh", call)
        \/ fpc[f] = "cino" /\ GoOn(f, "learn", call)
        \/ fpc[f] = "fresh" /\ GoOn(f, "search", call)
        \/ Leave(f)
    BY <1>8 DEF FetchCallFails
  <2> HIDE DEF call
  <2>2. QED
    BY <1>3, <2>1, LeaveIs
<1>9. QED
  BY <1>4, <1>5, <1>6, <1>7, <1>8

-----------------------------------------------------------------------------
(* Ecourts: rows.                                                          *)

\* The tables a step leaves alone, while types are answered or given.
LEMMA MapStays == ASSUME MapInv, Grows, UNCHANGED typeMap PROVE MapInv'
<1>1. stored_types' = stored_types /\ prefix_of' = prefix_of
  BY DEF typeMap
<1>2. ASSUME NEW t \in Types, prefix_of'[t] # Unset PROVE Fits(prefix_of'[t], t, early', told_types')
  BY <1>1, <1>2, FitsStay DEF MapInv, Grows
<1>3. QED
  BY <1>1, <1>2 DEF MapInv

LEMMA AnswersStay ==
  ASSUME AnswersInv, Grows, UNCHANGED answers,
         early' \in [Prefixes -> SUBSET Types], told_types' \in [Prefixes -> SUBSET Types]
  PROVE  AnswersInv'
<1>1. ASSUME NEW p \in Prefixes, NEW t \in answers'[p] PROVE Fits(p, t, early', told_types')
  BY FitsStay DEF AnswersInv, Grows
<1>2. QED
  BY <1>1 DEF AnswersInv

LEMMA RowsStay == ASSUME RowsInv, GivenStays, Grows, UNCHANGED <<case_row, given, crossed>> PROVE RowsInv' /\ GivenStays'
<1>1. ASSUME NEW ref \in Refs, case_row'[ref] # Unset, case_row'[ref].type # Unset
      PROVE  Fits(PrefixOf[ref], case_row'[ref].type, early', told_types')
  <2>1. PrefixOf[ref] \in Prefixes
    BY EcourtsAssumption
  <2>2. QED
    BY <1>1, <2>1, FitsStay DEF RowsInv, Grows
<1>2. RowsInv'
  BY <1>1 DEF RowsInv
<1>3. GivenStays'
  BY DEF GivenStays
<1>4. QED
  BY <1>2, <1>3

LEMMA CacheStays == ASSUME CacheInv, UNCHANGED <<cache, unlisted>> PROVE CacheInv'
BY DEF CacheInv, CachedAsFound

LEMMA add_tracked_caseKeeps ==
  ASSUME FetchersInv, TablesInv, NEW ref \in Refs, NEW entry \in Entries, add_tracked_case(ref, entry)
  PROVE  FetchersInv' /\ TablesInv'
<1>1. /\ entry \in CaseRow /\ entry # Unset /\ entry.type \in Types \cup {Unset} /\ PrefixOf[ref] \in Prefixes
  BY EcourtsAssumption, CaseRowAssumption DEF CaseRow
<1>2. /\ UNCHANGED <<typeMap, cache, fpc, freq, answers, early, unlisted>>
      /\ case_row' = [case_row EXCEPT ![ref] = entry] /\ given' = [given EXCEPT ![ref] = entry]
      /\ crossed' = IF \E f \in Fetchers : freq[f].ref = ref THEN crossed \cup {ref} ELSE crossed \ {ref}
      /\ told_types' = [told_types EXCEPT ![PrefixOf[ref]] = @ \cup ({entry.type} \ {Unset})]
  BY DEF add_tracked_case, resolved
<1>3. told_types' \in [Prefixes -> SUBSET Types] /\ Grows
  <2>1. told_types \in [Prefixes -> SUBSET Types]
    BY DEF TablesInv, AnswersInv
  <2>2. QED
    BY <1>1, <1>2, <2>1 DEF Grows
<1>4. MapInv' /\ AnswersInv' /\ CacheInv'
  BY <1>2, <1>3, MapStays, AnswersStay, CacheStays DEF TablesInv, AnswersInv
<1>5. RowsInv /\ GivenStays
  BY DEF TablesInv
<1>6. /\ case_row' \in [Refs -> CaseRow \cup {Unset}] /\ given' \in [Refs -> CaseRow] /\ crossed' \subseteq Refs
      /\ case_row'[ref] = entry /\ given'[ref] = entry
      /\ \A r \in Refs : r # ref => case_row'[r] = case_row[r] /\ given'[r] = given[r]
      /\ \A r \in Refs : r # ref => (r \in crossed' <=> r \in crossed)
  BY <1>1, <1>2, <1>5 DEF RowsInv
<1>7. RowsInv'
  <2>1. ASSUME NEW r \in Refs
        PROVE  /\ case_row'[r] # Unset /\ case_row'[r].type # Unset =>
                    Fits(PrefixOf[r], case_row'[r].type, early', told_types')
               /\ case_row'[r] = Unset => given'[r].cino = Unset /\ given'[r].type = Unset
    <3>1. CASE r = ref
      <4>1. entry.type # Unset => entry.type \in told_types'[PrefixOf[ref]]
        BY <1>1, <1>2, <1>3 DEF TablesInv, AnswersInv
      <4>2. QED
        BY <1>1, <1>6, <3>1, <4>1 DEF Fits
    <3>2. CASE r # ref
      <4>1. PrefixOf[r] \in Prefixes
        BY EcourtsAssumption
      <4>2. QED
        BY <1>3, <1>5, <1>6, <3>2, <4>1, FitsStay DEF RowsInv, Grows
    <3>3. QED
      BY <3>1, <3>2
  <2>2. QED
    BY <1>6, <2>1 DEF RowsInv
<1>8. GivenStays'
  BY <1>5, <1>6 DEF GivenStays
<1>9. FetchersInv'
  <2>1. ASSUME NEW q \in Fetchers
        PROVE  CallOK(fpc[q], freq[q], early', told_types', unlisted', given', crossed')
    <3>1. CallOK(fpc[q], freq[q], early, told_types, unlisted, given, crossed)
      BY DEF FetchersInv
    <3>2. CallOK(fpc[q], freq[q], early', told_types', unlisted', given, crossed)
      BY <1>3, <3>1, CallStays DEF Grows
    <3> DEFINE call == freq[q]
    <3>3. call.ref = ref => ref \in crossed'
      BY <1>2
    <3> HIDE DEF call
    <3>4. CallGives(fpc[q], call, given', crossed')
      BY <1>6, <3>1, <3>3 DEF CallGives, CallOK, call
    <3>5. QED
      BY <3>2, <3>4 DEF CallOK, call
  <2>2. QED
    BY <1>2, <2>1 DEF FetchersInv
<1>10. QED
  BY <1>4, <1>7, <1>8, <1>9 DEF TablesInv

LEMMA remove_tracked_caseKeeps ==
  ASSUME FetchersInv, TablesInv, NEW ref \in Refs, remove_tracked_case(ref)
  PROVE  FetchersInv' /\ TablesInv'
<1>1. /\ UNCHANGED <<typeMap, cache, fpc, freq, answers, early, unlisted, crossed, told_types>>
      /\ case_row' = [case_row EXCEPT ![ref] = Unset] /\ given' = [given EXCEPT ![ref] = NothingGiven]
  BY DEF remove_tracked_case, resolved
<1>2. NothingGiven \in CaseRow /\ NothingGiven.cino = Unset /\ NothingGiven.type = Unset
  BY DEF NothingGiven, CaseRow
<1>3. Grows
  BY <1>1 DEF Grows
<1>4. MapInv' /\ AnswersInv' /\ CacheInv'
  BY <1>1, <1>3, MapStays, AnswersStay, CacheStays DEF TablesInv, AnswersInv
<1>5. RowsInv /\ GivenStays
  BY DEF TablesInv
<1>6. /\ case_row' \in [Refs -> CaseRow \cup {Unset}] /\ given' \in [Refs -> CaseRow]
      /\ case_row'[ref] = Unset /\ given'[ref].cino = Unset /\ given'[ref].type = Unset
      /\ \A r \in Refs : r # ref => case_row'[r] = case_row[r] /\ given'[r] = given[r]
  BY <1>1, <1>2, <1>5 DEF RowsInv
<1>7. RowsInv' /\ GivenStays'
  <2>1. RowsInv'
    BY <1>1, <1>5, <1>6 DEF RowsInv
  <2>2. GivenStays'
    BY <1>1, <1>5, <1>6 DEF GivenStays
  <2>3. QED
    BY <2>1, <2>2
<1>8. ASSUME NEW q \in Fetchers
      PROVE  CallOK(fpc[q], freq[q], early', told_types', unlisted', given', crossed')
  <2> DEFINE call == freq[q]
  <2>1. CallOK(fpc[q], call, early, told_types, unlisted, given, crossed)
    BY DEF FetchersInv
  <2> HIDE DEF call
  <2>2. CallGives(fpc[q], call, given', crossed')
    BY <1>1, <1>6, <2>1 DEF CallGives, CallOK
  <2>3. QED
    BY <1>1, <2>1, <2>2 DEF CallOK, call
<1>9. FetchersInv'
  BY <1>1, <1>8 DEF FetchersInv
<1>10. QED
  BY <1>4, <1>7, <1>9 DEF TablesInv

\* A row is written by a thread.
LEMMA RowWritten ==
  ASSUME RowsInv, GivenStays, UNCHANGED <<given, crossed, early, told_types>>,
         NEW ref \in Refs, NEW row \in CaseRow \cup {Unset}, case_row' = [case_row EXCEPT ![ref] = row],
         row = Unset => case_row[ref] = Unset,
         row # Unset =>
           /\ row.type # Unset => Fits(PrefixOf[ref], row.type, early, told_types)
           /\ ref \notin crossed => given[ref].cino \in {row.cino, Unset} /\ given[ref].type \in {row.type, Unset}
  PROVE  RowsInv' /\ GivenStays'
<1>1. /\ case_row' \in [Refs -> CaseRow \cup {Unset}] /\ case_row'[ref] = row
      /\ \A r \in Refs : r # ref => case_row'[r] = case_row[r]
  BY DEF RowsInv
<1>2. RowsInv'
  BY <1>1 DEF RowsInv
<1>3. GivenStays'
  BY <1>1 DEF GivenStays
<1>4. QED
  BY <1>2, <1>3

LEMMA UpdateIs ==
  ASSUME RowsInv, GivenStays, UNCHANGED <<given, crossed, early, told_types>>,
         NEW f \in Fetchers, NEW ref \in Refs, freq[f].ref = ref,
         NEW n \in Cnrs \cup {Unset}, NEW t \in Types \cup {Unset}, update_tracked_case(f, n, t),
         t # Unset => Fits(PrefixOf[ref], t, early, told_types),
         ref \notin crossed => (n # Unset => given[ref].cino = Unset) /\ (t # Unset => given[ref].type = Unset)
  PROVE  RowsInv' /\ GivenStays'
<1> DEFINE old == case_row[ref]
           row == IF old = Unset THEN Unset
                  ELSE [cino |-> IF n = Unset THEN old.cino ELSE n, type |-> IF t = Unset THEN old.type ELSE t]
<1>1. case_row' = [case_row EXCEPT ![ref] = row]
  BY DEF update_tracked_case
<1>2. old \in CaseRow \cup {Unset}
  BY DEF RowsInv
<1>3. CASE old = Unset
  <2>1. row = Unset
    BY <1>3
  <2>2. case_row' = [case_row EXCEPT ![ref] = Unset]
    BY <1>1, <2>1
  <2>3. QED
    BY <1>3, <2>2, RowWritten
<1>4. CASE old # Unset
  <2> DEFINE c == IF n = Unset THEN old.cino ELSE n
             d == IF t = Unset THEN old.type ELSE t
  <2>1. row = [cino |-> c, type |-> d]
    BY <1>4
  <2>2. c \in Cnrs \cup {Unset} /\ d \in Types \cup {Unset}
    BY <1>2, <1>4 DEF CaseRow
  <2>3. d # Unset => Fits(PrefixOf[ref], d, early, told_types)
    BY <1>4 DEF RowsInv
  <2>4. ref \notin crossed => given[ref].cino \in {c, Unset} /\ given[ref].type \in {d, Unset}
    BY <1>4 DEF GivenStays
  <2> HIDE DEF c, d
  <2>5. row \in CaseRow /\ row.cino = c /\ row.type = d /\ row # Unset
    BY <2>1, <2>2, CaseRowAssumption DEF CaseRow
  <2> HIDE DEF row
  <2>6. ASSUME NEW new, new = row PROVE RowsInv' /\ GivenStays'
    <3>1. case_row' = [case_row EXCEPT ![ref] = new] /\ new \in CaseRow \cup {Unset}
      BY <1>1, <2>5, <2>6
    <3>2. new # Unset /\ new.cino = c /\ new.type = d
      BY <2>5, <2>6
    <3>3. QED
      BY <2>3, <2>4, <3>1, <3>2, RowWritten
  <2>7. QED
    BY <2>6
<1>5. QED
  BY <1>3, <1>4

\* Steps that write a row.
LEMMA RowActions ==
  ASSUME FetchersInv, TablesInv, NEW f \in Fetchers,
         AutoTrack(f) \/ PersistType(f) \/ PersistCino(f) \/ UpdateCase(f)
  PROVE  FetchersInv' /\ TablesInv'
<1>1. UNCHANGED <<typeMap, cache, answers, early, given, crossed, told_types, unlisted>>
  BY DEF AutoTrack, PersistType, PersistCino, UpdateCase, resolved, givenVars
<1>2. Grows
  BY <1>1 DEF Grows
<1>3. MapInv' /\ AnswersInv' /\ CacheInv'
  BY <1>1, <1>2, MapStays, AnswersStay, CacheStays DEF TablesInv, AnswersInv
<1>4. RowsInv /\ GivenStays
  BY DEF TablesInv
<1>5. SUFFICES ASSUME NEW call, call = freq[f]
               PROVE  RowsInv' /\ GivenStays' /\ Advances(f)
  <2>1. RowsInv' /\ GivenStays' /\ Advances(f)
    BY <1>5
  <2>2. FetchersInv'
    BY <1>1, <1>2, <2>1, FetchersGoOn
  <2>3. QED
    BY <1>3, <2>1, <2>2 DEF TablesInv
<1>6. CallOK(fpc[f], call, early, told_types, unlisted, given, crossed)
  BY <1>5 DEF FetchersInv
<1>7. ASSUME NEW step \in FetchStep, GoOn(f, step, call),
             CallOK(step, call, early, told_types, unlisted, given, crossed)
      PROVE  Advances(f)
  BY <1>1, <1>7 DEF Advances
<1>8. CASE AutoTrack(f)
  <2>1. /\ fpc[f] = "add" /\ case_row' = [case_row EXCEPT ![call.ref] = NothingGiven]
        /\ IF call.kind = "auto" THEN GoOn(f, "resolve", call) ELSE Leave(f)
    BY <1>5, <1>8 DEF AutoTrack
  <2>2. call.ref \in Refs /\ call.kind \in {"auto", "notify"}
    BY <1>6, <2>1 DEF CallOK, Placed
  <2>3. NothingGiven \in CaseRow /\ NothingGiven # Unset /\ NothingGiven.cino = Unset /\ NothingGiven.type = Unset
    BY CaseRowAssumption DEF NothingGiven, CaseRow
  <2>4. call.ref \notin crossed => given[call.ref].cino = Unset /\ given[call.ref].type = Unset
    BY <1>6, <2>2 DEF CallOK, CallGives
  <2>5. RowsInv' /\ GivenStays'
    BY <1>1, <1>4, <2>1, <2>2, <2>3, <2>4, RowWritten
  <2>6. ASSUME call.kind = "auto" PROVE CallOK("resolve", call, early, told_types, unlisted, given, crossed)
    BY <1>6, <2>1, <2>6 DEF CallOK, Placed, CallFits, CallFinds, CallGives, FetchStep, Resolving
  <2>7. QED
    BY <1>7, <2>1, <2>5, <2>6, LeaveIs DEF FetchStep
<1>9. CASE PersistType(f)
  <2>1. fpc[f] = "type" /\ update_tracked_case(f, Unset, call.type) /\ GoOn(f, "fresh", call)
    BY <1>5, <1>9 DEF PersistType
  <2>2. call.ref \in Refs /\ call.kind = "fetch" /\ call.type \in Types /\ call.type # Unset
    BY <1>6, <2>1, EcourtsAssumption DEF CallOK, Placed
  <2>3. Fits(PrefixOf[call.ref], call.type, early, told_types)
    BY <1>6, <2>2 DEF CallOK, CallFits
  <2>4. call.ref \notin crossed => given[call.ref].type = Unset
    BY <1>6, <2>1, <2>2 DEF CallOK, CallGives, Resolving
  <2>5. RowsInv' /\ GivenStays'
    BY <1>1, <1>4, <1>5, <2>1, <2>2, <2>3, <2>4, UpdateIs
  <2>6. CallOK("fresh", call, early, told_types, unlisted, given, crossed)
    BY <1>6, <2>1 DEF CallOK, Placed, CallFits, CallFinds, CallGives, FetchStep, Resolving
  <2>7. QED
    BY <1>7, <2>1, <2>5, <2>6 DEF FetchStep
<1>10. CASE PersistCino(f)
  <2>1. fpc[f] = "cino" /\ update_tracked_case(f, call.picked, Unset) /\ GoOn(f, "learn", call)
    BY <1>5, <1>10 DEF PersistCino
  <2>2. call.ref \in Refs /\ call.kind = "fetch" /\ call.picked \in Cnrs /\ call.cino = Unset
    BY <1>6, <2>1 DEF CallOK, Placed
  <2>3. call.ref \notin crossed => given[call.ref].cino = Unset
    BY <1>6, <2>2 DEF CallOK, CallGives
  <2>4. RowsInv' /\ GivenStays'
    BY <1>1, <1>4, <1>5, <2>1, <2>2, <2>3, UpdateIs
  <2>5. CallOK("learn", call, early, told_types, unlisted, given, crossed)
    BY <1>6, <2>1 DEF CallOK, Placed, CallFits, CallFinds, CallGives, FetchStep, Resolving
  <2>6. QED
    BY <1>7, <2>1, <2>4, <2>5 DEF FetchStep
<1>11. CASE UpdateCase(f)
  <2>1. fpc[f] = "update" /\ update_tracked_case(f, call.picked, call.type) /\ Leave(f)
    BY <1>5, <1>11 DEF UpdateCase
  <2>2. call.ref \in Refs /\ call.kind = "auto" /\ call.picked \in Cnrs /\ call.type \in Types /\ call.type # Unset
    BY <1>6, <2>1, EcourtsAssumption DEF CallOK, Placed
  <2>3. Fits(PrefixOf[call.ref], call.type, early, told_types)
    BY <1>6, <2>2 DEF CallOK, CallFits
  <2>4. call.ref \notin crossed => given[call.ref].cino = Unset /\ given[call.ref].type = Unset
    BY <1>6, <2>2 DEF CallOK, CallGives
  <2>5. RowsInv' /\ GivenStays'
    BY <1>1, <1>4, <1>5, <2>1, <2>2, <2>3, <2>4, UpdateIs
  <2>6. QED
    BY <2>1, <2>5, LeaveIs
<1>12. QED
  BY <1>8, <1>9, <1>10, <1>11

-----------------------------------------------------------------------------
(* Ecourts: types.                                                         *)

\* A prefix is resolved to a type that fits.
LEMMA ResolvedIs ==
  ASSUME FetchersInv, AnswersInv, UNCHANGED <<early, told_types, unlisted, given, crossed>>,
         NEW f \in Fetchers, NEW call, call = freq[f], fpc[f] \in {"resolve", "again", "persist"},
         NEW type \in Types, Fits(PrefixOf[call.ref], type, early, told_types), ResolvedTo(f, type)
  PROVE  AnswersInv' /\ Advances(f)
<1> DEFINE p == PrefixOf[call.ref]
           c == [call EXCEPT !.type = type]
           step == IF call.kind = "fetch" THEN "type" ELSE "search"
<1>1. CallOK(fpc[f], call, early, told_types, unlisted, given, crossed)
  BY DEF FetchersInv
<1>2. call \in CallRow /\ call.ref \in Refs /\ p \in Prefixes /\ call.kind \in {"fetch", "auto"} /\ type # Unset
  BY <1>1, EcourtsAssumption DEF CallOK, Placed, CallRow
<1>3. answers' = [answers EXCEPT ![p] = @ \cup {type}] /\ GoOn(f, step, c)
  BY DEF ResolvedTo, Under
<1>4. AnswersInv'
  <2>1. answers' \in [Prefixes -> SUBSET Types]
    BY <1>2, <1>3 DEF AnswersInv
  <2>2. ASSUME NEW q \in Prefixes, NEW t \in answers'[q] PROVE Fits(q, t, early', told_types')
    <3>1. t \in answers[q] \/ (q = p /\ t = type)
      BY <1>2, <1>3, <2>2 DEF AnswersInv
    <3>2. QED
      BY <3>1 DEF AnswersInv
  <2>3. QED
    BY <2>1, <2>2 DEF AnswersInv
<1>5. /\ c \in CallRow /\ c.kind = call.kind /\ c.ref = call.ref /\ c.cino = call.cino
      /\ c.type = type /\ c.picked = call.picked
  BY <1>2, CallWith
<1> HIDE DEF c
<1>6. step \in FetchStep /\ Placed(step, c) /\ CallFinds(step, c, unlisted)
  BY <1>1, <1>2, <1>5 DEF CallOK, Placed, CallFinds, FetchStep
<1>7. CallFits(step, c, early, told_types)
  BY <1>5 DEF CallFits
<1>8. CallGives(step, c, given, crossed)
  BY <1>1, <1>5 DEF CallOK, CallGives, Resolving
<1>9. CallOK(step, c, early', told_types', unlisted', given', crossed')
  BY <1>5, <1>6, <1>7, <1>8 DEF CallOK
<1>10. QED
  BY <1>3, <1>4, <1>9 DEF Advances

\* Of the names, the match of all types is the one by name.
LEMMA MatchIs ==
  ASSUME NEW p \in Prefixes, Match(p, Types) # Unset PROVE ByName(p, Match(p, Types))
<1>1. Matching[p] \subseteq Types /\ Types \subseteq Nat
  BY EcourtsAssumption
<1>2. CASE Matching[p] = {}
  BY <1>2 DEF Match, ByName
<1>3. CASE Matching[p] # {}
  <2>1. Matching[p] \cap Types = Matching[p]
    BY <1>1
  <2>2. \E t \in Matching[p] : \A s \in Matching[p] : t <= s
    BY <1>1, <1>3, LeastNumber
  <2>3. FirstType(Matching[p]) \in Matching[p] /\ \A s \in Matching[p] : FirstType(Matching[p]) <= s
    BY <2>2 DEF FirstType
  <2>4. Match(p, Types) = FirstType(Matching[p])
    BY <1>3, <2>1 DEF Match
  <2>5. QED
    BY <1>3, <2>3, <2>4 DEF ByName
<1>4. QED
  BY <1>2, <1>3

LEMMA MatchType ==
  ASSUME NEW p \in Prefixes, NEW T \in SUBSET Types, Match(p, T) # Unset PROVE Match(p, T) \in Types
<1>1. CASE Matching[p] \cap T = {}
  BY <1>1, EcourtsAssumption DEF Match
<1>2. CASE Matching[p] \cap T # {}
  <2>1. Matching[p] \cap T \subseteq Types /\ Matching[p] \cap T \in SUBSET Nat
    BY EcourtsAssumption
  <2>2. \E t \in Matching[p] \cap T : \A s \in Matching[p] \cap T : t <= s
    BY <1>2, <2>1, LeastNumber
  <2>3. FirstType(Matching[p] \cap T) \in Matching[p] \cap T
    BY <2>2 DEF FirstType
  <2>4. QED
    BY <1>2, <2>1, <2>3 DEF Match
<1>3. QED
  BY <1>1, <1>2

LEMMA get_ecourts_type_idKeeps ==
  ASSUME FetchersInv, TablesInv, NEW f \in Fetchers, get_ecourts_type_id(f)
  PROVE  FetchersInv' /\ TablesInv'
<1>1. UNCHANGED <<typeMap, case_row, cache, early, given, crossed, told_types, unlisted>>
  BY DEF get_ecourts_type_id, givenVars
<1>2. Grows
  BY <1>1 DEF Grows
<1>3. MapInv' /\ RowsInv' /\ GivenStays' /\ CacheInv'
  BY <1>1, <1>2, MapStays, RowsStay, CacheStays DEF TablesInv
<1>4. SUFFICES ASSUME NEW call, call = freq[f] PROVE AnswersInv' /\ Advances(f)
  <2>1. AnswersInv' /\ Advances(f)
    BY <1>4
  <2>2. FetchersInv'
    BY <1>1, <1>2, <2>1, FetchersGoOn
  <2>3. QED
    BY <1>3, <2>1, <2>2 DEF TablesInv
<1>5. CallOK(fpc[f], call, early, told_types, unlisted, given, crossed) /\ fpc[f] \in {"resolve", "again"}
  BY <1>4 DEF FetchersInv, get_ecourts_type_id
<1>6. AnswersInv
  BY DEF TablesInv
<1>7. CASE /\ UNCHANGED answers
           /\ GoOn(f, IF fpc[f] = "resolve" THEN "populated" ELSE "match", call)
  <2> DEFINE step == IF fpc[f] = "resolve" THEN "populated" ELSE "match"
  <2>1. AnswersInv'
    BY <1>1, <1>2, <1>6, <1>7, AnswersStay DEF AnswersInv
  <2>2. step \in {"populated", "match"}
    OBVIOUS
  <2> HIDE DEF step
  <2>3. CallOK(step, call, early, told_types, unlisted, given, crossed)
    BY <1>5, <2>2 DEF CallOK, Placed, CallFits, CallFinds, CallGives, FetchStep, Resolving
  <2>4. QED
    BY <1>1, <1>7, <2>1, <2>3 DEF Advances, step
<1>8. ASSUME NEW type \in Known(Under(f)), ResolvedTo(f, type) PROVE AnswersInv' /\ Advances(f)
  <2>1. MapInv /\ Under(f) = PrefixOf[call.ref] /\ PrefixOf[call.ref] \in Prefixes
    BY <1>4, <1>5, EcourtsAssumption DEF TablesInv, Under, CallOK, Placed
  <2>2. type \in Types /\ prefix_of[type] = PrefixOf[call.ref] /\ prefix_of[type] # Unset
    BY <1>8, <2>1, EcourtsAssumption DEF Known, MapInv
  <2>3. Fits(PrefixOf[call.ref], type, early, told_types)
    BY <2>1, <2>2 DEF MapInv
  <2>4. ASSUME NEW u \in Types, u = type PROVE AnswersInv' /\ Advances(f)
    BY <1>1, <1>4, <1>5, <1>6, <1>8, <2>3, <2>4, ResolvedIs
  <2>5. QED
    BY <2>2, <2>4
<1>9. QED
  BY <1>4, <1>7, <1>8 DEF get_ecourts_type_id

LEMMA upsert_ecourts_typeKeeps ==
  ASSUME FetchersInv, TablesInv, NEW f \in Fetchers, upsert_ecourts_type(f)
  PROVE  FetchersInv' /\ TablesInv'
<1>1. UNCHANGED <<prefix_of, case_row, cache, answers, early, given, crossed, told_types, unlisted>>
  BY DEF upsert_ecourts_type, resolved, givenVars
<1>2. Grows
  BY <1>1 DEF Grows
<1>3. AnswersInv' /\ RowsInv' /\ GivenStays' /\ CacheInv'
  BY <1>1, <1>2, AnswersStay, RowsStay, CacheStays DEF TablesInv, AnswersInv
<1>4. PICK type \in freq[f].left :
        /\ stored_types' = stored_types \cup {type}
        /\ GoOn(f, IF freq[f].left = {type} THEN "again" ELSE "store", [freq[f] EXCEPT !.left = @ \ {type}])
  BY DEF upsert_ecourts_type
<1> DEFINE call == freq[f]
           l == call.left \ {type}
           c == [call EXCEPT !.left = l]
           step == IF call.left = {type} THEN "again" ELSE "store"
<1>5. CallOK(fpc[f], call, early, told_types, unlisted, given, crossed) /\ fpc[f] = "store"
  BY DEF FetchersInv, upsert_ecourts_type
<1>6. call \in CallRow /\ call.left \subseteq Types
  BY <1>5 DEF CallOK, CallRow
<1>7. MapInv'
  BY <1>1, <1>4, <1>6 DEF TablesInv, MapInv
<1>8. GoOn(f, step, c) /\ step \in {"again", "store"} /\ l \in SUBSET Types
  BY <1>4, <1>6
<1> HIDE DEF l
<1>9. /\ c \in CallRow /\ c.kind = call.kind /\ c.ref = call.ref /\ c.cino = call.cino
      /\ c.type = call.type /\ c.picked = call.picked
  BY <1>6, <1>8, CallWith
<1> HIDE DEF c, call, step
<1>10. CallOK(step, c, early, told_types, unlisted, given, crossed)
  BY <1>5, <1>8, <1>9 DEF CallOK, Placed, CallFits, CallFinds, CallGives, FetchStep, Resolving
<1>11. FetchersInv'
  BY <1>1, <1>2, <1>8, <1>10, FetchersGoOn DEF Advances
<1>12. QED
  BY <1>3, <1>7, <1>11 DEF TablesInv

LEMMA MatchPrefixKeeps ==
  ASSUME FetchersInv, TablesInv, NEW f \in Fetchers, MatchPrefix(f)
  PROVE  FetchersInv' /\ TablesInv'
<1>1. UNCHANGED <<typeMap, case_row, cache, answers, given, crossed, told_types, unlisted>>
  BY DEF MatchPrefix, givenVars
<1> DEFINE call == freq[f]
           p == PrefixOf[call.ref]
           type == Match(p, stored_types)
           c == [call EXCEPT !.type = type]
<1>2. CallOK(fpc[f], call, early, told_types, unlisted, given, crossed) /\ fpc[f] = "match"
  BY DEF FetchersInv, MatchPrefix
<1>3. call \in CallRow /\ call.ref \in Refs /\ p \in Prefixes
  BY <1>2, EcourtsAssumption DEF CallOK, Placed
<1>4. \/ Leave(f) /\ UNCHANGED early
      \/ /\ type # Unset /\ GoOn(f, "persist", c)
         /\ early' = IF stored_types = Types THEN early ELSE [early EXCEPT ![p] = @ \cup {type}]
  BY DEF MatchPrefix, Under
<1>5. MapInv /\ AnswersInv /\ RowsInv /\ CacheInv /\ GivenStays
  BY DEF TablesInv
<1>6. type # Unset => type \in Types
  BY <1>3, <1>5, MatchType DEF MapInv
<1>7. early' \in [Prefixes -> SUBSET Types] /\ told_types' \in [Prefixes -> SUBSET Types] /\ Grows
  <2>1. early \in [Prefixes -> SUBSET Types] /\ told_types \in [Prefixes -> SUBSET Types]
    BY <1>5 DEF AnswersInv
  <2> HIDE DEF type, p
  <2>2. QED
    BY <1>1, <1>3, <1>4, <1>6, <2>1 DEF Grows
<1>8. TablesInv'
  BY <1>1, <1>5, <1>7, MapStays, AnswersStay, RowsStay, CacheStays DEF TablesInv
<1>9. CASE Leave(f)
  BY <1>1, <1>7, <1>8, <1>9, LeaveIs, FetchersGoOn
<1>10. CASE /\ type # Unset /\ GoOn(f, "persist", c)
            /\ early' = IF stored_types = Types THEN early ELSE [early EXCEPT ![p] = @ \cup {type}]
  <2>1. /\ c \in CallRow /\ c.kind = call.kind /\ c.ref = call.ref /\ c.cino = call.cino
        /\ c.type = type /\ c.picked = call.picked
    BY <1>3, <1>6, <1>10, CallWith
  <2>2. Fits(p, type, early', told_types')
    <3>1. CASE stored_types = Types
      BY <1>3, <1>10, <3>1, MatchIs DEF Fits
    <3>2. CASE stored_types # Types
      <4>1. early \in [Prefixes -> SUBSET Types]
        BY <1>5 DEF AnswersInv
      <4> HIDE DEF type, p
      <4>2. type \in early'[p]
        BY <1>3, <1>10, <3>2, <4>1
      <4>3. QED
        BY <4>2 DEF Fits
    <3>3. QED
      BY <3>1, <3>2
  <2> HIDE DEF c, type
  <2>3. "persist" \in FetchStep /\ Placed("persist", c) /\ CallFinds("persist", c, unlisted')
    BY <1>2, <1>6, <1>10, <2>1 DEF CallOK, Placed, CallFinds, FetchStep
  <2>4. CallFits("persist", c, early', told_types')
    BY <2>1, <2>2 DEF CallFits
  <2>5. CallGives("persist", c, given', crossed')
    BY <1>1, <1>2, <2>1 DEF CallOK, CallGives, Resolving
  <2>6. CallOK("persist", c, early', told_types', unlisted', given', crossed')
    BY <2>1, <2>3, <2>4, <2>5 DEF CallOK
  <2>7. QED
    BY <1>1, <1>7, <1>8, <1>10, <2>6, FetchersGoOn DEF Advances
<1>11. QED
  BY <1>4, <1>9, <1>10

\* A prefix is given to a type.
LEMMA PrefixIs ==
  ASSUME MapInv, UNCHANGED <<stored_types, early, told_types>>, NEW f \in Fetchers, NEW call, call = freq[f],
         call.ref \in Refs, Fits(PrefixOf[call.ref], call.type, early, told_types), set_ecourts_type_prefix(f)
  PROVE  MapInv'
<1>1. PrefixOf[call.ref] \in Prefixes
  BY EcourtsAssumption
<1>2. prefix_of' = [t \in Types |-> IF t = call.type /\ t \in stored_types THEN PrefixOf[call.ref] ELSE prefix_of[t]]
  BY DEF set_ecourts_type_prefix, Under
<1>3. QED
  BY <1>1, <1>2 DEF MapInv

LEMMA PersistPrefixKeeps ==
  ASSUME FetchersInv, TablesInv, NEW f \in Fetchers, PersistPrefix(f)
  PROVE  FetchersInv' /\ TablesInv'
<1>1. UNCHANGED <<stored_types, case_row, cache, early, given, crossed, told_types, unlisted>>
  BY DEF PersistPrefix, givenVars
<1>2. Grows
  BY <1>1 DEF Grows
<1>3. RowsInv' /\ GivenStays' /\ CacheInv'
  BY <1>1, <1>2, RowsStay, CacheStays DEF TablesInv
<1>4. SUFFICES ASSUME NEW call, call = freq[f] PROVE MapInv' /\ AnswersInv' /\ Advances(f)
  <2>1. MapInv' /\ AnswersInv' /\ Advances(f)
    BY <1>4
  <2>2. FetchersInv'
    BY <1>1, <1>2, <2>1, FetchersGoOn
  <2>3. QED
    BY <1>3, <2>1, <2>2 DEF TablesInv
<1>5. /\ CallOK(fpc[f], call, early, told_types, unlisted, given, crossed) /\ fpc[f] = "persist"
      /\ set_ecourts_type_prefix(f) /\ ResolvedTo(f, call.type)
  BY <1>4 DEF FetchersInv, PersistPrefix
<1>6. /\ call.ref \in Refs /\ call.type \in Types /\ call.type # Unset /\ call.kind \in {"fetch", "auto"}
  BY <1>5, EcourtsAssumption DEF CallOK, Placed, CallRow
<1>7. Fits(PrefixOf[call.ref], call.type, early, told_types)
  BY <1>5, <1>6 DEF CallOK, CallFits
<1>8. MapInv'
  BY <1>1, <1>4, <1>5, <1>6, <1>7, PrefixIs DEF TablesInv
<1>9. AnswersInv' /\ Advances(f)
  BY <1>1, <1>4, <1>5, <1>6, <1>7, ResolvedIs DEF TablesInv
<1>10. QED
  BY <1>8, <1>9

LEMMA record_learned_prefixKeeps ==
  ASSUME FetchersInv, TablesInv, NEW f \in Fetchers, record_learned_prefix(f)
  PROVE  FetchersInv' /\ TablesInv'
<1>1. UNCHANGED <<stored_types, case_row, cache, answers, early, given, crossed, told_types, unlisted>>
  BY DEF record_learned_prefix, givenVars, resolved
<1>2. Grows
  BY <1>1 DEF Grows
<1>3. AnswersInv' /\ RowsInv' /\ GivenStays' /\ CacheInv'
  BY <1>1, <1>2, AnswersStay, RowsStay, CacheStays DEF TablesInv, AnswersInv
<1>4. MapInv'
  <2>1. SUFFICES ASSUME NEW call, call = freq[f] PROVE MapInv'
    OBVIOUS
  <2>2. /\ CallOK(fpc[f], call, early, told_types, unlisted, given, crossed) /\ fpc[f] = "learn"
        /\ set_ecourts_type_prefix(f)
    BY <2>1 DEF FetchersInv, record_learned_prefix
  <2>3. /\ call.ref \in Refs /\ call.type \in Types /\ call.type # Unset /\ call.kind = "fetch"
    BY <2>2, EcourtsAssumption DEF CallOK, Placed
  <2>4. Fits(PrefixOf[call.ref], call.type, early, told_types)
    BY <2>2, <2>3 DEF CallOK, CallFits
  <2>5. QED
    BY <1>1, <2>1, <2>2, <2>3, <2>4, PrefixIs DEF TablesInv
<1>5. FetchersInv'
  BY <1>1, <1>2, LeaveIs, FetchersGoOn DEF record_learned_prefix
<1>6. QED
  BY <1>3, <1>4, <1>5 DEF TablesInv

-----------------------------------------------------------------------------
(* Ecourts: the search and the cache.                                      *)

LEMMA _do_case_historyKeeps ==
  ASSUME FetchersInv, TablesInv, NEW f \in Fetchers, _do_case_history(f)
  PROVE  FetchersInv' /\ TablesInv'
<1>1. UNCHANGED <<typeMap, case_row, cache, answers, early, given, crossed, told_types>>
  BY DEF _do_case_history, givenVars, resolved
<1> DEFINE call == freq[f]
           target == call.cino
           results == Listed[<<call.type, call.ref>>]
<1>2. CallOK(fpc[f], call, early, told_types, unlisted, given, crossed) /\ fpc[f] = "search"
  BY DEF FetchersInv, _do_case_history
<1>3. call \in CallRow /\ call.ref \in Refs /\ call.type \in Types /\ target \in Cnrs \cup {Unset}
  BY <1>2 DEF CallOK, Placed, CallRow
<1>4. results \subseteq Cnrs
  BY <1>3, EcourtsAssumption
<1>5. PICK case \in results : /\ target \in results => case = target
                              /\ GoOn(f, "save", [call EXCEPT !.picked = case])
  BY DEF _do_case_history
<1>6. unlisted' = IF target # Unset /\ target \notin results THEN unlisted \cup {target} ELSE unlisted
  BY DEF _do_case_history
<1> HIDE DEF results
<1>7. Grows /\ unlisted' \subseteq Cnrs
  BY <1>1, <1>3, <1>6 DEF Grows, TablesInv, CacheInv
<1>8. MapInv' /\ AnswersInv' /\ RowsInv' /\ GivenStays'
  BY <1>1, <1>7, MapStays, AnswersStay, RowsStay DEF TablesInv, AnswersInv
<1>9. CacheInv'
  BY <1>1, <1>7 DEF TablesInv, CacheInv, CachedAsFound, Grows
<1> DEFINE c == [call EXCEPT !.picked = case]
<1>10. /\ c \in CallRow /\ c.kind = call.kind /\ c.ref = call.ref /\ c.cino = target
       /\ c.type = call.type /\ c.picked = case /\ case \in Cnrs
  BY <1>3, <1>4, CallWith
<1>11. GoOn(f, "save", c)
  BY <1>5
<1>12. CallFinds("save", c, unlisted')
  BY <1>5, <1>6, <1>10 DEF CallFinds
<1> HIDE DEF c
<1>13. CallOK("save", c, early', told_types', unlisted', given', crossed')
  BY <1>1, <1>2, <1>10, <1>12 DEF CallOK, Placed, CallFits, CallGives, FetchStep, Resolving
<1>14. FetchersInv'
  BY <1>1, <1>7, <1>11, <1>13, FetchersGoOn DEF Advances
<1>15. QED
  BY <1>8, <1>9, <1>14 DEF TablesInv

LEMMA CacheHistoryKeeps ==
  ASSUME FetchersInv, TablesInv, NEW f \in Fetchers, CacheHistory(f)
  PROVE  FetchersInv' /\ TablesInv'
<1>1. UNCHANGED <<typeMap, case_row, answers, early, given, crossed, told_types, unlisted>>
  BY DEF CacheHistory, givenVars, resolved
<1>2. Grows
  BY <1>1 DEF Grows
<1>3. MapInv' /\ AnswersInv' /\ RowsInv' /\ GivenStays'
  BY <1>1, <1>2, MapStays, AnswersStay, RowsStay DEF TablesInv, AnswersInv
<1> DEFINE call == freq[f]
           n == IF call.cino # Unset THEN call.cino ELSE call.picked
           step == IF call.kind = "auto" THEN "update" ELSE IF call.cino = Unset THEN "cino" ELSE "learn"
<1>4. CallOK(fpc[f], call, early, told_types, unlisted, given, crossed) /\ fpc[f] = "save"
  BY DEF FetchersInv, CacheHistory
<1>5. call \in CallRow /\ call.cino \in Cnrs \cup {Unset} /\ call.picked \in Cnrs /\ call.kind # "none"
  BY <1>4 DEF CallOK, Placed, CallRow
<1>6. cache' = [cache EXCEPT ![n] = call.picked]
  BY DEF CacheHistory
<1>7. n \in Cnrs /\ (n \in unlisted \/ call.picked = n)
  BY <1>4, <1>5 DEF CallOK, CallFinds
<1>8. CacheInv'
  <2> HIDE DEF n, call
  <2>1. QED
    BY <1>1, <1>5, <1>6, <1>7 DEF TablesInv, CacheInv, CachedAsFound
<1>9. Leave(f) \/ (call.kind \in {"auto", "fetch"} /\ GoOn(f, step, call))
  <2>1. call.kind \in {"fetch", "auto", "ask"}
    BY <1>4, <1>5 DEF CallRow, CallOK, Placed
  <2>2. CASE call.kind = "ask"
    BY <2>2 DEF CacheHistory
  <2>3. CASE call.kind = "auto"
    BY <2>3 DEF CacheHistory
  <2>4. CASE call.kind = "fetch"
    BY <2>4 DEF CacheHistory
  <2>5. QED
    BY <2>1, <2>2, <2>3, <2>4
<1>10. CASE Leave(f)
  BY <1>1, <1>2, <1>3, <1>8, <1>10, LeaveIs, FetchersGoOn DEF TablesInv
<1>11. CASE call.kind \in {"auto", "fetch"} /\ GoOn(f, step, call)
  <2> HIDE DEF call
  <2>1. CallOK(step, call, early, told_types, unlisted, given, crossed)
    BY <1>4, <1>11 DEF CallOK, Placed, CallFits, CallFinds, CallGives, FetchStep, Resolving
  <2>2. Advances(f)
    BY <1>1, <1>11, <2>1 DEF Advances
  <2>3. QED
    BY <1>1, <1>2, <1>3, <1>8, <2>2, FetchersGoOn DEF TablesInv
<1>12. QED
  BY <1>9, <1>10, <1>11

-----------------------------------------------------------------------------
(* Ecourts: together.                                                      *)

LEMMA EcourtsKeeps ==
  ASSUME FetchersInv, TablesInv, [EcourtsNext]_ecourtsVars
  PROVE  FetchersInv' /\ TablesInv'
<1>1. ASSUME NEW f \in Fetchers, Advances(f), UNCHANGED Tables PROVE FetchersInv' /\ TablesInv'
  BY <1>1, TablesStay, FetchersGoOn
<1>2. ASSUME NEW f \in Fetchers, NEW ref \in Refs, 
             FetchEcourts(f, ref) \/ unified_case_search(f, ref) \/ NotifyTracks(f, ref)
      PROVE  FetchersInv' /\ TablesInv'
  BY <1>1, <1>2, FetchEcourtsAdvances, unified_case_searchAdvances, NotifyTracksAdvances
<1>3. ASSUME NEW f \in Fetchers, NEW ref \in Refs, NEW entry \in Entries, get_case_history(f, ref, entry)
      PROVE  FetchersInv' /\ TablesInv'
  BY <1>1, <1>3, get_case_historyAdvances
<1>4. ASSUME NEW f \in Fetchers,
             \/ ecourts_types_populated(f) \/ fetch_bench_types(f) \/ get_case_history_cache(f)
             \/ SearchFails(f) \/ FetchCallFails(f)
      PROVE  FetchersInv' /\ TablesInv'
  <2>1. UNCHANGED Tables
    BY <1>4 DEF Tables, ecourts_types_populated, fetch_bench_types, get_case_history_cache, SearchFails,
       FetchCallFails
  <2>2. QED
    BY <1>1, <1>4, <2>1, SameCall
<1>5. CASE UNCHANGED ecourtsVars
  <2>1. UNCHANGED Tables /\ UNCHANGED <<fpc, freq>>
    BY <1>5 DEF ecourtsVars, Tables, typeMap, resolved, givenVars
  <2>2. TablesInv' /\ UNCHANGED <<given, crossed, early, told_types, unlisted>>
    BY <2>1, TablesStay
  <2>3. FetchersInv'
    BY <2>1, <2>2 DEF FetchersInv
  <2>4. QED
    BY <2>2, <2>3
<1>6. ASSUME NEW ref \in Refs, (\E entry \in Entries : add_tracked_case(ref, entry)) \/ remove_tracked_case(ref)
      PROVE  FetchersInv' /\ TablesInv'
  BY <1>6, add_tracked_caseKeeps, remove_tracked_caseKeeps
<1>7. ASSUME NEW f \in Fetchers,
             \/ AutoTrack(f) \/ PersistType(f) \/ PersistCino(f) \/ UpdateCase(f)
             \/ get_ecourts_type_id(f) \/ upsert_ecourts_type(f) \/ MatchPrefix(f) \/ PersistPrefix(f)
             \/ _do_case_history(f) \/ CacheHistory(f) \/ record_learned_prefix(f)
      PROVE  FetchersInv' /\ TablesInv'
  BY <1>7, RowActions, get_ecourts_type_idKeeps, upsert_ecourts_typeKeeps, MatchPrefixKeeps,
     PersistPrefixKeeps, _do_case_historyKeeps, CacheHistoryKeeps, record_learned_prefixKeeps
<1>8. QED
  BY <1>2, <1>3, <1>4, <1>5, <1>6, <1>7 DEF EcourtsNext

LEMMA FetchesNext == ASSUME FetchesInv, [EcourtsNext]_ecourtsVars PROVE FetchesInv'
<1> DEFINE c == fetches
           e == fetchFaults
           Counted == fetches' = c \/ (c < MaxFetches /\ fetches' = c + 1)
           Failed == fetchFaults' = e \/ (e < MaxFetchFaults /\ fetchFaults' = e + 1)
<1>1. c \in 0 .. MaxFetches /\ e \in 0 .. MaxFetchFaults /\ MaxFetches \in Nat /\ MaxFetchFaults \in Nat
  BY EcourtsAssumption DEF FetchesInv
<1>2. Fetch => Counted /\ Failed
  BY DEF Fetch
<1>3. UNCHANGED fetchBounds => Counted /\ Failed
  BY DEF fetchBounds
<1>4. ASSUME NEW ref \in Refs,
             \/ \E entry \in Entries : add_tracked_case(ref, entry)
             \/ remove_tracked_case(ref)
             \/ \E f \in Fetchers : \/ FetchEcourts(f, ref) \/ unified_case_search(f, ref) \/ NotifyTracks(f, ref)
                                    \/ \E entry \in Entries : get_case_history(f, ref, entry)
      PROVE  Counted /\ Failed
  <2> HIDE DEF Counted, Failed
  <2>1. QED
    BY <1>2, <1>4 DEF add_tracked_case, remove_tracked_case, FetchEcourts, unified_case_search,
       NotifyTracks, get_case_history
<1>5. ASSUME NEW f \in Fetchers,
             \/ AutoTrack(f) \/ get_ecourts_type_id(f) \/ ecourts_types_populated(f)
             \/ fetch_bench_types(f) \/ upsert_ecourts_type(f)
             \/ MatchPrefix(f) \/ PersistPrefix(f) \/ PersistType(f)
             \/ get_case_history_cache(f) \/ _do_case_history(f) \/ SearchFails(f)
             \/ CacheHistory(f) \/ PersistCino(f) \/ record_learned_prefix(f) \/ UpdateCase(f)
      PROVE  Counted /\ Failed
  <2> HIDE DEF Counted, Failed
  <2>1. UNCHANGED fetchBounds
    BY <1>5 DEF AutoTrack, get_ecourts_type_id, ecourts_types_populated, fetch_bench_types,
       upsert_ecourts_type, MatchPrefix, PersistPrefix, PersistType, get_case_history_cache,
       _do_case_history, SearchFails, CacheHistory, PersistCino, record_learned_prefix, UpdateCase
  <2>2. QED
    BY <1>3, <2>1
<1>6. ASSUME NEW f \in Fetchers, FetchCallFails(f) PROVE Counted /\ Failed
  BY <1>6 DEF FetchCallFails
<1>7. UNCHANGED ecourtsVars => Counted /\ Failed
  BY DEF ecourtsVars
<1>8. Counted /\ Failed
  <2> HIDE DEF Counted, Failed
  <2>1. QED
    BY <1>4, <1>5, <1>6, <1>7 DEF EcourtsNext
<1>9. QED
  BY <1>1, <1>8 DEF FetchesInv

-----------------------------------------------------------------------------
(* Ecourts: where types and CNRs come from.                                *)

\* A type a prefix has by its name, or one of a user under which a case of it is listed.
Accepted(p, t, o) ==
  t \in Names(p) \/ (t \in o[p] /\ \E ref \in Refs : PrefixOf[ref] = p /\ Listed[<<t, ref>>] # {})

\* What a thread has, with the types of answers and told_types.
CallFrom(step, call, a, o) ==
  /\ step = "persist" => call.type \in Names(PrefixOf[call.ref])
  /\ step = "type" \/ (call.kind = "auto" /\ step \in {"search", "save", "update"}) =>
       call.type \in a[PrefixOf[call.ref]]
  /\ call.kind = "fetch" /\ call.type # Unset =>
       call.type \in Names(PrefixOf[call.ref]) \cup o[PrefixOf[call.ref]]
  /\ step \in {"save", "cino", "learn", "update"} => call.picked \in Listed[<<call.type, call.ref>>]
  /\ step = "save" /\ call.cino # Unset /\ call.picked # call.cino => call.cino \notin Listed[<<call.type, call.ref>>]

FetchersFrom == \A f \in Fetchers : CallFrom(fpc[f], freq[f], answers, told_types)

MapFrom == \A t \in Types : prefix_of[t] # Unset => Accepted(prefix_of[t], t, told_types)

AnswersFrom == \A p \in Prefixes : \A t \in answers[p] : Accepted(p, t, told_types)

RowFrom(ref, row, g, a) ==
  /\ row.cino \in {g[ref].cino, Unset} \cup UNION {Listed[<<t, ref>>] : t \in Types}
  /\ row.type \in {g[ref].type, Unset} \cup a[PrefixOf[ref]]

RowsFrom ==
  \A ref \in Refs : /\ given[ref].type # Unset => given[ref].type \in told_types[PrefixOf[ref]]
                    /\ case_row[ref] # Unset => RowFrom(ref, case_row[ref], given, answers)

WrongCase(n, m) == \E t \in Types, ref \in Refs : m \in Listed[<<t, ref>>] /\ n \notin Listed[<<t, ref>>]

CacheFrom == \A n \in Cnrs : cache[n] \notin {n, Unset} => WrongCase(n, cache[n])

FromInv == FetchersFrom /\ MapFrom /\ AnswersFrom /\ RowsFrom /\ CacheFrom

\* Types are only added to.
MoreTypes == \A p \in Prefixes : answers[p] \subseteq answers'[p] /\ told_types[p] \subseteq told_types'[p]

\* One thread goes on from where it is.
GoesOn(f) ==
  \E step, call : GoOn(f, step, call) /\ CallFrom(step, call, answers', told_types')

LEMMA AcceptedStays ==
  ASSUME NEW p \in Prefixes, NEW t, MoreTypes, Accepted(p, t, told_types) PROVE Accepted(p, t, told_types')
BY DEF Accepted, MoreTypes

LEMMA CallFromStays ==
  ASSUME NEW step, NEW call, MoreTypes, CallFrom(step, call, answers, told_types),
         call.kind # "none" => call.ref \in Refs,
         call.kind = "none" => step = "idle"
  PROVE  CallFrom(step, call, answers', told_types')
<1>1. CASE call.kind = "none"
  BY <1>1 DEF CallFrom
<1>2. CASE call.kind # "none"
  <2>1. PrefixOf[call.ref] \in Prefixes
    BY <1>2, EcourtsAssumption
  <2>2. /\ answers[PrefixOf[call.ref]] \subseteq answers'[PrefixOf[call.ref]]
        /\ told_types[PrefixOf[call.ref]] \subseteq told_types'[PrefixOf[call.ref]]
    BY <2>1 DEF MoreTypes
  <2>3. QED
    BY <2>2 DEF CallFrom
<1>3. QED
  BY <1>1, <1>2

LEMMA CallKnown ==
  ASSUME FetchersInv, NEW f \in Fetchers
  PROVE  /\ freq[f] \in CallRow /\ Placed(fpc[f], freq[f])
         /\ freq[f].kind # "none" => freq[f].ref \in Refs
         /\ freq[f].kind = "none" => fpc[f] = "idle"
BY DEF FetchersInv, CallOK, Placed

LEMMA OthersStay ==
  ASSUME FetchersInv, FetchersFrom, MoreTypes, NEW f \in Fetchers, GoesOn(f)
  PROVE  FetchersFrom'
<1>1. PICK step, call : GoOn(f, step, call) /\ CallFrom(step, call, answers', told_types')
  BY DEF GoesOn
<1>2. ASSUME NEW q \in Fetchers PROVE CallFrom(fpc'[q], freq'[q], answers', told_types')
  <2>1. CASE q = f
    <3>1. fpc'[q] = step /\ freq'[q] = call
      BY <1>1, <2>1 DEF GoOn, FetchersInv
    <3>2. QED
      BY <1>1, <3>1
  <2>2. CASE q # f
    <3>1. fpc'[q] = fpc[q] /\ freq'[q] = freq[q]
      BY <1>1, <2>2 DEF GoOn, FetchersInv
    <3>2. CallFrom(fpc[q], freq[q], answers, told_types)
      BY DEF FetchersFrom
    <3>3. CallFrom(fpc[q], freq[q], answers', told_types')
      BY <3>2, CallKnown, CallFromStays
    <3>4. QED
      BY <3>1, <3>3
  <2>3. QED
    BY <2>1, <2>2
<1>3. QED
  BY <1>2 DEF FetchersFrom

LEMMA AllStay ==
  ASSUME FetchersInv, FetchersFrom, MoreTypes, UNCHANGED <<fpc, freq>>
  PROVE  FetchersFrom'
<1>1. ASSUME NEW q \in Fetchers PROVE CallFrom(fpc[q], freq[q], answers', told_types')
  BY CallKnown, CallFromStays DEF FetchersFrom
<1>2. QED
  BY <1>1 DEF FetchersFrom

LEMMA LeavesFrom == ASSUME NEW f, Leave(f) PROVE GoesOn(f)
<1>1. CallFrom("idle", NoCall, answers', told_types')
  BY DEF CallFrom, NoCall
<1>2. QED
  BY <1>1 DEF GoesOn, Leave

LEMMA MapFromStays == ASSUME MapInv, MapFrom, MoreTypes, UNCHANGED prefix_of PROVE MapFrom'
<1>1. ASSUME NEW t \in Types, prefix_of[t] # Unset PROVE Accepted(prefix_of[t], t, told_types')
  BY <1>1, AcceptedStays DEF MapInv, MapFrom
<1>2. QED
  BY <1>1 DEF MapFrom

LEMMA AnswersFromStay == ASSUME AnswersFrom, MoreTypes, UNCHANGED answers PROVE AnswersFrom'
BY AcceptedStays DEF AnswersFrom

LEMMA RowsFromStay == ASSUME RowsFrom, MoreTypes, UNCHANGED <<case_row, given>> PROVE RowsFrom'
<1>1. ASSUME NEW ref \in Refs
      PROVE  /\ given[ref].type # Unset => given[ref].type \in told_types'[PrefixOf[ref]]
             /\ case_row[ref] # Unset => RowFrom(ref, case_row[ref], given, answers')
  <2>1. PrefixOf[ref] \in Prefixes
    BY EcourtsAssumption
  <2>2. QED
    BY <2>1 DEF RowsFrom, RowFrom, MoreTypes
<1>2. QED
  BY <1>1 DEF RowsFrom

LEMMA CacheFromStays == ASSUME CacheFrom, UNCHANGED cache PROVE CacheFrom'
BY DEF CacheFrom

\* Where nothing is written.
LEMMA TablesFrom ==
  ASSUME MapInv, MapFrom, AnswersFrom, RowsFrom, CacheFrom, UNCHANGED <<prefix_of, case_row, cache, answers, given, told_types>>
  PROVE  MoreTypes /\ MapFrom' /\ AnswersFrom' /\ RowsFrom' /\ CacheFrom'
<1>1. MoreTypes
  BY DEF MoreTypes
<1>2. QED
  BY <1>1, MapFromStays, AnswersFromStay, RowsFromStay, CacheFromStays

\* What is matched is a name of the prefix.
LEMMA MatchNames ==
  ASSUME NEW p \in Prefixes, NEW T \in SUBSET Types, Match(p, T) # Unset PROVE Match(p, T) \in Names(p)
<1>1. CASE Matching[p] \cap T = {}
  BY <1>1 DEF Match, Names
<1>2. CASE Matching[p] \cap T # {}
  <2>1. Matching[p] \cap T \in SUBSET Nat
    BY EcourtsAssumption
  <2>2. \E t \in Matching[p] \cap T : \A s \in Matching[p] \cap T : t <= s
    BY <1>2, <2>1, LeastNumber
  <2>3. FirstType(Matching[p] \cap T) \in Matching[p] \cap T
    BY <2>2 DEF FirstType
  <2>4. QED
    BY <1>2, <2>3 DEF Match, Names
<1>3. QED
  BY <1>1, <1>2

LEMMA PrefixFrom ==
  ASSUME MapInv, MapFrom, UNCHANGED <<stored_types, told_types>>, NEW f \in Fetchers, NEW call, call = freq[f],
         call.ref \in Refs, Accepted(PrefixOf[call.ref], call.type, told_types), set_ecourts_type_prefix(f)
  PROVE  MapFrom'
<1>1. prefix_of' = [t \in Types |-> IF t = call.type /\ t \in stored_types THEN PrefixOf[call.ref] ELSE prefix_of[t]]
  BY DEF set_ecourts_type_prefix, Under
<1>2. QED
  BY <1>1 DEF MapFrom

\* Requests.
LEMMA RequestsFrom ==
  ASSUME FetchersInv, TablesInv, FromInv, NEW f \in Fetchers, NEW ref \in Refs,
         \/ FetchEcourts(f, ref) \/ unified_case_search(f, ref) \/ NotifyTracks(f, ref)
         \/ \E entry \in Entries : get_case_history(f, ref, entry)
  PROVE  FromInv'
<1>1. UNCHANGED <<prefix_of, case_row, cache, answers, given, told_types>>
  BY DEF FetchEcourts, unified_case_search, NotifyTracks, get_case_history, typeMap, resolved, givenVars
<1>2. MoreTypes /\ MapFrom' /\ AnswersFrom' /\ RowsFrom' /\ CacheFrom'
  BY <1>1, TablesFrom DEF TablesInv, FromInv
<1>3. GoesOn(f)
  <2>1. CASE FetchEcourts(f, ref)
    <3> DEFINE row == case_row[ref]
               step == IF row.type = Unset THEN "resolve" ELSE "fresh"
               call == [NoCall EXCEPT !.kind = "fetch", !.ref = ref, !.cino = row.cino, !.type = row.type]
    <3>1. GoOn(f, step, call) /\ row # Unset
      BY <2>1 DEF FetchEcourts
    <3>2. RowFrom(ref, row, given, answers)
      BY <3>1 DEF FromInv, RowsFrom
    <3>3. row.type # Unset => row.type \in Names(PrefixOf[ref]) \cup told_types[PrefixOf[ref]]
      <4>1. PrefixOf[ref] \in Prefixes
        BY EcourtsAssumption
      <4>2. QED
        BY <3>2, <4>1 DEF FromInv, RowFrom, RowsFrom, AnswersFrom, Accepted
    <3>4. call.kind = "fetch" /\ call.ref = ref /\ call.type = row.type
      BY DEF NoCall
    <3>5. step \in {"resolve", "fresh"}
      OBVIOUS
    <3> HIDE DEF call, row, step
    <3>6. CallFrom(step, call, answers', told_types')
      BY <1>1, <3>3, <3>4, <3>5 DEF CallFrom
    <3>7. QED
      BY <3>1, <3>6 DEF GoesOn
  <2>2. CASE unified_case_search(f, ref)
    <3> DEFINE call == [NoCall EXCEPT !.kind = "auto", !.ref = ref]
    <3>1. GoOn(f, "add", call) /\ call.kind = "auto"
      BY <2>2 DEF unified_case_search, NoCall
    <3> HIDE DEF call
    <3>2. CallFrom("add", call, answers', told_types')
      BY <3>1 DEF CallFrom
    <3>3. QED
      BY <3>1, <3>2 DEF GoesOn
  <2>3. CASE NotifyTracks(f, ref)
    <3> DEFINE call == [NoCall EXCEPT !.kind = "notify", !.ref = ref]
    <3>1. GoOn(f, "add", call) /\ call.kind = "notify"
      BY <2>3 DEF NotifyTracks, NoCall
    <3> HIDE DEF call
    <3>2. CallFrom("add", call, answers', told_types')
      BY <3>1 DEF CallFrom
    <3>3. QED
      BY <3>1, <3>2 DEF GoesOn
  <2>4. ASSUME NEW entry \in Entries, get_case_history(f, ref, entry) PROVE GoesOn(f)
    <3> DEFINE call == [NoCall EXCEPT !.kind = "ask", !.ref = ref, !.cino = entry.cino, !.type = entry.type]
    <3>1. GoOn(f, "fresh", call) /\ call.kind = "ask"
      BY <2>4 DEF get_case_history, NoCall
    <3> HIDE DEF call
    <3>2. CallFrom("fresh", call, answers', told_types')
      BY <3>1 DEF CallFrom
    <3>3. QED
      BY <3>1, <3>2 DEF GoesOn
  <2>5. QED
    BY <2>1, <2>2, <2>3, <2>4
<1>4. FetchersFrom'
  BY <1>2, <1>3, OthersStay DEF FromInv
<1>5. QED
  BY <1>2, <1>4 DEF FromInv

LEMMA add_tracked_caseFrom ==
  ASSUME FetchersInv, TablesInv, FromInv, NEW ref \in Refs, NEW entry \in Entries, add_tracked_case(ref, entry)
  PROVE  FromInv'
<1>1. /\ UNCHANGED <<prefix_of, cache, fpc, freq, answers>>
      /\ case_row' = [case_row EXCEPT ![ref] = entry] /\ given' = [given EXCEPT ![ref] = entry]
      /\ told_types' = [told_types EXCEPT ![PrefixOf[ref]] = @ \cup ({entry.type} \ {Unset})]
  BY DEF add_tracked_case, resolved, typeMap
<1>2. /\ told_types \in [Prefixes -> SUBSET Types] /\ case_row \in [Refs -> CaseRow \cup {Unset}]
      /\ given \in [Refs -> CaseRow] /\ PrefixOf[ref] \in Prefixes
  BY EcourtsAssumption DEF TablesInv, AnswersInv, RowsInv
<1>3. MoreTypes
  BY <1>1, <1>2 DEF MoreTypes
<1>4. FetchersFrom' /\ MapFrom' /\ AnswersFrom' /\ CacheFrom'
  BY <1>1, <1>3, AllStay, MapFromStays, AnswersFromStay, CacheFromStays DEF FromInv, TablesInv
<1>5. RowsFrom'
  <2>1. ASSUME NEW r \in Refs
        PROVE  /\ given'[r].type # Unset => given'[r].type \in told_types'[PrefixOf[r]]
               /\ case_row'[r] # Unset => RowFrom(r, case_row'[r], given', answers')
    <3>1. CASE r = ref
      BY <1>1, <1>2, <3>1 DEF RowFrom
    <3>2. CASE r # ref
      <4>1. given'[r] = given[r] /\ case_row'[r] = case_row[r] /\ PrefixOf[r] \in Prefixes
        BY <1>1, <1>2, <3>2, EcourtsAssumption
      <4>2. QED
        BY <1>1, <1>3, <4>1 DEF FromInv, RowsFrom, RowFrom, MoreTypes
    <3>3. QED
      BY <3>1, <3>2
  <2>2. QED
    BY <2>1 DEF RowsFrom
<1>6. QED
  BY <1>4, <1>5 DEF FromInv

LEMMA remove_tracked_caseFrom ==
  ASSUME FetchersInv, TablesInv, FromInv, NEW ref \in Refs, remove_tracked_case(ref)
  PROVE  FromInv'
<1>1. /\ UNCHANGED <<prefix_of, cache, fpc, freq, answers, told_types>>
      /\ case_row' = [case_row EXCEPT ![ref] = Unset] /\ given' = [given EXCEPT ![ref] = NothingGiven]
  BY DEF remove_tracked_case, resolved, typeMap
<1>2. /\ case_row \in [Refs -> CaseRow \cup {Unset}] /\ given \in [Refs -> CaseRow]
      /\ NothingGiven.type = Unset
  BY DEF TablesInv, RowsInv, NothingGiven
<1>3. MoreTypes
  BY <1>1 DEF MoreTypes
<1>4. FetchersFrom' /\ MapFrom' /\ AnswersFrom' /\ CacheFrom'
  BY <1>1, <1>3, AllStay, MapFromStays, AnswersFromStay, CacheFromStays DEF FromInv, TablesInv
<1>5. RowsFrom'
  <2>1. ASSUME NEW r \in Refs
        PROVE  /\ given'[r].type # Unset => given'[r].type \in told_types'[PrefixOf[r]]
               /\ case_row'[r] # Unset => RowFrom(r, case_row'[r], given', answers')
    <3>1. CASE r = ref
      BY <1>1, <1>2, <3>1
    <3>2. CASE r # ref
      BY <1>1, <1>2, <3>2 DEF FromInv, RowsFrom, RowFrom
    <3>3. QED
      BY <3>1, <3>2
  <2>2. QED
    BY <2>1 DEF RowsFrom
<1>6. QED
  BY <1>4, <1>5 DEF FromInv

\* Steps that write neither rows nor types nor the cache.
LEMMA QuietFrom ==
  ASSUME FetchersInv, TablesInv, FromInv, NEW f \in Fetchers,
         \/ ecourts_types_populated(f) \/ fetch_bench_types(f) \/ upsert_ecourts_type(f) \/ MatchPrefix(f)
         \/ get_case_history_cache(f) \/ _do_case_history(f) \/ SearchFails(f) \/ FetchCallFails(f)
  PROVE  FromInv'
<1>1. UNCHANGED <<prefix_of, case_row, cache, answers, given, told_types>>
  BY DEF ecourts_types_populated, fetch_bench_types, upsert_ecourts_type, MatchPrefix,
     get_case_history_cache, _do_case_history, SearchFails, FetchCallFails, typeMap, resolved, givenVars
<1>2. MoreTypes /\ MapFrom' /\ AnswersFrom' /\ RowsFrom' /\ CacheFrom'
  BY <1>1, TablesFrom DEF TablesInv, FromInv
<1>3. SUFFICES ASSUME NEW call, call = freq[f] PROVE GoesOn(f)
  BY <1>2, OthersStay DEF FromInv
<1>4. CallFrom(fpc[f], call, answers, told_types) /\ call \in CallRow /\ Placed(fpc[f], call)
  BY <1>3, CallKnown DEF FromInv, FetchersFrom
<1>5. ASSUME NEW step \in {"list", "again", "fresh", "search", "learn"}, GoOn(f, step, call),
             \/ fpc[f] = "populated" /\ step \in {"list", "again"}
             \/ fpc[f] = "list" /\ step = "again"
             \/ fpc[f] = "type" /\ step = "fresh"
             \/ fpc[f] = "fresh" /\ step = "search" /\ call.kind # "auto"
             \/ fpc[f] = "cino" /\ step = "learn"
      PROVE  GoesOn(f)
  <2>1. CallFrom(step, call, answers', told_types')
    BY <1>1, <1>4, <1>5 DEF CallFrom, Placed
  <2>2. QED
    BY <1>5, <2>1 DEF GoesOn
<1>6. CASE ecourts_types_populated(f)
  BY <1>3, <1>5, <1>6 DEF ecourts_types_populated
<1>7. ASSUME NEW l \in SUBSET Types, NEW step \in {"store", "again"}, fpc[f] \in {"list", "store"},
             GoOn(f, step, [call EXCEPT !.left = l])
      PROVE  GoesOn(f)
  <2> DEFINE c == [call EXCEPT !.left = l]
  <2>1. c.kind = call.kind /\ c.ref = call.ref /\ c.type = call.type
    BY <1>4, CallWith
  <2> HIDE DEF c
  <2>2. CallFrom(step, c, answers', told_types')
    BY <1>1, <1>4, <1>7, <2>1 DEF CallFrom
  <2>3. QED
    BY <1>7, <2>2 DEF GoesOn, c
<1>8. CASE fetch_bench_types(f)
  <2>1. \/ fpc[f] = "list" /\ GoOn(f, "store", [call EXCEPT !.left = Types])
        \/ fpc[f] = "list" /\ GoOn(f, "again", call)
    BY <1>3, <1>8 DEF fetch_bench_types
  <2>2. QED
    BY <1>5, <1>7, <2>1
<1>9. CASE upsert_ecourts_type(f)
  <2>1. PICK type \in call.left :
          GoOn(f, IF call.left = {type} THEN "again" ELSE "store", [call EXCEPT !.left = @ \ {type}])
    BY <1>3, <1>9 DEF upsert_ecourts_type
  <2> DEFINE l == call.left \ {type}
             step == IF call.left = {type} THEN "again" ELSE "store"
  <2>2. l \in SUBSET Types /\ step \in {"store", "again"} /\ fpc[f] = "store"
    BY <1>4, <1>9 DEF CallRow, upsert_ecourts_type
  <2>3. GoOn(f, step, [call EXCEPT !.left = l])
    BY <2>1
  <2> HIDE DEF l, step
  <2>4. QED
    BY <1>7, <2>2, <2>3
<1>10. CASE MatchPrefix(f)
  <2> DEFINE p == PrefixOf[call.ref]
             type == Match(p, stored_types)
             c == [call EXCEPT !.type = type]
  <2>1. fpc[f] = "match" /\ (Leave(f) \/ (type # Unset /\ GoOn(f, "persist", c)))
    BY <1>3, <1>10 DEF MatchPrefix, Under
  <2>2. CASE type # Unset /\ GoOn(f, "persist", c)
    <3>1. call.ref \in Refs /\ p \in Prefixes
      BY <1>4, <2>1, EcourtsAssumption DEF Placed
    <3>2. stored_types \in SUBSET Types
      BY DEF TablesInv, MapInv
    <3>3. type \in Types /\ type \in Names(p)
      BY <2>2, <3>1, <3>2, MatchType, MatchNames
    <3>4. c.kind = call.kind /\ c.ref = call.ref /\ c.type = type
      BY <1>4, <3>3, CallWith
    <3> HIDE DEF c, type
    <3>5. CallFrom("persist", c, answers', told_types')
      BY <1>1, <1>4, <2>1, <3>3, <3>4 DEF CallFrom
    <3>6. QED
      BY <2>2, <3>5 DEF GoesOn
  <2>3. QED
    BY <2>1, <2>2, LeavesFrom
<1>11. CASE get_case_history_cache(f)
  <2>1. fpc[f] = "fresh" /\ (Leave(f) \/ GoOn(f, "search", call))
    BY <1>3, <1>11 DEF get_case_history_cache
  <2>2. call.kind # "auto"
    BY <1>4, <2>1 DEF Placed
  <2>3. QED
    BY <1>5, <2>1, <2>2, LeavesFrom
<1>12. CASE _do_case_history(f)
  <2> DEFINE results == Listed[<<call.type, call.ref>>]
             target == call.cino
  <2>1. PICK case \in results : /\ target \in results => case = target
                                /\ GoOn(f, "save", [call EXCEPT !.picked = case])
    BY <1>3, <1>12 DEF _do_case_history
  <2>2. fpc[f] = "search" /\ call.type \in Types /\ call.ref \in Refs
    BY <1>4, <1>12 DEF _do_case_history, Placed
  <2>3. results \subseteq Cnrs
    BY <2>2, EcourtsAssumption
  <2> DEFINE c == [call EXCEPT !.picked = case]
  <2>4. /\ c.kind = call.kind /\ c.ref = call.ref /\ c.type = call.type /\ c.cino = call.cino /\ c.picked = case
    BY <1>4, <2>3, CallWith
  <2>5. GoOn(f, "save", c)
    BY <2>1
  <2> HIDE DEF c
  <2>6. CallFrom("save", c, answers', told_types')
    BY <1>1, <1>4, <2>1, <2>2, <2>4 DEF CallFrom
  <2>7. QED
    BY <2>5, <2>6 DEF GoesOn
<1>13. CASE SearchFails(f)
  BY <1>13, LeavesFrom DEF SearchFails
<1>14. CASE FetchCallFails(f)
  <2>1. \/ fpc[f] = "type" /\ GoOn(f, "fresh", call)
        \/ fpc[f] = "cino" /\ GoOn(f, "learn", call)
        \/ fpc[f] = "fresh" /\ call.kind = "ask" /\ GoOn(f, "search", call)
        \/ Leave(f)
    BY <1>3, <1>14 DEF FetchCallFails
  <2>2. QED
    BY <1>5, <2>1, LeavesFrom
<1>15. QED
  BY <1>6, <1>8, <1>9, <1>10, <1>11, <1>12, <1>13, <1>14

\* A prefix is resolved to a type that is accepted.
LEMMA ResolvedFrom ==
  ASSUME FetchersInv, AnswersInv, FetchersFrom, AnswersFrom, UNCHANGED told_types,
         NEW f \in Fetchers, NEW call, call = freq[f], fpc[f] \in {"resolve", "again", "persist"},
         NEW type \in Types, Accepted(PrefixOf[call.ref], type, told_types), ResolvedTo(f, type)
  PROVE  AnswersFrom' /\ MoreTypes /\ GoesOn(f)
<1> DEFINE p == PrefixOf[call.ref]
           c == [call EXCEPT !.type = type]
           step == IF call.kind = "fetch" THEN "type" ELSE "search"
<1>1. call \in CallRow /\ Placed(fpc[f], call) /\ CallFrom(fpc[f], call, answers, told_types)
  BY CallKnown DEF FetchersFrom
<1>2. call.ref \in Refs /\ p \in Prefixes /\ call.kind \in {"fetch", "auto"}
  BY <1>1, EcourtsAssumption DEF Placed, CallRow
<1>3. answers' = [answers EXCEPT ![p] = @ \cup {type}] /\ GoOn(f, step, c)
  BY DEF ResolvedTo, Under
<1>4. answers \in [Prefixes -> SUBSET Types]
  BY DEF AnswersInv
<1>5. MoreTypes /\ type \in answers'[p]
  BY <1>2, <1>3, <1>4 DEF MoreTypes
<1>6. AnswersFrom'
  <2>1. ASSUME NEW q \in Prefixes, NEW t \in answers'[q] PROVE Accepted(q, t, told_types')
    <3>1. t \in answers[q] \/ (q = p /\ t = type)
      BY <1>2, <1>3, <1>4, <2>1
    <3>2. QED
      BY <3>1 DEF AnswersFrom
  <2>2. QED
    BY <2>1 DEF AnswersFrom
<1>7. c.kind = call.kind /\ c.ref = call.ref /\ c.type = type
  BY <1>1, CallWith
<1>8. type \in Names(p) \cup told_types[p]
  BY DEF Accepted
<1> HIDE DEF c
<1>9. CallFrom(step, c, answers', told_types')
  BY <1>2, <1>5, <1>7, <1>8 DEF CallFrom
<1>10. QED
  BY <1>3, <1>5, <1>6, <1>9 DEF GoesOn

LEMMA ResolveFrom ==
  ASSUME FetchersInv, TablesInv, FromInv, NEW f \in Fetchers, get_ecourts_type_id(f) \/ PersistPrefix(f)
  PROVE  FromInv'
<1>1. UNCHANGED <<case_row, cache, given, told_types>>
  BY DEF get_ecourts_type_id, PersistPrefix, givenVars
<1>2. SUFFICES ASSUME NEW call, call = freq[f]
               PROVE  AnswersFrom' /\ MoreTypes /\ GoesOn(f) /\ (MoreTypes => MapFrom')
  <2>1. AnswersFrom' /\ MoreTypes /\ GoesOn(f) /\ MapFrom'
    BY <1>2
  <2>2. RowsFrom' /\ CacheFrom' /\ FetchersFrom'
    BY <1>1, <2>1, RowsFromStay, CacheFromStays, OthersStay DEF FromInv
  <2>3. QED
    BY <2>1, <2>2 DEF FromInv
<1>3. call \in CallRow /\ Placed(fpc[f], call) /\ CallFrom(fpc[f], call, answers, told_types)
  BY <1>2, CallKnown DEF FromInv, FetchersFrom
<1>4. MapInv /\ AnswersInv /\ MapFrom /\ AnswersFrom /\ FetchersFrom
  BY DEF TablesInv, FromInv
<1>5. CASE get_ecourts_type_id(f)
  <2>1. UNCHANGED prefix_of /\ fpc[f] \in {"resolve", "again"}
    BY <1>5 DEF get_ecourts_type_id, typeMap
  <2>2. MoreTypes => MapFrom'
    BY <1>4, <2>1, MapFromStays
  <2>3. CASE /\ UNCHANGED answers
             /\ GoOn(f, IF fpc[f] = "resolve" THEN "populated" ELSE "match", call)
    <3> DEFINE step == IF fpc[f] = "resolve" THEN "populated" ELSE "match"
    <3>1. MoreTypes
      BY <1>1, <2>3 DEF MoreTypes
    <3>2. step \in {"populated", "match"}
      OBVIOUS
    <3> HIDE DEF step
    <3>3. CallFrom(step, call, answers', told_types')
      BY <1>1, <1>3, <2>3, <3>2 DEF CallFrom
    <3>4. AnswersFrom'
      BY <1>4, <2>3, <3>1, AnswersFromStay
    <3>5. QED
      BY <2>2, <2>3, <3>1, <3>3, <3>4 DEF GoesOn, step
  <2>4. ASSUME NEW type \in Known(Under(f)), ResolvedTo(f, type) PROVE AnswersFrom' /\ MoreTypes /\ GoesOn(f)
    <3>1. Under(f) = PrefixOf[call.ref] /\ PrefixOf[call.ref] \in Prefixes
      BY <1>2, <1>3, <2>1, EcourtsAssumption DEF Under, Placed
    <3>2. type \in Types /\ prefix_of[type] = PrefixOf[call.ref] /\ prefix_of[type] # Unset
      BY <1>4, <2>4, <3>1, EcourtsAssumption DEF Known, MapInv
    <3>3. Accepted(PrefixOf[call.ref], type, told_types)
      BY <1>4, <3>2 DEF MapFrom
    <3>4. ASSUME NEW u \in Types, u = type PROVE AnswersFrom' /\ MoreTypes /\ GoesOn(f)
      BY <1>1, <1>2, <1>4, <2>1, <2>4, <3>3, <3>4, ResolvedFrom
    <3>5. QED
      BY <3>2, <3>4
  <2>5. QED
    BY <1>2, <1>5, <2>2, <2>3, <2>4 DEF get_ecourts_type_id
<1>6. CASE PersistPrefix(f)
  <2>1. /\ fpc[f] = "persist" /\ ResolvedTo(f, call.type)
        /\ set_ecourts_type_prefix(f) /\ UNCHANGED stored_types
    BY <1>2, <1>6 DEF PersistPrefix
  <2>2. call.ref \in Refs /\ call.type \in Types /\ call.type \in Names(PrefixOf[call.ref])
    BY <1>3, <2>1 DEF Placed, CallFrom
  <2>3. Accepted(PrefixOf[call.ref], call.type, told_types)
    BY <2>2 DEF Accepted
  <2>4. AnswersFrom' /\ MoreTypes /\ GoesOn(f)
    BY <1>1, <1>2, <1>4, <2>1, <2>2, <2>3, ResolvedFrom
  <2>5. MapFrom'
    BY <1>1, <1>2, <1>4, <2>1, <2>2, <2>3, PrefixFrom
  <2>6. QED
    BY <2>4, <2>5
<1>7. QED
  BY <1>5, <1>6

LEMMA record_learned_prefixFrom ==
  ASSUME FetchersInv, TablesInv, FromInv, NEW f \in Fetchers, record_learned_prefix(f)
  PROVE  FromInv'
<1>1. UNCHANGED <<stored_types, case_row, cache, answers, given, told_types>>
  BY DEF record_learned_prefix, givenVars, resolved
<1>2. MoreTypes
  BY <1>1 DEF MoreTypes
<1>3. AnswersFrom' /\ RowsFrom' /\ CacheFrom' /\ FetchersFrom'
  BY <1>1, <1>2, AnswersFromStay, RowsFromStay, CacheFromStays, LeavesFrom, OthersStay DEF FromInv, record_learned_prefix
<1>4. SUFFICES ASSUME NEW call, call = freq[f] PROVE MapFrom'
  BY <1>3 DEF FromInv
<1>5. /\ Placed(fpc[f], call) /\ CallFrom(fpc[f], call, answers, told_types) /\ fpc[f] = "learn"
      /\ set_ecourts_type_prefix(f)
  BY <1>4, CallKnown DEF FromInv, FetchersFrom, record_learned_prefix
<1>6. /\ call.ref \in Refs /\ call.type \in Types /\ call.type # Unset /\ call.kind = "fetch"
      /\ call.picked \in Listed[<<call.type, call.ref>>]
  BY <1>5, EcourtsAssumption DEF Placed, CallFrom
<1>7. Accepted(PrefixOf[call.ref], call.type, told_types)
  <2>1. call.type \in Names(PrefixOf[call.ref]) \cup told_types[PrefixOf[call.ref]]
    BY <1>5, <1>6 DEF CallFrom
  <2>2. Listed[<<call.type, call.ref>>] # {}
    BY <1>6
  <2>3. QED
    BY <1>6, <2>1, <2>2 DEF Accepted
<1>8. QED
  BY <1>1, <1>4, <1>5, <1>6, <1>7, PrefixFrom DEF FromInv, TablesInv

\* A row a thread writes.
LEMMA RowFromWritten ==
  ASSUME RowsInv, RowsFrom, UNCHANGED <<given, answers, told_types>>,
         NEW ref \in Refs, NEW row \in CaseRow \cup {Unset}, case_row' = [case_row EXCEPT ![ref] = row],
         row # Unset => RowFrom(ref, row, given, answers)
  PROVE  RowsFrom'
BY DEF RowsInv, RowsFrom

LEMMA UpdateFrom ==
  ASSUME RowsInv, RowsFrom, UNCHANGED <<given, answers, told_types>>,
         NEW f \in Fetchers, NEW ref \in Refs, freq[f].ref = ref,
         NEW n \in Cnrs \cup {Unset}, NEW t \in Types \cup {Unset}, update_tracked_case(f, n, t),
         t # Unset => t \in answers[PrefixOf[ref]],
         n # Unset => \E u \in Types : n \in Listed[<<u, ref>>]
  PROVE  RowsFrom'
<1> DEFINE old == case_row[ref]
           c == IF n = Unset THEN old.cino ELSE n
           d == IF t = Unset THEN old.type ELSE t
           row == IF old = Unset THEN Unset ELSE [cino |-> c, type |-> d]
<1>1. case_row' = [case_row EXCEPT ![ref] = row]
  BY DEF update_tracked_case
<1>2. old \in CaseRow \cup {Unset} /\ (old # Unset => RowFrom(ref, old, given, answers))
  BY DEF RowsInv, RowsFrom
<1>3. CASE old = Unset
  <2>1. row = Unset
    BY <1>3
  <2>2. case_row' = [case_row EXCEPT ![ref] = Unset]
    BY <1>1, <2>1
  <2>3. QED
    BY <2>2, RowFromWritten
<1>4. CASE old # Unset
  <2>1. row = [cino |-> c, type |-> d]
    BY <1>4
  <2>2. c \in Cnrs \cup {Unset} /\ d \in Types \cup {Unset}
    BY <1>2, <1>4 DEF CaseRow
  <2>3. /\ c \in {given[ref].cino, Unset} \cup UNION {Listed[<<u, ref>>] : u \in Types}
        /\ d \in {given[ref].type, Unset} \cup answers[PrefixOf[ref]]
    BY <1>2, <1>4 DEF RowFrom
  <2> HIDE DEF c, d
  <2> DEFINE new == [cino |-> c, type |-> d]
  <2>4. new \in CaseRow /\ new.cino = c /\ new.type = d
    BY <2>2 DEF CaseRow
  <2>5. RowFrom(ref, new, given, answers)
    BY <2>3, <2>4 DEF RowFrom
  <2>6. case_row' = [case_row EXCEPT ![ref] = new]
    BY <1>1, <2>1
  <2> HIDE DEF new
  <2>7. QED
    BY <2>4, <2>5, <2>6, RowFromWritten
<1>5. QED
  BY <1>3, <1>4

LEMMA RowActionsFrom ==
  ASSUME FetchersInv, TablesInv, FromInv, NEW f \in Fetchers,
         AutoTrack(f) \/ PersistType(f) \/ PersistCino(f) \/ UpdateCase(f)
  PROVE  FromInv'
<1>1. UNCHANGED <<prefix_of, cache, answers, given, told_types>>
  BY DEF AutoTrack, PersistType, PersistCino, UpdateCase, resolved, givenVars, typeMap
<1>2. MoreTypes
  BY <1>1 DEF MoreTypes
<1>3. MapFrom' /\ AnswersFrom' /\ CacheFrom'
  BY <1>1, <1>2, MapFromStays, AnswersFromStay, CacheFromStays DEF TablesInv, FromInv
<1>4. SUFFICES ASSUME NEW call, call = freq[f] PROVE RowsFrom' /\ GoesOn(f)
  <2>1. RowsFrom' /\ GoesOn(f)
    BY <1>4
  <2>2. FetchersFrom'
    BY <1>2, <2>1, OthersStay DEF FromInv
  <2>3. QED
    BY <1>3, <2>1, <2>2 DEF FromInv
<1>5. Placed(fpc[f], call) /\ CallFrom(fpc[f], call, answers, told_types) /\ RowsInv /\ RowsFrom
  BY <1>4, CallKnown DEF FromInv, FetchersFrom, TablesInv
<1>6. ASSUME NEW step, GoOn(f, step, call), CallFrom(step, call, answers, told_types) PROVE GoesOn(f)
  BY <1>1, <1>6 DEF GoesOn
<1>7. CASE AutoTrack(f)
  <2>1. /\ fpc[f] = "add" /\ case_row' = [case_row EXCEPT ![call.ref] = NothingGiven]
        /\ IF call.kind = "auto" THEN GoOn(f, "resolve", call) ELSE Leave(f)
    BY <1>4, <1>7 DEF AutoTrack
  <2>2. call.ref \in Refs /\ call.kind # "fetch"
    BY <1>5, <2>1 DEF Placed
  <2>3. NothingGiven \in CaseRow /\ NothingGiven.cino = Unset /\ NothingGiven.type = Unset
    BY DEF NothingGiven, CaseRow
  <2>4. RowsFrom'
    BY <1>1, <1>5, <2>1, <2>2, <2>3, RowFromWritten DEF RowFrom
  <2>5. CallFrom("resolve", call, answers, told_types)
    BY <1>5, <2>2 DEF CallFrom
  <2>6. QED
    BY <1>6, <2>1, <2>4, <2>5, LeavesFrom
<1>8. CASE PersistType(f)
  <2>1. fpc[f] = "type" /\ update_tracked_case(f, Unset, call.type) /\ GoOn(f, "fresh", call)
    BY <1>4, <1>8 DEF PersistType
  <2>2. call.ref \in Refs /\ call.kind = "fetch" /\ call.type \in Types /\ call.type \in answers[PrefixOf[call.ref]]
    BY <1>5, <2>1 DEF Placed, CallFrom
  <2>3. RowsFrom'
    BY <1>1, <1>4, <1>5, <2>1, <2>2, UpdateFrom
  <2>4. CallFrom("fresh", call, answers, told_types)
    BY <1>5, <2>2 DEF CallFrom
  <2>5. QED
    BY <1>6, <2>1, <2>3, <2>4
<1>9. CASE PersistCino(f)
  <2>1. fpc[f] = "cino" /\ update_tracked_case(f, call.picked, Unset) /\ GoOn(f, "learn", call)
    BY <1>4, <1>9 DEF PersistCino
  <2>2. call.ref \in Refs /\ call.type \in Types /\ call.picked \in Cnrs /\ call.picked \in Listed[<<call.type, call.ref>>]
    BY <1>5, <2>1 DEF Placed, CallFrom
  <2>3. RowsFrom'
    BY <1>1, <1>4, <1>5, <2>1, <2>2, UpdateFrom
  <2>4. CallFrom("learn", call, answers, told_types)
    BY <1>5, <2>1 DEF CallFrom
  <2>5. QED
    BY <1>6, <2>1, <2>3, <2>4
<1>10. CASE UpdateCase(f)
  <2>1. fpc[f] = "update" /\ update_tracked_case(f, call.picked, call.type) /\ Leave(f)
    BY <1>4, <1>10 DEF UpdateCase
  <2>2. /\ call.ref \in Refs /\ call.type \in Types /\ call.picked \in Cnrs /\ call.kind = "auto"
        /\ call.picked \in Listed[<<call.type, call.ref>>] /\ call.type \in answers[PrefixOf[call.ref]]
    BY <1>5, <2>1 DEF Placed, CallFrom
  <2>3. RowsFrom'
    BY <1>1, <1>4, <1>5, <2>1, <2>2, UpdateFrom
  <2>4. QED
    BY <2>1, <2>3, LeavesFrom
<1>11. QED
  BY <1>7, <1>8, <1>9, <1>10

LEMMA CacheHistoryFrom ==
  ASSUME FetchersInv, TablesInv, FromInv, NEW f \in Fetchers, CacheHistory(f)
  PROVE  FromInv'
<1>1. UNCHANGED <<prefix_of, case_row, answers, given, told_types>>
  BY DEF CacheHistory, givenVars, resolved, typeMap
<1>2. MoreTypes
  BY <1>1 DEF MoreTypes
<1>3. MapFrom' /\ AnswersFrom' /\ RowsFrom'
  BY <1>1, <1>2, MapFromStays, AnswersFromStay, RowsFromStay DEF TablesInv, FromInv
<1>4. SUFFICES ASSUME NEW call, call = freq[f] PROVE CacheFrom' /\ GoesOn(f)
  <2>1. CacheFrom' /\ GoesOn(f)
    BY <1>4
  <2>2. FetchersFrom'
    BY <1>2, <2>1, OthersStay DEF FromInv
  <2>3. QED
    BY <1>3, <2>1, <2>2 DEF FromInv
<1> DEFINE n == IF call.cino # Unset THEN call.cino ELSE call.picked
           step == IF call.kind = "auto" THEN "update" ELSE IF call.cino = Unset THEN "cino" ELSE "learn"
<1>5. /\ call \in CallRow /\ Placed("save", call) /\ CallFrom("save", call, answers, told_types)
      /\ cache' = [cache EXCEPT ![n] = call.picked]
  BY <1>4, CallKnown DEF FromInv, FetchersFrom, CacheHistory
<1>6. call.ref \in Refs /\ call.type \in Types /\ call.picked \in Listed[<<call.type, call.ref>>]
  BY <1>5 DEF Placed, CallFrom
<1>7. call.picked # n => WrongCase(n, call.picked)
  BY <1>5, <1>6 DEF CallFrom, WrongCase
<1>8. CacheFrom'
  <2>1. cache \in [Cnrs -> Cnrs \cup {Unset}] /\ CacheFrom
    BY DEF TablesInv, CacheInv, FromInv
  <2> HIDE DEF n
  <2>2. QED
    BY <1>5, <1>7, <2>1 DEF CacheFrom
<1>9. Leave(f) \/ (call.kind \in {"auto", "fetch"} /\ GoOn(f, step, call))
  <2>1. call.kind \in {"fetch", "auto", "ask"}
    BY <1>5 DEF CallRow, Placed
  <2>2. CASE call.kind = "ask"
    BY <1>4, <2>2 DEF CacheHistory
  <2>3. CASE call.kind = "auto"
    BY <1>4, <2>3 DEF CacheHistory
  <2>4. CASE call.kind = "fetch"
    BY <1>4, <2>4 DEF CacheHistory
  <2>5. QED
    BY <2>1, <2>2, <2>3, <2>4
<1>10. CASE call.kind \in {"auto", "fetch"} /\ GoOn(f, step, call)
  <2>1. CallFrom(step, call, answers', told_types')
    BY <1>1, <1>5, <1>10 DEF CallFrom
  <2>2. QED
    BY <1>8, <1>10, <2>1 DEF GoesOn
<1>11. QED
  BY <1>8, <1>9, <1>10, LeavesFrom

LEMMA FromInvNext ==
  ASSUME FetchersInv, TablesInv, FromInv, [EcourtsNext]_ecourtsVars PROVE FromInv'
<1>1. ASSUME NEW f \in Fetchers, NEW ref \in Refs,
             \/ FetchEcourts(f, ref) \/ unified_case_search(f, ref) \/ NotifyTracks(f, ref)
             \/ \E entry \in Entries : get_case_history(f, ref, entry)
      PROVE  FromInv'
  BY <1>1, RequestsFrom
<1>2. ASSUME NEW ref \in Refs, (\E entry \in Entries : add_tracked_case(ref, entry)) \/ remove_tracked_case(ref)
      PROVE  FromInv'
  BY <1>2, add_tracked_caseFrom, remove_tracked_caseFrom
<1>3. ASSUME NEW f \in Fetchers,
             \/ ecourts_types_populated(f) \/ fetch_bench_types(f) \/ upsert_ecourts_type(f) \/ MatchPrefix(f)
             \/ get_case_history_cache(f) \/ _do_case_history(f) \/ SearchFails(f) \/ FetchCallFails(f)
      PROVE  FromInv'
  BY <1>3, QuietFrom
<1>4. ASSUME NEW f \in Fetchers,
             \/ AutoTrack(f) \/ PersistType(f) \/ PersistCino(f) \/ UpdateCase(f)
             \/ get_ecourts_type_id(f) \/ PersistPrefix(f) \/ CacheHistory(f) \/ record_learned_prefix(f)
      PROVE  FromInv'
  BY <1>4, RowActionsFrom, ResolveFrom, CacheHistoryFrom, record_learned_prefixFrom
<1>5. CASE UNCHANGED ecourtsVars
  <2>1. UNCHANGED <<prefix_of, case_row, cache, answers, given, told_types, fpc, freq>>
    BY <1>5 DEF ecourtsVars
  <2>2. MoreTypes /\ MapFrom' /\ AnswersFrom' /\ RowsFrom' /\ CacheFrom'
    BY <2>1, TablesFrom DEF TablesInv, FromInv
  <2>3. FetchersFrom'
    BY <2>1, <2>2, AllStay DEF FromInv
  <2>4. QED
    BY <2>2, <2>3 DEF FromInv
<1>6. QED
  BY <1>1, <1>2, <1>3, <1>4, <1>5 DEF EcourtsNext

EcourtsIInv == FetchersInv /\ TablesInv /\ FetchesInv /\ FromInv

LEMMA EcourtsInit_IInv == EcourtsInit => EcourtsIInv
<1> SUFFICES ASSUME EcourtsInit PROVE EcourtsIInv
  OBVIOUS
<1>1. MapInv /\ AnswersInv
  BY DEF EcourtsInit, MapInv, AnswersInv
<1>2. NothingGiven \in CaseRow /\ NothingGiven.cino = Unset /\ NothingGiven.type = Unset
  BY DEF NothingGiven, CaseRow
<1>3. RowsInv /\ GivenStays
  BY <1>2 DEF EcourtsInit, RowsInv, GivenStays
<1>4. CacheInv
  BY DEF EcourtsInit, CacheInv, CachedAsFound
<1>5. FetchesInv
  BY EcourtsAssumption DEF EcourtsInit, FetchesInv
<1>6. NoCall \in CallRow /\ NoCall.kind = "none"
  BY DEF NoCall, CallRow
<1>7. CallOK("idle", NoCall, early, told_types, unlisted, given, crossed)
  BY <1>6 DEF CallOK, Placed, CallFits, CallFinds, CallGives, FetchStep, Resolving
<1>8. FetchersInv
  BY <1>6, <1>7 DEF EcourtsInit, FetchersInv, FetchStep
<1>9. FromInv
  <2>1. \A f \in Fetchers : CallFrom("idle", NoCall, answers, told_types)
    BY DEF CallFrom, NoCall
  <2>2. QED
    BY <1>2, <2>1 DEF EcourtsInit, FromInv, FetchersFrom, MapFrom, AnswersFrom, RowsFrom, CacheFrom
<1>10. QED
  BY <1>1, <1>3, <1>4, <1>5, <1>8, <1>9 DEF EcourtsIInv, TablesInv

LEMMA EcourtsIInvNext == EcourtsIInv /\ [EcourtsNext]_ecourtsVars => EcourtsIInv'
BY EcourtsKeeps, FetchesNext, FromInvNext DEF EcourtsIInv

LEMMA EcourtsIInvImplies == EcourtsIInv => EcourtsTypeOK /\ EcourtsKept
<1> SUFFICES ASSUME EcourtsIInv PROVE EcourtsTypeOK /\ EcourtsKept
  OBVIOUS
<1>1. FetchersInv /\ MapInv /\ AnswersInv /\ RowsInv /\ CacheInv /\ GivenStays /\ FetchesInv
  BY DEF EcourtsIInv, TablesInv
<1>5. MapFrom /\ AnswersFrom /\ RowsFrom /\ CacheFrom
  BY DEF EcourtsIInv, FromInv
<1>2. EcourtsTypeOK
  BY <1>1 DEF EcourtsTypeOK, FetchersInv, MapInv, AnswersInv, RowsInv, CacheInv, FetchesInv, CallRow
<1>3. ResolvedAlike
  <2>1. ASSUME NEW p \in Prefixes, NEW t \in answers[p] PROVE Fits(p, t, early, told_types) /\ Accepted(p, t, told_types)
    BY <1>1, <1>5 DEF AnswersInv, AnswersFrom
  <2>2. QED
    BY <2>1 DEF ResolvedAlike, Fits, ByName, Accepted
<1>4. CachedIsTheCase
  BY <1>1, <1>5 DEF CachedIsTheCase, CacheInv, CachedAsFound, CacheFrom, WrongCase
<1>6. GivenIsKept
  BY <1>1, <1>5 DEF GivenIsKept, GivenStays, RowsFrom, RowFrom
<1>7. QED
  BY <1>2, <1>3, <1>4, <1>6 DEF EcourtsKept

\* However requests and threads run, fail and cross: a type is answered for a prefix only by its
\* name, by the map in the code or as a user gave it and eCourts listed a case under it, and is
\* the same one unless it was matched among a part of the types or given (which stays); under a
\* CNR there is the history of another case only where eCourts listed that one and not the CNR;
\* and a row has what its user gave or what was found for that case, the former alone unless a
\* thread was at the case when it was given (resolve_prefix_to_type_id, _do_case_history,
\* FetchEcourts, add_tracked_case).
THEOREM EcourtsCorrect == EcourtsSpec => [](EcourtsTypeOK /\ EcourtsKept)
<1>1. EcourtsInit => EcourtsIInv
  BY EcourtsInit_IInv
<1>2. EcourtsIInv /\ [EcourtsNext]_ecourtsVars => EcourtsIInv'
  BY EcourtsIInvNext
<1>3. EcourtsIInv => EcourtsTypeOK /\ EcourtsKept
  BY EcourtsIInvImplies
<1>4. QED
  BY <1>1, <1>2, <1>3, PTL DEF EcourtsSpec

-----------------------------------------------------------------------------
(* Causelist: days and slots.                                              *)

LEMMA Products ==
  ASSUME NEW s \in Nat, NEW a \in Nat, NEW b \in Nat, a < b PROVE s * a + s <= s * b
<1>1. PICK k \in Nat : b = a + 1 + k
  <2>1. b - a - 1 \in Nat /\ b = a + 1 + (b - a - 1)
    OBVIOUS
  <2>2. QED
    BY <2>1
<1>2. s * b = s * a + s + s * k
  BY <1>1
<1>3. s * k \in Nat /\ s * a \in Nat
  OBVIOUS
<1>4. QED
  BY <1>2, <1>3

LEMMA DivMod ==
  ASSUME NEW s \in Nat \ {0}, NEW n \in Nat
  PROVE  n \div s \in Nat /\ n % s \in 0 .. s - 1 /\ n = (s * (n \div s)) + (n % s)
<1>1. s \in Int /\ s > 0 /\ n \in Int /\ n >= 0
  OBVIOUS
<1>2. n \div s \in Int /\ n % s \in Int
  BY <1>1, SMT
<1>3. n % s >= 0 /\ n % s < s
  BY <1>1, SMT
<1>4. n = (s * (n \div s)) + (n % s)
  BY <1>1, SMT
<1>5. n \div s >= 0
  BY <1>1, SMT
<1>6. QED
  BY <1>1, <1>2, <1>3, <1>4, <1>5

LEMMA DivModIs ==
  ASSUME NEW s \in Nat \ {0}, NEW n \in Nat, NEW q \in Nat, NEW r \in 0 .. s - 1, n = s * q + r
  PROVE  n \div s = q /\ n % s = r
<1> DEFINE p == n \div s
           t == n % s
<1>1. p \in Nat /\ t \in 0 .. s - 1 /\ n = s * p + t
  BY DivMod
<1> HIDE DEF p, t
<1>2. ~ (p < q)
  <2>1. SUFFICES ASSUME p < q PROVE FALSE
    OBVIOUS
  <2>2. s * p + s <= s * q
    BY <1>1, <2>1, Products
  <2>3. s * p \in Nat /\ s * q \in Nat
    BY <1>1
  <2>4. QED
    BY <1>1, <2>2, <2>3
<1>3. ~ (q < p)
  <2>1. SUFFICES ASSUME q < p PROVE FALSE
    OBVIOUS
  <2>2. s * q + s <= s * p
    BY <1>1, <2>1, Products
  <2>3. s * p \in Nat /\ s * q \in Nat
    BY <1>1
  <2>4. QED
    BY <1>1, <2>2, <2>3
<1>4. p = q
  BY <1>1, <1>2, <1>3
<1>5. t = r
  <2>1. s * q \in Nat
    OBVIOUS
  <2>2. n = s * q + t
    BY <1>1, <1>4
  <2>3. QED
    BY <1>1, <2>1, <2>2
<1>6. QED
  BY <1>4, <1>5 DEF p, t

\* Where a moment is, and the next one.
LEMMA TimesAreInDays ==
  ASSUME NEW t \in 0 .. LastTime
  PROVE  /\ SlotsPerDay \in Nat \ {0} /\ SlotsPerDay = 4 + EveningWindows /\ EveningWindows \in Nat \ {0}
         /\ t \div SlotsPerDay \in 0 .. LastDay /\ t % SlotsPerDay \in 0 .. SlotsPerDay - 1 /\ LastDay \in Nat
<1> DEFINE s == SlotsPerDay
           d == t \div SlotsPerDay
           u == t % SlotsPerDay
<1>0. EveningWindows \in Nat \ {0} /\ LastDay \in Nat
  BY CauselistAssumption
<1>1. s \in Nat \ {0} /\ s = 4 + EveningWindows /\ EveningWindows \in Nat \ {0} /\ LastDay \in Nat
  BY <1>0 DEF SlotsPerDay
<1>2. LastTime = LastDay * s + (s - 1)
  BY <1>1 DEF LastTime, LastWindow
<1>3. LastDay * s \in Nat /\ LastDay * s = s * LastDay
  BY <1>1
<1>4. t \in Nat /\ t <= s * LastDay + (s - 1)
  BY <1>1, <1>2, <1>3
<1>5. d \in Nat /\ u \in 0 .. s - 1 /\ t = s * d + u
  BY <1>1, <1>4, DivMod
<1> HIDE DEF s, d, u
<1>6. ~ (LastDay < d)
  <2>1. SUFFICES ASSUME LastDay < d PROVE FALSE
    OBVIOUS
  <2>2. s * LastDay + s <= s * d
    BY <1>1, <1>5, <2>1, Products
  <2>3. s * d \in Nat /\ s * LastDay \in Nat
    BY <1>1, <1>5
  <2>4. QED
    BY <1>1, <1>4, <1>5, <2>2, <2>3
<1>7. d \in 0 .. LastDay
  BY <1>1, <1>5, <1>6
<1>8. QED
  BY <1>1, <1>5, <1>7 DEF s, d, u

LEMMA Moments ==
  ASSUME now \in 0 .. LastTime
  PROVE  /\ SlotsPerDay \in Nat \ {0} /\ SlotsPerDay = 4 + EveningWindows /\ EveningWindows \in Nat \ {0}
         /\ Today \in 0 .. LastDay /\ Slot \in 0 .. SlotsPerDay - 1 /\ LastDay \in Nat
BY TimesAreInDays DEF Today, Slot

LEMMA TickIs ==
  ASSUME now \in 0 .. LastTime, now' = now + 1
  PROVE  \/ Today' = Today /\ Slot' = Slot + 1
         \/ Slot = SlotsPerDay - 1 /\ Today' = Today + 1 /\ Slot' = 0
<1> DEFINE s == SlotsPerDay
           d == Today
           t == Slot
<1>1. s \in Nat \ {0} /\ d \in Nat /\ t \in 0 .. s - 1 /\ LastTime \in Nat
  BY Moments DEF LastTime, LastWindow
<1>2. now \in Nat /\ now = s * d + t
  <2>1. now \in Nat
    BY <1>1
  <2>2. QED
    BY <1>1, <2>1, DivMod DEF Today, Slot
<1>3. Today' = now' \div s /\ Slot' = now' % s /\ now' \in Nat
  BY <1>2 DEF Today, Slot
<1> HIDE DEF s, d, t
<1>4. CASE t + 1 < s
  <2>1. now' = s * d + (t + 1) /\ t + 1 \in 0 .. s - 1
    BY <1>1, <1>2, <1>4
  <2>2. now' \div s = d /\ now' % s = t + 1
    <3>1. ASSUME NEW n \in Nat, n = now' PROVE n \div s = d /\ n % s = t + 1
      <4>1. ASSUME NEW r \in 0 .. s - 1, r = t + 1, NEW q \in Nat, q = d, NEW z \in Nat \ {0}, z = s
            PROVE  n \div z = q /\ n % z = r
        BY <2>1, <3>1, <4>1, DivModIs
      <4>2. QED
        BY <1>1, <2>1, <4>1
    <3>2. QED
      BY <1>3, <3>1
  <2>3. QED
    BY <1>3, <2>2 DEF d, t
<1>5. CASE ~ (t + 1 < s)
  <2>1. t = s - 1 /\ now' = s * (d + 1) + 0 /\ d + 1 \in Nat /\ 0 \in 0 .. s - 1
    BY <1>1, <1>2, <1>5
  <2>2. now' \div s = d + 1 /\ now' % s = 0
    <3>1. ASSUME NEW n \in Nat, n = now' PROVE n \div s = d + 1 /\ n % s = 0
      <4>1. ASSUME NEW r \in 0 .. s - 1, r = 0, NEW q \in Nat, q = d + 1, NEW z \in Nat \ {0}, z = s
            PROVE  n \div z = q /\ n % z = r
        BY <2>1, <3>1, <4>1, DivModIs
      <4>2. QED
        BY <1>1, <2>1, <4>1
    <3>2. QED
      BY <1>3, <3>1
  <2>3. QED
    BY <1>3, <2>1, <2>2 DEF s, d, t
<1>6. QED
  BY <1>4, <1>5

\* The next working day is one, and the first of them.
LEMMA NextDay ==
  ASSUME NEW d \in 0 .. LastDay
  PROVE  LET n == _next_working_day(d)
         IN  /\ n \in Nat /\ n \in WorkingDays /\ n \in Dates /\ n > d
             /\ \A m \in WorkingDays : m > d => n <= m
<1> DEFINE Later == {n \in WorkingDays : n > d}
<1>1. Later \in SUBSET Nat /\ Later # {}
  BY CauselistAssumption
<1>2. \E n \in Later : \A m \in Later : n <= m
  BY <1>1, LeastNumber
<1>3. \E n \in WorkingDays : n > d /\ \A m \in WorkingDays : m > d => n <= m
  BY <1>2
<1>4. QED
  BY <1>3, CauselistAssumption DEF _next_working_day, Dates

-----------------------------------------------------------------------------
(* Causelist: what holds in every state.                                   *)

Running == {"fetch", "store", "read", "compare", "alert", "scan"}
Storing == {"read", "compare", "alert", "scan"}

\* The last date a pass can be for by now: today up to the morning of a working day, else
\* the next one.
Bound == IF Slot <= Morning /\ Today \in WorkingDays THEN Today ELSE _next_working_day(Today)

RunRow ==
  [pass : {"none", "morning", "evening"}, target : Dates \cup {NoDate}, todo : SUBSET Sources,
   failed : SUBSET Sources, source : Sources \cup {NoDate}]

\* A pass may outlast the day it began on, so its date is the last one, or behind it.
ScheduleInv ==
  /\ now \in 0 .. LastTime
  /\ spc \in Running \cup {"wake", "asleep", "done", "dead"}
  /\ run \in RunRow /\ alarm \in Nat /\ morning_rescraped_date \in Dates \cup {NoDate}
  /\ spc \in Running => run.target \in Dates /\ run.target <= Bound
  /\ spc \in Storing \cup {"store"} => run.source \in Sources
  /\ faults \in 0 .. MaxFaults

\* Versions are numbered in the order they are published.
PublishedInv ==
  /\ published \in [Sources \X Dates -> [version : 0 .. MaxPublications, list : Lists \cup {NoJob}]]
  /\ \A x \in Sources \X Dates : published[x].version # 0 => published[x].list \in Lists
  /\ publications \in 0 .. MaxPublications
  /\ \A x \in Sources \X Dates : published[x].version <= publications

\* What the scheduler or the backfill has in hand was published, and is not older than what
\* was stored, unless the other one has stored something in between.
JobRow == [source : Sources, date : Dates, version : 0 .. MaxPublications, list : Lists]
Held(c) ==
  LET x == <<c.source, c.date>>
  IN /\ c \in JobRow
     /\ c.version <= published[x].version
     /\ ~ stored[x].overlapped => stored[x].newest <= c.version

InHandInv ==
  /\ spc = "store" => Held(fetched)
  /\ spc # "store" => fetched = NoJob
  /\ job # NoJob => Held(job)
  /\ work \subseteq ShouldRun

StoredRow ==
  [version : 0 .. MaxPublications, newest : 0 .. MaxPublications, list : Lists \cup {<< >>},
   overlapped : BOOLEAN]

StoredInv ==
  /\ rows \in [Sources \X Dates -> SUBSET AllRows]
  /\ benches \in [Sources \X Dates -> SUBSET Courts]
  /\ stored \in [Sources \X Dates -> StoredRow]
  /\ \A x \in Sources \X Dates : stored[x].newest <= published[x].version
  /\ RowsFollowList

\* What case_diff knows, and the users.
SnapshotsInv ==
  /\ DOMAIN snapshots \subseteq Dates
  /\ \A d \in DOMAIN snapshots :
       snapshots[d] \in AllRows /\ d <= Bound /\ (spc \in Running => d <= run.target)

ToldRow == AllRows \cup {NoRow, Missed}
SeenRow == [row : AllRows \cup {NoRow}, users : SUBSET Trackers]

UsersInv ==
  /\ tracking \subseteq Trackers
  /\ seen \in SeenRow /\ seen.users \subseteq tracking
  /\ told \in [Trackers -> ToldRow]
  /\ \A u \in Trackers : told[u] # NoRow => u \in tracking

Excused(u) == faults > 0 \/ \E k \in logged : k.user = u /\ k.trigger = "status_changed"

DiffInv ==
  /\ spc \in {"compare", "alert"} => seen.row \in AllRows
  /\ spc = "compare" => \A u \in Trackers : told[u] # NoRow => u \in seen.users
  /\ spc = "alert" =>
       LastRow = seen.row /\ \A u \in Trackers \ seen.users : told[u] \in {NoRow, Missed, seen.row}
  /\ spc # "alert" => \A u \in Trackers : told[u] \in {NoRow, Missed, LastRow}
  /\ \A u \in Trackers : told[u] = Missed => Excused(u)

\* Who is to be told of the list just stored still tracks the case, and the list, stored
\* last, still has it.
ListedInv ==
  LET x == <<run.source, run.target>>
  IN /\ spc \notin Storing => listed = {}
     /\ listed \subseteq tracking
     /\ listed # {} => stored[x].list \in Lists /\ OfCase(Surviving(stored[x].list)) # {}

AlertKey(x) == [user |-> x.user, trigger |-> "case_in_causelist", day |-> x.day]

FetchedHere == spc = "store" => fetched.source = run.source

DueInv ==
  ListedInv /\ FetchedHere /\ \A x \in due : AlertKey(x) \in logged

CauselistInv ==
  ScheduleInv /\ PublishedInv /\ InHandInv /\ StoredInv /\ SnapshotsInv /\ UsersInv /\ DiffInv /\ DueInv

LEMMA BoundType ==
  ASSUME now \in 0 .. LastTime
  PROVE  /\ Bound \in Nat /\ Bound \in Dates /\ Dates \subseteq Nat
         /\ Today \in 0 .. LastDay /\ Today \in Dates /\ Slot \in Nat
         /\ _next_working_day(Today) \in Dates
<1>1. Today \in 0 .. LastDay /\ Slot \in Nat /\ LastDay \in Nat
  BY Moments
<1>2. Dates \subseteq Nat /\ Today \in Dates
  BY <1>1, NextDay DEF Dates
<1>3. _next_working_day(Today) \in Nat /\ _next_working_day(Today) \in Dates
  BY <1>1, NextDay
<1>4. QED
  BY <1>1, <1>2, <1>3 DEF Bound

\* Passes are for later and later dates.
LEMMA BoundGrows ==
  ASSUME now \in 0 .. LastTime, now < LastTime, now' = now + 1
  PROVE  Bound <= Bound' /\ Bound \in Nat /\ Bound' \in Nat
<1> DEFINE d == Today
           d1 == Today'
           s == Slot
           s1 == Slot'
           n == _next_working_day(Today)
           n1 == _next_working_day(Today')
<1>0. LastTime \in Nat
  BY Moments DEF LastTime, LastWindow
<1>1. now' \in 0 .. LastTime
  BY <1>0
<1>2. /\ SlotsPerDay \in Nat /\ SlotsPerDay = 4 + EveningWindows /\ EveningWindows \in Nat \ {0}
      /\ d \in 0 .. LastDay /\ s \in Nat /\ LastDay \in Nat
  BY Moments
<1>3. d1 \in 0 .. LastDay
  <2>1. ASSUME now' \in 0 .. LastTime PROVE Today' \in 0 .. LastDay
    <3>1. \A t \in 0 .. LastTime : t \div SlotsPerDay \in 0 .. LastDay
      <4>1. SUFFICES ASSUME NEW t \in 0 .. LastTime PROVE t \div SlotsPerDay \in 0 .. LastDay
        OBVIOUS
      <4>2. QED
        BY TimesAreInDays
    <3>2. QED
      BY <2>1, <3>1 DEF Today
  <2>2. QED
    BY <1>1, <2>1
<1>4. /\ n \in Nat /\ n > d /\ \A m \in WorkingDays : m > d => n <= m
      /\ n1 \in Nat /\ n1 > d1 /\ n1 \in WorkingDays
  BY <1>2, <1>3, NextDay
<1>5. \/ d1 = d /\ s1 = s + 1
      \/ s = SlotsPerDay - 1 /\ d1 = d + 1 /\ s1 = 0
  BY TickIs
<1>6. /\ Bound = IF s <= 1 /\ d \in WorkingDays THEN d ELSE n
      /\ Bound' = IF s1 <= 1 /\ d1 \in WorkingDays THEN d1 ELSE n1
  BY DEF Bound, Morning
<1>7. d1 = d => n1 = n
  OBVIOUS
<1> HIDE DEF d, d1, s, s1, n, n1
<1>8. CASE d1 = d /\ s1 = s + 1
  BY <1>2, <1>4, <1>6, <1>7, <1>8
<1>9. CASE s = SlotsPerDay - 1 /\ d1 = d + 1 /\ s1 = 0
  <2>1. Bound = n
    BY <1>2, <1>6, <1>9
  <2>2. d1 > d /\ n1 > d
    BY <1>2, <1>4, <1>9
  <2>3. n <= n1 /\ (d1 \in WorkingDays => n <= d1)
    BY <1>4, <2>2
  <2>4. QED
    BY <1>2, <1>3, <1>4, <1>6, <2>1, <2>2, <2>3
<1>10. QED
  BY <1>5, <1>8, <1>9

LEMMA NowStays == ASSUME UNCHANGED now PROVE Bound' = Bound /\ Today' = Today /\ Slot' = Slot
BY DEF Bound, Today, Slot

-----------------------------------------------------------------------------
(* Causelist: the scheduler.                                               *)

LEMMA RunFailed ==
  ASSUME NEW r \in RunRow, NEW todo \in SUBSET Sources, NEW failed \in SUBSET Sources
  PROVE  LET q == [r EXCEPT !.todo = todo, !.failed = failed]
         IN q \in RunRow /\ q.target = r.target /\ q.source = r.source
BY DEF RunRow

LEMMA StartIs ==
  ASSUME ScheduleInv, UNCHANGED now, NEW pass \in {"morning", "evening"}, NEW d \in Dates, d = Bound,
         NEW todo \in SUBSET Sources, StartPass(pass, d, todo), faults' \in 0 .. MaxFaults
  PROVE  ScheduleInv'
<1> DEFINE r == [IdleRun EXCEPT !.pass = pass, !.target = d, !.todo = todo]
<1>0. d <= Bound
  BY BoundType DEF ScheduleInv
<1>1. r \in RunRow /\ r.target = d
  BY DEF IdleRun, RunRow
<1>2. run' = r /\ spc' \in {"done", "fetch"} /\ UNCHANGED <<alarm, morning_rescraped_date>>
  BY DEF StartPass
<1> HIDE DEF r
<1>3. QED
  BY <1>0, <1>1, <1>2, NowStays DEF ScheduleInv, Running, Storing

LEMMA IdleRunType == IdleRun \in RunRow
BY DEF IdleRun, RunRow

LEMMA SleepIs ==
  ASSUME ScheduleInv, UNCHANGED <<now, faults>>, Sleep PROVE ScheduleInv'
<1> DEFINE a == _next_window_after_now
<1>1. a \in Nat
  <2>1. SlotsPerDay \in Nat /\ EveningWindows \in Nat /\ Today \in Nat /\ Slot \in Nat
    BY Moments DEF ScheduleInv
  <2> DEFINE s == SlotsPerDay
             d == Today
             l == Slot
  <2>2. a = IF l < LastWindow THEN d * s + (IF l < FirstWindow THEN FirstWindow ELSE l + 1)
            ELSE (d + 1) * s + FirstWindow
    BY DEF _next_window_after_now
  <2> HIDE DEF s, d, l, a
  <2>3. s \in Nat /\ d \in Nat /\ l \in Nat /\ FirstWindow \in Nat
    BY <2>1 DEF s, d, l, FirstWindow
  <2>4. d * s \in Nat /\ (d + 1) * s \in Nat
    BY <2>3
  <2>5. d * s + FirstWindow \in Nat /\ d * s + (l + 1) \in Nat /\ (d + 1) * s + FirstWindow \in Nat
    BY <2>3, <2>4
  <2>6. QED
    BY <2>2, <2>5
<1>2. spc' = "asleep" /\ alarm' = a /\ run' = IdleRun /\ UNCHANGED morning_rescraped_date
  BY DEF Sleep
<1> HIDE DEF a
<1>3. QED
  BY <1>1, <1>2, IdleRunType DEF ScheduleInv, Running, Storing

\* A failure more, and several.
LEMMA FaultIs ==
  ASSUME faults \in 0 .. MaxFaults, Fault PROVE faults' \in 0 .. MaxFaults /\ faults' > 0
<1>1. faults \in 0 .. MaxFaults /\ MaxFaults \in Nat /\ faults < MaxFaults /\ faults' = faults + 1
  BY CauselistAssumption DEF Fault
<1>2. QED
  BY <1>1

LEMMA FaultsAre ==
  ASSUME faults \in 0 .. MaxFaults, NEW set, IsFiniteSet(set), faults + Cardinality(set) <= MaxFaults,
         faults' = faults + Cardinality(set)
  PROVE  faults' \in 0 .. MaxFaults /\ faults' >= faults
<1> DEFINE c == Cardinality(set)
<1>1. c \in Nat /\ faults + c <= MaxFaults /\ faults' = faults + c
  BY FS_CardinalityType
<1>2. faults \in 0 .. MaxFaults /\ MaxFaults \in Nat
  BY CauselistAssumption
<1> HIDE DEF c
<1>3. QED
  BY <1>1, <1>2

LEMMA SourcesFinite == IsFiniteSet(Sources)
<1>1. SourceOrder \in Seq(Sources)
  BY CauselistAssumption
<1> DEFINE n == Len(SourceOrder)
<1>2. n \in Nat /\ DOMAIN SourceOrder = 1 .. n /\ SourceOrder \in [1 .. n -> Sources]
  BY <1>1
<1>3. IsFiniteSet(1 .. n)
  BY <1>2, FS_Interval
<1>4. SourceOrder \in Surjection(1 .. n, Sources)
  BY <1>2 DEF Sources, Surjection
<1> HIDE DEF n
<1>5. QED
  BY <1>3, <1>4, FS_Surjection

LEMMA NextSourceIs ==
  ASSUME run \in RunRow, NextSource
  PROVE  run' \in RunRow /\ run'.target = run.target /\ spc' \in {"done", "fetch"}
BY DEF NextSource, RunRow

LEMMA ScheduleNext ==
  ASSUME ScheduleInv, tracking \subseteq Trackers, [CauselistNext]_causelistVars
  PROVE  ScheduleInv'
<1>t. /\ Bound \in Dates /\ Today \in Dates /\ Slot \in Nat /\ _next_working_day(Today) \in Dates
      /\ Bound \in Nat /\ Dates \subseteq Nat
  BY BoundType DEF ScheduleInv
<1>f. Fault => faults' \in 0 .. MaxFaults
  BY FaultIs DEF ScheduleInv
<1>1. ASSUME UNCHANGED <<now, spc, run, alarm, morning_rescraped_date>>, faults' \in 0 .. MaxFaults
      PROVE  ScheduleInv'
  BY <1>1, NowStays DEF ScheduleInv
<1>k. faults \in 0 .. MaxFaults
  BY DEF ScheduleInv
<1>2. ASSUME NEW s \in Sources, NEW d \in Dates, BackfillFetch(s, d) \/ \E l \in Lists : Publish(s, d, l)
      PROVE  ScheduleInv'
  BY <1>1, <1>2, <1>k DEF Publish, BackfillFetch, scheduleVars
<1>3. ASSUME NEW u \in Trackers, Track(u) PROVE ScheduleInv'
  BY <1>1, <1>3, <1>k DEF Track, scheduleVars
<1>4. CASE BackfillStarts \/ BackfillStore \/ BackfillDies
  BY <1>1, <1>4, <1>f, <1>k DEF BackfillStarts, BackfillStore, BackfillDies, scheduleVars
<1>6. CASE Tick
  <2>1. now \in 0 .. LastTime /\ now < LastTime /\ LastTime \in Nat /\ now' = now + 1
    BY <1>6, Moments DEF ScheduleInv, Tick, LastTime, LastWindow
  <2>2. now' \in 0 .. LastTime
    BY <2>1
  <2>3. spc' = spc /\ run' = run /\ alarm' = alarm /\ morning_rescraped_date' = morning_rescraped_date /\ faults' = faults
    BY <1>6 DEF Tick, scheduleVars
  <2>4. Bound <= Bound' /\ Bound' \in Nat
    BY <2>1, BoundGrows
  <2>5. ASSUME spc \in Running PROVE run.target \in Dates /\ run.target <= Bound'
    <3>1. run.target \in Dates /\ run.target <= Bound /\ run.target \in Nat
      BY <1>t, <2>5 DEF ScheduleInv
    <3>2. QED
      BY <1>t, <2>4, <3>1
  <2>6. QED
    BY <2>2, <2>3, <2>5 DEF ScheduleInv
<1>7. CASE MorningPass
  <2>1. UNCHANGED <<now, faults>> /\ StartPass("morning", Today, DailySources)
    BY <1>7 DEF MorningPass
  <2>2. Bound = Today
    BY <1>7 DEF MorningPass, MorningDue, Bound, Morning
  <2>3. DailySources \in SUBSET Sources
    BY CauselistAssumption
  <2>4. ASSUME NEW d \in Dates, d = Today PROVE ScheduleInv'
    BY <1>k, <2>1, <2>2, <2>3, <2>4, StartIs
  <2>5. QED
    BY <1>t, <2>4
<1>8. CASE EveningPass
  <2>1. PICK todo \in SUBSET Sources :
          /\ PendingAfterFaults(_next_working_day(Today), todo)
          /\ StartPass("evening", _next_working_day(Today), todo)
    BY <1>8 DEF EveningPass
  <2>2. Bound = _next_working_day(Today) /\ UNCHANGED now
    <3>1. Slot \in FirstWindow .. LastWindow /\ UNCHANGED now
      BY <1>8 DEF EveningPass, InWindow
    <3>2. ~ (Slot <= Morning)
      BY <1>t, <3>1 DEF FirstWindow, Morning
    <3>3. QED
      BY <3>1, <3>2 DEF Bound
  <2>3. faults' \in 0 .. MaxFaults
    <3>1. PICK failing \in SUBSET Sources :
            faults + Cardinality(failing) <= MaxFaults /\ faults' = faults + Cardinality(failing)
      BY <2>1 DEF PendingAfterFaults
    <3>2. IsFiniteSet(failing)
      BY <3>1, SourcesFinite, FS_Subset
    <3>3. QED
      BY <1>k, <3>1, <3>2, FaultsAre
  <2>4. ASSUME NEW d \in Dates, d = _next_working_day(Today) PROVE ScheduleInv'
    BY <2>1, <2>2, <2>3, <2>4, StartIs
  <2>5. QED
    BY <1>t, <2>4
<1>9. CASE SleepTillWindow
  BY <1>9, SleepIs DEF SleepTillWindow
<1>10. CASE WakeUp
  BY <1>10 DEF WakeUp, ScheduleInv, Running, Storing
<1>11. CASE PassDone
  <2>1. UNCHANGED <<now, faults>>
    BY <1>11 DEF PassDone
  <2>2. CASE Sleep
    BY <2>1, <2>2, SleepIs
  <2>3. CASE ~ Sleep
    <3>1. /\ spc' = "wake" /\ run' = IdleRun /\ alarm' = alarm
          /\ morning_rescraped_date' \in {run.target, morning_rescraped_date}
      BY <1>11, <2>3 DEF PassDone
    <3>2. run.target \in Dates \cup {NoDate}
      BY DEF ScheduleInv, RunRow
    <3>3. QED
      BY <2>1, <3>1, <3>2, IdleRunType DEF ScheduleInv, Running, Storing
  <2>4. QED
    BY <2>2, <2>3
<1>12. ASSUME NEW s \in Sources, FetchList(s) PROVE ScheduleInv'
  <2> DEFINE todo == run.todo \ {s}
             r == [run EXCEPT !.todo = todo, !.source = s]
  <2>1. run \in RunRow /\ todo \in SUBSET Sources /\ run.target <= Bound /\ run.target \in Dates
    BY <1>12 DEF ScheduleInv, RunRow, FetchList, Fetching, Running
  <2>2. run' = r /\ spc' = "store" /\ UNCHANGED <<now, faults, alarm, morning_rescraped_date>>
    BY <1>12 DEF FetchList
  <2> HIDE DEF todo
  <2>3. r \in RunRow /\ r.target = run.target /\ r.source = s
    BY <1>12, <2>1 DEF RunRow
  <2> HIDE DEF r
  <2>4. QED
    BY <2>1, <2>2, <2>3, NowStays DEF ScheduleInv, Running, Storing
<1>13. ASSUME NEW s \in Sources, FetchFails(s) PROVE ScheduleInv'
  <2> DEFINE todo == run.todo \ {s}
             failed == run.failed \cup {s}
             r == [run EXCEPT !.todo = todo, !.failed = failed]
  <2>1. /\ run \in RunRow /\ todo \in SUBSET Sources /\ failed \in SUBSET Sources
        /\ run.target <= Bound /\ run.target \in Dates
    BY <1>13 DEF ScheduleInv, RunRow, FetchFails, Fetching, Running
  <2>2. run' = r /\ spc' \in {"done", "fetch"} /\ UNCHANGED <<now, faults, alarm, morning_rescraped_date>>
    BY <1>13 DEF FetchFails
  <2> HIDE DEF todo, failed
  <2>3. r \in RunRow /\ r.target = run.target /\ r.source = run.source
    BY <2>1, RunFailed
  <2> HIDE DEF r
  <2>4. QED
    BY <2>1, <2>2, <2>3, NowStays DEF ScheduleInv, Running, Storing
<1>14. CASE Store \/ ReadRow \/ ReadFails \/ Compare \/ CompareFails \/ \E u \in Trackers : ChangeAlert(u)
  <2>1. /\ spc \in Storing \cup {"store"} /\ spc' \in Storing
        /\ UNCHANGED <<run, alarm, morning_rescraped_date, now>> /\ (Fault \/ faults' = faults)
    BY <1>14 DEF Store, ReadRow, ReadFails, Compare, CompareFails, ChangeAlert, Storing
  <2>2. QED
    BY <1>f, <2>1, NowStays DEF ScheduleInv, Running, Storing
<1>15. CASE JobsRaise \/ Scan
  <2>1. /\ spc \in Storing /\ NextSource /\ UNCHANGED <<alarm, morning_rescraped_date, now>>
        /\ Fault \/ \E failing \in SUBSET tracking :
                      faults + Cardinality(failing) <= MaxFaults /\ faults' = faults + Cardinality(failing)
    BY <1>15 DEF JobsRaise, Scan, Storing
  <2>2. run' \in RunRow /\ run'.target = run.target /\ spc' \in {"done", "fetch"}
    BY <2>1, NextSourceIs DEF ScheduleInv
  <2>3. ASSUME NEW failing \in SUBSET tracking, faults + Cardinality(failing) <= MaxFaults,
               faults' = faults + Cardinality(failing)
        PROVE  faults' \in 0 .. MaxFaults
    <3>1. IsFiniteSet(failing)
      BY CauselistAssumption, FS_Subset
    <3>2. QED
      BY <1>k, <2>3, <3>1, FaultsAre
  <2>4. faults' \in 0 .. MaxFaults
    BY <1>f, <2>1, <2>3
  <2>5. QED
    BY <2>1, <2>2, <2>4, NowStays DEF ScheduleInv, Running, Storing
<1>16. CASE SchedulerDies
  <2>1. spc' = "dead" /\ run' = IdleRun /\ morning_rescraped_date' = NoDate /\ alarm' = 0 /\ UNCHANGED now /\ Fault
    BY <1>16 DEF SchedulerDies
  <2>2. QED
    BY <1>f, <2>1, IdleRunType DEF ScheduleInv, Running, Storing
<1>17. CASE Restart
  BY <1>17 DEF Restart, ScheduleInv, Running, Storing
<1>18. CASE UNCHANGED causelistVars
  BY <1>1, <1>18, <1>k DEF causelistVars
<1>19. QED
  BY <1>2, <1>3, <1>4, <1>6, <1>7, <1>8, <1>9, <1>10, <1>11, <1>12, <1>13, <1>14, <1>15, <1>16,
     <1>17, <1>18 DEF CauselistNext

-----------------------------------------------------------------------------
(* Causelist: lists that are published, fetched and stored.                *)

\* Who publishes, who fetches, who stores, and who drops what was fetched.
LEMMA ListStep ==
  ASSUME [CauselistNext]_causelistVars
  PROVE  \/ /\ UNCHANGED <<published, publications, fetched, work, job, listVars>>
            /\ spc' = spc \/ (spc # "store" /\ spc' # "store")
         \/ \E s \in Sources, d \in Dates, l \in Lists : Publish(s, d, l)
         \/ \E s \in Sources : FetchList(s)
         \/ \E s \in Sources, d \in Dates : BackfillFetch(s, d)
         \/ Store \/ BackfillStore
         \/ BackfillStarts \/ BackfillDies \/ SchedulerDies
<1>1. ASSUME NEW u \in Trackers, Track(u) \/ ChangeAlert(u)
      PROVE  /\ UNCHANGED <<published, publications, fetched, work, job, listVars>>
             /\ spc' = spc \/ (spc # "store" /\ spc' # "store")
  BY <1>1 DEF Track, ChangeAlert, scheduleVars, backfillVars
<1>2. ASSUME NEW s \in Sources, FetchFails(s)
      PROVE  /\ UNCHANGED <<published, publications, fetched, work, job, listVars>>
             /\ spc # "store" /\ spc' # "store"
  BY <1>2 DEF FetchFails, Fetching, backfillVars
<1>3. CASE Tick
  BY <1>3 DEF Tick, scheduleVars, backfillVars
<1>4. CASE MorningPass \/ EveningPass \/ SleepTillWindow \/ WakeUp \/ PassDone \/ Restart
  <2>1. spc # "store" /\ spc' # "store"
    BY <1>4 DEF MorningPass, EveningPass, SleepTillWindow, WakeUp, PassDone, Restart, StartPass, Sleep
  <2>2. UNCHANGED <<published, publications, fetched, work, job, listVars>>
    BY <1>4 DEF MorningPass, EveningPass, SleepTillWindow, WakeUp, PassDone, Restart, StartPass, Sleep, backfillVars
  <2>3. QED
    BY <2>1, <2>2
<1>5. CASE ReadRow \/ ReadFails \/ JobsRaise \/ Compare \/ CompareFails \/ Scan
  <2>1. spc # "store" /\ spc' # "store"
    BY <1>5 DEF ReadRow, ReadFails, JobsRaise, Compare, CompareFails, Scan, NextSource
  <2>2. UNCHANGED <<published, publications, fetched, work, job, listVars>>
    BY <1>5 DEF ReadRow, ReadFails, JobsRaise, Compare, CompareFails, Scan, backfillVars
  <2>3. QED
    BY <2>1, <2>2
<1>6. CASE UNCHANGED causelistVars
  BY <1>6 DEF causelistVars, listVars
<1>7. QED
  BY <1>1, <1>2, <1>3, <1>4, <1>5, <1>6 DEF CauselistNext

LEMMA Versions == ASSUME PublishedInv PROVE \A x \in Sources \X Dates : published[x].version \in Nat
<1>1. MaxPublications \in Nat
  BY CauselistAssumption
<1>2. QED
  BY <1>1 DEF PublishedInv

LEMMA PublishIs ==
  ASSUME PublishedInv, NEW s \in Sources, NEW d \in Dates, NEW l \in Lists, Publish(s, d, l)
  PROVE  PublishedInv' /\ \A x \in Sources \X Dates : published[x].version <= published'[x].version
<1> DEFINE v == publications + 1
           x == <<s, d>>
           new == [version |-> v, list |-> l]
<1>1. /\ publications' = v /\ publications < MaxPublications
      /\ published' = [published EXCEPT ![x] = new]
  BY DEF Publish
<1>2. publications \in 0 .. MaxPublications /\ MaxPublications \in Nat
  BY CauselistAssumption DEF PublishedInv
<1>3. v \in 0 .. MaxPublications /\ v # 0 /\ publications < v /\ publications \in Nat
  BY <1>1, <1>2
<1> HIDE DEF v
<1>4. new \in [version : 0 .. MaxPublications, list : Lists \cup {NoJob}] /\ new.version = v /\ new.list = l
  BY <1>3
<1>5. x \in Sources \X Dates
  OBVIOUS
<1> HIDE DEF new, x
<1>6. /\ published' \in [Sources \X Dates -> [version : 0 .. MaxPublications, list : Lists \cup {NoJob}]]
      /\ published'[x] = new /\ \A y \in Sources \X Dates : y # x => published'[y] = published[y]
  BY <1>1, <1>4, <1>5 DEF PublishedInv
<1>7. \A y \in Sources \X Dates : published[y].version \in Nat
  BY Versions
<1>8. ASSUME NEW y \in Sources \X Dates
      PROVE  /\ published'[y].version <= v /\ (published'[y].version # 0 => published'[y].list \in Lists)
             /\ published[y].version <= published'[y].version
  BY <1>3, <1>4, <1>6, <1>7, <1>8 DEF PublishedInv
<1>9. PublishedInv'
  BY <1>1, <1>3, <1>6, <1>8 DEF PublishedInv
<1>10. QED
  BY <1>8, <1>9

LEMMA PublishedNext ==
  ASSUME PublishedInv, [CauselistNext]_causelistVars
  PROVE  PublishedInv' /\ \A x \in Sources \X Dates : published[x].version <= published'[x].version
<1>1. CASE UNCHANGED <<published, publications>>
  <2>1. \A x \in Sources \X Dates : published[x].version <= published'[x].version
    BY <1>1, Versions
  <2>2. QED
    BY <1>1, <2>1 DEF PublishedInv
<1>2. ASSUME NEW s \in Sources, FetchList(s) \/ \E d \in Dates : BackfillFetch(s, d)
      PROVE  UNCHANGED <<published, publications>>
  BY <1>2 DEF FetchList, BackfillFetch
<1>3. CASE Store \/ BackfillStore \/ BackfillStarts \/ BackfillDies \/ SchedulerDies
  BY <1>1, <1>3 DEF Store, BackfillStore, BackfillStarts, BackfillDies, SchedulerDies
<1>4. QED
  BY <1>1, <1>2, <1>3, ListStep, PublishIs

\* Of two printed rows with one key one comes later.
LEMMA OneIsLater ==
  ASSUME NEW l \in Lists, NEW p \in Positions(l), NEW q \in Positions(l), p # q
  PROVE  Before(p, q) \/ Before(q, p)
<1>1. PICK i \in DOMAIN l : p \in {<<i, j>> : j \in DOMAIN l[i].rows}
  BY DEF Positions
<1>2. PICK m \in DOMAIN l : q \in {<<m, n>> : n \in DOMAIN l[m].rows}
  BY DEF Positions
<1>a. PICK j \in DOMAIN l[i].rows : p = <<i, j>>
  BY <1>1
<1>b. PICK n \in DOMAIN l[m].rows : q = <<m, n>>
  BY <1>2
<1>3. i \in Nat /\ j \in Nat /\ m \in Nat /\ n \in Nat
  <2>1. /\ DOMAIN l \subseteq Nat
        /\ \A k \in DOMAIN l : DOMAIN l[k].rows \subseteq Nat
    BY CauselistAssumption
  <2>2. QED
    BY <1>1, <1>2, <1>a, <1>b, <2>1
<1>4. p[1] = i /\ p[2] = j /\ q[1] = m /\ q[2] = n /\ (i # m \/ j # n)
  BY <1>a, <1>b
<1>5. QED
  BY <1>3, <1>4 DEF Before

Unique(set) == \A r, q \in set : SameKey(r, q) => r = q

\* A list keeps a row once.
LEMMA SurvivingIs ==
  ASSUME NEW l \in Lists
  PROVE  Surviving(l) \subseteq Printed(l) /\ Printed(l) \subseteq AllRows /\ Unique(Surviving(l))
<1>1. Surviving(l) \subseteq Printed(l)
  BY DEF Surviving, Printed
<1>2. Printed(l) \subseteq AllRows
  BY DEF AllRows
<1>3. ASSUME NEW r \in Surviving(l), NEW t \in Surviving(l), SameKey(r, t) PROVE r = t
  <2>1. PICK p \in Positions(l) : Survives(l, p) /\ r = RowAt(l, p)
    BY DEF Surviving
  <2>2. PICK q \in Positions(l) : Survives(l, q) /\ t = RowAt(l, q)
    BY DEF Surviving
  <2>3. SameKey(t, r)
    BY <1>3 DEF SameKey, SameSection
  <2>4. ~ Before(p, q) /\ ~ Before(q, p)
    BY <1>3, <2>1, <2>2, <2>3 DEF Survives
  <2>5. p = q
    BY <2>4, OneIsLater
  <2>6. QED
    BY <2>1, <2>2, <2>5
<1>4. QED
  BY <1>1, <1>2, <1>3 DEF Unique

Follow(set, l) ==
  /\ Surviving(l) \subseteq set
  /\ \A r \in set \ Surviving(l) :
       /\ \A n \in Printed(l) : ~ SameKey(n, r)
       /\ \A i \in DOMAIN l : ~ Cuts(l[i], r)
  /\ Unique(set)

LEMMA RowsFollowListIs ==
  RowsFollowList <=>
    \A x \in Sources \X Dates :
      Follow(rows[x], stored[x].list) /\ (~ stored[x].overlapped => stored[x].version = stored[x].newest)
BY DEF RowsFollowList, Follow, Unique

LEMMA RowsFollowListIsNext ==
  RowsFollowList' <=>
    \A x \in Sources \X Dates :
      Follow(rows'[x], stored'[x].list) /\ (~ stored'[x].overlapped => stored'[x].version = stored'[x].newest)
BY DEF RowsFollowList, Follow, Unique

\* What is left of old rows after a list is stored.
LEMMA RowsAfterIs ==
  ASSUME NEW old \in SUBSET AllRows, Unique(old), NEW l \in Lists
  PROVE  RowsAfter(old, l) \subseteq AllRows /\ Follow(RowsAfter(old, l), l)
<1> DEFINE kept == {r \in old : /\ \A n \in Printed(l) : ~ SameKey(n, r)
                                /\ \A i \in DOMAIN l : ~ Cuts(l[i], r)}
           new == Surviving(l)
<1>1. new \subseteq Printed(l) /\ Printed(l) \subseteq AllRows /\ Unique(new)
  BY SurvivingIs
<1>2. RowsAfter(old, l) = kept \cup new
  BY DEF RowsAfter
<1>3. kept \subseteq old /\ \A r \in kept : (\A n \in Printed(l) : ~ SameKey(n, r)) /\ \A i \in DOMAIN l : ~ Cuts(l[i], r)
  OBVIOUS
<1> HIDE DEF kept, new
<1>4. ASSUME NEW r \in kept \cup new, NEW q \in kept \cup new, SameKey(r, q) PROVE r = q
  <2>1. SameKey(q, r)
    BY <1>4 DEF SameKey, SameSection
  <2>2. CASE r \in kept /\ q \in kept
    BY <1>3, <1>4, <2>2 DEF Unique
  <2>3. CASE r \in new /\ q \in new
    BY <1>1, <1>4, <2>3 DEF Unique
  <2>4. CASE r \in new /\ q \in kept
    BY <1>1, <1>3, <1>4, <2>4
  <2>5. CASE r \in kept /\ q \in new
    BY <1>1, <1>3, <2>1, <2>5
  <2>6. QED
    BY <1>4, <2>2, <2>3, <2>4, <2>5
<1>5. QED
  BY <1>1, <1>2, <1>3, <1>4 DEF Follow, Unique, new

\* What is there after a list is stored.
LEMMA StoreIs ==
  ASSUME PublishedInv, StoredInv, NEW mine, NEW other, Held(mine), store_causelist(mine, other), UNCHANGED published
  PROVE  LET x == <<mine.source, mine.date>>
         IN /\ StoredInv' /\ x \in Sources \X Dates
            /\ stored'[x].list = mine.list /\ mine.list \in Lists
            /\ Overlapping(mine, other) => stored'[x].overlapped
            /\ \A y \in Sources \X Dates : y # x => rows'[y] = rows[y] /\ stored'[y] = stored[y]
<1> DEFINE x == <<mine.source, mine.date>>
           l == mine.list
           v == mine.version
           old == stored[x]
           newest == IF old.newest <= v THEN v ELSE old.newest
           z == StoredAfter(old, mine, other)
           after == RowsAfter(rows[x], l)
           b == benches[x] \cup CourtsOf(l)
<1>1. /\ x \in Sources \X Dates /\ l \in Lists /\ v \in 0 .. MaxPublications /\ v <= published[x].version
      /\ ~ old.overlapped => old.newest <= v
  BY DEF Held, JobRow
<1>2. /\ rows' = [rows EXCEPT ![x] = after] /\ benches' = [benches EXCEPT ![x] = b]
      /\ stored' = [stored EXCEPT ![x] = z]
  BY DEF store_causelist
<1>3. rows[x] \in SUBSET AllRows /\ Unique(rows[x])
  BY <1>1, RowsFollowListIs DEF StoredInv, Follow
<1>4. after \subseteq AllRows /\ Follow(after, l)
  BY <1>1, <1>3, RowsAfterIs
<1>5. b \in SUBSET Courts
  BY <1>1 DEF StoredInv, Courts
<1>6. old \in StoredRow /\ old.newest <= published[x].version /\ MaxPublications \in Nat
  BY <1>1, CauselistAssumption DEF StoredInv
<1>7. newest \in 0 .. MaxPublications /\ newest <= published[x].version /\ (old.newest <= v => newest = v)
  BY <1>1, <1>6 DEF StoredRow
<1>8. /\ z.version = v /\ z.newest = newest /\ z.list = l
      /\ z.overlapped = (Overlapping(mine, other) \/ (old.overlapped /\ v # newest))
  BY DEF StoredAfter
<1>9. z \in StoredRow
  <2>1. old.overlapped \in BOOLEAN /\ Overlapping(mine, other) \in BOOLEAN
    BY <1>6 DEF StoredRow, Overlapping
  <2>2. z = [version |-> v, newest |-> newest, list |-> l,
             overlapped |-> Overlapping(mine, other) \/ (old.overlapped /\ v # newest)]
    BY DEF StoredAfter
  <2> HIDE DEF z, newest, old, v, l
  <2>3. QED
    BY <1>1, <1>7, <2>1, <2>2 DEF StoredRow
<1>10. ~ z.overlapped => z.version = z.newest
  <2>1. CASE old.overlapped
    BY <1>8, <2>1
  <2>2. CASE ~ old.overlapped
    BY <1>1, <1>7, <1>8, <2>2
  <2>3. QED
    BY <2>1, <2>2
<1> HIDE DEF x, after, b, z, l, v, old, newest
<1>11. /\ rows' \in [Sources \X Dates -> SUBSET AllRows] /\ rows'[x] = after
       /\ \A y \in Sources \X Dates : y # x => rows'[y] = rows[y]
  BY <1>1, <1>2, <1>4 DEF StoredInv
<1>12. /\ stored' \in [Sources \X Dates -> StoredRow] /\ stored'[x] = z
       /\ \A y \in Sources \X Dates : y # x => stored'[y] = stored[y]
  BY <1>1, <1>2, <1>9 DEF StoredInv
<1>13. benches' \in [Sources \X Dates -> SUBSET Courts]
  BY <1>1, <1>2, <1>5 DEF StoredInv
<1>14. ASSUME NEW y \in Sources \X Dates
       PROVE  /\ Follow(rows'[y], stored'[y].list) /\ (~ stored'[y].overlapped => stored'[y].version = stored'[y].newest)
              /\ stored'[y].newest <= published'[y].version
  <2>1. CASE y = x
    BY <1>4, <1>7, <1>8, <1>10, <1>11, <1>12, <2>1
  <2>2. CASE y # x
    <3>1. Follow(rows[y], stored[y].list) /\ (~ stored[y].overlapped => stored[y].version = stored[y].newest)
      BY <1>14, RowsFollowListIs DEF StoredInv
    <3>2. rows'[y] = rows[y] /\ stored'[y] = stored[y] /\ stored[y].newest <= published[y].version
      BY <1>11, <1>12, <1>14, <2>2 DEF StoredInv
    <3>3. QED
      BY <3>1, <3>2
  <2>3. QED
    BY <2>1, <2>2
<1>15. StoredInv'
  BY <1>11, <1>12, <1>13, <1>14, RowsFollowListIsNext DEF StoredInv
<1>16. stored'[x].list = l /\ (Overlapping(mine, other) => stored'[x].overlapped)
  BY <1>8, <1>12
<1>17. QED
  BY <1>1, <1>11, <1>12, <1>15, <1>16 DEF x, l

LEMMA StoredNext ==
  ASSUME PublishedInv, InHandInv, StoredInv, [CauselistNext]_causelistVars
  PROVE  StoredInv'
<1>p. \A x \in Sources \X Dates : published[x].version <= published'[x].version
  BY PublishedNext
<1>1. ASSUME UNCHANGED listVars PROVE StoredInv'
  <2>1. ASSUME NEW x \in Sources \X Dates PROVE stored[x].newest <= published'[x].version
    <3>1. stored[x].newest \in 0 .. MaxPublications /\ stored[x].newest <= published[x].version
      BY <2>1 DEF StoredInv, StoredRow
    <3>3. MaxPublications \in Nat
      BY CauselistAssumption
    <3>5. PublishedInv'
      BY PublishedNext
    <3>2. published[x].version \in Nat /\ published'[x].version \in Nat
      BY <2>1, <3>3, <3>5 DEF PublishedInv
    <3>4. QED
      BY <1>p, <2>1, <3>1, <3>2, <3>3
  <2>2. RowsFollowList'
    BY <1>1, RowsFollowListIs, RowsFollowListIsNext DEF StoredInv, listVars
  <2>3. QED
    BY <1>1, <2>1, <2>2 DEF listVars, StoredInv
<1>2. CASE Store
  <2>1. Held(fetched) /\ store_causelist(fetched, job) /\ UNCHANGED published
    BY <1>2 DEF Store, InHandInv
  <2>2. QED
    BY <2>1, StoreIs
<1>3. CASE BackfillStore
  <2>1. Held(job) /\ store_causelist(job, fetched) /\ UNCHANGED published
    BY <1>3 DEF BackfillStore, InHandInv
  <2>2. QED
    BY <2>1, StoreIs
<1>4. ASSUME NEW s \in Sources, FetchList(s) \/ \E d \in Dates : BackfillFetch(s, d) \/ \E l \in Lists : Publish(s, d, l)
      PROVE  UNCHANGED listVars
  BY <1>4 DEF FetchList, BackfillFetch, Publish
<1>5. CASE BackfillStarts \/ BackfillDies \/ SchedulerDies
  <2>1. UNCHANGED listVars
    BY <1>5 DEF BackfillStarts, BackfillDies, SchedulerDies
  <2>2. QED
    BY <1>1, <2>1
<1>6. QED
  BY <1>1, <1>2, <1>3, <1>4, <1>5, ListStep

\* A list in hand stays as it was when it is published anew, and when another one is stored
\* elsewhere or over it.
LEMMA HeldStays ==
  ASSUME PublishedInv, StoredInv, NEW c, Held(c),
         \A x \in Sources \X Dates : published[x].version <= published'[x].version,
         \A x \in Sources \X Dates : published'[x].version \in Nat,
         LET x == <<c.source, c.date>> IN stored'[x] = stored[x] \/ stored'[x].overlapped
  PROVE  c \in JobRow /\ LET x == <<c.source, c.date>>
                         IN c.version <= published'[x].version /\ (~ stored'[x].overlapped => stored'[x].newest <= c.version)
<1> DEFINE x == <<c.source, c.date>>
<1>1. c \in JobRow /\ c.version <= published[x].version /\ (~ stored[x].overlapped => stored[x].newest <= c.version)
  BY DEF Held
<1>0. MaxPublications \in Nat
  BY CauselistAssumption
<1>2. x \in Sources \X Dates /\ c.version \in Nat
  BY <1>0, <1>1 DEF JobRow
<1> HIDE DEF x
<1>3. published[x].version \in Nat /\ published'[x].version \in Nat /\ published[x].version <= published'[x].version
  BY <1>2, Versions
<1>4. c.version <= published'[x].version
  BY <1>1, <1>2, <1>3
<1>5. ~ stored'[x].overlapped => stored'[x].newest <= c.version
  BY <1>1 DEF x
<1>6. QED
  BY <1>1, <1>4, <1>5 DEF x

\* What is fetched is as new as anything that was stored.
LEMMA FetchedIs ==
  ASSUME PublishedInv, StoredInv, NEW s \in Sources, NEW at \in Dates, published[<<s, at>>].version # 0
  PROVE  LET c == Fetched(s, at) IN Held(c) /\ c.source = s /\ c.date = at
<1> DEFINE x == <<s, at>>
           v == published[x].version
           l == published[x].list
           c == Fetched(s, at)
<1>1. x \in Sources \X Dates /\ v \in 0 .. MaxPublications /\ l \in Lists /\ v \in Nat
  BY Versions DEF PublishedInv
<1>2. stored[x].newest <= v
  BY <1>1 DEF StoredInv
<1>3. c = [source |-> s, date |-> at, version |-> v, list |-> l]
  BY DEF Fetched
<1> HIDE DEF c, v, l
<1>4. c \in JobRow /\ c.source = s /\ c.date = at /\ c.version = v
  BY <1>1, <1>3 DEF JobRow
<1>5. v <= v
  BY <1>1
<1>6. QED
  BY <1>2, <1>4, <1>5 DEF Held, c, v

\* Nothing in hand is not something in hand.
LEMMA NoJobInHand == NoJob \notin JobRow
<1>1. ASSUME NoJob \in JobRow PROVE NoJob \in [source : Sources, date : Dates, version : Nat, list : Lists]
  <2>1. MaxPublications \in Nat
    BY CauselistAssumption
  <2>2. 0 .. MaxPublications \subseteq Nat
    BY <2>1
  <2>3. JobRow \subseteq [source : Sources, date : Dates, version : Nat, list : Lists]
    BY <2>2 DEF JobRow
  <2>4. QED
    BY <1>1, <2>3
<1>2. QED
  BY <1>1, NothingAssumption

LEMMA InHandNext ==
  ASSUME ScheduleInv, PublishedInv, InHandInv, StoredInv, [CauselistNext]_causelistVars
  PROVE  InHandInv'
<1>p. \A x \in Sources \X Dates : published[x].version <= published'[x].version /\ published'[x].version \in Nat
  <2>1. MaxPublications \in Nat
    BY CauselistAssumption
  <2>2. PublishedInv' /\ \A x \in Sources \X Dates : published[x].version <= published'[x].version
    BY PublishedNext
  <2>3. QED
    BY <2>1, <2>2 DEF PublishedInv
<1>s. ASSUME NEW c, Held(c), LET x == <<c.source, c.date>> IN stored'[x] = stored[x] \/ stored'[x].overlapped
      PROVE  /\ c \in JobRow
             /\ LET x == <<c.source, c.date>>
                IN c.version <= published'[x].version /\ (~ stored'[x].overlapped => stored'[x].newest <= c.version)
  BY <1>p, <1>s, HeldStays
<1>1. ASSUME UNCHANGED stored, UNCHANGED fetched, UNCHANGED job \/ job' = NoJob,
             spc' = spc \/ (spc # "store" /\ spc' # "store"), work' \subseteq ShouldRun
      PROVE  InHandInv'
  <2>1. spc' = "store" => Held(fetched)'
    BY <1>1, <1>s DEF InHandInv, Held
  <2>2. job' # NoJob => Held(job)'
    BY <1>1, <1>s DEF InHandInv, Held
  <2>3. QED
    BY <1>1, <2>1, <2>2 DEF InHandInv
<1>2. CASE /\ UNCHANGED <<published, publications, fetched, work, job, listVars>>
           /\ spc' = spc \/ (spc # "store" /\ spc' # "store")
  BY <1>1, <1>2 DEF InHandInv, listVars
<1>3. ASSUME NEW s \in Sources, NEW d \in Dates, NEW l \in Lists, Publish(s, d, l) PROVE InHandInv'
  BY <1>1, <1>3 DEF InHandInv, Publish, listVars, scheduleVars, backfillVars
<1>4. CASE BackfillStarts \/ BackfillDies
  <2>1. work' \subseteq ShouldRun /\ UNCHANGED <<spc, fetched, stored>> /\ (job' = job \/ job' = NoJob)
    BY <1>4 DEF BackfillStarts, BackfillDies, listVars, scheduleVars
  <2>2. QED
    BY <1>1, <2>1
<1>5. CASE SchedulerDies
  <2>1. /\ spc' = "dead" /\ fetched' = NoJob /\ UNCHANGED stored /\ (job' = job \/ job' = NoJob)
        /\ work' = {} \/ work' = work
    BY <1>5 DEF SchedulerDies, listVars, backfillVars
  <2>2. job' # NoJob => Held(job)'
    BY <1>s, <2>1 DEF InHandInv, Held
  <2>3. QED
    BY <2>1, <2>2 DEF InHandInv
<1>6. ASSUME NEW s \in Sources, FetchList(s) PROVE InHandInv'
  <2> DEFINE at == StoredUnder[<<s, run.target>>]
  <2>1. run.target \in Dates
    BY <1>6 DEF FetchList, Fetching, ScheduleInv, Running
  <2>2. at \in Dates
    BY <2>1, CauselistAssumption
  <2>3. /\ published[<<s, at>>].version # 0 /\ fetched' = Fetched(s, at) /\ spc' = "store"
        /\ UNCHANGED <<published, stored, work, job>>
    BY <1>6 DEF FetchList, listVars, backfillVars
  <2> HIDE DEF at
  <2>4. Held(fetched')
    BY <2>2, <2>3, FetchedIs
  <2>5. Held(fetched)'
    BY <2>3, <2>4 DEF Held
  <2>6. job' # NoJob => Held(job)'
    BY <1>s, <2>3 DEF InHandInv, Held
  <2>7. QED
    BY <2>3, <2>5, <2>6 DEF InHandInv
<1>7. ASSUME NEW s \in Sources, NEW d \in Dates, BackfillFetch(s, d) PROVE InHandInv'
  <2> DEFINE at == StoredUnder[<<s, d>>]
  <2>1. at \in Dates
    BY CauselistAssumption
  <2>2. /\ UNCHANGED <<published, stored, spc, fetched>> /\ work' \subseteq work
        /\ job' = job \/ (published[<<s, at>>].version # 0 /\ job' = Fetched(s, at))
    BY <1>7 DEF BackfillFetch, listVars, scheduleVars
  <2>3. CASE job' = job
    BY <1>1, <2>2, <2>3 DEF InHandInv
  <2>4. CASE published[<<s, at>>].version # 0 /\ job' = Fetched(s, at)
    <3> HIDE DEF at
    <3>1. Held(job')
      BY <2>1, <2>4, FetchedIs
    <3>2. Held(job)'
      BY <2>2, <3>1 DEF Held
    <3>3. spc' = "store" => Held(fetched)'
      BY <1>s, <2>2 DEF InHandInv, Held
    <3>4. QED
      BY <2>2, <3>2, <3>3 DEF InHandInv
  <2>5. QED
    BY <2>2, <2>3, <2>4
<1>8. CASE Store
  <2>1. /\ Held(fetched) /\ store_causelist(fetched, job) /\ spc' = "read" /\ fetched' = NoJob
        /\ UNCHANGED <<published, work, job>>
    BY <1>8 DEF Store, InHandInv, backfillVars
  <2>2. SUFFICES ASSUME job # NoJob PROVE Held(job)'
    BY <2>1 DEF InHandInv
  <2> DEFINE x == <<fetched.source, fetched.date>>
             y == <<job.source, job.date>>
  <2>3. /\ Overlapping(fetched, job) => stored'[x].overlapped
        /\ \A z \in Sources \X Dates : z # x => stored'[z] = stored[z]
    BY <2>1, StoreIs
  <2>4. Held(job) /\ y \in Sources \X Dates
    BY <2>2 DEF InHandInv, Held, JobRow
  <2>5. y = x => Overlapping(fetched, job)
    BY <2>2 DEF Overlapping
  <2>6. stored'[y] = stored[y] \/ stored'[y].overlapped
    BY <2>3, <2>4, <2>5
  <2> HIDE DEF x
  <2>7. QED
    BY <1>s, <2>1, <2>4, <2>6 DEF Held
<1>9. CASE BackfillStore
  <2>1. /\ Held(job) /\ store_causelist(job, fetched) /\ job' = NoJob
        /\ UNCHANGED <<published, work, spc, fetched>>
    BY <1>9 DEF BackfillStore, InHandInv, scheduleVars
  <2>2. SUFFICES ASSUME spc = "store" PROVE Held(fetched)'
    BY <2>1 DEF InHandInv
  <2> DEFINE x == <<job.source, job.date>>
             y == <<fetched.source, fetched.date>>
  <2>3. /\ Overlapping(job, fetched) => stored'[x].overlapped
        /\ \A z \in Sources \X Dates : z # x => stored'[z] = stored[z]
    BY <2>1, StoreIs
  <2>4. Held(fetched) /\ y \in Sources \X Dates /\ fetched # NoJob
    <3>1. Held(fetched) /\ fetched \in JobRow
      BY <2>2 DEF InHandInv, Held
    <3>3. fetched # NoJob
      BY <3>1, NoJobInHand
    <3>4. QED
      BY <3>1, <3>3 DEF JobRow
  <2>5. y = x => Overlapping(job, fetched)
    BY <2>4 DEF Overlapping
  <2>6. stored'[y] = stored[y] \/ stored'[y].overlapped
    BY <2>3, <2>4, <2>5
  <2> HIDE DEF x
  <2>7. QED
    BY <1>s, <2>1, <2>4, <2>6 DEF Held
<1>10. QED
  BY <1>2, <1>3, <1>4, <1>5, <1>6, <1>7, <1>8, <1>9, ListStep

-----------------------------------------------------------------------------
(* Causelist: what case_diff knows and tells.                              *)

\* A pass keeps its date while time passes, and begins with the date that is due.
LEMMA PassStep ==
  ASSUME ScheduleInv, [CauselistNext]_causelistVars
  PROVE  /\ UNCHANGED now \/ Tick
         /\ spc' \in Running =>
              \/ spc \in Running /\ run'.target = run.target
              \/ run'.target = Bound /\ UNCHANGED now
<1>r. run \in RunRow
  BY DEF ScheduleInv
<1>1. ASSUME NEW u \in Trackers, Track(u) PROVE UNCHANGED <<now, spc, run>>
  BY <1>1 DEF Track, scheduleVars
<1>2. ASSUME NEW s \in Sources, NEW d \in Dates, BackfillFetch(s, d) \/ \E l \in Lists : Publish(s, d, l)
      PROVE  UNCHANGED <<now, spc, run>>
  BY <1>2 DEF BackfillFetch, Publish, scheduleVars
<1>3. CASE BackfillStarts \/ BackfillStore \/ BackfillDies
  BY <1>3 DEF BackfillStarts, BackfillStore, BackfillDies, scheduleVars, Running
<1>4. CASE Tick
  BY <1>4 DEF Tick, scheduleVars
<1>5. ASSUME NEW s \in Sources, FetchList(s) \/ FetchFails(s)
      PROVE  UNCHANGED now /\ spc \in Running /\ run'.target = run.target
  BY <1>5, <1>r DEF FetchList, FetchFails, Fetching, Running, RunRow
<1>6. ASSUME NEW u \in Trackers, ChangeAlert(u) PROVE UNCHANGED <<now, run>> /\ spc \in Running
  BY <1>6 DEF ChangeAlert, Running
<1>7. CASE Store \/ ReadRow \/ ReadFails \/ Compare \/ CompareFails
  BY <1>7 DEF Store, ReadRow, ReadFails, Compare, CompareFails, Running
<1>8. CASE JobsRaise \/ Scan
  <2>1. UNCHANGED now /\ spc \in Running /\ NextSource
    BY <1>8 DEF JobsRaise, Scan, Running
  <2>2. QED
    BY <1>r, <2>1, NextSourceIs
<1>9. CASE SleepTillWindow \/ WakeUp \/ PassDone \/ SchedulerDies \/ Restart
  <2>1. UNCHANGED now /\ spc' \in {"asleep", "wake", "dead"}
    BY <1>9 DEF SleepTillWindow, WakeUp, PassDone, SchedulerDies, Restart, Sleep
  <2>2. QED
    BY <2>1 DEF Running
<1>10. CASE MorningPass
  <2>1. UNCHANGED now /\ run' = [IdleRun EXCEPT !.pass = "morning", !.target = Today, !.todo = DailySources]
    BY <1>10 DEF MorningPass, StartPass
  <2>2. run'.target = Today
    BY <2>1 DEF IdleRun
  <2>3. Bound = Today
    BY <1>10 DEF MorningPass, MorningDue, Bound, Morning
  <2>4. QED
    BY <2>1, <2>2, <2>3
<1>11. CASE EveningPass
  <2> DEFINE d == _next_working_day(Today)
  <2>1. UNCHANGED now /\ \E todo \in SUBSET Sources : run' = [IdleRun EXCEPT !.pass = "evening", !.target = d, !.todo = todo]
    BY <1>11 DEF EveningPass, StartPass
  <2> HIDE DEF d
  <2>2. run'.target = d
    BY <2>1 DEF IdleRun
  <2>3. Slot \in Nat /\ ~ (Slot <= Morning)
    <3>1. Slot \in FirstWindow .. LastWindow
      BY <1>11 DEF EveningPass, InWindow
    <3>2. Slot \in Nat
      BY BoundType DEF ScheduleInv
    <3>3. QED
      BY <3>1, <3>2, Moments DEF FirstWindow, LastWindow, Morning
  <2>4. Bound = d
    BY <2>3 DEF Bound, d
  <2>5. QED
    BY <2>1, <2>2, <2>4
<1>12. CASE UNCHANGED causelistVars
  BY <1>12 DEF causelistVars
<1>13. QED
  BY <1>1, <1>2, <1>3, <1>4, <1>5, <1>6, <1>7, <1>8, <1>9, <1>10, <1>11, <1>12 DEF CauselistNext

LEMMA BoundNext ==
  ASSUME ScheduleInv, [CauselistNext]_causelistVars
  PROVE  Bound <= Bound' /\ Bound \in Nat /\ Bound' \in Nat
<1>1. Bound \in Nat
  BY BoundType DEF ScheduleInv
<1>2. CASE UNCHANGED now
  BY <1>1, <1>2, NowStays
<1>3. CASE Tick
  <2>1. now < LastTime /\ now' = now + 1 /\ now \in 0 .. LastTime
    BY <1>3 DEF Tick, ScheduleInv
  <2>2. QED
    BY <2>1, BoundGrows
<1>4. QED
  BY <1>2, <1>3, PassStep

\* Who takes part in a diff.
LEMMA DiffStep ==
  ASSUME [CauselistNext]_causelistVars
  PROVE  \/ /\ UNCHANGED <<snapshots, seen, told>> /\ tracking \subseteq tracking' /\ tracking' \subseteq tracking \cup Trackers
            /\ spc' = spc \/ (spc \notin {"compare", "alert"} /\ spc' \notin {"compare", "alert"})
         \/ ReadRow \/ Compare \/ CompareFails \/ (\E u \in Trackers : ChangeAlert(u)) \/ SchedulerDies
<1>1. ASSUME NEW u \in Trackers, Track(u)
      PROVE  UNCHANGED <<snapshots, seen, told, spc>> /\ tracking \subseteq tracking' /\ tracking' \subseteq tracking \cup Trackers
  BY <1>1 DEF Track, scheduleVars, diffVars
<1>2. ASSUME NEW s \in Sources, NEW d \in Dates, BackfillFetch(s, d) \/ \E l \in Lists : Publish(s, d, l)
      PROVE  UNCHANGED <<snapshots, seen, told, tracking, spc>>
  BY <1>2 DEF BackfillFetch, Publish, scheduleVars, diffVars
<1>3. ASSUME NEW s \in Sources, FetchList(s) \/ FetchFails(s)
      PROVE  UNCHANGED <<snapshots, seen, told, tracking>> /\ spc = "fetch" /\ spc' \in {"store", "done", "fetch"}
  BY <1>3 DEF FetchList, FetchFails, Fetching, diffVars
<1>4. CASE Tick \/ BackfillStarts \/ BackfillStore \/ BackfillDies
  BY <1>4 DEF Tick, BackfillStarts, BackfillStore, BackfillDies, scheduleVars, diffVars
<1>5. CASE \/ MorningPass \/ EveningPass \/ SleepTillWindow \/ WakeUp \/ PassDone \/ Scan \/ Restart
           \/ Store \/ ReadFails \/ JobsRaise
  <2>1. UNCHANGED <<snapshots, seen, told, tracking>>
    BY <1>5 DEF MorningPass, EveningPass, SleepTillWindow, WakeUp, PassDone, Scan, Restart, Store, ReadFails,
       JobsRaise, diffVars
  <2>2. spc \notin {"compare", "alert"} /\ spc' \notin {"compare", "alert"}
    BY <1>5 DEF MorningPass, EveningPass, SleepTillWindow, WakeUp, PassDone, Scan, Restart, StartPass, Sleep,
       NextSource, Store, ReadFails, JobsRaise
  <2>3. QED
    BY <2>1, <2>2
<1>6. CASE UNCHANGED causelistVars
  BY <1>6 DEF causelistVars
<1>7. QED
  BY <1>1, <1>2, <1>3, <1>4, <1>5, <1>6 DEF CauselistNext

\* The last snapshot.
LatestOf(f) == CHOOSE d \in DOMAIN f : \A e \in DOMAIN f : e <= d
RowOf(f) == IF DOMAIN f = {} THEN NoRow ELSE f[LatestOf(f)]

LEMMA RowOfIs ==
  ASSUME NEW f, DOMAIN f \subseteq Nat, NEW d \in DOMAIN f, \A e \in DOMAIN f : e <= d
  PROVE  RowOf(f) = f[d]
<1>1. LatestOf(f) \in DOMAIN f /\ \A e \in DOMAIN f : e <= LatestOf(f)
  BY DEF LatestOf
<1> DEFINE l == LatestOf(f)
<1>2. l \in Nat /\ d \in Nat /\ l <= d /\ d <= l
  BY <1>1
<1> HIDE DEF l
<1>3. l = d
  BY <1>2
<1>4. QED
  BY <1>3 DEF l, RowOf

LEMMA LastRowIs == LastRow = RowOf(snapshots) /\ LastRow' = RowOf(snapshots')
BY DEF LastRow, LastDate, RowOf, LatestOf

LEMMA RowsAreRows ==
  ASSUME StoredInv, NEW d \in Dates PROVE RowsOfDate(d) \subseteq AllRows /\ FirstRows(d) \subseteq RowsOfDate(d)
<1>1. ASSUME NEW s \in Sources PROVE OfCase(rows[<<s, d>>]) \subseteq AllRows
  BY DEF StoredInv, OfCase
<1>2. QED
  BY <1>1 DEF RowsOfDate, FirstRows

\* The snapshot of a target date is the last one, and has the row that was read.
LEMMA UpsertIs ==
  ASSUME ScheduleInv, SnapshotsInv, DiffInv, spc = "compare", upsert_snapshot
  PROVE  /\ seen.row \in AllRows /\ LastRow' = seen.row
         /\ DOMAIN snapshots' \subseteq Dates
         /\ \A d \in DOMAIN snapshots' : snapshots'[d] \in AllRows /\ d <= Bound /\ d <= run.target
         /\ Unchanged => LastRow = seen.row
<1> DEFINE d == run.target
           r == seen.row
<1>1. d \in Dates /\ d <= Bound /\ r \in AllRows /\ spc \in Running
  BY DEF ScheduleInv, DiffInv, Running
<1>2. d \in Nat /\ Dates \subseteq Nat /\ Bound \in Nat
  BY <1>1, BoundType DEF ScheduleInv
<1>3. DOMAIN snapshots \subseteq Dates /\ \A e \in DOMAIN snapshots : snapshots[e] \in AllRows /\ e <= Bound /\ e <= d
  BY <1>1 DEF SnapshotsInv
<1>4. upsert_snapshot /\ Unchanged = (d \in DOMAIN snapshots /\ snapshots[d] = r)
  BY DEF Unchanged
<1>5. d <= d
  BY <1>2
<1>6. CASE d \in DOMAIN snapshots /\ snapshots[d] = r
  <2>1. snapshots' = snapshots
    BY <1>4, <1>6 DEF upsert_snapshot
  <2> HIDE DEF d, r
  <2>2. RowOf(snapshots) = r
    BY <1>2, <1>3, <1>6, RowOfIs
  <2>3. QED
    BY <1>1, <1>3, <2>1, <2>2, LastRowIs DEF r, d
<1>7. CASE ~ (d \in DOMAIN snapshots /\ snapshots[d] = r)
  <2> DEFINE f == [e \in DOMAIN snapshots \cup {d} |-> IF e = d THEN r ELSE snapshots[e]]
  <2>1. snapshots' = f
    BY <1>4, <1>7 DEF upsert_snapshot
  <2>2. DOMAIN f = DOMAIN snapshots \cup {d} /\ f[d] = r /\ \A e \in DOMAIN snapshots : e # d => f[e] = snapshots[e]
    OBVIOUS
  <2> HIDE DEF f, d, r
  <2>4. DOMAIN f \subseteq Dates /\ \A e \in DOMAIN f : f[e] \in AllRows /\ e <= Bound /\ e <= d
    BY <1>1, <1>3, <1>5, <2>2
  <2>5. RowOf(f) = r
    BY <1>2, <2>2, <2>4, RowOfIs
  <2>6. ~ Unchanged
    BY <1>4, <1>7
  <2>7. QED
    BY <1>1, <2>1, <2>4, <2>5, <2>6, LastRowIs DEF r, d
<1>8. QED
  BY <1>6, <1>7

LEMMA SnapshotsNext ==
  ASSUME ScheduleInv, SnapshotsInv, DiffInv, [CauselistNext]_causelistVars
  PROVE  SnapshotsInv'
<1>1. Bound <= Bound' /\ Bound \in Nat /\ Bound' \in Nat
  BY BoundNext
<1>2. Dates \subseteq Nat
  BY BoundType DEF ScheduleInv
<1>3. CASE UNCHANGED snapshots
  <2>1. ASSUME NEW d \in DOMAIN snapshots
        PROVE  d <= Bound' /\ (spc' \in Running => d <= run'.target)
    <3>1. d <= Bound /\ d \in Nat /\ (spc \in Running => d <= run.target)
      BY <1>2 DEF SnapshotsInv
    <3>2. d <= Bound'
      BY <1>1, <3>1
    <3>3. spc' \in Running => d <= run'.target
      BY <3>1, PassStep
    <3>4. QED
      BY <3>2, <3>3
  <2>2. QED
    BY <1>3, <2>1 DEF SnapshotsInv
<1>4. CASE spc = "compare" /\ upsert_snapshot /\ UNCHANGED <<now, run>>
  <2>1. Bound' = Bound
    BY <1>4, NowStays
  <2>2. QED
    BY <1>4, <2>1, UpsertIs DEF SnapshotsInv
<1>5. CASE ReadRow \/ (\E u \in Trackers : ChangeAlert(u)) \/ SchedulerDies
  BY <1>3, <1>5 DEF ReadRow, ChangeAlert, SchedulerDies
<1>6. CASE Compare
  BY <1>4, <1>6 DEF Compare
<1>7. CASE CompareFails
  BY <1>3, <1>4, <1>7 DEF CompareFails
<1>8. QED
  BY <1>3, <1>5, <1>6, <1>7, DiffStep

\* Who was missed stays excused: neither failures nor notifications are taken back.
LEMMA ExcusesStay ==
  ASSUME faults \in 0 .. MaxFaults, tracking \subseteq Trackers, [CauselistNext]_causelistVars
  PROVE  logged \subseteq logged' /\ (faults > 0 => faults' > 0)
<1>f. Fault => faults' > 0
  BY FaultIs
<1>c. ASSUME NEW set, IsFiniteSet(set), faults + Cardinality(set) <= MaxFaults, faults' = faults + Cardinality(set)
      PROVE  faults > 0 => faults' > 0
  <2>1. faults' >= faults /\ faults' \in 0 .. MaxFaults
    BY <1>c, FaultsAre
  <2>2. MaxFaults \in Nat
    BY CauselistAssumption
  <2>3. QED
    BY <2>1, <2>2
<1>1. ASSUME NEW u \in Trackers, Track(u) \/ ChangeAlert(u) PROVE logged \subseteq logged' /\ (faults > 0 => faults' > 0)
  BY <1>1, <1>f DEF Track, ChangeAlert, diffVars
<1>2. ASSUME NEW s \in Sources, FetchList(s) \/ FetchFails(s) \/ \E d \in Dates : BackfillFetch(s, d) \/ \E l \in Lists : Publish(s, d, l)
      PROVE  UNCHANGED <<logged, faults>>
  BY <1>2 DEF FetchList, FetchFails, BackfillFetch, Publish, diffVars
<1>3. CASE \/ Tick \/ MorningPass \/ SleepTillWindow \/ WakeUp \/ PassDone \/ Store \/ ReadRow \/ Compare \/ Restart
           \/ BackfillStarts \/ BackfillStore
  BY <1>3 DEF Tick, MorningPass, SleepTillWindow, WakeUp, PassDone, Store, ReadRow, Compare, Restart,
     BackfillStarts, BackfillStore, diffVars
<1>4. CASE ReadFails \/ JobsRaise \/ CompareFails \/ SchedulerDies \/ BackfillDies
  BY <1>4, <1>f DEF ReadFails, JobsRaise, CompareFails, SchedulerDies, BackfillDies, diffVars
<1>5. CASE EveningPass
  <2>1. UNCHANGED logged
    BY <1>5 DEF EveningPass, diffVars
  <2>2. PICK failing \in SUBSET Sources : faults + Cardinality(failing) <= MaxFaults /\ faults' = faults + Cardinality(failing)
    BY <1>5 DEF EveningPass, PendingAfterFaults
  <2>3. IsFiniteSet(failing)
    BY SourcesFinite, FS_Subset
  <2>4. QED
    BY <1>c, <2>1, <2>2, <2>3
<1>6. CASE Scan
  <2>1. logged \subseteq logged'
    BY <1>6 DEF Scan
  <2>2. PICK failing \in SUBSET tracking : faults + Cardinality(failing) <= MaxFaults /\ faults' = faults + Cardinality(failing)
    BY <1>6 DEF Scan
  <2>3. IsFiniteSet(failing)
    BY CauselistAssumption, FS_Subset
  <2>4. QED
    BY <1>c, <2>1, <2>2, <2>3
<1>7. CASE UNCHANGED causelistVars
  BY <1>7 DEF causelistVars
<1>8. QED
  BY <1>1, <1>2, <1>3, <1>4, <1>5, <1>6, <1>7 DEF CauselistNext

LEMMA ExcusedStays ==
  ASSUME ScheduleInv, UsersInv, [CauselistNext]_causelistVars, NEW u \in Trackers, Excused(u)
  PROVE  Excused(u)'
<1>1. logged \subseteq logged' /\ (faults > 0 => faults' > 0)
  BY ExcusesStay DEF ScheduleInv, UsersInv
<1>2. QED
  BY <1>1 DEF Excused

LEMMA NothingSeenIs == NothingSeen \in SeenRow /\ NothingSeen.users = {}
BY DEF NothingSeen, SeenRow

LEMMA CompareKeeps ==
  ASSUME ScheduleInv, SnapshotsInv, UsersInv, DiffInv, Compare PROVE UsersInv' /\ DiffInv'
<1>1. seen.row \in AllRows /\ LastRow' = seen.row /\ (Unchanged => LastRow = seen.row)
  BY UpsertIs DEF Compare
<1>2. spc = "compare" /\ UNCHANGED tracking
  BY DEF Compare
<1>3. /\ \A u \in Trackers : told[u] \in {NoRow, Missed, LastRow} /\ (told[u] # NoRow => u \in seen.users)
      /\ seen \in SeenRow /\ seen.users \subseteq tracking
      /\ told \in [Trackers -> ToldRow] /\ tracking \subseteq Trackers
  BY <1>2 DEF DiffInv, UsersInv
<1>4. NoRow \notin AllRows /\ Missed \notin AllRows
  BY NothingAssumption
<1> DEFINE quiet == LastRow = NoRow \/ Unchanged \/ LastRow = seen.row
<1>5. /\ spc' = (IF quiet THEN "scan" ELSE "alert") /\ seen' = (IF quiet THEN NothingSeen ELSE seen)
      /\ told' = [u \in Trackers |-> IF u \in seen.users /\ LastRow = NoRow THEN seen.row ELSE told[u]]
  BY DEF Compare
<1>6. seen' \in SeenRow /\ seen'.users \subseteq seen.users
  BY <1>3, <1>5, NothingSeenIs
<1>7. /\ told' \in [Trackers -> ToldRow]
      /\ \A u \in Trackers : told'[u] # NoRow => u \in seen.users
      /\ \A u \in Trackers : told'[u] = Missed => told[u] = Missed
  BY <1>1, <1>3, <1>4, <1>5 DEF ToldRow
<1>8. UsersInv'
  BY <1>2, <1>3, <1>6, <1>7 DEF UsersInv
<1>9. \A u \in Trackers : told'[u] = Missed => Excused(u)'
  <2>1. [CauselistNext]_causelistVars
    BY DEF CauselistNext
  <2>2. QED
    BY <1>7, <2>1, ExcusedStays DEF DiffInv
<1>10. CASE quiet
  <2>1. \A u \in Trackers : told'[u] \in {NoRow, Missed, seen.row}
    BY <1>1, <1>3, <1>5, <1>10
  <2>2. spc' = "scan"
    BY <1>5, <1>10
  <2>3. QED
    BY <1>1, <1>8, <1>9, <2>1, <2>2 DEF DiffInv
<1>11. CASE ~ quiet
  <2>1. spc' = "alert" /\ seen' = seen
    BY <1>5, <1>11
  <2>2. \A u \in Trackers \ seen.users : told'[u] = NoRow
    BY <1>7
  <2>3. QED
    BY <1>1, <1>8, <1>9, <2>1, <2>2 DEF DiffInv
<1>12. QED
  BY <1>10, <1>11

LEMMA DiffNext ==
  ASSUME ScheduleInv, StoredInv, SnapshotsInv, UsersInv, DiffInv, [CauselistNext]_causelistVars
  PROVE  UsersInv' /\ DiffInv'
<1>l. UNCHANGED snapshots => LastRow' = LastRow
  BY LastRowIs
<1>e. \A u \in Trackers : Excused(u) => Excused(u)'
  BY ExcusedStays
<1>1. CASE /\ UNCHANGED <<snapshots, seen, told>> /\ tracking \subseteq tracking' /\ tracking' \subseteq tracking \cup Trackers
           /\ spc' = spc \/ (spc \notin {"compare", "alert"} /\ spc' \notin {"compare", "alert"})
  <2>1. UsersInv'
    BY <1>1 DEF UsersInv
  <2>2. DiffInv'
    BY <1>1, <1>l, <1>e DEF DiffInv
  <2>3. QED
    BY <2>1, <2>2
<1>2. CASE ReadRow
  <2>1. spc = "read" /\ UNCHANGED <<snapshots, told, tracking>>
    BY <1>2 DEF ReadRow
  <2>2. \A u \in Trackers : told[u] \in {NoRow, Missed, LastRow} /\ (told[u] # NoRow => u \in tracking)
    BY <2>1 DEF DiffInv, UsersInv
  <2>3. CASE spc' = "scan" /\ UNCHANGED seen
    <3>1. UsersInv'
      BY <2>1, <2>3 DEF UsersInv
    <3>2. DiffInv'
      BY <1>l, <1>e, <2>1, <2>2, <2>3 DEF DiffInv
    <3>3. QED
      BY <3>1, <3>2
  <2>4. CASE /\ spc' = "compare"
             /\ \E r \in FirstRows(run.target) : seen' = [row |-> r, users |-> tracking]
    <3>1. PICK r \in FirstRows(run.target) : seen' = [row |-> r, users |-> tracking]
      BY <2>4
    <3>2. run.target \in Dates
      BY <2>1 DEF ScheduleInv, Running
    <3>3. r \in AllRows
      BY <3>1, <3>2, RowsAreRows
    <3>4. tracking \subseteq Trackers
      BY DEF UsersInv
    <3>5. seen' \in SeenRow /\ seen'.users = tracking /\ seen'.row \in AllRows
      BY <3>1, <3>3, <3>4 DEF SeenRow
    <3>6. UsersInv'
      BY <2>1, <3>5 DEF UsersInv
    <3>7. DiffInv'
      BY <1>l, <1>e, <2>1, <2>2, <2>4, <3>5 DEF DiffInv
    <3>8. QED
      BY <3>6, <3>7
  <2>5. QED
    BY <1>2, <2>3, <2>4 DEF ReadRow
<1>3. CASE Compare
  BY <1>3, CompareKeeps
<1>4. CASE CompareFails
  <2>1. /\ UNCHANGED tracking /\ spc' = "scan" /\ seen' = NothingSeen /\ Fault
        /\ told' = [u \in Trackers |-> IF told[u] \in {NoRow, LastRow'} THEN told[u] ELSE Missed]
    BY <1>4 DEF CompareFails
  <2>2. faults' > 0
    BY <2>1, FaultIs DEF ScheduleInv
  <2>3. told' \in [Trackers -> ToldRow] /\ \A u \in Trackers : told'[u] # NoRow => u \in tracking
    BY <2>1 DEF UsersInv, ToldRow
  <2>4. UsersInv'
    BY <2>1, <2>3, NothingSeenIs DEF UsersInv
  <2>5. \A u \in Trackers : told'[u] \in {NoRow, Missed, LastRow'} /\ Excused(u)'
    BY <2>1, <2>2 DEF Excused
  <2>6. DiffInv'
    BY <2>1, <2>5 DEF DiffInv
  <2>7. QED
    BY <2>4, <2>6
<1>5. ASSUME NEW u \in Trackers, ChangeAlert(u) PROVE UsersInv' /\ DiffInv'
  <2> DEFINE rest == seen.users \ {u}
  <2>1. /\ spc = "alert" /\ u \in seen.users /\ UNCHANGED <<snapshots, tracking>>
        /\ spc' = (IF seen.users = {u} THEN "scan" ELSE "alert")
        /\ seen' = (IF seen.users = {u} THEN NothingSeen ELSE [seen EXCEPT !.users = rest])
    BY <1>5 DEF ChangeAlert
  <2>2. PICK x \in {Missed, seen.row} : told' = [told EXCEPT ![u] = x] /\ (x = Missed => Excused(u)')
    <3>1. CASE /\ logged' = logged \cup {Key(u, "status_changed")}
               /\ told' = [told EXCEPT ![u] = IF Key(u, "status_changed") \in logged THEN Missed ELSE seen.row]
      <4>1. Key(u, "status_changed") \in logged'
        BY <3>1
      <4>2. Key(u, "status_changed").user = u /\ Key(u, "status_changed").trigger = "status_changed"
        BY DEF Key
      <4>3. Excused(u)'
        BY <4>1, <4>2 DEF Excused
      <4>4. QED
        BY <3>1, <4>3
    <3>2. CASE Fault /\ told' = [told EXCEPT ![u] = Missed]
      <4>1. faults' > 0
        BY <3>2, FaultIs DEF ScheduleInv
      <4>2. QED
        BY <3>2, <4>1 DEF Excused
    <3>3. QED
      BY <1>5, <3>1, <3>2 DEF ChangeAlert
  <2>4. /\ seen.row \in AllRows /\ LastRow = seen.row
        /\ \A v \in Trackers \ seen.users : told[v] \in {NoRow, Missed, seen.row}
        /\ \A v \in Trackers : told[v] = Missed => Excused(v)
    BY <2>1 DEF DiffInv
  <2>5. /\ seen \in SeenRow /\ seen.users \subseteq tracking
        /\ told \in [Trackers -> ToldRow] /\ tracking \subseteq Trackers
        /\ \A v \in Trackers : told[v] # NoRow => v \in tracking
    BY DEF UsersInv
  <2>6. seen' \in SeenRow /\ seen'.users \subseteq seen.users
    BY <2>1, <2>5, NothingSeenIs DEF SeenRow
  <2>7. /\ told' \in [Trackers -> ToldRow] /\ told'[u] = x
        /\ \A v \in Trackers : v # u => told'[v] = told[v]
    BY <2>2, <2>4, <2>5 DEF ToldRow
  <2>8. UsersInv'
    BY <2>1, <2>5, <2>6, <2>7 DEF UsersInv
  <2>9. \A v \in Trackers \ rest : told'[v] \in {NoRow, Missed, seen.row}
    BY <2>2, <2>4, <2>7
  <2>10. \A v \in Trackers : told'[v] = Missed => Excused(v)'
    BY <1>e, <2>2, <2>4, <2>7
  <2>11. CASE seen.users = {u}
    <3>1. spc' = "scan" /\ rest = {}
      BY <2>1, <2>11
    <3>2. \A v \in Trackers : told'[v] \in {NoRow, Missed, LastRow'}
      BY <1>l, <2>1, <2>4, <2>9, <3>1
    <3>3. DiffInv'
      BY <2>10, <3>1, <3>2 DEF DiffInv
    <3>4. QED
      BY <2>8, <3>3
  <2>12. CASE seen.users # {u}
    <3>1. spc' = "alert" /\ seen'.users = rest /\ seen'.row = seen.row
      BY <2>1, <2>5, <2>12 DEF SeenRow
    <3>2. DiffInv'
      BY <1>l, <2>1, <2>4, <2>9, <2>10, <3>1 DEF DiffInv
    <3>3. QED
      BY <2>8, <3>2
  <2>13. QED
    BY <2>11, <2>12
<1>6. CASE SchedulerDies
  <2>1. /\ spc' = "dead" /\ UNCHANGED <<snapshots, tracking>> /\ seen' = NothingSeen /\ Fault
        /\ told' = [u \in Trackers |-> IF spc = "alert" /\ u \in seen.users THEN Missed ELSE told[u]]
    BY <1>6 DEF SchedulerDies
  <2>2. /\ told' \in [Trackers -> ToldRow] /\ \A v \in Trackers : told'[v] # NoRow => v \in tracking
    BY <2>1 DEF UsersInv, ToldRow
  <2>3. UsersInv'
    BY <2>1, <2>2, NothingSeenIs DEF UsersInv
  <2>4. \A v \in Trackers : told'[v] \in {NoRow, Missed, LastRow}
    BY <2>1 DEF DiffInv
  <2>5. faults' > 0
    BY <2>1, FaultIs DEF ScheduleInv
  <2>6. DiffInv'
    BY <1>l, <2>1, <2>4, <2>5 DEF DiffInv, Excused
  <2>7. QED
    BY <2>3, <2>6
<1>7. QED
  BY <1>1, <1>2, <1>3, <1>4, <1>5, <1>6, DiffStep

-----------------------------------------------------------------------------
(* Causelist: who is to be told of a list.                                 *)

\* What the scheduler has in hand is a list of the source it is at.
LEMMA AtHand ==
  ASSUME ScheduleInv, [CauselistNext]_causelistVars, spc' = "store"
  PROVE  \/ spc = "store" /\ UNCHANGED <<fetched, run>>
         \/ fetched'.source = run'.source
<1>1. ASSUME NEW u \in Trackers, Track(u) PROVE spc = "store" /\ UNCHANGED <<fetched, run>>
  BY <1>1 DEF Track, scheduleVars
<1>2. ASSUME NEW s \in Sources, NEW d \in Dates, BackfillFetch(s, d) \/ \E l \in Lists : Publish(s, d, l)
      PROVE  spc = "store" /\ UNCHANGED <<fetched, run>>
  BY <1>2 DEF BackfillFetch, Publish, scheduleVars
<1>3. CASE Tick \/ BackfillStarts \/ BackfillStore \/ BackfillDies
  BY <1>3 DEF Tick, BackfillStarts, BackfillStore, BackfillDies, scheduleVars
<1>4. ASSUME NEW s \in Sources, FetchList(s) PROVE fetched'.source = run'.source
  <2>1. run \in RunRow
    BY DEF ScheduleInv
  <2> DEFINE todo == run.todo \ {s}
             at == StoredUnder[<<s, run.target>>]
  <2>2. run' = [run EXCEPT !.todo = todo, !.source = s] /\ fetched' = Fetched(s, at)
    BY <1>4 DEF FetchList
  <2> HIDE DEF todo, at
  <2>3. run'.source = s
    BY <2>1, <2>2 DEF RunRow
  <2>4. QED
    BY <2>2, <2>3 DEF Fetched
<1>5. ASSUME NEW s \in Sources, FetchFails(s) PROVE FALSE
  BY <1>5 DEF FetchFails
<1>6. ASSUME NEW u \in Trackers, ChangeAlert(u) PROVE FALSE
  BY <1>6 DEF ChangeAlert
<1>7. CASE \/ MorningPass \/ EveningPass \/ SleepTillWindow \/ WakeUp \/ PassDone \/ Scan \/ SchedulerDies \/ Restart
           \/ Store \/ ReadRow \/ ReadFails \/ JobsRaise \/ Compare \/ CompareFails
  BY <1>7 DEF MorningPass, EveningPass, SleepTillWindow, WakeUp, PassDone, Scan, SchedulerDies, Restart, Store,
     ReadRow, ReadFails, JobsRaise, Compare, CompareFails, StartPass, Sleep, NextSource
<1>8. CASE UNCHANGED causelistVars
  BY <1>8 DEF causelistVars
<1>9. QED
  BY <1>1, <1>2, <1>3, <1>4, <1>5, <1>6, <1>7, <1>8 DEF CauselistNext

\* Who is to be told is settled when a list is stored, and dropped when the scheduler leaves
\* it, or the backfill writes another one over it.
LEMMA ListedStep ==
  ASSUME [CauselistNext]_causelistVars
  PROVE  \/ UNCHANGED <<listed, stored, run>> /\ tracking \subseteq tracking' /\ (spc \in Storing <=> spc' \in Storing)
         \/ UNCHANGED listed /\ spc \notin Storing /\ spc' \notin Storing
         \/ listed' = {}
         \/ Store \/ BackfillStore
<1>1. ASSUME NEW u \in Trackers, Track(u)
      PROVE  UNCHANGED <<listed, stored, run, spc>> /\ tracking \subseteq tracking'
  BY <1>1 DEF Track, scheduleVars, diffVars, listVars
<1>2. ASSUME NEW s \in Sources, NEW d \in Dates, BackfillFetch(s, d) \/ \E l \in Lists : Publish(s, d, l)
      PROVE  UNCHANGED <<listed, stored, run, spc, tracking>>
  BY <1>2 DEF BackfillFetch, Publish, scheduleVars, diffVars, listVars
<1>3. CASE Tick \/ BackfillStarts \/ BackfillDies
  BY <1>3 DEF Tick, BackfillStarts, BackfillDies, scheduleVars, diffVars, listVars
<1>4. ASSUME NEW s \in Sources, FetchList(s) \/ FetchFails(s)
      PROVE  UNCHANGED listed /\ spc \notin Storing /\ spc' \notin Storing
  BY <1>4 DEF FetchList, FetchFails, Fetching, diffVars, Storing
<1>5. CASE MorningPass \/ EveningPass \/ SleepTillWindow \/ WakeUp \/ PassDone \/ Restart
  <2>1. UNCHANGED listed
    BY <1>5 DEF MorningPass, EveningPass, SleepTillWindow, WakeUp, PassDone, Restart, diffVars
  <2>2. spc \notin Storing /\ spc' \notin Storing
    BY <1>5 DEF MorningPass, EveningPass, SleepTillWindow, WakeUp, PassDone, Restart, StartPass, Sleep, Storing
  <2>3. QED
    BY <2>1, <2>2
<1>6. CASE Scan \/ JobsRaise \/ SchedulerDies
  BY <1>6 DEF Scan, JobsRaise, SchedulerDies
<1>7. CASE ReadRow \/ ReadFails \/ Compare \/ CompareFails \/ \E u \in Trackers : ChangeAlert(u)
  BY <1>7 DEF ReadRow, ReadFails, Compare, CompareFails, ChangeAlert, diffVars, listVars, Storing
<1>8. CASE UNCHANGED causelistVars
  BY <1>8 DEF causelistVars
<1>9. QED
  BY <1>1, <1>2, <1>3, <1>4, <1>5, <1>6, <1>7, <1>8 DEF CauselistNext

LEMMA ListedNext ==
  ASSUME CauselistInv, [CauselistNext]_causelistVars PROVE ListedInv'
<1>0. ScheduleInv /\ PublishedInv /\ InHandInv /\ StoredInv /\ UsersInv /\ ListedInv /\ FetchedHere
  BY DEF CauselistInv, DueInv
<1>1. CASE UNCHANGED <<listed, stored, run>> /\ tracking \subseteq tracking' /\ (spc \in Storing <=> spc' \in Storing)
  BY <1>0, <1>1 DEF ListedInv
<1>2. CASE (UNCHANGED listed /\ spc \notin Storing /\ spc' \notin Storing) \/ listed' = {}
  <2>1. listed' = {}
    BY <1>0, <1>2 DEF ListedInv
  <2>2. QED
    BY <2>1 DEF ListedInv
<1>3. CASE Store
  <2> DEFINE l == fetched.list
             x == <<fetched.source, fetched.date>>
  <2>1. /\ Held(fetched) /\ store_causelist(fetched, job) /\ fetched.source = run.source
        /\ UNCHANGED <<published, run, tracking>> /\ spc' = "read"
        /\ listed' = IF fetched.date = run.target /\ OfCase(Surviving(l)) # {} THEN tracking ELSE {}
    BY <1>0, <1>3 DEF Store, InHandInv, FetchedHere
  <2>2. stored'[x].list = l /\ l \in Lists
    BY <1>0, <2>1, StoreIs
  <2>3. CASE fetched.date = run.target /\ OfCase(Surviving(l)) # {}
    <3>1. <<run.source, run.target>>' = x
      BY <2>1, <2>3
    <3> HIDE DEF l, x
    <3>2. spc' \in Storing /\ listed' \subseteq tracking'
      BY <2>1 DEF Storing
    <3>4. stored'[<<run.source, run.target>>'].list \in Lists /\ OfCase(Surviving(stored'[<<run.source, run.target>>'].list)) # {}
      BY <2>2, <2>3, <3>1
    <3>5. QED
      BY <3>2, <3>4 DEF ListedInv
  <2>4. CASE ~ (fetched.date = run.target /\ OfCase(Surviving(l)) # {})
    <3>1. listed' = {}
      BY <2>1, <2>4
    <3>2. QED
      BY <3>1 DEF ListedInv
  <2>5. QED
    BY <2>3, <2>4
<1>4. CASE BackfillStore
  <2> DEFINE x == <<job.source, job.date>>
             y == <<run.source, run.target>>
  <2>1. /\ Held(job) /\ store_causelist(job, fetched)
        /\ UNCHANGED <<published, run, spc, tracking>>
        /\ listed' = IF x = y /\ stored[x].list # job.list THEN {} ELSE listed
    BY <1>0, <1>4 DEF BackfillStore, InHandInv, scheduleVars
  <2>2. stored'[x].list = job.list /\ \A z \in Sources \X Dates : z # x => stored'[z] = stored[z]
    BY <1>0, <2>1, StoreIs
  <2>3. SUFFICES ASSUME listed' # {} PROVE ListedInv'
    BY DEF ListedInv
  <2>4. listed' = listed /\ listed # {} /\ ~ (x = y /\ stored[x].list # job.list)
    BY <2>1, <2>3
  <2>5. spc \in Storing /\ y \in Sources \X Dates /\ y' = y
    BY <1>0, <2>1, <2>4 DEF ListedInv, ScheduleInv, Storing, Running
  <2> HIDE DEF x
  <2>6. stored'[y].list = stored[y].list
    BY <2>2, <2>4, <2>5
  <2>7. QED
    BY <1>0, <2>1, <2>4, <2>5, <2>6 DEF ListedInv
<1>5. QED
  BY <1>1, <1>2, <1>3, <1>4, ListedStep

\* Keys are not taken back, and only the scan has somebody told.
LEMMA DueStep ==
  ASSUME [CauselistNext]_causelistVars PROVE due' = due \/ Scan
<1>1. ASSUME NEW u \in Trackers, Track(u) \/ ChangeAlert(u) PROVE due' = due
  BY <1>1 DEF Track, ChangeAlert, diffVars
<1>2. ASSUME NEW s \in Sources, FetchList(s) \/ FetchFails(s) \/ \E d \in Dates : BackfillFetch(s, d) \/ \E l \in Lists : Publish(s, d, l)
      PROVE  due' = due
  BY <1>2 DEF FetchList, FetchFails, BackfillFetch, Publish, diffVars
<1>3. CASE \/ Tick \/ MorningPass \/ EveningPass \/ SleepTillWindow \/ WakeUp \/ PassDone \/ Store \/ ReadRow
           \/ ReadFails \/ JobsRaise \/ Compare \/ CompareFails \/ SchedulerDies \/ Restart
           \/ BackfillStarts \/ BackfillStore \/ BackfillDies
  BY <1>3 DEF Tick, MorningPass, EveningPass, SleepTillWindow, WakeUp, PassDone, Store, ReadRow, ReadFails,
     JobsRaise, Compare, CompareFails, SchedulerDies, Restart, BackfillStarts, BackfillStore, BackfillDies, diffVars
<1>4. CASE UNCHANGED causelistVars
  BY <1>4 DEF causelistVars
<1>5. QED
  BY <1>1, <1>2, <1>3, <1>4 DEF CauselistNext

LEMMA ScanDue ==
  ASSUME CauselistInv, Scan PROVE \A x \in due' : AlertKey(x) \in logged'
<1>0. ScheduleInv /\ StoredInv /\ ListedInv /\ \A x \in due : AlertKey(x) \in logged
  BY DEF CauselistInv, DueInv
<1> DEFINE d == run.target
           them == IF RowsOfDate(d) = {} THEN {} ELSE tracking
           y == <<run.source, d>>
<1>1. PICK failing \in SUBSET them :
        /\ logged' = logged \cup {Key(u, "case_in_causelist") : u \in them \ failing}
        /\ due' = due \cup {[user |-> u, day |-> Today] : u \in listed \ failing}
  BY DEF Scan
<1>2. listed \subseteq them
  <2>1. SUFFICES ASSUME listed # {} PROVE RowsOfDate(d) # {}
    BY <1>0 DEF ListedInv
  <2>2. spc \in Storing /\ run.source \in Sources /\ d \in Dates
    BY <1>0, <2>1 DEF ListedInv, ScheduleInv, Storing, Running
  <2>3. OfCase(Surviving(stored[y].list)) # {}
    BY <1>0, <2>1 DEF ListedInv
  <2>4. Surviving(stored[y].list) \subseteq rows[y]
    BY <1>0, <2>2, RowsFollowListIs DEF StoredInv, Follow
  <2>5. OfCase(rows[y]) # {}
    BY <2>3, <2>4 DEF OfCase
  <2>6. QED
    BY <2>2, <2>5 DEF RowsOfDate
<1>3. \A u : AlertKey([user |-> u, day |-> Today]) = Key(u, "case_in_causelist")
  BY DEF AlertKey, Key
<1> HIDE DEF them
<1>4. QED
  BY <1>0, <1>1, <1>2, <1>3

LEMMA DueNext ==
  ASSUME CauselistInv, [CauselistNext]_causelistVars PROVE DueInv'
<1>0. ScheduleInv /\ UsersInv /\ FetchedHere /\ \A x \in due : AlertKey(x) \in logged
  BY DEF CauselistInv, DueInv
<1>1. ListedInv'
  BY ListedNext
<1>2. FetchedHere'
  BY <1>0, AtHand DEF FetchedHere
<1>3. logged \subseteq logged'
  BY <1>0, ExcusesStay DEF ScheduleInv, UsersInv
<1>4. \A x \in due' : AlertKey(x) \in logged'
  BY <1>0, <1>3, DueStep, ScanDue
<1>5. \A x \in due' : AlertKey(x)' = AlertKey(x)
  BY DEF AlertKey
<1>6. QED
  BY <1>1, <1>2, <1>4 DEF DueInv, AlertKey

-----------------------------------------------------------------------------
(* Causelist: the invariant, and what it means.                            *)

LEMMA CauselistInvInit ==
  ASSUME CauselistInit PROVE CauselistInv
<1>0. MaxFaults \in Nat /\ MaxPublications \in Nat /\ StartTimes \subseteq 0 .. LastTime
  BY CauselistAssumption
<1>n. 0 \in 0 .. MaxFaults /\ 0 \in 0 .. MaxPublications /\ 0 <= 0
  BY <1>0
<1>1. ScheduleInv
  <2>1. now \in 0 .. LastTime
    BY <1>0 DEF CauselistInit
  <2>2. spc = "wake" /\ run = IdleRun /\ alarm = 0 /\ morning_rescraped_date = NoDate /\ faults = 0
    BY DEF CauselistInit
  <2>3. QED
    BY <1>n, <2>1, <2>2, IdleRunType DEF ScheduleInv, Running, Storing
<1>2. PublishedInv
  <2>2. published = [x \in Sources \X Dates |-> [version |-> 0, list |-> NoJob]] /\ publications = 0
    BY DEF CauselistInit
  <2>3. QED
    BY <1>n, <2>2 DEF PublishedInv
<1>3. InHandInv
  BY DEF CauselistInit, InHandInv
<1>4. StoredInv
  <2>2. /\ rows = [x \in Sources \X Dates |-> {}] /\ benches = [x \in Sources \X Dates |-> {}]
        /\ stored = [x \in Sources \X Dates |-> NoList]
    BY DEF CauselistInit
  <2>3. /\ NoList.version = 0 /\ NoList.newest = 0 /\ NoList.list = << >> /\ NoList \in StoredRow
    BY <1>n DEF NoList, StoredRow
  <2>4. stored \in [Sources \X Dates -> StoredRow]
    BY <2>2, <2>3
  <2>5. Follow({}, << >>)
    <3>1. DOMAIN << >> = {}
      OBVIOUS
    <3>2. Positions(<< >>) = {}
      BY <3>1 DEF Positions
    <3>3. Surviving(<< >>) = {}
      BY <3>2 DEF Surviving
    <3>4. QED
      BY <3>3 DEF Follow, Unique
  <2>6. RowsFollowList
    BY <2>2, <2>3, <2>5, RowsFollowListIs
  <2>7. \A x \in Sources \X Dates : stored[x].newest <= published[x].version
    BY <1>n, <2>2, <2>3 DEF CauselistInit
  <2>8. QED
    BY <2>2, <2>4, <2>6, <2>7 DEF StoredInv
<1>5. SnapshotsInv /\ LastRow = NoRow
  <2>1. snapshots = << >>
    BY DEF CauselistInit
  <2>2. DOMAIN snapshots = {}
    BY <2>1
  <2>3. QED
    BY <2>2 DEF SnapshotsInv, LastRow
<1>6. UsersInv /\ DiffInv
  <2>1. /\ tracking \subseteq Trackers /\ told = [u \in Trackers |-> NoRow] /\ seen = NothingSeen
        /\ spc = "wake"
    BY DEF CauselistInit
  <2>2. UsersInv
    BY <2>1, NothingSeenIs DEF UsersInv, ToldRow
  <2>3. DiffInv
    BY <2>1, NothingAssumption DEF DiffInv
  <2>4. QED
    BY <2>2, <2>3
<1>7. DueInv
  BY DEF CauselistInit, DueInv, ListedInv, FetchedHere
<1>8. QED
  BY <1>1, <1>2, <1>3, <1>4, <1>5, <1>6, <1>7 DEF CauselistInv

LEMMA CauselistInvNext ==
  ASSUME CauselistInv, [CauselistNext]_causelistVars PROVE CauselistInv'
<1>1. ScheduleInv'
  BY ScheduleNext DEF CauselistInv, UsersInv
<1>2. PublishedInv'
  BY PublishedNext DEF CauselistInv
<1>3. InHandInv' /\ StoredInv'
  BY InHandNext, StoredNext DEF CauselistInv
<1>4. SnapshotsInv'
  BY SnapshotsNext DEF CauselistInv
<1>5. UsersInv' /\ DiffInv'
  BY DiffNext DEF CauselistInv
<1>6. DueInv'
  BY DueNext
<1>7. QED
  BY <1>1, <1>2, <1>3, <1>4, <1>5, <1>6 DEF CauselistInv

LEMMA CauselistInvImplies ==
  ASSUME CauselistInv PROVE CauselistTypeOK /\ RowsFollowList /\ ChangesTold /\ ListedIsTold
<1>1. RowsFollowList
  BY DEF CauselistInv, StoredInv
<1>2. ChangesTold
  BY DEF CauselistInv, DiffInv, ChangesTold, Excused
<1>3. ListedIsTold
  BY DEF CauselistInv, DueInv, ListedInv, ListedIsTold, AlertKey, Storing
<1>4. CauselistTypeOK
  <2>1. ASSUME NEW x \in Sources \X Dates
        PROVE  /\ published[x].version \in 0 .. MaxPublications
               /\ rows[x] \subseteq AllRows
               /\ benches[x] \subseteq Courts
               /\ stored[x].version \in 0 .. MaxPublications
    BY DEF CauselistInv, PublishedInv, StoredInv, StoredRow
  <2>2. /\ now \in 0 .. LastTime
        /\ spc \in {"wake", "asleep", "fetch", "store", "read", "compare", "alert", "scan", "done", "dead"}
        /\ run.todo \subseteq Sources /\ run.failed \subseteq Sources
        /\ run.pass \in {"none", "morning", "evening"}
        /\ spc \in {"fetch", "store", "read", "compare", "alert", "scan"} => run.target \in Dates
        /\ alarm \in Nat
        /\ morning_rescraped_date \in Dates \cup {NoDate}
        /\ faults \in 0 .. MaxFaults
    BY DEF CauselistInv, ScheduleInv, Running, RunRow
  <2>3. DOMAIN snapshots \subseteq Dates /\ \A d \in DOMAIN snapshots : snapshots[d] \in AllRows
    BY DEF CauselistInv, SnapshotsInv
  <2>4. /\ tracking \subseteq Trackers /\ seen.users \subseteq Trackers /\ listed \subseteq Trackers
        /\ told \in [Trackers -> AllRows \cup {NoRow, Missed}]
    BY DEF CauselistInv, UsersInv, DueInv, ListedInv, ToldRow
  <2>5. publications \in 0 .. MaxPublications /\ work \subseteq ShouldRun
    BY DEF CauselistInv, PublishedInv, InHandInv
  <2>6. QED
    BY <2>1, <2>2, <2>3, <2>4, <2>5 DEF CauselistTypeOK
<1>5. QED
  BY <1>1, <1>2, <1>3, <1>4

\* For any sources, users, lists and days, and whatever the order of publications, passes and
\* backfills: the rows of a date are those the list stored last leaves, row for row of those
\* it prints, though later rows of a list are written over earlier ones, and the list stored
\* last is the newest, unless scheduler and backfill had one in hand at once.  Who knew of a
\* case's last snapshot and is not told when it changes was told something the same day, or
\* something failed.  And who tracked a case when a list with it was stored is told that
\* day, unless a step of the scan failed or the backfill wrote another list over it.
THEOREM CauselistCorrect ==
  CauselistSpec => [](CauselistTypeOK /\ RowsFollowList /\ ChangesTold /\ ListedIsTold)
<1>1. CauselistInit => CauselistInv
  BY CauselistInvInit
<1>2. CauselistInv /\ [CauselistNext]_causelistVars => CauselistInv'
  BY CauselistInvNext
<1>3. CauselistInv => CauselistTypeOK /\ RowsFollowList /\ ChangesTold /\ ListedIsTold
  BY CauselistInvImplies
<1>4. QED
  BY <1>1, <1>2, <1>3, PTL DEF CauselistSpec

-----------------------------------------------------------------------------
(* EventTrace: the parts, side by side.                                     *)

PartInv == part \in {"accounts", "contacts", "ecourts", "parser", "causelist"}

EventTraceInv ==
  PartInv /\ AccountsInv /\ ContactsInv /\ EcourtsIInv /\ ParserTypeOK /\ ParserInv /\ CauselistInv

LEMMA EventTraceInvInit == Init => EventTraceInv
<1> SUFFICES ASSUME Init PROVE EventTraceInv
  OBVIOUS
<1>1. PartInv /\ AccountsInit /\ ContactsInit /\ EcourtsInit /\ ParserInit /\ CauselistInit
  BY DEF Init, PartInv
<1>2. AccountsInv /\ ContactsInv /\ EcourtsIInv
  BY <1>1, AccountsInvInit, ContactsInvInit, EcourtsInit_IInv
<1>3. ParserTypeOK /\ ParserInv /\ CauselistInv
  BY <1>1, ParserTypeInit, ParserInvInit, CauselistInvInit
<1>4. QED
  BY <1>1, <1>2, <1>3 DEF EventTraceInv

\* A step of EventTrace is a step of each part, or leaves it alone.
LEMMA EventTraceSteps ==
  [Next]_vars =>
    /\ part' = part
    /\ [AccountsNext]_accountsVars /\ [ContactsNext]_contactsVars /\ [EcourtsNext]_ecourtsVars
    /\ [ParserNext]_parserVars /\ [CauselistNext]_causelistVars
<1>1. Next =>
        /\ part' = part
        /\ [AccountsNext]_accountsVars /\ [ContactsNext]_contactsVars /\ [EcourtsNext]_ecourtsVars
        /\ [ParserNext]_parserVars /\ [CauselistNext]_causelistVars
  BY DEF Next
<1>2. UNCHANGED vars =>
        /\ part' = part
        /\ UNCHANGED accountsVars /\ UNCHANGED contactsVars /\ UNCHANGED ecourtsVars
        /\ UNCHANGED parserVars /\ UNCHANGED causelistVars
  BY DEF vars
<1>3. QED
  BY <1>1, <1>2

LEMMA EventTraceInvNext == EventTraceInv /\ [Next]_vars => EventTraceInv'
<1> SUFFICES ASSUME EventTraceInv, [Next]_vars PROVE EventTraceInv'
  OBVIOUS
<1>1. /\ part' = part
      /\ [AccountsNext]_accountsVars /\ [ContactsNext]_contactsVars /\ [EcourtsNext]_ecourtsVars
      /\ [ParserNext]_parserVars /\ [CauselistNext]_causelistVars
  BY EventTraceSteps
<1>2. AccountsInv' /\ ContactsInv' /\ EcourtsIInv'
  BY <1>1, AccountsInvNext, ContactsInvNext, EcourtsIInvNext DEF EventTraceInv
<1>3. ParserTypeOK' /\ ParserInv' /\ CauselistInv'
  BY <1>1, ParserTypeNext, ParserInvNext, CauselistInvNext DEF EventTraceInv
<1>4. PartInv'
  BY <1>1 DEF EventTraceInv, PartInv
<1>5. QED
  BY <1>2, <1>3, <1>4 DEF EventTraceInv

\* Every part keeps its types, for any constants.
THEOREM EventTraceTypeCorrect == Spec => []TypeOK
<1>1. EventTraceInv => TypeOK
  <2>1. EventTraceInv => /\ PartInv /\ AccountsTypeOK /\ ContactsTypeOK /\ EcourtsTypeOK /\ ParserTypeOK
                         /\ CauselistTypeOK
    BY AccountsInvImplies, ContactsInvImplies, EcourtsIInvImplies, CauselistInvImplies DEF EventTraceInv
  <2>2. QED
    BY <2>1 DEF PartInv, TypeOK
<1>2. QED
  BY <1>1, EventTraceInvInit, EventTraceInvNext, PTL DEF Spec

\* The parts keep among each other what each keeps by itself: accounts, contacts, cases,
\* cause lists and their alerts, as the five theorems above say.
THEOREM EventTraceCorrect ==
  Spec => [](AccountsKept /\ ContactsKept /\ EcourtsKept /\ CasesRead /\ RowsFollowList /\ CasesAreTold)
<1>1. EventTraceInv =>
        AccountsKept /\ ContactsKept /\ EcourtsKept /\ CasesRead /\ RowsFollowList /\ CasesAreTold
  BY AccountsInvImplies, ContactsInvImplies, EcourtsIInvImplies, ParserInvBounds, CauselistInvImplies
  DEF EventTraceInv, CasesAreTold
<1>2. QED
  BY <1>1, EventTraceInvInit, EventTraceInvNext, PTL DEF Spec

=============================================================================
