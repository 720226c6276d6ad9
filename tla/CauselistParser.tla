--------------------------- MODULE CauselistParser ---------------------------
(***************************************************************************)
(* causelist_parser.parse_cases_from_block: the lines of a court's block,  *)
(* one after the other, become cases under section headings.               *)
(*                                                                         *)
(* A line is what the regular expressions make of it (Kinds); which lines  *)
(* follow each other is up to the document.  What the parser takes from a  *)
(* line is known by the line's number, 0 for nothing.  Of the list of      *)
(* cases only the last is kept: the parser reads no other.                 *)
(***************************************************************************)
EXTENDS Integers

CONSTANTS MaxLines   \* bound on the length of a block

ASSUME ParserAssumption == MaxLines \in Nat

(* "serial": a number, "with": wt and a number, "ia": an interlocutory     *)
(* application, "heading": capitals with a keyword, "wrapper": the heading *)
(* IN OFR JUDGMENT, "bracket": capitals in brackets, "annotation": a time, *)
(* PART HEARD or a date in brackets, "ref": type/number/year, "vs", and    *)
(* "text" for all others.                                                  *)
Kinds == {"serial", "with", "ia", "heading", "wrapper", "bracket", "annotation", "ref", "vs", "text"}

Headings == {"heading", "wrapper"}

VARIABLES
  line,      \* number of lines read
  section,   \* current_section and current_subsection
  open,      \* the case being read
  ahead,     \* what the next line may also be: "", "subsection" or "annotation"
  emitted,   \* the last case appended to cases
  parsed,    \* whether the end was reached
  \* history
  start,     \* last line with a serial number
  firstRef,  \* first line since with a case reference
  heading,   \* last heading
  unfinished \* headings in the middle of a case

parserVars == <<line, section, open, ahead, emitted, parsed, start, firstRef, heading, unfinished>>

NoCase ==
  [serial |-> 0, ref |-> 0, annotations |-> {}, pet_parts |-> {}, after_vs |-> FALSE,
   respondent |-> 0, advocate |-> 0, ia_numbers |-> {}, is_with_case |-> FALSE,
   parent |-> 0, due |-> 0]

NoSection == [heading |-> 0, subsection |-> 0]

Lines == 0 .. MaxLines

OpenCase ==
  [serial : Lines, ref : Lines, annotations : SUBSET Lines, pet_parts : SUBSET Lines,
   after_vs : BOOLEAN, respondent : Lines, advocate : Lines, ia_numbers : SUBSET Lines,
   is_with_case : BOOLEAN, parent : Lines, due : Lines]

SectionAt == [heading : Lines, subsection : Lines]

EmittedCase == [case : OpenCase, section : SectionAt]

ParserTypeOK ==
  /\ line \in Lines /\ start \in Lines /\ firstRef \in Lines /\ heading \in Lines
  /\ section \in SectionAt
  /\ open \in OpenCase
  /\ ahead \in {"", "subsection", "annotation"}
  /\ emitted \in EmittedCase
  /\ parsed \in BOOLEAN
  /\ unfinished \subseteq Lines

ParserInit ==
  /\ line = 0
  /\ section = NoSection
  /\ open = NoCase
  /\ ahead = ""
  /\ emitted = [case |-> NoCase, section |-> NoSection]
  /\ parsed = FALSE
  /\ start = 0 /\ firstRef = 0 /\ heading = 0 /\ unfinished = {}

-----------------------------------------------------------------------------

\* A case with a serial number and a reference is appended, any other forgotten.
FlushedCase ==
  IF open.serial # 0 /\ open.ref # 0
  THEN [case |-> open, section |-> section]
  ELSE emitted

\* Mutant: a case without a reference leaves what was read of it.
FlushKeeps(next) ==
  /\ emitted' = FlushedCase
  /\ open' = IF open.ref # 0 THEN next ELSE [open EXCEPT !.serial = next.serial, !.due = next.due]

flush(next) ==
  /\ emitted' = FlushedCase
  /\ open' = next

\* Reading the next line, of kind k.  Lines looked ahead at are dealt with first.
Read(k) ==
  /\ ~ parsed /\ line < MaxLines
  /\ ~ (ahead = "subsection" /\ k = "bracket")
  /\ ~ (ahead = "annotation" /\ k = "annotation")
  /\ line' = line + 1
  /\ parsed' = parsed

Serial(k) ==
  LET with == k = "with"
  IN
  /\ k \in {"serial", "with"}
  /\ Read(k)
  /\ flush([NoCase EXCEPT !.serial = line + 1, !.is_with_case = with,
                          !.parent = IF with THEN FlushedCase.case.serial ELSE 0,
                          !.due = heading])
  /\ ahead' = ""
  /\ start' = line + 1 /\ firstRef' = 0
  /\ UNCHANGED <<section, heading, unfinished>>

IaNumber ==
  /\ Read("ia")
  /\ ahead' = ""
  /\ open' = IF open.serial # 0 THEN [open EXCEPT !.ia_numbers = @ \cup {line + 1}] ELSE open
  /\ UNCHANGED <<section, emitted, start, firstRef, heading, unfinished>>

Finished == open.serial # 0 /\ open.ref # 0 /\ open.advocate # 0

\* The section of a heading: a wrapper leaves the one before.
SectionAfter(k) ==
  [heading |-> IF k = "wrapper" THEN section.heading ELSE line + 1, subsection |-> 0]

HeadingSeen(k) == heading' = IF k = "wrapper" THEN heading ELSE line + 1

\* Between cases, or after a case with everything, which ends there.
SectionHeading(k) ==
  /\ k \in Headings
  /\ Read(k)
  /\ open.serial = 0 \/ Finished
  /\ IF Finished THEN flush(NoCase) ELSE UNCHANGED <<open, emitted>>
  /\ section' = SectionAfter(k)
  /\ ahead' = "subsection"
  /\ HeadingSeen(k)
  /\ UNCHANGED <<start, firstRef, unfinished>>

Subsection ==
  /\ ~ parsed /\ line < MaxLines
  /\ ahead = "subsection"
  /\ line' = line + 1
  /\ section' = [section EXCEPT !.subsection = line + 1]
  /\ ahead' = ""
  /\ UNCHANGED <<open, emitted, parsed, start, firstRef, heading, unfinished>>

CaseRef ==
  /\ Read("ref")
  /\ open.serial # 0 /\ open.ref = 0
  /\ open' = [open EXCEPT !.ref = line + 1]
  /\ ahead' = "annotation"
  /\ firstRef' = IF firstRef = 0 THEN line + 1 ELSE firstRef
  /\ UNCHANGED <<section, emitted, start, heading, unfinished>>

Annotation ==
  /\ ~ parsed /\ line < MaxLines
  /\ ahead = "annotation"
  /\ line' = line + 1
  /\ open' = [open EXCEPT !.annotations = @ \cup {line + 1}]
  /\ UNCHANGED <<section, ahead, emitted, parsed, start, firstRef, heading, unfinished>>

\* Any other line of a case: VS, the petitioner's before it, then the respondent, then
\* the advocate; what follows is skipped, and so is everything before a reference.
\* Outside of a case nothing is taken.
CaseAfter(k) ==
  IF open.serial = 0 \/ open.ref = 0 THEN open
  ELSE IF k = "vs" THEN [open EXCEPT !.after_vs = TRUE]
  ELSE IF ~ open.after_vs THEN [open EXCEPT !.pet_parts = @ \cup {line + 1}]
  ELSE IF open.respondent = 0 THEN [open EXCEPT !.respondent = line + 1]
  ELSE IF open.advocate = 0 THEN [open EXCEPT !.advocate = line + 1]
  ELSE open

Other(k) ==
  /\ k \in Kinds \ {"serial", "with", "ia"}
  /\ Read(k)
  /\ k = "ref" => open.serial = 0 \/ open.ref # 0
  /\ k \in Headings => open.serial # 0 /\ ~ Finished
  /\ open' = CaseAfter(k)
  /\ ahead' = ""
  /\ IF k \in Headings
     THEN HeadingSeen(k) /\ unfinished' = unfinished \cup {line + 1}
     ELSE UNCHANGED <<heading, unfinished>>
  /\ UNCHANGED <<section, emitted, start, firstRef>>

\* The end of the block.
EndOfBlock ==
  /\ ~ parsed
  /\ flush(NoCase)
  /\ parsed' = TRUE
  /\ UNCHANGED <<line, section, ahead, start, firstRef, heading, unfinished>>

ParserNext ==
  \/ \E k \in Kinds : Serial(k) \/ SectionHeading(k) \/ Other(k)
  \/ IaNumber \/ Subsection \/ CaseRef \/ Annotation
  \/ EndOfBlock

ParserSpec == ParserInit /\ [][ParserNext]_parserVars

-----------------------------------------------------------------------------
(* Properties.                                                             *)

Parts(c) ==
  {c.ref, c.respondent, c.advocate} \cup c.annotations \cup c.pet_parts \cup c.ia_numbers

\* A case is made of lines that follow its own serial number (_flush resets all that was
\* read), and a case with a reference is in the list once the next one has begun: the
\* last serial number with a reference is either being read or the last case listed.
CasesWhole ==
  /\ \A c \in {open, emitted.case} : \A p \in Parts(c) \ {0} : c.serial # 0 /\ p > c.serial
  /\ firstRef # 0 =>
       \E c \in {open, emitted.case} : c.serial = start /\ c.ref = firstRef
  /\ emitted.case.is_with_case => emitted.case.parent < emitted.case.serial

\* A case is listed under the last heading before its serial number, unless that heading
\* came in the middle of a case that had no advocate yet and was taken for its text
\* (causelist_parser.py:769).
UnderItsHeading ==
  emitted.case.serial # 0 =>
    emitted.section.heading = emitted.case.due \/ emitted.case.due \in unfinished

\* Every case of a list becomes one row, whole and in its place (causelist_parser.parse).
CasesRead == CasesWhole /\ UnderItsHeading

=============================================================================
