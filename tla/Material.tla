------------------------------ MODULE Material ------------------------------
(***************************************************************************)
(* What a run of the evaluation reads before it scores (evaluation/        *)
(* sets.py, answers.py and material.py): a golden set per capability, then *)
(* a file of answers per capability, read in order and refused at the      *)
(* first fault.                                                            *)
(*                                                                         *)
(* A file is its non-blank lines, and a line is what the readers can tell  *)
(* of it: the header of a capability's set, what is said of one case, JSON *)
(* of another shape or none ("malformed"), or a number too long for        *)
(* json.loads ("overlong").  What a case asks and what an answer says is   *)
(* Scoring's.                                                              *)
(***************************************************************************)
EXTENDS Naturals, Sequences, FiniteSetsExt

CONSTANTS Capabilities,  \* a sequence: the order a run reads them in
          CaseIds,       \* the identifiers a set's cases may have
          Strange,       \* one that no set holds
          MaxCases       \* bound: lines of an answers file; one more of a set, for its header

VARIABLES strays,   \* which of the two directories hold a file of no capability
          present,  \* directory -> the capabilities it holds a file of
          sets,     \* the set files read so far
          answers,  \* the answers files read so far, and what was made of them
          reading   \* how far the run is, or how it ended

vars == <<strays, present, sets, answers, reading>>

Line(is, of) == [is |-> is, of |-> of]
Broken == {Line("malformed", "nothing"), Line("overlong", "nothing")}
Cases(ids) == {Line("case", id) : id \in ids}
Headers == {Line("header", Capabilities[i]) : i \in DOMAIN Capabilities}

Text(lines) == [decodes |-> TRUE, lines |-> lines]
Undecodable == [decodes |-> FALSE, lines |-> << >>]
UpTo(n, S) == UNION {[1..k -> S] : k \in 0..n}

SetFiles ==
  {Undecodable} \union {Text(ls) : ls \in UpTo(MaxCases + 1, Headers \union Cases(CaseIds) \union Broken)}
AnswersFiles ==
  {Undecodable} \union {Text(ls) : ls \in UpTo(MaxCases, Cases(CaseIds \union {Strange}) \union Broken)}

Everything == {Capabilities[i] : i \in DOMAIN Capabilities}

Init ==
  /\ strays \in SUBSET {"sets", "answers"}
  /\ present \in [{"sets", "answers"} -> SUBSET Everything]
  /\ sets = <<>> /\ answers = <<>>
  /\ reading = "started"

-----------------------------------------------------------------------------
\* lines, parsed and validated, a line at a time: the first line that is not what
\* it has to be decides, and a number too long is a ValueError nobody takes.
Parsed(file, Fits(_)) ==
  LET unfit == {n \in DOMAIN file.lines : ~Fits(n)}
  IN  IF ~file.decodes THEN "refused"
      ELSE IF unfit = {} THEN "read"
      ELSE IF file.lines[Min(unfit)].is = "overlong" THEN "crashed"
      ELSE "refused"

CaseIdsOf(lines) == {lines[n].of : n \in {m \in DOMAIN lines : lines[m].is = "case"}}

\* refuse_repeats: a case twice would weigh twice.
Repeats(lines) ==
  \E n, m \in DOMAIN lines : n # m /\ lines[n].is = "case" /\ lines[n] = lines[m]

\* read_set: the header first, of the capability the file is named for.
SetRead(capability, file) ==
  LET parsed == Parsed(file, LAMBDA n : IF n = 1
                                        THEN file.lines[n] = Line("header", capability)
                                        ELSE file.lines[n].is = "case")
  IN  IF parsed = "read" /\ (file.lines = <<>> \/ Repeats(file.lines)) THEN "refused" ELSE parsed

\* _read_one, of a file that is there: answers to the cases held.
\* Mutant: an answer that comes again replaces the one before.
AnswersParsed(file, held) ==
  Parsed(file, LAMBDA n : file.lines[n].is = "case" /\ file.lines[n].of \in held)

AnswersRead(file, held) ==
  LET parsed == AnswersParsed(file, held)
  IN  IF parsed = "read" /\ Repeats(file.lines) THEN "refused" ELSE parsed

-----------------------------------------------------------------------------
\* only_known, and the files read_sets finds missing.
ListSets ==
  /\ reading = "started"
  /\ reading' = IF "sets" \in strays \/ present["sets"] # Everything THEN "refused" ELSE "sets"
  /\ UNCHANGED <<strays, present, sets, answers>>

ReadSet ==
  /\ reading = "sets"
  /\ LET capability == Capabilities[Len(sets) + 1]
     IN  \E file \in SetFiles :
           /\ sets' = Append(sets, file)
           /\ reading' = IF SetRead(capability, file) # "read" THEN SetRead(capability, file)
                         ELSE IF Len(sets') = Len(Capabilities) THEN "listing"
                         ELSE "sets"
  /\ UNCHANGED <<strays, present, answers>>

ListAnswers ==
  /\ reading = "listing"
  /\ reading' = IF "answers" \in strays THEN "refused" ELSE "answers"
  /\ UNCHANGED <<strays, present, sets, answers>>

\* A capability none of whose cases there are is not asked; one with cases has to
\* have a file, which may be empty.
Unasked == [asked |-> FALSE, file |-> Undecodable, answered |-> {}]
Asked(file) == [asked |-> TRUE, file |-> file, answered |-> CaseIdsOf(file.lines)]

GoesOn(read) ==
  reading' = IF read # "read" THEN read
             ELSE IF Len(answers') = Len(Capabilities) THEN "read"
             ELSE "answers"

ReadAnswers ==
  /\ reading = "answers"
  /\ LET i     == Len(answers) + 1
         held  == CaseIdsOf(sets[i].lines)
         there == Capabilities[i] \in present["answers"]
     IN  IF there /\ held # {}
         THEN \E file \in AnswersFiles :
                answers' = Append(answers, Asked(file)) /\ GoesOn(AnswersRead(file, held))
         ELSE /\ answers' = Append(answers, Unasked)
              /\ GoesOn(IF there \/ held # {} THEN "refused" ELSE "read")
  /\ UNCHANGED <<strays, present, sets>>

Next == ListSets \/ ReadSet \/ ListAnswers \/ ReadAnswers

Spec == Init /\ [][Next]_vars

-----------------------------------------------------------------------------
\* What is on file is what is scored, line by line: a run that was read scores as
\* many cases as its sets have lines after their headers, and counts as many
\* answers as its answers files have lines, each to a case held; a capability is
\* "not implemented" (answers.py:92-94) exactly if no case asks it, never because
\* its answers were not found.
EveryLineCountsOnce ==
  reading = "read" =>
    \A i \in DOMAIN Capabilities :
      LET ids == CaseIdsOf(sets[i].lines)
      IN  /\ Cardinality(ids) + 1 = Len(sets[i].lines)
          /\ answers[i].asked <=> ids # {}
          /\ answers[i].asked <=> Capabilities[i] \in present["answers"]
          /\ answers[i].asked =>
               /\ Cardinality(answers[i].answered) = Len(answers[i].file.lines)
               /\ answers[i].answered \subseteq ids
=============================================================================
