----------------------------- MODULE Sequential -----------------------------
(***************************************************************************)
(* The parts that run alone, on what they are given: the rows verify       *)
(* reads, a golden set that is scored, the files a run of the evaluation   *)
(* reads, the fixtures and endpoints behind the model port, the contract   *)
(* that is generated from.  They share no state, and a behaviour is of one *)
(* of them.                                                                *)
(***************************************************************************)
EXTENDS Integers, Sequences, FiniteSets, SequencesExt

CONSTANTS Null, Nothing,
          Contents, MaxEntries, MaxChanges,                \* AuditRows'
          Documents, Questions, Claims, MostCases, Depth,  \* Scoring's
          Capabilities, CaseIds, Strange, MaxCases,        \* Material's
          Asks, Schemas, Answers, Names,                   \* ModelPort's
          Fields, Operations, MaxEdits                     \* ContractGenerator's

ASSUME BoundsAssumption == {MaxEntries, MaxChanges, MaxCases, MaxEdits} \subseteq Nat

\* A set of files is read for each capability, in order; file names are in order too.
ASSUME NamesAssumption == IsFiniteSet(Names) /\ Names \subseteq Nat
ASSUME CapabilitiesAssumption ==
  Len(Capabilities) \in Nat \ {0} /\ DOMAIN Capabilities = 1..Len(Capabilities)

\* The fields a case states are those of a JSON object; an answer to a claim scores it,
\* and an answer to a question lists clauses.
ASSUME DocumentsAssumption == \A document \in Documents : IsFiniteSet(DOMAIN document.states)
ASSUME ClaimsAssumption ==
  \A claim \in Claims :
    claim.positive \in BOOLEAN /\ (claim.answer = Null \/ claim.answer.score \in Int)
ASSUME QuestionsAssumption ==
  \A question \in Questions :
    \/ question.answer = Null
    \/ LET retrieved == question.answer.retrieved
       IN  Len(retrieved) \in Nat /\ DOMAIN retrieved = 1..Len(retrieved)
ASSUME DepthAssumption == Depth \in Nat

VARIABLES part,
          log, rows, changes, rehashed,
          capability, cases,
          strays, present, sets, answers, reading,
          directory, adapter, told,
          schemas, operation, files, outcome, edits

audit == <<log, rows, changes, rehashed>>
scoring == <<capability, cases>>
material == <<strays, present, sets, answers, reading>>
port == <<directory, adapter, told>>
generator == <<schemas, operation, files, outcome, edits>>
vars == <<part, audit, scoring, material, port, generator>>

-----------------------------------------------------------------------------
Rows == INSTANCE AuditRows
Score == INSTANCE Scoring
Files == INSTANCE Material
Port == INSTANCE ModelPort
Contract == INSTANCE ContractGenerator

ASSUME FieldsAssumption == Fields \subseteq [node : Contract!Nodes, items : Contract!Nodes]

Parts == {"audit", "scoring", "material", "port", "generator"}

\* The parts that rest are where they start, and hold nothing.
Init ==
  /\ part \in Parts
  /\ Rows!Init
  /\ Port!Init
  /\ IF part = "scoring" THEN Score!Init ELSE capability = "none" /\ cases = <<>>
  /\ IF part = "material"
     THEN Files!Init
     ELSE /\ strays = {} /\ present = <<>> /\ sets = <<>> /\ answers = <<>>
          /\ reading = "started"
  /\ IF part = "generator"
     THEN Contract!Init
     ELSE /\ schemas = <<>> /\ operation = <<>> /\ outcome = "none" /\ edits = 0
          /\ files = [models |-> Nothing, client |-> Nothing]

Next ==
  \/ part = "audit" /\ Rows!Next /\ UNCHANGED <<part, scoring, material, port, generator>>
  \/ part = "scoring" /\ Score!Next /\ UNCHANGED <<part, audit, material, port, generator>>
  \/ part = "material" /\ Files!Next /\ UNCHANGED <<part, audit, scoring, port, generator>>
  \/ part = "port" /\ Port!Next /\ UNCHANGED <<part, audit, scoring, material, generator>>
  \/ part = "generator" /\ Contract!Next /\ UNCHANGED <<part, audit, scoring, material, port>>

Spec == Init /\ [][Next]_vars

-----------------------------------------------------------------------------
\* AuditRows: without a hash computed anew, rows that verify are the log or its
\* beginning (audit.py:3-5).
OnlyACutVerifies == Rows!OnlyACutVerifies

\* AuditRows: rows that verify and end in the hash written are the log.
HeadPinsTheChain == Rows!HeadPinsTheChain

\* Scoring: every answer is one right or wrong, every case one found or missed.
EveryAnswerIsCountedOnce == Score!EveryAnswerIsCountedOnce

\* Scoring: hits, ranks and citations read one list the same way.
RetrievalReadsItsList == Score!RetrievalReadsItsList

\* Scoring: the area is the mean precision over the positives, ties or not.
AreaIsMeanPrecision == Score!AreaIsMeanPrecision

\* Scoring: a right answer lowers no metric of the fields, no mean recall of the labels
\* and no accuracy of the routing.
RightAnswerNeverLowers == Score!RightAnswerNeverLowers

\* Material: every line of the files read is a case scored, or an answer counted, once.
EveryLineCountsOnce == Files!EveryLineCountsOnce

\* ModelPort: a stage gets what was recorded for the very call it made.
AnswersAreTheRecordings == Port!AnswersAreTheRecordings

\* ContractGenerator: the files are of one contract, and ask what it asks of the field,
\* but for what stands beside a reference.
AllFilesOrNone == Contract!AllFilesOrNone

\* ContractGenerator: a build that passes ignores nothing the contract asks
\* (docs/adr/0004:64-65).
NothingIsIgnored == Contract!NothingIsIgnored
=============================================================================
