---------------------------- MODULE ReleaseGate -----------------------------
(***************************************************************************)
(* The evaluation gate over the life of a release tag's baseline file      *)
(* (evaluation/gate.py, baselines.py, runner.py): runs are judged against  *)
(* the file, and the ones asked to record replace it if no rule fired.     *)
(*                                                                         *)
(* A run is what was measured of each capability's set.  A metric is an    *)
(* integer, Place units of which are the last decimal a baseline keeps.    *)
(***************************************************************************)
EXTENDS Integers

CONSTANTS Capabilities,   \* the sets a run scores
          MetricsOf,      \* the metrics of each capability
          Optional,       \* those measured only if an answer gives something to measure
          ValuesOf,       \* the values each metric takes
          VersionsOf,     \* the versions each set has
          MaxCases,       \* cases in a set
          Depths,         \* settings: how deep a ranked list is read
          Floors,         \* metric -> floor, of the metrics that have one
          Tolerances,     \* how far a metric may fall, by the rules a run declares
          Place,          \* units in the last decimal recorded
          OwnTag,         \* the tag the file is named by
          OtherTag,       \* a tag it is not
          NoFile,         \* nothing was recorded yet
          Torn            \* a text that is not a baseline's JSON

\* Any tolerance from 0 on (gate.py:84), also one finer than a rounding.
ASSUME PlaceAssumption == Place \in Nat \ {0} /\ Tolerances \subseteq Nat

\* A metric is one capability's: its name begins with the capability's.
ASSUME MetricsAssumption ==
  /\ Capabilities # {}
  /\ \A c, d \in Capabilities : MetricsOf[c] \intersect MetricsOf[d] # {} => c = d

ASSUME NumbersAssumption ==
  MaxCases \in Nat /\ \A name \in DOMAIN Floors : Floors[name] \in Int

VARIABLES file,   \* the last baseline the file held whole, or NoFile
          torn,   \* whether a write of the file was cut short since
          run     \* the run that was measured and is to be judged, or NoRun

vars == <<file, torn, run>>

Metrics == UNION {MetricsOf[c] : c \in Capabilities}

\* The values a scored set measures: every metric of its capability, the
\* optional ones or not.
Scores(c) ==
  UNION {{f \in [names -> Nat \intersect UNION {ValuesOf[m] : m \in names}] :
            \A m \in names : f[m] \in ValuesOf[m]} :
         names \in {N \in SUBSET MetricsOf[c] : MetricsOf[c] \ Optional \subseteq N}}

Measured(c, reading, cases, metrics) ==
  [version : VersionsOf[c], reading : {reading}, cases : cases, metrics : metrics]

\* measure_*: no cases, before not answered, before scored.
Measurements(c) ==
  Measured(c, "no cases", {0}, {<< >>})
    \union Measured(c, "not answered", 1..MaxCases, {<< >>})
    \union Measured(c, "scored", 1..MaxCases, Scores(c))

\* A run: what it measured, under which settings and tolerance, for which tag,
\* whether it records, and whether it names the file with --baseline.  The file is
\* the one that a run for its own tag reads without naming it.
Runs ==
  {r \in [of : {f \in [Capabilities -> UNION {Measurements(c) : c \in Capabilities}] :
                  \A c \in Capabilities : f[c] \in Measurements(c)},
          depth : Depths, tolerance : Tolerances, tag : {OwnTag, OtherTag},
          record : BOOLEAN, named : BOOLEAN] :
     ~r.named => r.tag = OwnTag}

CapabilityOf(name) == CHOOSE c \in Capabilities : name \in MetricsOf[c]
Names(r) == UNION {DOMAIN r.of[c].metrics : c \in Capabilities}
Value(r, name) == r.of[CapabilityOf(name)].metrics[name]

-----------------------------------------------------------------------------
\* recorded: what the run measured, to the last decimal kept.
\* Mutant: rounded up.
RoundedUp(value) == ((value + Place - 1) \div Place) * Place

Rounded(value) == ((2 * value + Place) \div (2 * Place)) * Place

SetsOf(r) ==
  [c \in Capabilities |-> [version |-> r.of[c].version, cases |-> r.of[c].cases]]

Recorded(r) ==
  [tag |-> r.tag, depth |-> r.depth, sets |-> SetsOf(r),
   metrics |-> [name \in Names(r) |-> Rounded(Value(r, name))]]

\* unrecorded: this run's sets and settings, and no metric.
Unrecorded(r) == [Recorded(r) EXCEPT !.metrics = << >>]

\* _other_question.
OtherQuestion(baseline, r) ==
  /\ DOMAIN baseline.metrics # {}
  /\ \/ baseline.depth # r.depth
     \/ \E c \in Capabilities : baseline.sets[c].version # r.of[c].version

Regressed(baseline, r, name) ==
  name \in DOMAIN baseline.metrics /\ baseline.metrics[name] - Value(r, name) > r.tolerance

BelowFloor(r, name) == name \in DOMAIN Floors /\ Value(r, name) < Floors[name]

LostCases(baseline, r) == {c \in Capabilities : r.of[c].cases < baseline.sets[c].cases}

\* The names a comparison covers: those measured, and those only recorded.
Compared(baseline, r) == Names(r) \union DOMAIN baseline.metrics

\* _failures, and the rules a run breaks.  Mutant: only what was measured is
\* looked at.
Broken(baseline, r, name) ==
  IF name \notin Names(r)
  THEN {"coverage"}
  ELSE {rule \in {"floor"} : BelowFloor(r, name)}
         \union {rule \in {"degradation"} : Regressed(baseline, r, name)}

FiredOnMeasured(baseline, r) ==
  IF OtherQuestion(baseline, r)
  THEN {"comparability"}
  ELSE UNION {Broken(baseline, r, name) : name \in Names(r)}

Fired(baseline, r) ==
  IF OtherQuestion(baseline, r)
  THEN {"comparability"}
  ELSE {rule \in {"coverage"} : LostCases(baseline, r) # {}}
         \union UNION {Broken(baseline, r, name) : name \in Compared(baseline, r)}

\* _verdict: one row's word for one metric.
Verdict(baseline, r, name) ==
  IF name \notin Names(r) THEN "not measured"
  ELSE IF BelowFloor(r, name) THEN "below floor"
  ELSE IF name \notin DOMAIN baseline.metrics THEN "adopted"
  ELSE IF Regressed(baseline, r, name) THEN "regressed" ELSE "ok"

\* The table: a row for each metric, or one for a capability that has none.
Row(c, name, verdict) == [capability |-> c, metric |-> name, verdict |-> verdict]

Table(baseline, r) ==
  IF OtherQuestion(baseline, r)
  THEN {Row(c, "none", "incomparable") : c \in Capabilities}
  ELSE {Row(CapabilityOf(name), name, Verdict(baseline, r, name)) : name \in Compared(baseline, r)}
         \union
       {Row(c, "none", IF r.of[c].reading = "no cases" THEN "no cases" ELSE "not implemented") :
          c \in {c \in Capabilities : MetricsOf[c] \intersect Compared(baseline, r) = {}}}

-----------------------------------------------------------------------------
NoRun == [record |-> FALSE]

Init == file = NoFile /\ torn = FALSE /\ run = NoRun

\* What a run finds on disk.  A beginning of a baseline's text is no document.
\* Mutant: what cannot be read counts as not recorded.
FoundOrNothing == IF torn THEN NoFile ELSE file

Found == IF torn THEN Torn ELSE file

\* _baseline: there is no file to judge against, it cannot be read, or it is
\* another tag's.
Unreadable(r) ==
  IF Found = Torn THEN TRUE
  ELSE IF Found = NoFile THEN ~r.record
  ELSE Found.tag # r.tag /\ (~r.named \/ r.record)

Baseline(r) == IF Found = NoFile THEN Unrecorded(r) ELSE Found

\* What main answers: 2 for a run that could not be made, 1 for one a rule fails.
ExitCode(r) ==
  IF Unreadable(r) THEN 2 ELSE IF Fired(Baseline(r), r) # {} THEN 1 ELSE 0

\* The sets are read, asked and measured.
Measure ==
  /\ run = NoRun
  /\ run' \in Runs
  /\ UNCHANGED <<file, torn>>

\* The run is judged, and recorded if it was asked to and passed.
\* Mutant: recorded whatever the rules said.
JudgeAndRecord ==
  /\ run # NoRun
  /\ file' = IF run.record /\ ExitCode(run) # 2 THEN Recorded(run) ELSE file
  /\ run' = NoRun
  /\ UNCHANGED torn

Judge ==
  /\ run # NoRun
  /\ file' = IF run.record /\ ExitCode(run) = 0 THEN Recorded(run) ELSE file
  /\ run' = NoRun
  /\ UNCHANGED torn

\* write_text truncates the file and writes it in place: the run dies, or the disk
\* is full, before the last of it is written.
CutShort ==
  /\ run # NoRun
  /\ run.record /\ ExitCode(run) = 0
  /\ torn' = TRUE
  /\ run' = NoRun
  /\ UNCHANGED file

\* "delete the file to start the tag's record over".
Delete ==
  /\ Found # NoFile
  /\ file' = NoFile
  /\ torn' = FALSE
  /\ UNCHANGED run

Next == Measure \/ Judge \/ CutShort \/ Delete

Spec == Init /\ [][Next]_vars

-----------------------------------------------------------------------------

\* Types: what is on file is a baseline, to the decimals recorded, with metrics
\* only of sets that held a case.
TypeOK ==
  /\ torn \in BOOLEAN
  /\ run # NoRun => run.tag \in {OwnTag, OtherTag} /\ DOMAIN run.of = Capabilities
  /\ file # NoFile =>
       /\ file.depth \in Depths /\ file.tag \in {OwnTag, OtherTag}
       /\ \A c \in Capabilities : file.sets[c] \in [version : VersionsOf[c], cases : 0..MaxCases]
       /\ \A name \in DOMAIN file.metrics :
            file.metrics[name] % Place = 0 /\ file.sets[CapabilityOf(name)].cases > 0

\* However runs are recorded over one another, no build that the floor refuses is
\* ever at the head of the tag's history (runner.py:196-201).
FloorIsKept ==
  file # NoFile =>
    \A name \in DOMAIN file.metrics \intersect DOMAIN Floors :
      file.metrics[name] >= Rounded(Floors[name])

\* What is on file of the same question: cases, metrics, and their values but for
\* the tolerance of the run that is recorded over it and a rounding.
KeepsEvidence ==
  file # NoFile /\ file' \notin {NoFile, file} =>
    /\ file'.tag = file.tag
    /\ \A c \in Capabilities : file'.sets[c].cases >= file.sets[c].cases
    /\ DOMAIN file.metrics # {} =>
         /\ file'.depth = file.depth
         /\ \A c \in Capabilities : file'.sets[c].version = file.sets[c].version
    /\ \A name \in DOMAIN file.metrics :
         /\ name \in DOMAIN file'.metrics
         /\ 2 * (file.metrics[name] - file'.metrics[name]) <= 2 * run.tolerance + Place

\* Evidence never leaves the record: a file that is recorded over stays its tag's,
\* about the same question, with no fewer cases, every metric it had, and none of
\* them more than the tolerance, and a rounding, lower (gate.py:17-23).  A write
\* cut short in between does not start the record over unnoticed: it takes someone
\* who deletes the file.
EvidenceIsKept == [][KeepsEvidence]_vars

PassesWhenRecorded ==
  file' \notin {NoFile, file} =>
    /\ Fired(file', run) \subseteq {"degradation"}
    /\ 2 * run.tolerance >= Place => Fired(file', run) = {}

\* A run that was recorded passes when it is made again, if its tolerance is at
\* least half of the last decimal recorded.  Under a finer one, which gate.py:84
\* accepts, a metric that recording rounded up may be a regression of its own
\* build; no other rule is ever broken by the record (baselines.py:33-34).
PassesAgain == [][PassesWhenRecorded]_vars

\* The table and the exit code say the same: a run that passes has no row that
\* says otherwise, and one that fails has such a row or a set that lost cases.
Failing == {"regressed", "below floor", "not measured", "incomparable"}

TableExplainsTheExit ==
  run # NoRun /\ ~Unreadable(run) =>
    LET bad == \E row \in Table(Baseline(run), run) : row.verdict \in Failing
    IN  ExitCode(run) = 1 <=> bad \/ LostCases(Baseline(run), run) # {}
=============================================================================
