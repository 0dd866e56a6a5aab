------------------------- MODULE ReleaseGateProofs --------------------------
(***************************************************************************)
(* The safety of the release gate, for any capabilities, metrics, floors,  *)
(* tolerance and number of decimals recorded.                              *)
(***************************************************************************)
EXTENDS ReleaseGate, TLAPS

\* A run that waits to be judged is one that can be measured.
RunMeasured == run # NoRun => run \in Runs

\* What is on file is a number for each metric.
FileOfNumbers == file # NoFile => \A name \in DOMAIN file.metrics : file.metrics[name] \in Int

IInv == RunMeasured /\ TypeOK /\ FileOfNumbers /\ FloorIsKept

-----------------------------------------------------------------------------
\* Rounding moves a value by half a place at most, to a multiple of a place.
LEMMA RoundedIsNear ==
  ASSUME NEW v \in Int
  PROVE  /\ Rounded(v) \in Int
         /\ Rounded(v) % Place = 0
         /\ 2 * (Rounded(v) - v) <= Place
         /\ 2 * (v - Rounded(v)) <= Place
<1> DEFINE q == (2 * v + Place) \div (2 * Place)
<1>1. Place \in Nat /\ Place > 0 /\ 2 * v + Place \in Int /\ 2 * Place \in Nat /\ 2 * Place > 0
  BY PlaceAssumption
<1>2. q \in Int /\ (2 * Place) * q <= 2 * v + Place /\ 2 * v + Place < (2 * Place) * q + 2 * Place
  BY <1>1, Z3
<1>3. Rounded(v) = q * Place
  BY DEF Rounded
<1> HIDE DEF q
<1>4. q * Place \in Int /\ (2 * Place) * q = 2 * (q * Place)
  BY <1>1, <1>2, Z3
<1>5. (q * Place) % Place = 0
  BY <1>1, <1>2, Z3
<1> QED
  BY <1>1, <1>2, <1>3, <1>4, <1>5

\* Rounding keeps the order of two values.
LEMMA RoundedIsMonotone ==
  ASSUME NEW v \in Int, NEW w \in Int, v <= w
  PROVE  Rounded(v) <= Rounded(w)
<1> DEFINE q == (2 * v + Place) \div (2 * Place)
           r == (2 * w + Place) \div (2 * Place)
<1>1. Place \in Nat /\ Place > 0 /\ 2 * Place \in Nat /\ 2 * Place > 0
  BY PlaceAssumption
<1>2. q \in Int /\ (2 * Place) * q <= 2 * v + Place
  BY <1>1, Z3
<1>3. r \in Int /\ 2 * w + Place < (2 * Place) * r + 2 * Place
  BY <1>1, Z3
<1>4. Rounded(v) = q * Place /\ Rounded(w) = r * Place
  BY DEF Rounded
<1> HIDE DEF q, r
<1>5. (2 * Place) * q < (2 * Place) * r + 2 * Place
  BY <1>1, <1>2, <1>3, Z3
<1>6. q <= r
  BY <1>1, <1>2, <1>3, <1>5, Z3
<1>7. q * Place <= r * Place
  BY <1>1, <1>2, <1>3, <1>6, Z3
<1> QED
  BY <1>4, <1>7

\* What is measured of one capability.
LEMMA MeasurementsTyped ==
  ASSUME NEW c \in Capabilities, NEW m \in Measurements(c)
  PROVE  /\ m.version \in VersionsOf[c]
         /\ m.cases \in 0..MaxCases
         /\ DOMAIN m.metrics \subseteq MetricsOf[c]
         /\ \A name \in DOMAIN m.metrics : m.metrics[name] \in Nat
         /\ DOMAIN m.metrics # {} => m.cases > 0
<1>1. \A s \in Scores(c) : /\ DOMAIN s \subseteq MetricsOf[c]
                           /\ \A name \in DOMAIN s : s[name] \in Nat
  BY DEF Scores
<1>2. \A f \in {<< >>} : DOMAIN f = {}
  OBVIOUS
<1>3. CASE m \in Measured(c, "no cases", {0}, {<< >>})
  <2>1. m.version \in VersionsOf[c] /\ m.cases = 0 /\ m.metrics \in {<< >>}
    BY <1>3 DEF Measured
  <2>2. DOMAIN m.metrics = {}
    BY <2>1, <1>2
  <2> QED
    BY <2>1, <2>2, NumbersAssumption
<1>4. CASE m \in Measured(c, "not answered", 1..MaxCases, {<< >>})
  <2>1. m.version \in VersionsOf[c] /\ m.cases \in 1..MaxCases /\ m.metrics \in {<< >>}
    BY <1>4 DEF Measured
  <2>2. DOMAIN m.metrics = {}
    BY <2>1, <1>2
  <2> QED
    BY <2>1, <2>2, NumbersAssumption
<1>5. CASE m \in Measured(c, "scored", 1..MaxCases, Scores(c))
  BY <1>1, <1>5, NumbersAssumption DEF Measured
<1> QED
  BY <1>3, <1>4, <1>5 DEF Measurements

\* A metric a run measured is its capability's, a number, and of a set with a case.
LEMMA RunsTyped ==
  ASSUME NEW r \in Runs
  PROVE  /\ r.depth \in Depths /\ r.tag \in {OwnTag, OtherTag} /\ DOMAIN r.of = Capabilities
         /\ r.tolerance \in Nat
         /\ \A c \in Capabilities : r.of[c].version \in VersionsOf[c] /\ r.of[c].cases \in 0..MaxCases
         /\ \A name \in Names(r) : /\ name \in Metrics
                                   /\ CapabilityOf(name) \in Capabilities
                                   /\ Value(r, name) \in Int
                                   /\ r.of[CapabilityOf(name)].cases > 0
<1>1. /\ r.depth \in Depths /\ r.tag \in {OwnTag, OtherTag} /\ DOMAIN r.of = Capabilities
      /\ r.tolerance \in Nat
      /\ \A c \in Capabilities : r.of[c] \in Measurements(c)
  BY PlaceAssumption DEF Runs
<1>2. ASSUME NEW name \in Names(r)
      PROVE  /\ name \in Metrics
             /\ CapabilityOf(name) \in Capabilities
             /\ Value(r, name) \in Int
             /\ r.of[CapabilityOf(name)].cases > 0
  <2>1. PICK c \in Capabilities : name \in DOMAIN r.of[c].metrics
    BY DEF Names
  <2>2. name \in MetricsOf[c]
    BY <1>1, <2>1, MeasurementsTyped
  <2>3. CapabilityOf(name) = c
    BY <2>2, MetricsAssumption DEF CapabilityOf
  <2>4. r.of[c].metrics[name] \in Nat /\ r.of[c].cases > 0
    BY <1>1, <2>1, MeasurementsTyped
  <2> QED
    BY <2>2, <2>3, <2>4 DEF Metrics, Value
<1> QED
  BY <1>1, <1>2, MeasurementsTyped

\* What a run for which no rule fired has of the baseline it was judged against.
LEMMA NoRuleFired ==
  ASSUME NEW b, NEW r, Fired(b, r) = {}
  PROVE  /\ ~OtherQuestion(b, r)
         /\ LostCases(b, r) = {}
         /\ \A name \in Compared(b, r) :
              name \in Names(r) /\ ~BelowFloor(r, name) /\ ~Regressed(b, r, name)
<1>1. ~OtherQuestion(b, r)
  BY DEF Fired
<1>2. {rule \in {"coverage"} : LostCases(b, r) # {}} = {}
  BY <1>1 DEF Fired
<1>3. ASSUME NEW name \in Compared(b, r) PROVE Broken(b, r, name) = {}
  BY <1>1 DEF Fired
<1>4. ASSUME NEW name \in Compared(b, r)
      PROVE  name \in Names(r) /\ ~BelowFloor(r, name) /\ ~Regressed(b, r, name)
  BY <1>3 DEF Broken
<1> QED
  BY <1>1, <1>2, <1>4

\* What a recorded baseline says of a run.
LEMMA RecordedSays ==
  ASSUME NEW r \in Runs
  PROVE  /\ Recorded(r).tag = r.tag /\ Recorded(r).depth = r.depth
         /\ \A c \in Capabilities :
              Recorded(r).sets[c] = [version |-> r.of[c].version, cases |-> r.of[c].cases]
         /\ DOMAIN Recorded(r).metrics = Names(r)
         /\ \A name \in Names(r) : Recorded(r).metrics[name] = Rounded(Value(r, name))
  BY DEF Recorded, SetsOf

\* What recording a run writes is a baseline.
LEMMA RecordedTyped ==
  ASSUME NEW r \in Runs, run' = NoRun, torn' \in BOOLEAN, file' = Recorded(r)
  PROVE  TypeOK' /\ FileOfNumbers'
<1>1. file'.depth \in Depths /\ file'.tag \in {OwnTag, OtherTag}
  BY RecordedSays, RunsTyped
<1>2. ASSUME NEW c \in Capabilities
      PROVE  file'.sets[c] \in [version : VersionsOf[c], cases : 0..MaxCases]
  <2>1. Recorded(r).sets[c] = [version |-> r.of[c].version, cases |-> r.of[c].cases]
    BY RecordedSays
  <2>2. r.of[c].version \in VersionsOf[c] /\ r.of[c].cases \in 0..MaxCases
    BY RunsTyped
  <2> QED
    BY <2>1, <2>2
<1>3. ASSUME NEW name \in DOMAIN file'.metrics
      PROVE  /\ file'.metrics[name] \in Int /\ file'.metrics[name] % Place = 0
             /\ file'.sets[CapabilityOf(name)].cases > 0
  <2>1. name \in Names(r)
    BY RecordedSays
  <2>2. /\ Value(r, name) \in Int /\ CapabilityOf(name) \in Capabilities
        /\ r.of[CapabilityOf(name)].cases > 0
    BY <2>1, RunsTyped
  <2>3. file'.metrics[name] = Rounded(Value(r, name))
    BY <2>1, RecordedSays
  <2>4. file'.sets[CapabilityOf(name)].cases = r.of[CapabilityOf(name)].cases
    <3> DEFINE c == CapabilityOf(name)
    <3>1. c \in Capabilities
      BY <2>2
    <3> HIDE DEF c
    <3>2. Recorded(r).sets[c] = [version |-> r.of[c].version, cases |-> r.of[c].cases]
      BY <3>1, RecordedSays
    <3>3. file'.sets[c].cases = r.of[c].cases
      BY <3>2
    <3> QED
      BY <3>3 DEF c
  <2> QED
    BY <2>2, <2>3, <2>4, RoundedIsNear
<1> QED
  BY <1>1, <1>2, <1>3 DEF TypeOK, FileOfNumbers, CapabilityOf

\* A run that passes is recorded at the floor or over it.
LEMMA RecordedAboveFloor ==
  ASSUME NEW b, NEW r \in Runs, Fired(b, r) = {}, file' = Recorded(r)
  PROVE  FloorIsKept'
<1>1. ASSUME NEW name \in DOMAIN file'.metrics \intersect DOMAIN Floors
      PROVE  file'.metrics[name] >= Rounded(Floors[name])
  <2>1. name \in Names(r) /\ name \in Compared(b, r)
    BY RecordedSays DEF Compared
  <2>2. ~(Value(r, name) < Floors[name])
    BY <2>1, NoRuleFired DEF BelowFloor
  <2>3. Value(r, name) \in Int /\ Floors[name] \in Int
    BY <2>1, RunsTyped, NumbersAssumption
  <2>4. Rounded(Floors[name]) <= Rounded(Value(r, name))
    BY <2>2, <2>3, RoundedIsMonotone
  <2>5. Rounded(Floors[name]) \in Int /\ Rounded(Value(r, name)) \in Int
    BY <2>3, RoundedIsNear
  <2> QED
    BY <2>1, <2>4, <2>5, RecordedSays
<1> QED
  BY <1>1 DEF FloorIsKept

-----------------------------------------------------------------------------
\* A run recorded was judged by the file there was, its own tag's, and passed.
LEMMA RecordedPassed ==
  ASSUME RunMeasured, Judge, file' # file
  PROVE  /\ run \in Runs /\ run.record /\ file' = Recorded(run) /\ Found = file
         /\ ~Unreadable(run) /\ Fired(Baseline(run), run) = {}
<1>1. run # NoRun /\ run.record /\ ExitCode(run) = 0 /\ file' = Recorded(run)
  BY DEF Judge
<1>2. ~Unreadable(run)
  BY <1>1 DEF ExitCode
<1>3. Fired(Baseline(run), run) = {}
  BY <1>1, <1>2 DEF ExitCode
<1>4. Found = file
  BY <1>2 DEF Unreadable, Found
<1> QED
  BY <1>1, <1>2, <1>3, <1>4 DEF RunMeasured

LEMMA InitIInv == Init => IInv
  BY DEF Init, IInv, RunMeasured, TypeOK, FileOfNumbers, FloorIsKept

LEMMA NextKeepsIInv == IInv /\ [Next]_vars => IInv'
<1> SUFFICES ASSUME IInv, [Next]_vars PROVE IInv'
  OBVIOUS
<1>1. CASE Measure
  <2>1. run' \in Runs /\ file' = file /\ torn' = torn
    BY <1>1 DEF Measure
  <2>2. run'.tag \in {OwnTag, OtherTag} /\ DOMAIN run'.of = Capabilities
    BY <2>1, RunsTyped
  <2> QED
    BY <2>1, <2>2 DEF IInv, RunMeasured, TypeOK, FileOfNumbers, FloorIsKept, CapabilityOf
<1>2. CASE Judge
  <2>1. run' = NoRun /\ torn' = torn /\ torn \in BOOLEAN
    BY <1>2 DEF Judge, IInv, TypeOK
  <2>2. CASE file' = file
    BY <2>1, <2>2 DEF IInv, RunMeasured, TypeOK, FileOfNumbers, FloorIsKept, CapabilityOf
  <2>3. CASE file' # file
    <3>1. run \in Runs /\ file' = Recorded(run) /\ Fired(Baseline(run), run) = {}
      BY <1>2, <2>3, RecordedPassed DEF IInv
    <3>2. TypeOK' /\ FileOfNumbers'
      BY <2>1, <3>1, RecordedTyped
    <3>3. FloorIsKept'
      BY <3>1, RecordedAboveFloor
    <3> QED
      BY <2>1, <3>2, <3>3 DEF IInv, RunMeasured
  <2> QED
    BY <2>2, <2>3
<1>3. CASE Delete
  BY <1>3 DEF Delete, IInv, RunMeasured, TypeOK, FileOfNumbers, FloorIsKept
<1>4. CASE CutShort
  BY <1>4 DEF CutShort, IInv, RunMeasured, TypeOK, FileOfNumbers, FloorIsKept, CapabilityOf
<1>5. CASE UNCHANGED vars
  BY <1>5 DEF vars, IInv, RunMeasured, TypeOK, FileOfNumbers, FloorIsKept, CapabilityOf
<1> QED
  BY <1>1, <1>2, <1>3, <1>4, <1>5 DEF Next

\* The invariant holds of every file and run, for any floors and tolerance.
THEOREM GateInductive == Spec => []IInv
<1> QED
  BY InitIInv, NextKeepsIInv, PTL DEF Spec

\* A recorded file is a baseline, to the decimals recorded (baselines.py recorded).
THEOREM GateTypeCorrect == Spec => []TypeOK
<1>1. IInv => TypeOK
  BY DEF IInv
<1> QED
  BY <1>1, GateInductive, PTL

\* No metric on file is under its floor, however runs are recorded over one
\* another (runner.py:196-201), for any floors.
THEOREM FloorNeverLost == Spec => []FloorIsKept
<1>1. IInv => FloorIsKept
  BY DEF IInv
<1> QED
  BY <1>1, GateInductive, PTL

-----------------------------------------------------------------------------
\* What one recorded baseline keeps of the one it replaces, by its metric.
LEMMA RecordedKeepsMetric ==
  ASSUME NEW b, NEW r \in Runs, Fired(b, r) = {},
         NEW name \in DOMAIN b.metrics, b.metrics[name] \in Int
  PROVE  /\ name \in DOMAIN Recorded(r).metrics
         /\ 2 * (b.metrics[name] - Recorded(r).metrics[name]) <= 2 * r.tolerance + Place
<1>1. name \in Names(r) /\ ~Regressed(b, r, name)
  BY NoRuleFired DEF Compared
<1>2. Value(r, name) \in Int /\ r.tolerance \in Nat /\ Place \in Nat
  BY <1>1, RunsTyped, PlaceAssumption
<1>3. ~(b.metrics[name] - Value(r, name) > r.tolerance)
  BY <1>1 DEF Regressed
<1>4. /\ Rounded(Value(r, name)) \in Int
      /\ 2 * (Value(r, name) - Rounded(Value(r, name))) <= Place
  BY <1>2, RoundedIsNear
<1>5. Recorded(r).metrics[name] = Rounded(Value(r, name)) /\ name \in DOMAIN Recorded(r).metrics
  BY <1>1, RecordedSays
<1> DEFINE v == Value(r, name)
           w == Rounded(v)
<1>6. v \in Int /\ w \in Int /\ ~(b.metrics[name] - v > r.tolerance) /\ 2 * (v - w) <= Place
  BY <1>2, <1>3, <1>4
<1> HIDE DEF v, w
<1>7. 2 * (b.metrics[name] - w) <= 2 * r.tolerance + Place
  BY <1>2, <1>6
<1> QED
  BY <1>5, <1>7 DEF v, w

LEMMA JudgeKeepsEvidence ==
  ASSUME IInv, Judge, file # NoFile, file' # file
  PROVE  KeepsEvidence
<1>1. /\ run \in Runs /\ run.record /\ file' = Recorded(run)
      /\ ~Unreadable(run) /\ Fired(file, run) = {}
  BY RecordedPassed DEF IInv, Baseline
<1>2. file'.tag = file.tag
  <2>1. Found = file
    BY RecordedPassed DEF IInv
  <2> QED
    BY <1>1, <2>1, RecordedSays DEF Unreadable
<1>3. ASSUME NEW c \in Capabilities PROVE file'.sets[c].cases >= file.sets[c].cases
  <2>1. ~(run.of[c].cases < file.sets[c].cases)
    BY <1>1, NoRuleFired DEF LostCases
  <2>2. run.of[c].cases \in Int /\ file.sets[c].cases \in Int
    <3>1. run.of[c].cases \in 0..MaxCases
      BY <1>1, RunsTyped
    <3>2. file.sets[c] \in [version : VersionsOf[c], cases : 0..MaxCases]
      BY DEF IInv, TypeOK
    <3> QED
      BY <3>1, <3>2, NumbersAssumption
  <2>3. Recorded(run).sets[c] = [version |-> run.of[c].version, cases |-> run.of[c].cases]
    BY <1>1, RecordedSays
  <2>4. file'.sets[c].cases = run.of[c].cases
    BY <1>1, <2>3
  <2> QED
    BY <2>1, <2>2, <2>4
<1>4. ASSUME DOMAIN file.metrics # {}
      PROVE  /\ file'.depth = file.depth
             /\ \A c \in Capabilities : file'.sets[c].version = file.sets[c].version
  <2>1. ~OtherQuestion(file, run)
    BY <1>1, NoRuleFired
  <2>2. file.depth = run.depth /\ \A c \in Capabilities : file.sets[c].version = run.of[c].version
    BY <1>4, <2>1 DEF OtherQuestion
  <2>3. ASSUME NEW c \in Capabilities PROVE file'.sets[c].version = file.sets[c].version
    <3>1. Recorded(run).sets[c] = [version |-> run.of[c].version, cases |-> run.of[c].cases]
      BY <1>1, RecordedSays
    <3> QED
      BY <1>1, <2>2, <3>1
  <2> QED
    BY <1>1, <2>2, <2>3, RecordedSays
<1>5. ASSUME NEW name \in DOMAIN file.metrics
      PROVE  /\ name \in DOMAIN file'.metrics
             /\ 2 * (file.metrics[name] - file'.metrics[name]) <= 2 * run.tolerance + Place
  <2>1. file.metrics[name] \in Int
    BY DEF IInv, FileOfNumbers
  <2> QED
    BY <1>1, <2>1, RecordedKeepsMetric
<1> QED
  BY <1>2, <1>3, <1>4, <1>5 DEF KeepsEvidence

\* A recording never takes evidence out of the record, nor lets a metric fall by
\* more than the tolerance and a rounding (gate.py:17-23), for any sets,
\* tolerance and number of decimals.
THEOREM EvidenceNeverLost == Spec => EvidenceIsKept
<1>1. IInv /\ [Next]_vars => [KeepsEvidence]_vars
  <2> SUFFICES ASSUME IInv, Next, file # NoFile, file' \notin {NoFile, file}
               PROVE  KeepsEvidence
    BY DEF KeepsEvidence, vars
  <2>1. Judge
    BY DEF Next, Measure, CutShort, Delete
  <2> QED
    BY <2>1, JudgeKeepsEvidence
<1> QED
  BY <1>1, GateInductive, PTL DEF Spec, EvidenceIsKept

-----------------------------------------------------------------------------
\* A run that passed is of its record's question, covers it and is over the floors.
LEMMA BreaksNoOtherRule ==
  ASSUME NEW b, NEW r \in Runs, Fired(b, r) = {}
  PROVE  /\ ~OtherQuestion(Recorded(r), r)
         /\ LostCases(Recorded(r), r) = {}
         /\ \A name \in Compared(Recorded(r), r) : name \in Names(r) /\ ~BelowFloor(r, name)
<1>1. ~OtherQuestion(Recorded(r), r)
  <2>1. ASSUME NEW c \in Capabilities PROVE Recorded(r).sets[c].version = r.of[c].version
    <3>1. Recorded(r).sets[c] = [version |-> r.of[c].version, cases |-> r.of[c].cases]
      BY RecordedSays
    <3> QED
      BY <3>1
  <2> QED
    BY <2>1, RecordedSays DEF OtherQuestion
<1>2. LostCases(Recorded(r), r) = {}
  <2>1. ASSUME NEW c \in Capabilities PROVE ~(r.of[c].cases < Recorded(r).sets[c].cases)
    <3>1. Recorded(r).sets[c] = [version |-> r.of[c].version, cases |-> r.of[c].cases]
      BY RecordedSays
    <3>2. r.of[c].cases \in Int
      BY RunsTyped, NumbersAssumption
    <3> QED
      BY <3>1, <3>2
  <2> QED
    BY <2>1 DEF LostCases
<1>3. Compared(Recorded(r), r) = Names(r)
  BY RecordedSays DEF Compared
<1>4. ASSUME NEW name \in Names(r) PROVE ~BelowFloor(r, name)
  BY NoRuleFired DEF Compared
<1> QED
  BY <1>1, <1>2, <1>3, <1>4

\* A metric is a regression of its own record only if the tolerance is finer than
\* a rounding.
LEMMA RoundingWithinTolerance ==
  ASSUME NEW r \in Runs, NEW name \in Names(r), 2 * r.tolerance >= Place
  PROVE  ~Regressed(Recorded(r), r, name)
<1> DEFINE v == Value(r, name)
           w == Rounded(v)
<1>1. v \in Int /\ r.tolerance \in Nat
  BY RunsTyped
<1>2. w \in Int /\ 2 * (w - v) <= Place
  BY <1>1, RoundedIsNear
<1>3. Recorded(r).metrics[name] = w
  BY RecordedSays
<1> HIDE DEF v, w
<1>4. ~(w - v > r.tolerance)
  BY <1>1, <1>2, PlaceAssumption
<1> QED
  BY <1>3, <1>4 DEF Regressed, v

LEMMA PassesItsOwnRecord ==
  ASSUME NEW b, NEW r \in Runs, Fired(b, r) = {}
  PROVE  /\ Fired(Recorded(r), r) \subseteq {"degradation"}
         /\ 2 * r.tolerance >= Place => Fired(Recorded(r), r) = {}
<1>1. Fired(Recorded(r), r) =
        UNION {Broken(Recorded(r), r, name) : name \in Compared(Recorded(r), r)}
  BY BreaksNoOtherRule DEF Fired
<1>2. ASSUME NEW name \in Compared(Recorded(r), r)
      PROVE  /\ Broken(Recorded(r), r, name) \subseteq {"degradation"}
             /\ ~Regressed(Recorded(r), r, name) => Broken(Recorded(r), r, name) = {}
  BY BreaksNoOtherRule DEF Broken
<1>3. ASSUME 2 * r.tolerance >= Place, NEW name \in Compared(Recorded(r), r)
      PROVE  ~Regressed(Recorded(r), r, name)
  BY <1>3, BreaksNoOtherRule, RoundingWithinTolerance
<1> QED
  BY <1>1, <1>2, <1>3

\* A run that was recorded, made again, breaks no rule but the
\* degradation, and none at all under a tolerance of half of the last decimal
\* recorded or more, for any tolerances and any number of decimals.
THEOREM RecordedPassesAgain == Spec => PassesAgain
<1>1. IInv /\ [Next]_vars => [PassesWhenRecorded]_vars
  <2> SUFFICES ASSUME IInv, Next, file' \notin {NoFile, file} PROVE PassesWhenRecorded
    BY DEF PassesWhenRecorded, vars
  <2>1. Judge
    BY DEF Next, Measure, CutShort, Delete
  <2>2. run \in Runs /\ file' = Recorded(run) /\ Fired(Baseline(run), run) = {}
    BY <2>1, RecordedPassed DEF IInv
  <2> QED
    BY <2>2, PassesItsOwnRecord DEF PassesWhenRecorded
<1> QED
  BY <1>1, GateInductive, PTL DEF Spec, PassesAgain

-----------------------------------------------------------------------------
\* A metric's row fails exactly if the metric breaks a rule.
LEMMA RowFailsIfBroken ==
  ASSUME NEW b, NEW r, NEW name \in Compared(b, r)
  PROVE  Verdict(b, r, name) \in Failing <=> Broken(b, r, name) # {}
<1>1. CASE name \notin Names(r)
  BY <1>1 DEF Verdict, Broken, Failing
<1>2. CASE name \in Names(r) /\ BelowFloor(r, name)
  BY <1>2 DEF Verdict, Broken, Failing
<1>3. CASE name \in Names(r) /\ ~BelowFloor(r, name)
  BY <1>3 DEF Verdict, Broken, Failing, Regressed
<1> QED
  BY <1>1, <1>2, <1>3

\* Some rule fired exactly if some row fails or a set lost cases.
LEMMA TableShowsWhatFired ==
  ASSUME NEW b, NEW r
  PROVE  Fired(b, r) # {} <=> \/ \E row \in Table(b, r) : row.verdict \in Failing
                              \/ LostCases(b, r) # {}
<1>1. CASE OtherQuestion(b, r)
  <2>1. Fired(b, r) # {}
    BY <1>1 DEF Fired
  <2>2. PICK c \in Capabilities : TRUE
    BY MetricsAssumption
  <2>3. Row(c, "none", "incomparable") \in Table(b, r)
    BY <1>1 DEF Table
  <2>4. Row(c, "none", "incomparable").verdict \in Failing
    BY DEF Row, Failing
  <2> QED
    BY <2>1, <2>3, <2>4
<1>2. CASE ~OtherQuestion(b, r)
  <2>1. Fired(b, r) # {} <=> \/ LostCases(b, r) # {}
                             \/ \E name \in Compared(b, r) : Broken(b, r, name) # {}
    BY <1>2 DEF Fired
  <2>2. ASSUME NEW name \in Compared(b, r), Broken(b, r, name) # {}
        PROVE  \E row \in Table(b, r) : row.verdict \in Failing
    <3>1. Row(CapabilityOf(name), name, Verdict(b, r, name)) \in Table(b, r)
      BY <1>2 DEF Table
    <3>2. Row(CapabilityOf(name), name, Verdict(b, r, name)).verdict = Verdict(b, r, name)
      BY DEF Row
    <3> QED
      BY <2>2, <3>1, <3>2, RowFailsIfBroken
  <2>3. ASSUME NEW row \in Table(b, r), row.verdict \in Failing
        PROVE  \E name \in Compared(b, r) : Broken(b, r, name) # {}
    <3>1. CASE \E name \in Compared(b, r) : row = Row(CapabilityOf(name), name, Verdict(b, r, name))
      <4>1. PICK name \in Compared(b, r) : row = Row(CapabilityOf(name), name, Verdict(b, r, name))
        BY <3>1
      <4>2. row.verdict = Verdict(b, r, name)
        BY <4>1 DEF Row
      <4> QED
        BY <2>3, <4>1, <4>2, RowFailsIfBroken
    <3>2. CASE \E c \in Capabilities : row = Row(c, "none", "no cases")
                                         \/ row = Row(c, "none", "not implemented")
      <4>1. PICK c \in Capabilities : row = Row(c, "none", "no cases")
                                       \/ row = Row(c, "none", "not implemented")
        BY <3>2
      <4>2. \A verdict : Row(c, "none", verdict).verdict = verdict
        BY DEF Row
      <4>3. row.verdict = "no cases" \/ row.verdict = "not implemented"
        BY <4>1, <4>2, Zenon
      <4> QED
        BY <2>3, <4>3 DEF Failing
    <3> QED
      BY <1>2, <2>3, <3>1, <3>2 DEF Table
  <2> QED
    BY <2>1, <2>2, <2>3
<1> QED
  BY <1>1, <1>2

\* The table and the exit code agree (gate.py judge, runner.py main), for any
\* baseline and any run.
THEOREM TableAgreesWithExit == Spec => []TableExplainsTheExit
<1>1. TableExplainsTheExit
  BY TableShowsWhatFired DEF TableExplainsTheExit, ExitCode
<1> QED
  BY <1>1, PTL
=============================================================================
