----------------------------- MODULE StackProofs ----------------------------
(***************************************************************************)
(* What the smoke can conclude of the stack, for any number of faults and  *)
(* runs.  The invariant follows the one run a smoke sends: where its claim *)
(* is at each stage, that a run ends once, and that what was heard of it,  *)
(* unless it was cut off, is what it ended with.                           *)
(*                                                                         *)
(* Then the schema each service of the stack applies on first use, for any *)
(* number of threads and processes: the invariant is strengthened by what  *)
(* the lock protects.  A process with a creator in it has set its flag,    *)
(* and one that is still inserting has not.                                *)
(***************************************************************************)
EXTENDS Stack, SchemaOnFirstUse, FiniteSetTheorems, TLAPS

Stages == {"unsent", "take in", "record", "emit", "over"}
BeforeSubmission == {"not started", "asking", "submitting"}
Steps == BeforeSubmission \union {"submitted", "reading", "over"}

\* How a call of a run can end, and how the run does.
CallEndings ==
  {Ok, Ending("CoreSimUnreachable"), Ending("TriageStoreUnavailable"),
   Ending("UnexpectedResponse"), Ending("OperationalError"),
   Refusal("Refusal", 404, "policy_not_found")}

RunEndings ==
  {Ok, Ending("Unavailable"), Ending("UnexpectedResponse"), Ending("OperationalError"),
   Refusal("Refused", 404, "policy_not_found")}

Typed ==
  /\ stage \in [Runs -> Stages]
  /\ raised \in [Runs -> RunEndings \union {Unset}]
  /\ waits \subseteq Runs
  /\ DOMAIN claims \subseteq Runs
  /\ step \in Steps
  /\ cut \in BOOLEAN

\* The smoke sends one run.
OneRunSent ==
  /\ \A r \in Runs : stage[r] # "unsent" => r = run
  /\ step \in BeforeSubmission => heard = Unset /\ \A r \in Runs : stage[r] = "unsent"
  /\ step \in {"submitted", "reading"} => run \in Runs

\* What a run has left behind at each stage, and when it has ended.
StageOf(r) ==
  /\ stage[r] = "unsent" => r \notin DOMAIN claims /\ r \notin recorded /\ r \notin waits
  /\ stage[r] # "over" => raised[r] = Unset
  /\ stage[r] \in {"record", "emit"} => r \in DOMAIN claims
  /\ stage[r] = "emit" => r \in recorded
  /\ raised[r] = Ok => r \in recorded /\ r \in DOMAIN claims /\ claims[r] = "triaged"
  /\ r \in waits /\ stage[r] = "over" => raised[r] # Unset

HeardAsItEnded ==
  /\ heard = Unset => ~cut
  /\ step = "submitted" => heard = Unset
  /\ step # "over" => exit = Running
  /\ cut => heard = Ending("Unavailable")
  /\ heard # Unset /\ ~cut =>
       run \in Runs /\ stage[run] = "over" /\ SameEnd(heard, raised[run])
  /\ step = "reading" \/ exit = 0 => heard = Ok

IInv == Typed /\ OneRunSent /\ (\A r \in Runs : StageOf(r)) /\ HeardAsItEnded

-----------------------------------------------------------------------------
LEMMA EndingsDiffer ==
  /\ Ok # Unset /\ Ok # Ending("Unavailable") /\ Unset # Ending("Unavailable")
  /\ Ok.is = "ok" /\ Ending("Unavailable").is = "Unavailable"
BY DEF Ok, Unset, Ending

\* One hop: a success, an outage and a refusal with a code of ours are read as
\* they were answered; anything else is a defect of the answer's (boundary.py,
\* triage/client.py).
LEMMA OneHop ==
  ASSUME NEW its, NEW expected,
         \/ its = Ok \/ its = Ending("Unavailable")
         \/ \E status \in Int \ {expected}, code \in BoundaryCodes \ {"service_unavailable"} :
              its = Refusal("Refused", status, code)
         \/ its # Ok /\ its.is \notin {"Unavailable", "Refused"},
         expected \in {200, 201}
  PROVE  AskedOfBoundary(Answered(its, expected), expected)
           = IF its = Ok \/ its.is \in {"Unavailable", "Refused"}
             THEN its ELSE Ending("UnexpectedAnswer")
<1>1. CASE its = Ok
  BY <1>1 DEF AskedOfBoundary, Answered, Reply, NoReply, Ok, Ending
<1>2. CASE its = Ending("Unavailable")
  BY <1>2 DEF AskedOfBoundary, Answered, Reply, NoReply, Ok, Ending, BoundaryCodes, ErrorCodes
<1>3. ASSUME NEW status \in Int \ {expected}, NEW code \in BoundaryCodes \ {"service_unavailable"},
             its = Refusal("Refused", status, code)
      PROVE  AskedOfBoundary(Answered(its, expected), expected) = its /\ its.is = "Refused"
  <2>1. its # Ok /\ its.is = "Refused" /\ its.status = status /\ its.code = code
    BY <1>3 DEF Refusal, Ok, Ending
  <2>2. Answered(its, expected) = Reply(status, code)
    BY <2>1 DEF Answered
  <2>3. Reply(status, code) # NoReply
    BY DEF Reply, NoReply, BoundaryCodes, ErrorCodes
  <2>4. Reply(status, code).status = status /\ Reply(status, code).body = code
    BY DEF Reply
  <2>. QED
    BY <1>3, <2>1, <2>2, <2>3, <2>4 DEF AskedOfBoundary
<1>4. CASE its # Ok /\ its.is \notin {"Unavailable", "Refused"}
  <2>1. Answered(its, expected) = InternalServerError
    BY <1>4 DEF Answered
  <2>. QED
    BY <1>4, <2>1 DEF AskedOfBoundary, InternalServerError, Reply, NoReply, BoundaryCodes, ErrorCodes
<1>. QED
  BY <1>1, <1>2, <1>3, <1>4

\* Two hops tell a run's end, whatever it ended with: a status and a code of ours
\* come out as they went in, an outage as an outage, all else as a defect.
THEOREM TwoHopsTellTheEnd ==
  ASSUME NEW its,
         \/ its = Ok \/ its = Ending("Unavailable")
         \/ \E status \in Int \ {201}, code \in BoundaryCodes \ {"service_unavailable"} :
              its = Refusal("Refused", status, code)
         \/ its # Ok /\ its.is \notin {"Unavailable", "Refused"}
  PROVE  SameEnd(AskedOfBoundary(Answered(AskedOfBoundary(Answered(its, 201), 201), 201), 201), its)
<1>. DEFINE hop(e) == AskedOfBoundary(Answered(e, 201), 201)
<1>1. hop(its) = IF its = Ok \/ its.is \in {"Unavailable", "Refused"}
                 THEN its ELSE Ending("UnexpectedAnswer")
  BY OneHop
<1>2. hop(Ending("UnexpectedAnswer")) = Ending("UnexpectedAnswer")
  <2>1. Ending("UnexpectedAnswer") # Ok /\ Ending("UnexpectedAnswer").is = "UnexpectedAnswer"
    BY DEF Ending, Ok
  <2>. QED
    BY <2>1, OneHop
<1>3. Ending("UnexpectedAnswer").is = "UnexpectedAnswer"
  BY DEF Ending
<1>. HIDE DEF hop
<1>4. SameEnd(hop(hop(its)), its)
  BY <1>1, <1>2, <1>3 DEF SameEnd
<1>. QED
  BY <1>4 DEF hop

-----------------------------------------------------------------------------
LEMMA EndingsOfRuns ==
  /\ \A e \in CallEndings : Raised(e) \in RunEndings /\ (Raised(e) = Ok <=> e = Ok)
  /\ Unset \notin RunEndings
BY DEF CallEndings, RunEndings, Raised, Unset, Ok, Ending, Refusal

\* The calls of a run end in one of CallEndings, and only a call that was served
\* with the document ends well.
LEMMA CallsEnd ==
  /\ \A expected \in {200, 201} : AskedOfSystems(NoReply, expected) \in CallEndings \ {Ok}
  /\ LET found == AskedOfSystems(SystemsReply(Reply(404, "policy_not_found")), 201)
     IN  found \in CallEndings \ {Ok}
  /\ \A expected \in {200, 201} :
       LET served == AskedOfSystems(SystemsReply(Reply(expected, "document")), expected)
       IN  served \in CallEndings /\ (served = Ok => Serving)
BY DEF AskedOfSystems, SystemsReply, Serving, Reply, NoReply, InternalServerError, ErrorCodes,
       CallEndings, Ok, Ending, Refusal

\* What the smoke hears of a run that ended is how it ended.
LEMMA Heard ==
  ASSUME NEW its \in RunEndings
  PROVE  LET heardOf == AskedOfBoundary(Answered(AskedOfBoundary(Answered(its, 201), 201), 201), 201)
         IN  SameEnd(heardOf, its) /\ heardOf # Unset
<1>. DEFINE heardOf == AskedOfBoundary(Answered(AskedOfBoundary(Answered(its, 201), 201), 201), 201)
<1>1. \/ its = Ok \/ its = Ending("Unavailable")
      \/ its = Refusal("Refused", 404, "policy_not_found")
      \/ its # Ok /\ its.is \notin {"Unavailable", "Refused"}
  BY DEF RunEndings, Ok, Ending, Refusal
<1>2. 404 \in Int \ {201} /\ "policy_not_found" \in BoundaryCodes \ {"service_unavailable"}
  BY DEF BoundaryCodes, ErrorCodes
<1>3. SameEnd(heardOf, its)
  BY <1>1, <1>2, TwoHopsTellTheEnd
<1>4. Unset.is = "none" /\ Unset # Ok
  BY DEF Unset, Ending, Ok
<1>5. heardOf # Unset
  BY <1>3, <1>4, EndingsOfRuns DEF SameEnd
<1>. QED
  BY <1>3, <1>5

\* An answer cut off on its way is told as an outage.
LEMMA CutOffIsAnOutage ==
  /\ AskedOfBoundary(NoReply, 201) = Ending("Unavailable")
  /\ AskedOfBoundary(ApiHadNoAnswer, 201) = Ending("Unavailable")
<1>1. AskedOfBoundary(NoReply, 201) = Ending("Unavailable")
  BY DEF AskedOfBoundary
<1>2. Ending("Unavailable") # Ok /\ Ending("Unavailable").is = "Unavailable"
  BY EndingsDiffer
<1>3. AskedOfBoundary(Answered(Ending("Unavailable"), 201), 201) = Ending("Unavailable")
  BY <1>2, OneHop
<1>. QED
  BY <1>1, <1>3 DEF ApiHadNoAnswer

-----------------------------------------------------------------------------
\* A step of a run keeps the invariant if it only adds to what there is of that
\* run, and leaves what the stage it goes on to has.
LEMMA RunStep ==
  ASSUME IInv, NEW r \in Runs, NEW now \in {"take in", "record", "emit"},
         NEW next \in {"record", "emit", "over"}, NEW ending \in CallEndings,
         At(r, now), GoesOn(r, ending, next),
         recorded \subseteq recorded', recorded' \subseteq recorded \union {r},
         DOMAIN claims \subseteq DOMAIN claims', DOMAIN claims' \subseteq DOMAIN claims \union {r},
         \A q \in DOMAIN claims \ {r} : claims'[q] = claims[q],
         ending = Ok => /\ r \in DOMAIN claims'
                        /\ next \in {"emit", "over"} => r \in recorded'
                        /\ next = "over" => claims'[r] = "triaged"
  PROVE  IInv'
<1>1. /\ stage[r] = now /\ stage[r] # "unsent" /\ stage[r] # "over"
      /\ raised[r] = Unset
      /\ UNCHANGED <<waits, step, run, heard, cut, exit>>
  BY DEF At, GoesOn, IInv, StageOf, smoke
<1>2. /\ stage' = [stage EXCEPT ![r] = IF ending = Ok THEN next ELSE "over"]
      /\ raised' = [raised EXCEPT ![r] = IF ending = Ok /\ next # "over" THEN @ ELSE Raised(ending)]
  BY DEF GoesOn
<1>3. Raised(ending) \in RunEndings /\ (Raised(ending) = Ok <=> ending = Ok)
      /\ Unset \notin RunEndings /\ Unset # Ok
  BY EndingsOfRuns, EndingsDiffer
<1>4. Typed'
  BY <1>1, <1>2, <1>3 DEF IInv, Typed, Stages
<1>5. OneRunSent'
  BY <1>1, <1>2 DEF IInv, OneRunSent, Typed
<1>6. ASSUME NEW q \in Runs PROVE StageOf(q)'
  <2>1. CASE q # r
    BY <1>1, <1>2, <2>1 DEF IInv, Typed, StageOf
  <2>2. CASE q = r
    <3>1. stage'[r] = (IF ending = Ok THEN next ELSE "over") /\ r \in DOMAIN raised
      BY <1>2 DEF IInv, Typed
    <3>2. raised'[r] = IF ending = Ok /\ next # "over" THEN Unset ELSE Raised(ending)
      BY <1>1, <1>2, <3>1
    <3>. QED
      BY <1>3, <2>2, <3>1, <3>2 DEF StageOf
  <2>. QED
    BY <2>1, <2>2
<1>7. HeardAsItEnded'
  <2>1. run = r => heard = Unset \/ cut
    BY <1>1 DEF IInv, HeardAsItEnded
  <2>2. heard # Unset /\ ~cut => stage'[run] = stage[run] /\ raised'[run] = raised[run]
    BY <1>2, <2>1 DEF IInv, Typed, HeardAsItEnded
  <2>. QED
    BY <1>1, <2>2 DEF IInv, HeardAsItEnded, SameEnd
<1>. QED
  BY <1>4, <1>5, <1>6, <1>7 DEF IInv

\* A step that leaves the runs and what they left behind alone, and does not end
\* the submission.
LEMMA SmokeStepKeeps ==
  ASSUME IInv, UNCHANGED <<systems, runs, run, heard, cut>>,
         step' = step \/ step' = "over" \/ (step' \in BeforeSubmission /\ step \in BeforeSubmission),
         step' # "over" => exit' = exit,
         exit' = 0 => exit = 0 \/ heard = Ok
  PROVE  IInv'
<1>1. Typed'
  BY DEF IInv, Typed, Steps, systems, runs
<1>2. OneRunSent'
  BY DEF IInv, OneRunSent, systems, runs, BeforeSubmission
<1>3. ASSUME NEW r \in Runs PROVE StageOf(r)'
  BY DEF IInv, StageOf, systems, runs
<1>4. HeardAsItEnded'
  BY DEF IInv, HeardAsItEnded, SameEnd, systems, runs, BeforeSubmission, Typed, Steps
<1>. QED
  BY <1>1, <1>2, <1>3, <1>4 DEF IInv

\* The submission ends cut off, whatever the services do to its run.
LEMMA CutOffKeeps ==
  ASSUME IInv, step \in {"submitting", "submitted"},
         NEW reply \in {NoReply, ApiHadNoAnswer}, CutOff(reply),
         Typed', \A r \in Runs : StageOf(r)',
         \A r \in Runs : stage'[r] # "unsent" => stage[r] # "unsent"
  PROVE  IInv'
<1>1. heard' = Ending("Unavailable") /\ cut' = TRUE /\ run' = run
  BY CutOffIsAnOutage DEF CutOff, Hears
<1>2. exit' = 1 /\ step' = "over"
  BY <1>1, EndingsDiffer DEF CutOff, Hears, Ends
<1>3. OneRunSent'
  BY <1>1, <1>2 DEF IInv, OneRunSent, BeforeSubmission
<1>4. HeardAsItEnded'
  BY <1>1, <1>2, EndingsDiffer DEF HeardAsItEnded
<1>. QED
  BY <1>3, <1>4 DEF IInv

-----------------------------------------------------------------------------
LEMMA InitInv == Init => IInv
<1>. SUFFICES ASSUME Init PROVE IInv
  OBVIOUS
<1>1. claims = << >> /\ DOMAIN << >> = {} /\ recorded = {} /\ waits = {}
  <2>1. DOMAIN << >> = {}
    BY SMT
  <2>. QED
    BY <2>1 DEF Init
<1>2. \A r \in Runs : stage[r] = "unsent" /\ raised[r] = Unset
  BY DEF Init
<1>3. Typed
  BY <1>1 DEF Init, Typed, Stages, Steps, BeforeSubmission
<1>4. OneRunSent
  BY <1>2 DEF Init, OneRunSent
<1>5. ASSUME NEW r \in Runs PROVE StageOf(r)
  BY <1>1, <1>2, EndingsDiffer DEF StageOf
<1>6. HeardAsItEnded
  <2>1. heard = Unset /\ cut = FALSE /\ step = "not started" /\ exit = Running
    BY DEF Init
  <2>2. Running # 0
    BY DEF Running
  <2>. QED
    BY <2>1, <2>2 DEF HeardAsItEnded
<1>. QED
  BY <1>3, <1>4, <1>5, <1>6 DEF IInv

LEMMA ServicesKeep ==
  ASSUME IInv, NEW s \in Services, Start(s) \/ Stop(s) PROVE IInv'
<1>1. CASE Start(s)
  BY <1>1, SmokeStepKeeps DEF Start, smoke
<1>2. CASE Stop(s)
  <2>1. /\ UNCHANGED <<claims, recorded, raised>>
        /\ stage' = IF s = "triager"
                    THEN [r \in Runs |-> IF stage[r] = "unsent" THEN "unsent" ELSE "over"]
                    ELSE stage
        /\ waits' = IF s \in {"api", "triager"} THEN {} ELSE waits
    BY <1>2 DEF Stop, systems
  <2>2. \A r \in Runs : /\ stage'[r] # "unsent" <=> stage[r] # "unsent"
                        /\ stage'[r] # "over" => stage[r] = stage'[r]
                        /\ stage[r] = "over" => stage'[r] = "over"
                        /\ r \in waits' => r \in waits /\ stage'[r] = stage[r]
    BY <2>1
  <2>3. stage' \in [Runs -> Stages] /\ waits' \subseteq Runs
    BY <2>1 DEF IInv, Typed, Stages
  <2>4. ASSUME NEW r \in Runs PROVE StageOf(r)'
    <3>1. stage[r] \in Stages /\ stage'[r] \in Stages
      BY <2>3 DEF IInv, Typed
    <3>. QED
      BY <2>1, <2>2, <3>1 DEF IInv, StageOf, Stages
  <2>5. CASE step = "submitted" /\ run \in waits /\ s \in {"api", "triager"}
    <3>1. PICK reply \in {NoReply, ApiHadNoAnswer} : CutOff(reply)
      BY <1>2, <2>5 DEF Stop
    <3>2. Typed'
      BY <2>1, <2>3, <3>1, CutOffIsAnOutage, EndingsDiffer
         DEF CutOff, Hears, Ends, IInv, Typed, Steps
    <3>. QED
      BY <2>2, <2>4, <2>5, <3>1, <3>2, CutOffKeeps
  <2>6. CASE ~ (step = "submitted" /\ run \in waits /\ s \in {"api", "triager"})
    <3>1. UNCHANGED smoke
      BY <1>2, <2>6 DEF Stop
    <3>2. Typed' /\ OneRunSent'
      BY <2>1, <2>2, <2>3, <3>1 DEF smoke, IInv, Typed, OneRunSent
    <3>3. HeardAsItEnded'
      BY <2>1, <2>2, <3>1 DEF smoke, IInv, HeardAsItEnded, SameEnd
    <3>. QED
      BY <2>4, <3>2, <3>3 DEF IInv
  <2>. QED
    BY <2>5, <2>6
<1>. QED
  BY <1>1, <1>2

LEMMA RunsKeep ==
  ASSUME IInv, NEW r \in Runs,
         \/ TakeIn(r) \/ TakeInTimesOut(r) \/ Record(r) \/ CommitLost(r)
         \/ Emit(r) \/ EmitTimesOut(r)
  PROVE  IInv'
<1>1. CASE TakeIn(r)
  <2>. DEFINE ending == AskedOfSystems(SystemsReply(IF held THEN Reply(201, "document")
                                                    ELSE Reply(404, "policy_not_found")), 201)
  <2>1. At(r, "take in") /\ GoesOn(r, ending, "record") /\ recorded' = recorded
        /\ IF Serving /\ held THEN TakenIn(r) ELSE UNCHANGED claims
    BY <1>1 DEF TakeIn
  <2>2. ending \in CallEndings /\ (ending = Ok => Serving /\ held)
    BY CallsEnd
  <2>. HIDE DEF ending
  <2>3. CASE Serving /\ held
    BY <2>1, <2>2, <2>3, RunStep DEF TakenIn
  <2>4. CASE ~ (Serving /\ held)
    BY <2>1, <2>2, <2>4, RunStep
  <2>. QED
    BY <2>3, <2>4
<1>2. CASE TakeInTimesOut(r)
  <2>1. At(r, "take in") /\ GoesOn(r, AskedOfSystems(NoReply, 201), "record")
        /\ recorded' = recorded /\ (UNCHANGED claims \/ TakenIn(r))
    BY <1>2 DEF TakeInTimesOut
  <2>2. AskedOfSystems(NoReply, 201) \in CallEndings \ {Ok}
    BY CallsEnd
  <2>3. CASE UNCHANGED claims
    BY <2>1, <2>2, <2>3, RunStep
  <2>4. CASE TakenIn(r)
    <3>1. /\ DOMAIN claims' = DOMAIN claims \union {r}
          /\ \A q \in DOMAIN claims \ {r} : claims'[q] = claims[q]
      BY <2>4 DEF TakenIn
    <3>. QED
      BY <2>1, <2>2, <3>1, RunStep
  <2>. QED
    BY <2>1, <2>3, <2>4
<1>3. CASE Record(r)
  <2>1. At(r, "record") /\ claims' = claims /\ r \in DOMAIN claims
    BY <1>3 DEF Record, At, IInv, StageOf
  <2>2. Ok \in CallEndings /\ Ending("TriageStoreUnavailable") \in CallEndings
        /\ Ending("TriageStoreUnavailable") # Ok
    BY DEF CallEndings, Ok, Ending
  <2>3. CASE "postgres" \in up
    BY <1>3, <2>1, <2>2, <2>3, RunStep DEF Record
  <2>4. CASE "postgres" \notin up
    BY <1>3, <2>1, <2>2, <2>4, RunStep DEF Record
  <2>. QED
    BY <2>3, <2>4
<1>4. CASE CommitLost(r)
  <2>1. Ending("OperationalError") \in CallEndings \ {Ok}
    BY DEF CallEndings, Ok, Ending
  <2>. QED
    BY <1>4, <2>1, RunStep DEF CommitLost
<1>5. CASE Emit(r)
  <2>. DEFINE ending == AskedOfSystems(SystemsReply(Reply(200, "document")), 200)
  <2>1. At(r, "emit") /\ GoesOn(r, ending, "over") /\ recorded' = recorded
        /\ claims' = IF Serving THEN [claims EXCEPT ![r] = "triaged"] ELSE claims
    BY <1>5 DEF Emit
  <2>2. ending \in CallEndings /\ (ending = Ok => Serving)
    BY CallsEnd
  <2>3. r \in DOMAIN claims /\ r \in recorded
    BY <2>1 DEF At, IInv, StageOf
  <2>. HIDE DEF ending
  <2>. QED
    BY <2>1, <2>2, <2>3, RunStep
<1>6. CASE EmitTimesOut(r)
  <2>1. At(r, "emit") /\ GoesOn(r, AskedOfSystems(NoReply, 200), "over")
        /\ recorded' = recorded /\ (UNCHANGED claims \/ claims' = [claims EXCEPT ![r] = "triaged"])
    BY <1>6 DEF EmitTimesOut
  <2>2. AskedOfSystems(NoReply, 200) \in CallEndings \ {Ok}
    BY CallsEnd
  <2>. QED
    BY <2>1, <2>2, RunStep
<1>. QED
  BY <1>1, <1>2, <1>3, <1>4, <1>5, <1>6

LEMMA AnswersKeep ==
  ASSUME IInv, NEW r \in Runs, Relay(r) \/ ApiTimesOut(r) PROVE IInv'
<1>1. /\ r \in waits /\ waits' = waits \ {r}
      /\ UNCHANGED <<stage, raised, claims, recorded>>
  BY DEF Relay, ApiTimesOut, systems
<1>2. ASSUME NEW q \in Runs PROVE StageOf(q)'
  BY <1>1 DEF IInv, StageOf
<1>3. CASE UNCHANGED smoke
  <2>1. Typed' /\ OneRunSent'
    BY <1>1, <1>3 DEF smoke, IInv, Typed, OneRunSent
  <2>2. HeardAsItEnded'
    BY <1>1, <1>3 DEF smoke, IInv, HeardAsItEnded, SameEnd
  <2>. QED
    BY <1>2, <2>1, <2>2 DEF IInv
<1>4. CASE Relay(r) /\ Submitted(r)
  <2>. DEFINE told == AskedOfBoundary(Answered(AskedOfBoundary(Answered(raised[r], 201), 201), 201), 201)
  <2>1. stage[r] = "over" /\ step = "submitted" /\ run = r /\ ~cut
    BY <1>4 DEF Relay, Submitted, IInv, HeardAsItEnded
  <2>2. raised[r] \in RunEndings
    BY <1>1, <2>1 DEF IInv, Typed, StageOf
  <2>3. SameEnd(told, raised[r]) /\ told # Unset
    BY <2>2, Heard
  <2>4. heard' = told /\ UNCHANGED <<run, cut>>
        /\ IF told = Ok THEN step' = "reading" /\ exit' = exit ELSE exit' = 1 /\ step' = "over"
    BY <1>4 DEF Relay, Hears, Ends
  <2>. HIDE DEF told
  <2>5. Typed'
    BY <1>1, <2>4 DEF IInv, Typed, Steps
  <2>6. OneRunSent'
    BY <1>1, <2>1, <2>4 DEF IInv, OneRunSent, BeforeSubmission
  <2>7. HeardAsItEnded'
    <3>1. exit = Running /\ Running # 0
      BY <2>1 DEF IInv, HeardAsItEnded, Running
    <3>2. SameEnd(heard', raised'[run'])
      BY <1>1, <2>1, <2>3, <2>4
    <3>. QED
      BY <1>1, <2>1, <2>3, <2>4, <3>1, <3>2 DEF HeardAsItEnded, SameEnd
  <2>. QED
    BY <1>2, <2>5, <2>6, <2>7 DEF IInv
<1>5. CASE ApiTimesOut(r) /\ Submitted(r)
  <2>1. CutOff(ApiHadNoAnswer) /\ step = "submitted"
    BY <1>5 DEF ApiTimesOut, Submitted
  <2>2. Typed'
    BY <1>1, <2>1, CutOffIsAnOutage, EndingsDiffer DEF CutOff, Hears, Ends, IInv, Typed, Steps
  <2>. QED
    BY <1>1, <1>2, <2>1, <2>2, CutOffKeeps
<1>. QED
  BY <1>3, <1>4, <1>5 DEF Relay, ApiTimesOut

LEMMA SmokeKeeps ==
  ASSUME IInv, SmokeStep \/ SmokeTimesOut \/ DeadlinePasses PROVE IInv'
<1>1. CASE SmokeStarts
  BY <1>1, SmokeStepKeeps DEF SmokeStarts, BeforeSubmission
<1>2. CASE AskReadiness
  <2>1. UNCHANGED <<systems, runs, run, heard, cut>> /\ step = "asking"
    BY <1>2 DEF AskReadiness
  <2>2. \/ step' = "submitting" /\ exit' = exit
        \/ exit' = 1 /\ step' = "over"
        \/ UNCHANGED <<step, exit>>
    BY <1>2 DEF AskReadiness, Waits, Ends
  <2>3. CASE step' = "submitting" /\ exit' = exit
    BY <2>1, <2>3, SmokeStepKeeps DEF BeforeSubmission
  <2>4. CASE exit' = 1 /\ step' = "over"
    BY <2>1, <2>4, SmokeStepKeeps
  <2>5. CASE UNCHANGED <<step, exit>>
    BY <2>1, <2>5, SmokeStepKeeps
  <2>. QED
    BY <2>2, <2>3, <2>4, <2>5
<1>3. CASE Submit
  <2>1. step = "submitting" /\ UNCHANGED <<claims, recorded>> /\ heard = Unset /\ ~cut /\ exit = Running
        /\ \A r \in Runs : stage[r] = "unsent"
    BY <1>3 DEF Submit, systems, IInv, OneRunSent, HeardAsItEnded, BeforeSubmission
  <2>2. CASE {"api", "triager"} \subseteq up
    <3>1. PICK r \in Runs : /\ stage' = [stage EXCEPT ![r] = "take in"]
                            /\ waits' = waits \union {r}
                            /\ run' = r /\ step' = "submitted"
                            /\ UNCHANGED <<raised, heard, cut, exit>>
      BY <1>3, <2>2 DEF Submit
    <3>2. Typed'
      BY <2>1, <3>1 DEF IInv, Typed, Stages, Steps
    <3>3. OneRunSent'
      BY <2>1, <3>1 DEF IInv, Typed, OneRunSent, BeforeSubmission
    <3>4. ASSUME NEW q \in Runs PROVE StageOf(q)'
      BY <2>1, <3>1, EndingsDiffer DEF IInv, Typed, StageOf
    <3>5. HeardAsItEnded'
      BY <2>1, <3>1 DEF IInv, HeardAsItEnded, Running
    <3>. QED
      BY <3>2, <3>3, <3>4, <3>5 DEF IInv
  <2>3. CASE ~ ({"api", "triager"} \subseteq up)
    <3>1. PICK reply \in {NoReply, ApiHadNoAnswer} : CutOff(reply)
      BY <1>3, <2>3 DEF Submit
    <3>2. UNCHANGED runs
      BY <1>3, <2>3 DEF Submit
    <3>3. Typed'
      BY <2>1, <3>1, <3>2, CutOffIsAnOutage, EndingsDiffer
         DEF runs, CutOff, Hears, Ends, IInv, Typed, Steps
    <3>4. ASSUME NEW q \in Runs PROVE StageOf(q)'
      BY <2>1, <3>2 DEF runs, IInv, StageOf
    <3>. QED
      BY <2>1, <3>1, <3>2, <3>3, <3>4, CutOffKeeps DEF runs
  <2>. QED
    BY <2>2, <2>3
<1>4. CASE ReadBack
  <2>1. UNCHANGED <<systems, runs, run, heard, cut>> /\ heard = Ok
    BY <1>4 DEF ReadBack, IInv, HeardAsItEnded
  <2>2. step' = "over" \/ UNCHANGED <<step, exit>>
    BY <1>4 DEF ReadBack, Waits, Ends
  <2>. QED
    BY <2>1, <2>2, SmokeStepKeeps
<1>5. CASE SmokeTimesOut
  <2>1. CutOff(NoReply) /\ step = "submitted" /\ UNCHANGED <<systems, runs>>
    BY <1>5 DEF SmokeTimesOut
  <2>2. Typed'
    BY <2>1, CutOffIsAnOutage, EndingsDiffer
       DEF runs, systems, CutOff, Hears, Ends, IInv, Typed, Steps
  <2>3. ASSUME NEW q \in Runs PROVE StageOf(q)'
    BY <2>1 DEF runs, systems, IInv, StageOf
  <2>. QED
    BY <2>1, <2>2, <2>3, CutOffKeeps DEF runs
<1>6. CASE DeadlinePasses
  BY <1>6, SmokeStepKeeps DEF DeadlinePasses
<1>. QED
  BY <1>1, <1>2, <1>3, <1>4, <1>5, <1>6 DEF SmokeStep

LEMMA StepInv == IInv /\ [Next]_vars => IInv'
<1>. SUFFICES ASSUME IInv, [Next]_vars PROVE IInv'
  OBVIOUS
<1>1. CASE \E s \in Services : Start(s) \/ Stop(s)
  BY <1>1, ServicesKeep
<1>2. CASE SmokeStep \/ SmokeTimesOut \/ DeadlinePasses
  BY <1>2, SmokeKeeps
<1>3. CASE \E r \in Runs : \/ TakeIn(r) \/ TakeInTimesOut(r) \/ Record(r) \/ CommitLost(r)
                           \/ Emit(r) \/ EmitTimesOut(r)
  BY <1>3, RunsKeep
<1>4. CASE \E r \in Runs : Relay(r) \/ ApiTimesOut(r)
  BY <1>4, AnswersKeep
<1>5. CASE UNCHANGED vars
  BY <1>5, SmokeStepKeeps DEF vars, smoke
<1>. QED
  BY <1>1, <1>2, <1>3, <1>4, <1>5 DEF Next, SmokeStep

\* The strengthened invariant holds of every reachable state.
THEOREM StackInductive == Spec => []IInv
BY InitInv, StepInv, PTL DEF Spec

\* A green smoke's claim was carried all the way (GreenMeansCarried).
THEOREM GreenIsTrue == Spec => []GreenMeansCarried
<1>1. IInv => GreenMeansCarried
  <2>. SUFFICES ASSUME IInv, exit = 0 PROVE GreenMeansCarried
    BY DEF GreenMeansCarried
  <2>1. heard = Ok /\ ~cut
    BY EndingsDiffer DEF IInv, HeardAsItEnded
  <2>2. run \in Runs /\ raised[run] = Ok
    BY <2>1, EndingsDiffer DEF IInv, HeardAsItEnded, SameEnd
  <2>. QED
    BY <2>2 DEF IInv, StageOf, GreenMeansCarried
<1>. QED
  BY <1>1, StackInductive, PTL

\* The smoke leaves one claim at most, whatever it did not hear (AtMostOneClaim).
THEOREM OneClaimAtMost == Spec => []AtMostOneClaim
<1>1. IInv => AtMostOneClaim
  <2>. SUFFICES ASSUME IInv PROVE Cardinality(DOMAIN claims) <= 1
    BY DEF AtMostOneClaim
  <2>1. DOMAIN claims \subseteq {run}
    BY DEF IInv, Typed, StageOf, OneRunSent
  <2>2. IsFiniteSet({run}) /\ Cardinality({run}) = 1
    BY FS_Singleton
  <2>. QED
    BY <2>1, <2>2, FS_Subset
<1>. QED
  BY <1>1, StackInductive, PTL

\* The caller is told how its run ended, two hops away (ToldHowItEnded).
THEOREM CallerIsToldTheEnd == Spec => []ToldHowItEnded
<1>1. IInv => ToldHowItEnded
  BY EndingsDiffer DEF IInv, HeardAsItEnded, ToldHowItEnded
<1>. QED
  BY <1>1, StackInductive, PTL

-----------------------------------------------------------------------------
FlagFollowsCreator ==
  /\ \A d \in created : ProcessOf(d) \in applied
  /\ \A c \in Calls : pc[c] = "inserting" => ProcessOf(c) \notin applied

SchemaInv == TypeOK /\ FlagFollowsCreator /\ OnlyItsOwnCreatorMisleads

LEMMA SchemaInitInv == SchemaInit => SchemaInv
BY NoOneAssumption, ProcessOfAssumption
   DEF SchemaInit, SchemaInv, TypeOK, FlagFollowsCreator, OnlyItsOwnCreatorMisleads, CallSteps, Answers

\* Ending a call takes nothing from the others.
LEMMA SchemaStepInv == SchemaInv /\ [SchemaNext]_schemaVars => SchemaInv'
<1>. SUFFICES ASSUME SchemaInv, [SchemaNext]_schemaVars PROVE SchemaInv'
  OBVIOUS
<1>. USE NoOneAssumption, ProcessOfAssumption
<1>. USE DEF SchemaInv, TypeOK, FlagFollowsCreator, OnlyItsOwnCreatorMisleads, CallSteps, Answers,
             Goto, End, Undo, Release
<1>1. ASSUME NEW c \in Calls, Connect(c) PROVE SchemaInv'
  BY <1>1 DEF Connect
<1>2. ASSUME NEW c \in Calls, TakeLock(c) PROVE SchemaInv'
  BY <1>2 DEF TakeLock
<1>3. ASSUME NEW c \in Calls, Look(c) PROVE SchemaInv'
  <2>. DEFINE P == ProcessOf(c)
  <2>1. pc[c] = "locked" /\ UNCHANGED <<tables, created, answer, undone>>
    BY <1>3 DEF Look
  <2>2. CASE P \in applied \/ tables
    <3>1. /\ applied' = applied \union {P}
          /\ lock' = [lock EXCEPT ![P] = NoOne]
          /\ pc' = [pc EXCEPT ![c] = "ready"]
      BY <1>3, <2>2 DEF Look
    <3>2. TypeOK'
      BY <2>1, <3>1
    <3>3. FlagFollowsCreator'
      BY <2>1, <3>1
    <3>4. OnlyItsOwnCreatorMisleads'
      BY <2>1, <2>2, <3>1
    <3>. QED
      BY <3>2, <3>3, <3>4
  <2>3. CASE ~ (P \in applied \/ tables)
    <3>1. UNCHANGED <<applied, lock>> /\ pc' = [pc EXCEPT ![c] = "inserting"]
      BY <1>3, <2>3 DEF Look
    <3>2. TypeOK'
      BY <2>1, <3>1
    <3>3. FlagFollowsCreator'
      BY <2>1, <2>3, <3>1
    <3>4. OnlyItsOwnCreatorMisleads'
      BY <2>1, <3>1
    <3>. QED
      BY <3>2, <3>3, <3>4
  <2>. QED
    BY <2>2, <2>3
<1>4. ASSUME NEW c \in Calls, Create(c) PROVE SchemaInv'
  BY <1>4 DEF Create
<1>5. ASSUME NEW c \in Calls, Clash(c) PROVE SchemaInv'
  BY <1>5 DEF Clash
<1>6. ASSUME NEW c \in Calls, ApplyFails(c) PROVE SchemaInv'
  <2>1. TypeOK'
    BY <1>6 DEF ApplyFails
  <2>2. FlagFollowsCreator'
    BY <1>6 DEF ApplyFails
  <2>3. OnlyItsOwnCreatorMisleads'
    BY <1>6 DEF ApplyFails
  <2>. QED
    BY <2>1, <2>2, <2>3
<1>7. ASSUME NEW c \in Calls, Execute(c) PROVE SchemaInv'
  <2>1. CASE tables \/ c \in created
    BY <1>7, <2>1 DEF Execute
  <2>2. CASE ~ (tables \/ c \in created)
    BY <1>7, <2>2 DEF Execute
  <2>. QED
    BY <2>1, <2>2
<1>8. ASSUME NEW c \in Calls, Probe(c) PROVE SchemaInv'
  BY <1>8 DEF Probe
<1>9. ASSUME NEW c \in Calls, Commit(c) PROVE SchemaInv'
  BY <1>9 DEF Commit
<1>10. ASSUME NEW c \in Calls, RollBack(c) PROVE SchemaInv'
  <2>1. TypeOK'
    BY <1>10 DEF RollBack
  <2>2. FlagFollowsCreator'
    BY <1>10 DEF RollBack
  <2>3. OnlyItsOwnCreatorMisleads'
    BY <1>10 DEF RollBack
  <2>. QED
    BY <2>1, <2>2, <2>3
<1>11. ASSUME NEW p \in Processes, Restart(p) PROVE SchemaInv'
  BY <1>11 DEF Restart
<1>12. CASE UNCHANGED schemaVars
  BY <1>12 DEF schemaVars
<1>. QED
  BY <1>1, <1>2, <1>3, <1>4, <1>5, <1>6, <1>7, <1>8, <1>9, <1>10, <1>11, <1>12 DEF SchemaNext

\* The strengthened invariant: types, what the flag says of a process's creator,
\* and whom it misleads, for any threads and processes of either store.
THEOREM SchemaInductive == SchemaSpec => []SchemaInv
<1>1. SchemaInit => SchemaInv
  BY SchemaInitInv
<1>2. SchemaInv /\ [SchemaNext]_schemaVars => SchemaInv'
  BY SchemaStepInv
<1>. QED
  BY <1>1, <1>2, PTL DEF SchemaSpec

\* _schema_lock and the flag it guards keep the threads of one process out of each
\* other's way in Postgres: none waits there for a sibling's open transaction.
THEOREM SiblingsNeverClash == SchemaSpec => []NoThreadWaitsForItsSibling
<1>1. SchemaInv => NoThreadWaitsForItsSibling
  BY DEF SchemaInv, FlagFollowsCreator, NoThreadWaitsForItsSibling
<1>. QED
  BY <1>1, SchemaInductive, PTL

\* _schema_applied is only ever ahead of the tables by its own process's doing.
THEOREM FlagMisledOnlyByItsOwn == SchemaSpec => []OnlyItsOwnCreatorMisleads
<1>1. SchemaInv => OnlyItsOwnCreatorMisleads
  BY DEF SchemaInv
<1>. QED
  BY <1>1, SchemaInductive, PTL
=============================================================================
