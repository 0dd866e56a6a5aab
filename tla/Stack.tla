-------------------------------- MODULE Stack -------------------------------
(***************************************************************************)
(* The services together, as compose.yaml starts them and as smoke.py      *)
(* drives them: readiness is waited for, one claim is submitted at the     *)
(* entry point and carried by the triager to core-sim, and the claim is    *)
(* read back from there.  Services start in order, stop and are restarted; *)
(* a call times out at whichever hop, and what it asked for goes on.       *)
(***************************************************************************)
EXTENDS Boundary, FiniteSets

CONSTANTS MaxFaults,  \* bound: stops, timeouts and the deadline, together
          MaxRuns     \* bound: runs the entry point can mint

ASSUME BoundsAssumption == MaxFaults \in Nat /\ MaxRuns \in Nat \ {0}

VARIABLES begun,     \* the services compose has started
          up,        \* those that run now
          faults,    \* how many faults there were
          held,      \* whether core-sim holds the policy the claim is against
          claims,    \* core-sim: run -> status of the claim it took in
          recorded,  \* the triager's runs
          stage,     \* run -> what the triager does next for it
          raised,    \* run -> how it ended there
          waits,     \* the runs whose answer the api waits for
          step,      \* what the smoke does
          run,       \* the run it waits for, 0 if its claim reached none
          heard,     \* what its client made of the submission's answer
          cut,       \* history: that answer was cut off on its way
          late,      \* whether the smoke's deadline has passed
          exit       \* the smoke's exit code, or Running

services == <<begun, up>>
systems == <<held, claims, recorded>>
runs == <<stage, raised, waits>>
smoke == <<step, run, heard, cut, late, exit>>
vars == <<services, faults, systems, runs, smoke>>

Services == {"postgres", "core-sim", "triager", "api"}
Runs == 1..MaxRuns
Unset == Ending("none")
Running == -1

Init ==
  /\ begun = {} /\ up = {} /\ faults = 0
  /\ held \in BOOLEAN
  /\ claims = << >>
  /\ recorded = {}
  /\ stage = [r \in Runs |-> "unsent"]
  /\ raised = [r \in Runs |-> Unset]
  /\ waits = {}
  /\ step = "not started" /\ run = 0 /\ heard = Unset
  /\ cut = FALSE /\ late = FALSE /\ exit = Running

Fault == faults < MaxFaults /\ faults' = faults + 1

-----------------------------------------------------------------------------
\* What each service's health check says: the triager's readiness is its store's,
\* and not core-sim's; the api's is the triager's.
Healthy(s) ==
  /\ s \in up
  /\ s # "postgres" => "postgres" \in up
  /\ s = "api" => "triager" \in up

\* depends_on.  Mutant: the triager waits for what its readiness asks of.
DependsOnReadiness(s) ==
  IF s = "postgres" THEN {} ELSE IF s = "api" THEN {"triager"} ELSE {"postgres"}

DependsOn(s) ==
  IF s = "postgres" THEN {}
  ELSE IF s = "core-sim" THEN {"postgres"}
  ELSE IF s = "triager" THEN {"postgres", "core-sim"}
  ELSE {"triager"}

\* A service is started once all it depends on is healthy, and restarted always.
Start(s) ==
  /\ s \notin up
  /\ s \notin begun => \A d \in DependsOn(s) : Healthy(d)
  /\ begun' = begun \union {s}
  /\ up' = up \union {s}
  /\ UNCHANGED <<faults, systems, runs, smoke>>

-----------------------------------------------------------------------------
Ends(code) == exit' = code /\ step' = "over"

\* _waited: another attempt, unless the deadline has passed.
Waits == IF late THEN Ends(1) ELSE UNCHANGED <<step, exit>>

\* The submission's answer: a run that was carried is read back, anything else is
\* the end.  Mutant: a submission is waited out like a read.
HearsAndRetries(reply) ==
  /\ heard' = AskedOfBoundary(reply, 201)
  /\ IF heard' = Ok THEN step' = "reading" /\ UNCHANGED exit
     ELSE IF heard'.is = "Unavailable" /\ ~late THEN step' = "submitting" /\ UNCHANGED exit
     ELSE Ends(1)

Hears(reply) ==
  /\ heard' = AskedOfBoundary(reply, 201)
  /\ IF heard' = Ok THEN step' = "reading" /\ UNCHANGED exit ELSE Ends(1)

\* The smoke hears nothing, or that the api had no answer: it is told so.
CutOff(reply) == cut' = TRUE /\ Hears(reply) /\ UNCHANGED <<run, late>>
ApiHadNoAnswer == Answered(AskedOfBoundary(NoReply, 201), 201)

Submitted(r) == step = "submitted" /\ run = r

\* The container is started once the api is healthy.
SmokeStarts ==
  /\ step = "not started"
  /\ Healthy("api")
  /\ step' = "asking"
  /\ UNCHANGED <<services, faults, systems, runs, run, heard, cut, late, exit>>

\* Readiness, from the store through triager and api to the smoke.
ReadinessReply ==
  LET triager == Answered(IF "postgres" \in up THEN Ok ELSE Ending("Unavailable"), 200)
      api == Answered(AskedOfBoundary(IF "triager" \in up THEN triager ELSE NoReply, 200), 200)
  IN  IF "api" \in up THEN api ELSE NoReply

AskReadiness ==
  /\ step = "asking"
  /\ LET readiness == AskedOfBoundary(ReadinessReply, 200)
     IN  IF readiness = Ok THEN step' = "submitting" /\ UNCHANGED exit
         ELSE IF readiness.is = "Unavailable" THEN Waits
         ELSE Ends(1)
  /\ UNCHANGED <<services, faults, systems, runs, run, heard, cut, late>>

\* The entry point mints a run for a submission that reaches it, and forwards it.
Submit ==
  /\ step = "submitting"
  /\ IF {"api", "triager"} \subseteq up
     THEN \E r \in Runs :
            /\ stage[r] = "unsent" /\ \A q \in 1..r - 1 : stage[q] # "unsent"
            /\ stage' = [stage EXCEPT ![r] = "take in"]
            /\ waits' = waits \union {r}
            /\ run' = r
            /\ step' = "submitted"
            /\ UNCHANGED <<raised, heard, cut, late, exit>>
     ELSE /\ CutOff(IF "api" \in up THEN ApiHadNoAnswer ELSE NoReply)
          /\ UNCHANGED runs
  /\ UNCHANGED <<services, faults, systems>>

-----------------------------------------------------------------------------
\* core-sim's reply to a call it gets: without its database, the route fails.
SystemsReply(reply) ==
  IF "core-sim" \notin up THEN NoReply
  ELSE IF "postgres" \notin up THEN InternalServerError
  ELSE reply

Serving == {"core-sim", "postgres"} \subseteq up

\* The run goes on after a call that was answered, and ends with any other.
GoesOn(r, ending, next) ==
  /\ stage' = [stage EXCEPT ![r] = IF ending = Ok THEN next ELSE "over"]
  /\ raised' = [raised EXCEPT ![r] = IF ending = Ok /\ next # "over" THEN @ ELSE Raised(ending)]
  /\ UNCHANGED waits

\* A run at its next stage, in a triager that is up.
At(r, now) == "triager" \in up /\ stage[r] = now /\ UNCHANGED <<services, smoke, held>>

TakenIn(r) ==
  claims' = [q \in DOMAIN claims \union {r} |-> IF q = r THEN "received" ELSE claims[q]]

TakeIn(r) ==
  /\ At(r, "take in")
  /\ LET reply == IF held THEN Reply(201, "document") ELSE Reply(404, "policy_not_found")
     IN  GoesOn(r, AskedOfSystems(SystemsReply(reply), 201), "record")
  /\ IF Serving /\ held THEN TakenIn(r) ELSE UNCHANGED claims
  /\ UNCHANGED <<faults, recorded>>

\* A call times out on its way, before or after it was served.
TakeInTimesOut(r) ==
  /\ At(r, "take in")
  /\ Fault
  /\ GoesOn(r, AskedOfSystems(NoReply, 201), "record")
  /\ UNCHANGED claims \/ (Serving /\ held /\ TakenIn(r))
  /\ UNCHANGED recorded

\* Mutant: a run whose record could not be written is emitted all the same.
RecordIfReachable(r) ==
  /\ At(r, "record")
  /\ GoesOn(r, Ok, "emit")
  /\ recorded' = IF "postgres" \in up THEN recorded \union {r} ELSE recorded
  /\ UNCHANGED <<faults, claims>>

Record(r) ==
  /\ At(r, "record")
  /\ IF "postgres" \in up
     THEN recorded' = recorded \union {r} /\ GoesOn(r, Ok, "emit")
     ELSE GoesOn(r, Ending("TriageStoreUnavailable"), "emit") /\ UNCHANGED recorded
  /\ UNCHANGED <<faults, claims>>

\* The answer to the commit is lost, outside what the store translates.
CommitLost(r) ==
  /\ At(r, "record")
  /\ "postgres" \in up
  /\ Fault
  /\ recorded' \in {recorded, recorded \union {r}}
  /\ GoesOn(r, Ending("OperationalError"), "emit")
  /\ UNCHANGED claims

Emit(r) ==
  /\ At(r, "emit")
  /\ GoesOn(r, AskedOfSystems(SystemsReply(Reply(200, "document")), 200), "over")
  /\ claims' = IF Serving THEN [claims EXCEPT ![r] = "triaged"] ELSE claims
  /\ UNCHANGED <<faults, recorded>>

EmitTimesOut(r) ==
  /\ At(r, "emit")
  /\ Fault
  /\ GoesOn(r, AskedOfSystems(NoReply, 200), "over")
  /\ UNCHANGED claims \/ (Serving /\ claims' = [claims EXCEPT ![r] = "triaged"])
  /\ UNCHANGED recorded

\* The run's answer reaches the api, which relays it.
Relay(r) ==
  /\ r \in waits
  /\ stage[r] = "over"
  /\ waits' = waits \ {r}
  /\ IF Submitted(r)
     THEN /\ Hears(Answered(AskedOfBoundary(Answered(raised[r], 201), 201), 201))
          /\ UNCHANGED <<run, cut, late>>
     ELSE UNCHANGED smoke
  /\ UNCHANGED <<services, faults, systems, stage, raised>>

\* The api gives the triager up; the smoke gives the api up.  The run goes on.
ApiTimesOut(r) ==
  /\ r \in waits
  /\ Fault
  /\ waits' = waits \ {r}
  /\ IF Submitted(r) THEN CutOff(ApiHadNoAnswer) ELSE UNCHANGED smoke
  /\ UNCHANGED <<services, systems, stage, raised>>

SmokeTimesOut ==
  /\ step = "submitted"
  /\ Fault
  /\ CutOff(NoReply)
  /\ UNCHANGED <<services, systems, runs>>

\* The claim is read back from core-sim, where it is.
ReadBack ==
  /\ step = "reading"
  /\ LET found == IF run \in DOMAIN claims
                  THEN Reply(200, "document")
                  ELSE Reply(404, "claim_not_found")
         read == AskedOfSystems(SystemsReply(found), 200)
     IN  IF read = Ok THEN Ends(IF claims[run] = "triaged" THEN 0 ELSE 1)
         ELSE IF read.is = "CoreSimUnreachable" \/ read.code = "service_unavailable" THEN Waits
         ELSE Ends(1)
  /\ UNCHANGED <<services, faults, systems, runs, run, heard, cut, late>>

DeadlinePasses ==
  /\ step # "over" /\ ~late
  /\ Fault
  /\ late' = TRUE
  /\ UNCHANGED <<services, systems, runs, step, run, heard, cut, exit>>

-----------------------------------------------------------------------------
\* A service stops: the api with the answers it waits for, the triager with its
\* runs.  What core-sim was doing rolls back; what is committed stays.
Stop(s) ==
  /\ s \in up
  /\ Fault
  /\ up' = up \ {s}
  /\ stage' = IF s = "triager"
              THEN [r \in Runs |-> IF stage[r] = "unsent" THEN "unsent" ELSE "over"]
              ELSE stage
  /\ waits' = IF s \in {"api", "triager"} THEN {} ELSE waits
  /\ IF step = "submitted" /\ run \in waits /\ s \in {"api", "triager"}
     THEN CutOff(IF s = "api" THEN NoReply ELSE ApiHadNoAnswer)
     ELSE UNCHANGED smoke
  /\ UNCHANGED <<begun, systems, raised>>

Work(r) == TakeIn(r) \/ Record(r) \/ Emit(r)
SmokeStep == SmokeStarts \/ AskReadiness \/ Submit \/ ReadBack

Next ==
  \/ \E s \in Services : Start(s) \/ Stop(s)
  \/ SmokeStarts \/ AskReadiness \/ Submit \/ ReadBack \/ SmokeTimesOut \/ DeadlinePasses
  \/ \E r \in Runs :
       \/ TakeIn(r) \/ TakeInTimesOut(r)
       \/ Record(r) \/ CommitLost(r)
       \/ Emit(r) \/ EmitTimesOut(r)
       \/ Relay(r) \/ ApiTimesOut(r)

Spec == Init /\ [][Next]_vars

(***************************************************************************)
(* Compose starts and restarts what it can, and every process and thread   *)
(* goes on; nothing is fair to a fault.                                    *)
(***************************************************************************)
Fairness ==
  /\ \A s \in Services : WF_vars(Start(s))
  /\ WF_vars(SmokeStep)
  /\ \A r \in Runs : WF_vars(Work(r)) /\ WF_vars(Relay(r))

FairSpec == Spec /\ Fairness

-----------------------------------------------------------------------------

\* The smoke is green only on a claim that was carried: recorded by the triager
\* with its run and triaged in the system of record (smoke.py:3-8), whatever
\* stopped or was restarted meanwhile.
GreenMeansCarried == exit = 0 => run \in recorded /\ run \in DOMAIN claims /\ claims[run] = "triaged"

\* The smoke leaves one claim in the system of record at most, whatever it did not
\* hear of its submission (smoke.py:12-15): an attempt that may have been served is
\* not made again.
AtMostOneClaim == Cardinality(DOMAIN claims) <= 1

\* Two hops away, the caller is told how its run ended: a refusal of core-sim's with
\* its own status and code, an outage as an outage, and a defect as neither.  An
\* answer cut off on its way is told as an outage only.
SameEnd(mine, its) ==
  IF its = Ok \/ its.is \in {"Unavailable", "Refused"} THEN mine = its
  ELSE mine.is = "UnexpectedAnswer"

ToldHowItEnded ==
  heard # Unset => IF cut THEN heard.is = "Unavailable" ELSE SameEnd(heard, raised[run])

\* A stack on which nothing fails goes green: what compose orders, and what the
\* smoke waits for, is all that a submission made once needs to succeed.
HealthyStackGoesGreen == held /\ [](faults = 0) => <>(exit = 0)
=============================================================================
