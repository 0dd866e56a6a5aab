------------------------------ MODULE Pipeline ------------------------------
(***************************************************************************)
(* One claim across the three services (triage/pipeline.py, with           *)
(* triage/client.py and contract/client.py between them): a run takes the  *)
(* claim in at core-sim, records itself with its audit entry, and emits    *)
(* the status it decided.                                                  *)
(*                                                                         *)
(* A call is one request to POST /runs: from the api, which mints a run    *)
(* for each submission, or from a caller inside, which may send a run      *)
(* again.  core-sim's writes and the recording are the atomic steps that   *)
(* CoreSim and TriageStore implement.  A request outlives the caller that  *)
(* gave it up: core-sim may serve it later, or never.                      *)
(***************************************************************************)
EXTENDS AuditChain, FiniteSets

CONSTANTS Calls,      \* callers of POST /runs; each may call again once told
          Runs,       \* run identifiers
          RunOf,      \* the run each call carries
          PolicyOf,   \* the policy its claim is made against
          Policies,   \* the policies core-sim holds
          Unknown,    \* one it does not
          Nothing     \* no claim yet

\* What a run asks of core-sim; its keys are "<run id>/claim" and "<run id>/status".
Legs == {"claim", "status"}

INSTANCE ClaimRecords WITH Attempts <- Calls, Held <- {}, Keys <- Runs \X Legs

ASSUME CallsAssumption ==
  /\ RunOf \in [Calls -> Runs]
  /\ PolicyOf \in [Calls -> Policies \union {Unknown}]
  /\ Unknown \notin Policies

VARIABLES claims,    \* core-sim: claim id -> status history
          keys,      \* core-sim: key -> the fingerprint it carried, its answer
          recorded,  \* the triager's runs
          log,       \* its audit log
          requests,  \* what was sent to core-sim and not served yet
          pc,        \* where each call has got to in TriagePipeline.run
          claim,     \* the claim core-sim answered it with
          told       \* what its caller was told

vars == <<claims, keys, recorded, log, requests, pc, claim, told>>

Steps == {"idle", "taking in", "taken in", "recorded", "emitting", "over"}

\* "unavailable" is the boundary's 503, "defect" a 500; the others are 4xx.
Told == {"none", "ok", "policy_not_found", "idempotency_key_reuse", "unavailable", "defect"}

Init ==
  /\ claims = HeldClaims
  /\ keys = << >>
  /\ recorded = {}
  /\ log = <<>>
  /\ requests = {}
  /\ pc = [a \in Calls |-> "idle"]
  /\ claim = [a \in Calls |-> Nothing]
  /\ told = [a \in Calls |-> "none"]

systems == <<claims, keys>>
store == <<recorded, log>>

\* The run is answered; a caller that gave it up before does not hear of it.
End(a, what) ==
  /\ pc' = [pc EXCEPT ![a] = "over"]
  /\ told' = [told EXCEPT ![a] = IF @ = "none" THEN what ELSE @]
  /\ UNCHANGED claim

\* Mutant: a key for the call rather than for the run.
KeyOfCall(a, leg) == <<a, leg>>

KeyOf(a, leg) == <<RunOf[a], leg>>

Send(a, leg, request) ==
  requests' = requests \union {[call |-> a, key |-> KeyOf(a, leg), request |-> request]}

\* _taken_in: a call, or a call again by a caller that was told of a failure.
Submit(a) ==
  /\ pc[a] \in {"idle", "over"}
  /\ told[a] # "ok"
  /\ Send(a, "claim", [op |-> "create_claim", on |-> PolicyOf[a], body |-> "claim"])
  /\ pc' = [pc EXCEPT ![a] = "taking in"]
  /\ claim' = [claim EXCEPT ![a] = Nothing]
  /\ told' = [told EXCEPT ![a] = "none"]
  /\ UNCHANGED <<systems, store>>

\* What core-sim makes of a request: nothing, if its key was used or what it
\* names is not held.
Fresh(r) == r.key \notin DOMAIN keys /\ FindsItsTarget(r.request, claims)
AnswerTo(r) == IF Fresh(r) THEN Written(r.request, claims, r.call) ELSE keys[r.key].answer

Serve(r) ==
  IF Fresh(r)
  THEN /\ claims' = ClaimsAfter(claims, AnswerTo(r))
       /\ keys' = KeysAfter(keys, r.key, r.request, AnswerTo(r))
  ELSE UNCHANGED systems

ReplyTo(r) ==
  IF r.key \in DOMAIN keys
  THEN IF keys[r.key].fingerprint = Fingerprint(r.request) THEN "ok" ELSE "idempotency_key_reuse"
  ELSE IF FindsItsTarget(r.request, claims) THEN "ok" ELSE NotFound(r.request)

\* The call still waits for this reply.
Awaited(r) == pc[r.call] = IF r.request.op = "create_claim" THEN "taking in" ELSE "emitting"

Done(r) == r \in requests /\ requests' = requests \ {r} /\ UNCHANGED store

\* The reply arrives: a claim taken in goes on, a status emitted is the run's
\* answer, a refusal is relayed.
SystemsAnswer(r) ==
  /\ Done(r)
  /\ Serve(r)
  /\ IF ~Awaited(r)
     THEN UNCHANGED <<pc, claim, told>>
     ELSE IF ReplyTo(r) = "ok" /\ r.request.op = "create_claim"
          THEN /\ claim' = [claim EXCEPT ![r.call] = AnswerTo(r).claim]
               /\ pc' = [pc EXCEPT ![r.call] = "taken in"]
               /\ UNCHANGED told
          ELSE End(r.call, ReplyTo(r))

\* core-sim answers a 500, having served the request or not: the client has no
\* typed error for it (UnexpectedResponse), the pipeline does not translate it.
SystemsFail(r) ==
  /\ Done(r)
  /\ Awaited(r)
  /\ Serve(r) \/ UNCHANGED systems
  /\ End(r.call, "defect")

\* The request is lost, or its reply is.
NoReply(r) ==
  /\ Done(r)
  /\ Serve(r) \/ UNCHANGED systems
  /\ UNCHANGED <<pc, claim, told>>

\* No reply in time: CoreSimUnreachable, relayed as Unavailable.
TimeOut(a) ==
  /\ pc[a] \in {"taking in", "emitting"}
  /\ End(a, "unavailable")
  /\ UNCHANGED <<systems, store, requests>>

-----------------------------------------------------------------------------
\* _decided, the graph's one node; and what _recorded writes in both tables.
Decided == "triaged"

Content(a) == [run_id |-> RunOf[a], claim_id |-> claim[a], status |-> Decided, trace_id |-> a]

Contents == [run_id : Runs, claim_id : Calls, status : Statuses, trace_id : Calls]

Store == INSTANCE AuditLog

RunRecorded(run) == \E row \in recorded : row.run_id = run

\* _recorded: both rows, or a run recorded already, whose UniqueViolation is a
\* defect.  The answer to the commit may be lost.
Record(a) ==
  /\ pc[a] = "taken in"
  /\ IF RunRecorded(RunOf[a])
     THEN End(a, "defect") /\ UNCHANGED store
     ELSE /\ Store!Record(Content(a))
          /\ \/ pc' = [pc EXCEPT ![a] = "recorded"] /\ UNCHANGED <<claim, told>>
             \/ End(a, "defect")
  /\ UNCHANGED <<systems, requests>>

\* The store is unreachable, or fails: nothing is recorded.
RecordFails(a) ==
  /\ pc[a] = "taken in"
  /\ \E what \in {"unavailable", "defect"} : End(a, what)
  /\ UNCHANGED <<systems, store, requests>>

\* _emitted.  Mutants: the systems are told before the run is recorded; and the run
\* does not wait for their answer.
EmitFirst(a) ==
  /\ pc[a] = "taken in"
  /\ Send(a, "status", [op |-> "record_claim_status", on |-> claim[a], body |-> Decided])
  /\ pc' = [pc EXCEPT ![a] = "emitting"]
  /\ UNCHANGED <<systems, store, claim, told>>

EmitAndForget(a) ==
  /\ pc[a] = "recorded"
  /\ Send(a, "status", [op |-> "record_claim_status", on |-> claim[a], body |-> Decided])
  /\ End(a, "ok")
  /\ UNCHANGED <<systems, store>>

Emit(a) ==
  /\ pc[a] = "recorded"
  /\ Send(a, "status", [op |-> "record_claim_status", on |-> claim[a], body |-> Decided])
  /\ pc' = [pc EXCEPT ![a] = "emitting"]
  /\ UNCHANGED <<systems, store, claim, told>>

\* The caller's own timeout: it is told the triager is unreachable, and the run
\* goes on.
GiveUp(a) ==
  /\ pc[a] \notin {"idle", "over"}
  /\ told[a] = "none"
  /\ told' = [told EXCEPT ![a] = "unavailable"]
  /\ UNCHANGED <<systems, store, requests, pc, claim>>

\* The triager's process dies with every run in it.
InFlight == {a \in Calls : pc[a] \notin {"idle", "over"}}

Crash ==
  /\ InFlight # {}
  /\ pc' = [a \in Calls |-> IF a \in InFlight THEN "over" ELSE pc[a]]
  /\ told' = [a \in Calls |-> IF a \in InFlight /\ told[a] = "none" THEN "unavailable" ELSE told[a]]
  /\ UNCHANGED <<systems, store, requests, claim>>

Next ==
  \/ \E a \in Calls :
       \/ Submit(a)
       \/ Record(a)
       \/ RecordFails(a)
       \/ Emit(a)
       \/ TimeOut(a)
       \/ GiveUp(a)
  \/ \E r \in requests : SystemsAnswer(r) \/ SystemsFail(r) \/ NoReply(r)
  \/ Crash

Spec == Init /\ [][Next]_vars

(***************************************************************************)
(* The triager's thread goes on, and gives up on core-sim after its        *)
(* timeout.                                                                *)
(***************************************************************************)
Fairness == \A a \in Calls : WF_vars(Record(a) \/ RecordFails(a) \/ Emit(a)) /\ WF_vars(TimeOut(a))

FairSpec == Spec /\ Fairness

(***************************************************************************)
(* The best a caller and the services can do: a failed run is sent again   *)
(* for ever, and neither core-sim nor the store fails it every time.       *)
(***************************************************************************)
RecordedNow(a) == Record(a) /\ pc'[a] = "recorded"
AnsweredNow(a) == \E r \in requests : r.call = a /\ Awaited(r) /\ SystemsAnswer(r)

PersistentSpec ==
  /\ FairSpec
  /\ \A a \in Calls : /\ SF_vars(Submit(a))
                       /\ SF_vars(RecordedNow(a))
                       /\ SF_vars(AnsweredNow(a))

-----------------------------------------------------------------------------

\* Every move of a claim in the system of record is one the triager recorded, with
\* its evidence: an unexplained change to a claim is what the order of the steps
\* prevents (docs/adr/0005), whatever is lost, retried or given up.
Evidence(c) == {row \in recorded : row.claim_id = c /\ \E i \in 1..Len(log) : log[i].content = row}

NoStatusWithoutEvidence ==
  \A c \in DOMAIN claims :
    /\ \A i \in 2..Len(claims[c]) : \E row \in Evidence(c) : row.status = claims[c][i].status
    /\ Len(claims[c]) - 1 <= Cardinality(Evidence(c))

\* A run takes in one claim, the one it is recorded with: redelivered, it never
\* becomes a second claim, and the audit log names the claim core-sim holds.
OneClaimPerRun ==
  /\ \A k, l \in DOMAIN keys : k[1] = l[1] => keys[k].answer.claim = keys[l].answer.claim
  /\ \A row \in recorded : /\ <<row.run_id, "claim">> \in DOMAIN keys
                           /\ keys[<<row.run_id, "claim">>].answer.claim = row.claim_id

\* A caller told of success was told the truth: the run and its evidence are
\* recorded, and core-sim holds the claim as triaged.
OkMeansDone ==
  \A a \in Calls : told[a] = "ok" =>
    \E row \in recorded : /\ row.run_id = RunOf[a]
                          /\ \E i \in 2..Len(claims[row.claim_id]) :
                               claims[row.claim_id][i].status = Decided

\* A run recorded whose emission failed is emitted by a retry: "the idempotency
\* key the emission carries lets a retry close" the gap (docs/adr/0005).
Emitted(run) == <<run, "status">> \in DOMAIN keys

RetryClosesTheGap == \A run \in Runs : RunRecorded(run) ~> Emitted(run)
=============================================================================
