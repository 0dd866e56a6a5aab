--------------------------- MODULE PipelineProofs ---------------------------
(***************************************************************************)
(* What a claim across the services keeps, for any number of calls, runs   *)
(* and policies.  The systems of record hold one claim for each run whose  *)
(* key they hold, and it has moved exactly if the run's second key is      *)
(* held, which it is only for a run that is recorded.                      *)
(***************************************************************************)
EXTENDS Pipeline, AuditChainProofs, FiniteSetTheorems

TypeOK ==
  /\ pc \in [Calls -> Steps]
  /\ told \in [Calls -> Told]
  /\ claim \in [Calls -> Calls \union {Nothing}]
  /\ recorded \subseteq Contents
  /\ IsLog(log)
  /\ DOMAIN claims \subseteq Calls
  /\ DOMAIN keys \subseteq Runs \X Legs

ClaimKey(run) == <<run, "claim">>
StatusKey(run) == <<run, "status">>

\* What is on its way is a run's claim, or the status of a run that is recorded.
AsksForClaim(r) ==
  /\ r.key = ClaimKey(RunOf[r.call])
  /\ r.request = [op |-> "create_claim", on |-> PolicyOf[r.call], body |-> "claim"]

AsksForStatus(r) ==
  \E row \in recorded :
    /\ row.run_id = RunOf[r.call]
    /\ r.key = StatusKey(RunOf[r.call])
    /\ r.request = [op |-> "record_claim_status", on |-> row.claim_id, body |-> Decided]

RequestsAreSteps == \A r \in requests : r.call \in Calls /\ (AsksForClaim(r) \/ AsksForStatus(r))

\* Each row is its run's only one, has its entry, and names the run's claim.
TheClaimOf(run, c) == ClaimKey(run) \in DOMAIN keys /\ keys[ClaimKey(run)].answer.claim = c

RowsAreEvidence ==
  /\ \A row \in recorded : /\ row.status = Decided
                           /\ \E i \in 1..Len(log) : log[i].content = row
                           /\ TheClaimOf(row.run_id, row.claim_id)
  /\ \A row, other \in recorded : row.run_id = other.run_id => row = other

\* The keys of a run name its one claim; every claim is the one of its run's key;
\* a run's status is told only once it is recorded.
KeysNameClaims ==
  /\ \A k \in DOMAIN keys : LET c == keys[k].answer.claim
                            IN  /\ c \in DOMAIN claims
                                /\ RunOf[c] = k[1]
                                /\ TheClaimOf(k[1], c)
  /\ \A c \in DOMAIN claims : TheClaimOf(RunOf[c], c)
  /\ \A run \in Runs : StatusKey(run) \in DOMAIN keys => RunRecorded(run)

Received(c) == <<Transition("received", c)>>
Moved(c, by) == Append(Received(c), Transition(Decided, by))

HistoriesAreOfKeys ==
  \A c \in DOMAIN claims :
    IF StatusKey(RunOf[c]) \in DOMAIN keys
    THEN \E by \in Calls : claims[c] = Moved(c, by)
    ELSE claims[c] = Received(c)

\* What a call has got to is true of the systems and of the store.
CallKnows(a) ==
  /\ pc[a] = "taken in" => TheClaimOf(RunOf[a], claim[a])
  /\ pc[a] \in {"recorded", "emitting"} =>
       \E row \in recorded : row.run_id = RunOf[a] /\ row.claim_id = claim[a]
  /\ told[a] = "ok" => StatusKey(RunOf[a]) \in DOMAIN keys

IInv ==
  /\ TypeOK
  /\ RequestsAreSteps
  /\ RowsAreEvidence
  /\ KeysNameClaims
  /\ HistoriesAreOfKeys
  /\ \A a \in Calls : CallKnows(a)

-----------------------------------------------------------------------------

\* A claim that moved was moved once, to what was decided.
LEMMA MovedOnce ==
  ASSUME NEW c, NEW by
  PROVE  Len(Moved(c, by)) = 2 /\ Moved(c, by)[2].status = Decided
<1> DEFINE to == Transition(Decided, by)
           S == {Transition("received", c), to}
<1>1. Received(c) \in Seq(S) /\ Len(Received(c)) = 1 /\ to \in S
  BY DEF Received
<1>2. to.status = Decided
  BY DEF Transition
<1> HIDE DEF to, S
<1>3. Len(Append(Received(c), to)) = 2 /\ Append(Received(c), to)[2] = to
  BY <1>1, AppendProperties
<1> QED
  BY <1>2, <1>3 DEF Moved, to

LEMMA InitIInv == Init => IInv
<1> SUFFICES ASSUME Init PROVE IInv
  OBVIOUS
<1>1. IsLog(log)
  BY EmptyLog DEF Init
<1>2. claims = [c \in {} |-> <<Transition("received", c)>>] /\ keys = << >>
  BY DEF Init, HeldClaims
<1>3. DOMAIN claims = {} /\ DOMAIN keys = {}
  BY <1>2
<1>4. TypeOK
  BY <1>1, <1>3 DEF Init, TypeOK, Steps, Told
<1> QED
  BY <1>3, <1>4 DEF Init, IInv, RequestsAreSteps, RowsAreEvidence, KeysNameClaims,
     HistoriesAreOfKeys, CallKnows

\* What the systems hold, they keep: keys are only added.
KeysGrow == \A k \in DOMAIN keys : k \in DOMAIN keys' /\ keys'[k] = keys[k]

\* A claim is created for a run that had none.
LEMMA CreatingKeepsSystems ==
  ASSUME IInv, NEW r \in requests, AsksForClaim(r), Fresh(r), Serve(r), UNCHANGED store
  PROVE  /\ DOMAIN claims' \subseteq Calls
         /\ DOMAIN keys' \subseteq Runs \X Legs
         /\ RowsAreEvidence' /\ KeysNameClaims' /\ HistoriesAreOfKeys'
         /\ KeysGrow
         /\ r.key \in DOMAIN keys' /\ keys'[r.key].answer = AnswerTo(r)
<1> DEFINE a == r.call
           run == RunOf[a]
<1>1. a \in Calls /\ run \in Runs /\ r.key = ClaimKey(run)
  BY CallsAssumption DEF IInv, RequestsAreSteps, AsksForClaim
<1>2. ClaimKey(run) \notin DOMAIN keys
  BY <1>1 DEF Fresh
<1>3. /\ AnswerTo(r).claim = a
      /\ AnswerTo(r).op = "create_claim"
      /\ AnswerTo(r).history = Received(a)
  BY DEF AnswerTo, AsksForClaim, Written, OfClaim, HistoryAfter, Received
<1>4. /\ DOMAIN claims' = DOMAIN claims \union {a}
      /\ \A c \in DOMAIN claims' : claims'[c] = IF c = a THEN Received(a) ELSE claims[c]
  BY <1>3 DEF Serve, ClaimsAfter, OfClaim
<1>5. /\ DOMAIN keys' = DOMAIN keys \union {ClaimKey(run)}
      /\ keys'[ClaimKey(run)].answer = AnswerTo(r)
      /\ \A k \in DOMAIN keys : k # ClaimKey(run) => keys'[k] = keys[k]
  BY <1>1 DEF Serve, KeysAfter
<1>6. KeysGrow
  BY <1>2, <1>5 DEF KeysGrow
<1>7. \A c \in DOMAIN claims : RunOf[c] # run /\ c # a
  BY <1>2 DEF IInv, KeysNameClaims, TheClaimOf
<1>8. \A k \in DOMAIN keys : k[1] # run
  BY <1>2 DEF IInv, KeysNameClaims, TheClaimOf
<1>9. \A other \in Runs : StatusKey(other) # ClaimKey(run)
  BY DEF StatusKey, ClaimKey
<1>10. TheClaimOf(run, a)'
  BY <1>3, <1>5 DEF TheClaimOf
<1>11. \A other, c : TheClaimOf(other, c) => TheClaimOf(other, c)'
  BY <1>6 DEF TheClaimOf, KeysGrow
<1>12. recorded' = recorded /\ log' = log
  BY DEF store
<1>13. RowsAreEvidence'
  BY <1>11, <1>12 DEF IInv, RowsAreEvidence
<1>14. ClaimKey(run)[1] = run
  BY DEF ClaimKey
<1>15. KeysNameClaims'
  <2>1. ASSUME NEW k \in DOMAIN keys'
        PROVE  /\ keys'[k].answer.claim \in DOMAIN claims'
               /\ RunOf[keys'[k].answer.claim] = k[1]
               /\ TheClaimOf(k[1], keys[k].answer.claim)'
    <3>1. CASE k = ClaimKey(run)
      BY <3>1, <1>3, <1>4, <1>5, <1>10, <1>14
    <3>2. CASE k \in DOMAIN keys
      <4>1. keys'[k] = keys[k]
        BY <3>2, <1>6 DEF KeysGrow
      <4>2. /\ keys[k].answer.claim \in DOMAIN claims
            /\ RunOf[keys[k].answer.claim] = k[1]
            /\ TheClaimOf(k[1], keys[k].answer.claim)
        BY <3>2 DEF IInv, KeysNameClaims
      <4> QED
        BY <4>1, <4>2, <1>4, <1>11 DEF TheClaimOf
    <3> QED
      BY <3>1, <3>2, <1>5
  <2>2. \A c \in DOMAIN claims' : TheClaimOf(RunOf[c], c)'
    BY <1>4, <1>10, <1>11 DEF IInv, KeysNameClaims
  <2>3. \A other \in Runs : StatusKey(other) \in DOMAIN keys' => RunRecorded(other)'
    BY <1>5, <1>9, <1>12 DEF IInv, KeysNameClaims, RunRecorded
  <2> QED
    BY <2>1, <2>2, <2>3 DEF KeysNameClaims
<1>16. HistoriesAreOfKeys'
  <2>1. StatusKey(run) \notin DOMAIN keys'
    BY <1>1, <1>5, <1>8, <1>9 DEF StatusKey
  <2>2. \A c \in DOMAIN claims : StatusKey(RunOf[c]) \in DOMAIN keys' <=> StatusKey(RunOf[c]) \in DOMAIN keys
    BY <1>5, <1>9, CallsAssumption DEF IInv, TypeOK
  <2> QED
    BY <1>4, <1>7, <2>1, <2>2 DEF IInv, HistoriesAreOfKeys
<1>17. DOMAIN claims' \subseteq Calls /\ DOMAIN keys' \subseteq Runs \X Legs
  BY <1>1, <1>4, <1>5 DEF IInv, TypeOK, ClaimKey, Legs
<1> QED
  BY <1>1, <1>5, <1>6, <1>13, <1>15, <1>16, <1>17

\* A status is written for a run whose claim has not moved.
LEMMA EmittingKeepsSystems ==
  ASSUME IInv, NEW r \in requests, AsksForStatus(r), Fresh(r), Serve(r), UNCHANGED store
  PROVE  /\ DOMAIN claims' \subseteq Calls
         /\ DOMAIN keys' \subseteq Runs \X Legs
         /\ RowsAreEvidence' /\ KeysNameClaims' /\ HistoriesAreOfKeys'
         /\ KeysGrow
         /\ r.key \in DOMAIN keys' /\ keys'[r.key].answer = AnswerTo(r)
<1> DEFINE run == RunOf[r.call]
<1>1. PICK row \in recorded : /\ row.run_id = run
                              /\ r.key = StatusKey(run)
                              /\ r.request = [op |-> "record_claim_status", on |-> row.claim_id, body |-> Decided]
  BY DEF AsksForStatus
<1> DEFINE c == row.claim_id
<1>2. r.call \in Calls /\ run \in Runs
  BY CallsAssumption DEF IInv, RequestsAreSteps
<1>3. StatusKey(run) \notin DOMAIN keys
  BY <1>1 DEF Fresh
<1>4. TheClaimOf(run, c)
  BY <1>1 DEF IInv, RowsAreEvidence
<1>5. c \in DOMAIN claims /\ RunOf[c] = run
  <2>1. ClaimKey(run) \in DOMAIN keys /\ keys[ClaimKey(run)].answer.claim = c
    BY <1>4 DEF TheClaimOf
  <2>2. ClaimKey(run)[1] = run
    BY DEF ClaimKey
  <2> QED
    BY <2>1, <2>2 DEF IInv, KeysNameClaims
<1>6. claims[c] = Received(c)
  BY <1>3, <1>5 DEF IInv, HistoriesAreOfKeys
<1>7. /\ AnswerTo(r).claim = c
      /\ AnswerTo(r).op = "record_claim_status"
      /\ AnswerTo(r).history = Moved(c, r.call)
  <2>1. AnswerTo(r) = Written(r.request, claims, r.call)
    BY DEF AnswerTo
  <2> QED
    BY <1>1, <1>6, <2>1 DEF Written, OfClaim, HistoryAfter, Moved
<1>8. /\ DOMAIN claims' = DOMAIN claims
      /\ claims'[c] = Moved(c, r.call)
      /\ \A other \in DOMAIN claims : other # c => claims'[other] = claims[other]
  BY <1>5, <1>7 DEF Serve, ClaimsAfter, OfClaim
<1>9. /\ DOMAIN keys' = DOMAIN keys \union {StatusKey(run)}
      /\ keys'[StatusKey(run)].answer = AnswerTo(r)
      /\ \A k \in DOMAIN keys : k # StatusKey(run) => keys'[k] = keys[k]
  BY <1>1 DEF Serve, KeysAfter
<1>10. KeysGrow
  BY <1>3, <1>9 DEF KeysGrow
<1>11. \A other, d : TheClaimOf(other, d) => TheClaimOf(other, d)'
  BY <1>10 DEF TheClaimOf, KeysGrow
<1>12. recorded' = recorded /\ log' = log
  BY DEF store
<1>13. RowsAreEvidence'
  BY <1>11, <1>12 DEF IInv, RowsAreEvidence
<1>14. StatusKey(run)[1] = run /\ \A other : StatusKey(other) = StatusKey(run) => other = run
  BY DEF StatusKey
<1>15. KeysNameClaims'
  <2>1. ASSUME NEW k \in DOMAIN keys'
        PROVE  /\ keys'[k].answer.claim \in DOMAIN claims'
               /\ RunOf[keys'[k].answer.claim] = k[1]
               /\ TheClaimOf(k[1], keys[k].answer.claim)'
    <3>1. CASE k = StatusKey(run)
      <4>1. TheClaimOf(run, c)'
        BY <1>4, <1>11
      <4> QED
        BY <3>1, <4>1, <1>5, <1>7, <1>8, <1>9, <1>14
    <3>2. CASE k \in DOMAIN keys
      <4>1. keys'[k] = keys[k]
        BY <3>2, <1>10 DEF KeysGrow
      <4>2. /\ keys[k].answer.claim \in DOMAIN claims
            /\ RunOf[keys[k].answer.claim] = k[1]
            /\ TheClaimOf(k[1], keys[k].answer.claim)
        BY <3>2 DEF IInv, KeysNameClaims
      <4> QED
        BY <4>1, <4>2, <1>8, <1>11 DEF TheClaimOf
    <3> QED
      BY <3>1, <3>2, <1>9
  <2>2. \A d \in DOMAIN claims' : TheClaimOf(RunOf[d], d)'
    BY <1>8, <1>11 DEF IInv, KeysNameClaims
  <2>3. \A other \in Runs : StatusKey(other) \in DOMAIN keys' => RunRecorded(other)'
    BY <1>1, <1>9, <1>12, <1>14 DEF IInv, KeysNameClaims, RunRecorded
  <2> QED
    BY <2>1, <2>2, <2>3 DEF KeysNameClaims
\* Another claim is of another run: each run's key names one.
<1>16. \A d \in DOMAIN claims : d # c => RunOf[d] # run
  BY <1>4 DEF IInv, KeysNameClaims, TheClaimOf
<1>17. HistoriesAreOfKeys'
  <2>1. ASSUME NEW d \in DOMAIN claims, d # c
        PROVE  StatusKey(RunOf[d]) \in DOMAIN keys' <=> StatusKey(RunOf[d]) \in DOMAIN keys
    BY <2>1, <1>9, <1>14, <1>16
  <2>2. StatusKey(RunOf[c]) \in DOMAIN keys'
    BY <1>5, <1>9
  <2> QED
    BY <1>2, <1>8, <2>1, <2>2 DEF IInv, HistoriesAreOfKeys
<1>18. DOMAIN claims' \subseteq Calls /\ DOMAIN keys' \subseteq Runs \X Legs
  BY <1>2, <1>8, <1>9 DEF IInv, TypeOK, StatusKey, Legs
<1> QED
  BY <1>1, <1>9, <1>10, <1>13, <1>15, <1>17, <1>18

\* Whether or not core-sim serves a request, its records agree, and what it held it holds.
LEMMA ServingKeepsSystems ==
  ASSUME IInv, NEW r \in requests, Serve(r) \/ UNCHANGED systems, UNCHANGED store
  PROVE  /\ DOMAIN claims' \subseteq Calls
         /\ DOMAIN keys' \subseteq Runs \X Legs
         /\ RowsAreEvidence' /\ KeysNameClaims' /\ HistoriesAreOfKeys'
         /\ KeysGrow
<1>1. CASE Serve(r) /\ Fresh(r)
  BY <1>1, CreatingKeepsSystems, EmittingKeepsSystems DEF IInv, RequestsAreSteps
<1>2. CASE UNCHANGED systems
  <2>1. /\ claims' = claims /\ keys' = keys /\ recorded' = recorded /\ log' = log
    BY <1>2 DEF systems, store
  <2> QED
    BY <2>1 DEF IInv, TypeOK, RowsAreEvidence, KeysNameClaims, HistoriesAreOfKeys,
       TheClaimOf, RunRecorded, KeysGrow
<1> QED
  BY <1>1, <1>2 DEF Serve

\* A request answered "ok" leaves its key held, with the answer it was given.
LEMMA ServedIsHeld ==
  ASSUME IInv, NEW r \in requests, Serve(r), UNCHANGED store, ReplyTo(r) = "ok"
  PROVE  r.key \in DOMAIN keys' /\ keys'[r.key].answer = AnswerTo(r)
<1>1. CASE Fresh(r)
  BY <1>1, CreatingKeepsSystems, EmittingKeepsSystems DEF IInv, RequestsAreSteps
<1>2. CASE ~Fresh(r)
  <2>1. r.key \in DOMAIN keys
    BY <1>2 DEF Fresh, ReplyTo, NotFound
  <2>2. keys' = keys
    BY <1>2 DEF Serve, systems
  <2> QED
    BY <1>2, <2>1, <2>2 DEF AnswerTo
<1> QED
  BY <1>1, <1>2

\* What a call knows stays true while the records only grow.
LEMMA KnowingStays ==
  ASSUME IInv, NEW a \in Calls, KeysGrow, recorded \subseteq recorded',
         claim'[a] = claim[a],
         pc'[a] = pc[a] \/ pc'[a] \in {"idle", "taking in", "over"},
         told'[a] = told[a] \/ told'[a] # "ok"
  PROVE  CallKnows(a)'
<1>1. CallKnows(a)
  BY DEF IInv
<1>2. TheClaimOf(RunOf[a], claim[a]) => TheClaimOf(RunOf[a], claim[a])'
  BY DEF TheClaimOf, KeysGrow
<1> QED
  BY <1>1, <1>2 DEF CallKnows, KeysGrow

\* Requests that were steps of a run stay so while rows are only added.
LEMMA StepsStaySteps ==
  ASSUME IInv, recorded \subseteq recorded', NEW r \in requests
  PROVE  r.call \in Calls /\ (AsksForClaim(r)' \/ AsksForStatus(r)')
  BY DEF IInv, RequestsAreSteps, AsksForClaim, AsksForStatus

LEMMA SameSystems ==
  ASSUME IInv, UNCHANGED systems
  PROVE  /\ DOMAIN claims' \subseteq Calls
         /\ DOMAIN keys' \subseteq Runs \X Legs
         /\ KeysGrow
         /\ UNCHANGED store => RowsAreEvidence' /\ KeysNameClaims' /\ HistoriesAreOfKeys'
<1>1. claims' = claims /\ keys' = keys
  BY DEF systems
<1> QED
  <2>1. ASSUME UNCHANGED store
        PROVE  RowsAreEvidence' /\ KeysNameClaims' /\ HistoriesAreOfKeys'
    <3>1. recorded' = recorded /\ log' = log
      BY <2>1 DEF store
    <3> QED
      BY <1>1, <3>1 DEF IInv, RowsAreEvidence, KeysNameClaims, HistoriesAreOfKeys,
         TheClaimOf, RunRecorded
  <2> QED
    BY <1>1, <2>1 DEF IInv, TypeOK, KeysGrow

-----------------------------------------------------------------------------

\* What a call sends is the one request that is new.
LEMMA SentIsNew ==
  ASSUME NEW a, NEW leg, NEW request, Send(a, leg, request),
         NEW r \in requests', r \notin requests
  PROVE  r.call = a /\ r.key = <<RunOf[a], leg>> /\ r.request = request
<1> DEFINE sent == [call |-> a, key |-> <<RunOf[a], leg>>, request |-> request]
<1>1. requests' = requests \union {sent}
  BY DEF Send, KeyOf
<1>2. sent.call = a /\ sent.key = <<RunOf[a], leg>> /\ sent.request = request
  OBVIOUS
<1> HIDE DEF sent
<1>3. r = sent
  BY <1>1
<1> QED
  BY <1>2, <1>3

LEMMA SubmitKeepsIInv ==
  ASSUME IInv, NEW a \in Calls, Submit(a)
  PROVE  IInv'
<1>1. /\ UNCHANGED systems /\ UNCHANGED store /\ KeysGrow /\ recorded' = recorded /\ log' = log
      /\ RowsAreEvidence' /\ KeysNameClaims' /\ HistoriesAreOfKeys'
      /\ DOMAIN claims' \subseteq Calls /\ DOMAIN keys' \subseteq Runs \X Legs
  BY SameSystems DEF Submit, store
<1>2. TypeOK'
  BY <1>1 DEF Submit, IInv, TypeOK, Steps, Told
<1>3. RequestsAreSteps'
  <2>1. ASSUME NEW r \in requests'
        PROVE  r.call \in Calls /\ (AsksForClaim(r)' \/ AsksForStatus(r)')
    <3>1. CASE r \in requests
      BY <1>1, <3>1, StepsStaySteps
    <3>2. CASE r \notin requests
      <4>1. /\ r.call = a /\ r.key = <<RunOf[a], "claim">>
            /\ r.request = [op |-> "create_claim", on |-> PolicyOf[a], body |-> "claim"]
        <5>1. PICK request : request = [op |-> "create_claim", on |-> PolicyOf[a], body |-> "claim"]
          OBVIOUS
        <5>2. Send(a, "claim", request)
          BY <5>1 DEF Submit, Send
        <5> QED
          BY <3>2, <5>1, <5>2, SentIsNew
      <4> QED
        BY <4>1 DEF AsksForClaim, ClaimKey
    <3> QED
      BY <3>1, <3>2
  <2> QED
    BY <2>1 DEF RequestsAreSteps
<1>4. ASSUME NEW b \in Calls
      PROVE  CallKnows(b)'
  <2>1. CASE b = a
    BY <2>1 DEF Submit, IInv, TypeOK, CallKnows
  <2>2. CASE b # a
    <3>1. pc'[b] = pc[b] /\ told'[b] = told[b] /\ claim'[b] = claim[b]
      BY <2>2 DEF Submit, IInv, TypeOK
    <3> QED
      BY <1>1, <3>1, KnowingStays
  <2> QED
    BY <2>1, <2>2
<1> QED
  BY <1>1, <1>2, <1>3, <1>4 DEF IInv

\* A call that ends has nothing to know but, told "ok", that its status is held.
LEMMA EndKeepsCalls ==
  ASSUME IInv, NEW a \in Calls, NEW what \in Told, End(a, what), KeysGrow,
         recorded \subseteq recorded', what = "ok" => StatusKey(RunOf[a]) \in DOMAIN keys'
  PROVE  /\ pc' \in [Calls -> Steps]
         /\ told' \in [Calls -> Told]
         /\ claim' \in [Calls -> Calls \union {Nothing}]
         /\ \A b \in Calls : CallKnows(b)'
<1>1. /\ pc' \in [Calls -> Steps]
      /\ told' \in [Calls -> Told]
      /\ claim' \in [Calls -> Calls \union {Nothing}]
  BY DEF End, IInv, TypeOK, Steps
<1>2. ASSUME NEW b \in Calls
      PROVE  CallKnows(b)'
  <2>1. CASE b = a
    <3>1. pc'[a] = "over" /\ (told'[a] = told[a] \/ told'[a] = what)
      BY DEF End, IInv, TypeOK
    <3>2. told[a] = "ok" => StatusKey(RunOf[a]) \in DOMAIN keys'
      BY DEF IInv, CallKnows, KeysGrow
    <3> QED
      BY <2>1, <3>1, <3>2 DEF CallKnows
  <2>2. CASE b # a
    <3>1. pc'[b] = pc[b] /\ told'[b] = told[b] /\ claim'[b] = claim[b]
      BY <2>2 DEF End, IInv, TypeOK
    <3> QED
      BY <3>1, KnowingStays
  <2> QED
    BY <2>1, <2>2
<1> QED
  BY <1>1, <1>2

\* Calls that are as they were still know what they knew.
LEMMA SameCallsKnow ==
  ASSUME IInv, KeysGrow, recorded \subseteq recorded', UNCHANGED <<pc, claim, told>>
  PROVE  \A b \in Calls : CallKnows(b)'
  BY KnowingStays

\* A request served, or dropped, leaves the records and the requests as they should be.
LEMMA DoneKeepsRecords ==
  ASSUME IInv, NEW r \in requests, Done(r), Serve(r) \/ UNCHANGED systems
  PROVE  /\ DOMAIN claims' \subseteq Calls
         /\ DOMAIN keys' \subseteq Runs \X Legs
         /\ RowsAreEvidence' /\ KeysNameClaims' /\ HistoriesAreOfKeys'
         /\ KeysGrow /\ RequestsAreSteps'
         /\ recorded' = recorded /\ log' = log
<1>1. UNCHANGED store /\ requests' \subseteq requests /\ recorded' = recorded /\ log' = log
  BY DEF Done, store
<1>2. RequestsAreSteps'
  BY <1>1, StepsStaySteps DEF RequestsAreSteps
<1> QED
  BY <1>1, <1>2, ServingKeepsSystems

LEMMA SystemsAnswerKeepsIInv ==
  ASSUME IInv, NEW r \in requests, SystemsAnswer(r)
  PROVE  IInv'
<1>1. /\ DOMAIN claims' \subseteq Calls
      /\ DOMAIN keys' \subseteq Runs \X Legs
      /\ RowsAreEvidence' /\ KeysNameClaims' /\ HistoriesAreOfKeys'
      /\ KeysGrow /\ RequestsAreSteps'
      /\ recorded' = recorded /\ log' = log
  BY DoneKeepsRecords DEF SystemsAnswer
<1>2. r.call \in Calls
  BY DEF IInv, RequestsAreSteps
<1>3. ReplyTo(r) \in Told
  <2>1. CASE AsksForClaim(r)
    BY <2>1 DEF ReplyTo, NotFound, Told, AsksForClaim
  <2>2. CASE AsksForStatus(r)
    <3>1. PICK row \in recorded : /\ row.run_id = RunOf[r.call]
                                  /\ r.request = [op |-> "record_claim_status", on |-> row.claim_id, body |-> Decided]
      BY <2>2 DEF AsksForStatus
    <3>2. row.claim_id \in DOMAIN claims
      BY DEF IInv, RowsAreEvidence, TheClaimOf, KeysNameClaims
    <3> QED
      BY <3>1, <3>2 DEF ReplyTo, FindsItsTarget, Told
  <2> QED
    BY <2>1, <2>2 DEF IInv, RequestsAreSteps
<1>4. CASE ~Awaited(r)
  <2>1. UNCHANGED <<pc, claim, told>>
    BY <1>4 DEF SystemsAnswer
  <2> QED
    BY <1>1, <2>1, SameCallsKnow DEF IInv, TypeOK
<1>5. CASE Awaited(r) /\ ReplyTo(r) = "ok" /\ r.request.op = "create_claim"
  <2>1. /\ claim' = [claim EXCEPT ![r.call] = AnswerTo(r).claim]
        /\ pc' = [pc EXCEPT ![r.call] = "taken in"]
        /\ told' = told
    BY <1>5 DEF SystemsAnswer
  <2>2. r.key = ClaimKey(RunOf[r.call])
    <3>1. AsksForStatus(r) => r.request.op = "record_claim_status"
      BY DEF AsksForStatus
    <3> QED
      BY <1>5, <3>1 DEF IInv, RequestsAreSteps, AsksForClaim
  <2>3. /\ ClaimKey(RunOf[r.call]) \in DOMAIN keys'
        /\ keys'[ClaimKey(RunOf[r.call])].answer.claim = AnswerTo(r).claim
    BY <1>5, <2>2, ServedIsHeld DEF SystemsAnswer, Done
  <2>4. AnswerTo(r).claim \in Calls
    BY <1>1, <2>3 DEF KeysNameClaims
  <2>5. TypeOK'
    BY <1>1, <1>2, <2>1, <2>4 DEF IInv, TypeOK, Steps
  <2>6. ASSUME NEW b \in Calls
        PROVE  CallKnows(b)'
    <3>1. CASE b = r.call
      <4>1. pc'[b] = "taken in" /\ claim'[b] = AnswerTo(r).claim /\ told'[b] = told[b]
        BY <1>2, <2>1, <3>1 DEF IInv, TypeOK
      <4>2. told[b] = "ok" => StatusKey(RunOf[b]) \in DOMAIN keys'
        BY <1>1 DEF IInv, CallKnows, KeysGrow
      <4> QED
        BY <2>3, <3>1, <4>1, <4>2 DEF CallKnows, TheClaimOf
    <3>2. CASE b # r.call
      <4>1. pc'[b] = pc[b] /\ told'[b] = told[b] /\ claim'[b] = claim[b]
        BY <2>1, <3>2 DEF IInv, TypeOK
      <4> QED
        BY <1>1, <4>1, KnowingStays
    <3> QED
      BY <3>1, <3>2
  <2> QED
    BY <1>1, <2>5, <2>6 DEF IInv
<1>6. CASE Awaited(r) /\ ~(ReplyTo(r) = "ok" /\ r.request.op = "create_claim")
  <2>1. End(r.call, ReplyTo(r))
    BY <1>6 DEF SystemsAnswer
  <2>2. ReplyTo(r) = "ok" => StatusKey(RunOf[r.call]) \in DOMAIN keys'
    <3>1. ASSUME ReplyTo(r) = "ok"
          PROVE  StatusKey(RunOf[r.call]) \in DOMAIN keys'
      <4>1. r.key \in DOMAIN keys'
        BY <3>1, ServedIsHeld DEF SystemsAnswer, Done
      <4>2. AsksForClaim(r) => r.request.op = "create_claim"
        BY DEF AsksForClaim
      <4>3. AsksForStatus(r)
        BY <1>6, <3>1, <4>2 DEF IInv, RequestsAreSteps
      <4> QED
        BY <4>1, <4>3 DEF AsksForStatus
    <3> QED
      BY <3>1
  <2>3. PICK what \in Told : what = ReplyTo(r)
    BY <1>3
  <2>4. End(r.call, what)
    BY <2>1, <2>3 DEF End
  <2>5. /\ pc' \in [Calls -> Steps]
        /\ told' \in [Calls -> Told]
        /\ claim' \in [Calls -> Calls \union {Nothing}]
        /\ \A b \in Calls : CallKnows(b)'
    BY <1>1, <1>2, <2>2, <2>3, <2>4, EndKeepsCalls
  <2> QED
    BY <1>1, <2>5 DEF IInv, TypeOK
<1> QED
  BY <1>4, <1>5, <1>6

LEMMA SystemsFailKeepsIInv ==
  ASSUME IInv, NEW r \in requests, SystemsFail(r)
  PROVE  IInv'
<1>1. /\ DOMAIN claims' \subseteq Calls
      /\ DOMAIN keys' \subseteq Runs \X Legs
      /\ RowsAreEvidence' /\ KeysNameClaims' /\ HistoriesAreOfKeys'
      /\ KeysGrow /\ RequestsAreSteps'
      /\ recorded' = recorded /\ log' = log
  BY DoneKeepsRecords DEF SystemsFail
<1>2. r.call \in Calls /\ End(r.call, "defect") /\ "defect" \in Told
  BY DEF SystemsFail, IInv, RequestsAreSteps, Told
<1>3. /\ pc' \in [Calls -> Steps]
      /\ told' \in [Calls -> Told]
      /\ claim' \in [Calls -> Calls \union {Nothing}]
      /\ \A b \in Calls : CallKnows(b)'
  BY <1>1, <1>2, EndKeepsCalls
<1> QED
  BY <1>1, <1>3 DEF IInv, TypeOK

LEMMA NoReplyKeepsIInv ==
  ASSUME IInv, NEW r \in requests, NoReply(r)
  PROVE  IInv'
<1>1. /\ DOMAIN claims' \subseteq Calls
      /\ DOMAIN keys' \subseteq Runs \X Legs
      /\ RowsAreEvidence' /\ KeysNameClaims' /\ HistoriesAreOfKeys'
      /\ KeysGrow /\ RequestsAreSteps'
      /\ recorded' = recorded /\ log' = log
  BY DoneKeepsRecords DEF NoReply
<1>2. UNCHANGED <<pc, claim, told>>
  BY DEF NoReply
<1> QED
  BY <1>1, <1>2, SameCallsKnow DEF IInv, TypeOK

\* A step that leaves the records and the requests alone, and only ends a call or
\* tells its caller.
LEMMA RecordsAsTheyWere ==
  ASSUME IInv, UNCHANGED <<systems, store>>, requests' = requests
  PROVE  /\ DOMAIN claims' \subseteq Calls
         /\ DOMAIN keys' \subseteq Runs \X Legs
         /\ RowsAreEvidence' /\ KeysNameClaims' /\ HistoriesAreOfKeys'
         /\ KeysGrow /\ RequestsAreSteps'
         /\ recorded' = recorded /\ log' = log
<1>1. UNCHANGED systems /\ UNCHANGED store /\ recorded' = recorded /\ log' = log
  BY DEF store
<1>2. RequestsAreSteps'
  BY <1>1, StepsStaySteps DEF RequestsAreSteps
<1> QED
  BY <1>1, <1>2, SameSystems

LEMMA EndingKeepsIInv ==
  ASSUME IInv, NEW a \in Calls, NEW what \in Told \ {"ok"}, End(a, what),
         UNCHANGED <<systems, store>>, requests' = requests
  PROVE  IInv'
<1>1. /\ DOMAIN claims' \subseteq Calls
      /\ DOMAIN keys' \subseteq Runs \X Legs
      /\ RowsAreEvidence' /\ KeysNameClaims' /\ HistoriesAreOfKeys'
      /\ KeysGrow /\ RequestsAreSteps'
      /\ recorded' = recorded /\ log' = log
  BY RecordsAsTheyWere
<1>2. /\ pc' \in [Calls -> Steps]
      /\ told' \in [Calls -> Told]
      /\ claim' \in [Calls -> Calls \union {Nothing}]
      /\ \A b \in Calls : CallKnows(b)'
  BY <1>1, EndKeepsCalls
<1> QED
  BY <1>1, <1>2 DEF IInv, TypeOK

LEMMA TimeOutKeepsIInv ==
  ASSUME IInv, NEW a \in Calls, TimeOut(a)
  PROVE  IInv'
<1>1. End(a, "unavailable") /\ UNCHANGED <<systems, store>> /\ requests' = requests
  BY DEF TimeOut
<1>2. "unavailable" \in Told \ {"ok"}
  BY DEF Told
<1> QED
  BY <1>1, <1>2, EndingKeepsIInv

LEMMA RecordFailsKeepsIInv ==
  ASSUME IInv, NEW a \in Calls, RecordFails(a)
  PROVE  IInv'
<1>1. PICK what \in {"unavailable", "defect"} : End(a, what)
  BY DEF RecordFails
<1>2. UNCHANGED <<systems, store>> /\ requests' = requests
  BY DEF RecordFails
<1>3. what \in Told \ {"ok"}
  BY DEF Told
<1> QED
  BY <1>1, <1>2, <1>3, EndingKeepsIInv

LEMMA GiveUpKeepsIInv ==
  ASSUME IInv, NEW a \in Calls, GiveUp(a)
  PROVE  IInv'
<1>1. /\ DOMAIN claims' \subseteq Calls
      /\ DOMAIN keys' \subseteq Runs \X Legs
      /\ RowsAreEvidence' /\ KeysNameClaims' /\ HistoriesAreOfKeys'
      /\ KeysGrow /\ RequestsAreSteps'
      /\ recorded' = recorded /\ log' = log
  BY RecordsAsTheyWere DEF GiveUp
<1>2. pc' = pc /\ claim' = claim /\ told' = [told EXCEPT ![a] = "unavailable"]
  BY DEF GiveUp
<1>3. TypeOK'
  BY <1>1, <1>2 DEF IInv, TypeOK, Told
<1>4. ASSUME NEW b \in Calls
      PROVE  CallKnows(b)'
  <2>1. told'[b] = told[b] \/ told'[b] # "ok"
    BY <1>2 DEF IInv, TypeOK
  <2> QED
    BY <1>1, <1>2, <2>1, KnowingStays
<1> QED
  BY <1>1, <1>3, <1>4 DEF IInv

LEMMA CrashKeepsIInv ==
  ASSUME IInv, Crash
  PROVE  IInv'
<1>1. /\ DOMAIN claims' \subseteq Calls
      /\ DOMAIN keys' \subseteq Runs \X Legs
      /\ RowsAreEvidence' /\ KeysNameClaims' /\ HistoriesAreOfKeys'
      /\ KeysGrow /\ RequestsAreSteps'
      /\ recorded' = recorded /\ log' = log
  BY RecordsAsTheyWere DEF Crash
<1>2. /\ pc' = [a \in Calls |-> IF a \in InFlight THEN "over" ELSE pc[a]]
      /\ told' = [a \in Calls |-> IF a \in InFlight /\ told[a] = "none" THEN "unavailable" ELSE told[a]]
      /\ claim' = claim
  BY DEF Crash
<1>3. TypeOK'
  <2>1. pc' \in [Calls -> Steps] /\ told' \in [Calls -> Told]
    BY <1>2 DEF IInv, TypeOK, Told, Steps
  <2> QED
    BY <1>1, <1>2, <2>1 DEF IInv, TypeOK
<1>4. ASSUME NEW b \in Calls
      PROVE  CallKnows(b)'
  <2>1. /\ told'[b] = told[b] \/ told'[b] # "ok"
        /\ pc'[b] = pc[b] \/ pc'[b] = "over"
    BY <1>2
  <2> QED
    BY <1>1, <1>2, <2>1, KnowingStays
<1> QED
  BY <1>1, <1>3, <1>4 DEF IInv

LEMMA EmitKeepsIInv ==
  ASSUME IInv, NEW a \in Calls, Emit(a)
  PROVE  IInv'
<1>1. /\ UNCHANGED systems /\ UNCHANGED store /\ KeysGrow /\ recorded' = recorded /\ log' = log
      /\ RowsAreEvidence' /\ KeysNameClaims' /\ HistoriesAreOfKeys'
      /\ DOMAIN claims' \subseteq Calls /\ DOMAIN keys' \subseteq Runs \X Legs
  BY SameSystems DEF Emit, store
<1>2. PICK row \in recorded : row.run_id = RunOf[a] /\ row.claim_id = claim[a]
  BY DEF Emit, IInv, CallKnows
<1>3. PICK request : request = [op |-> "record_claim_status", on |-> row.claim_id, body |-> Decided]
  OBVIOUS
<1>4. Send(a, "status", request)
  BY <1>2, <1>3 DEF Emit, Send
<1>5. RequestsAreSteps'
  <2>1. ASSUME NEW r \in requests'
        PROVE  r.call \in Calls /\ (AsksForClaim(r)' \/ AsksForStatus(r)')
    <3>1. CASE r \in requests
      BY <1>1, <3>1, StepsStaySteps
    <3>2. CASE r \notin requests
      <4>1. /\ r.call = a /\ r.key = <<RunOf[a], "status">>
            /\ r.request = [op |-> "record_claim_status", on |-> row.claim_id, body |-> Decided]
        BY <1>3, <1>4, <3>2, SentIsNew
      <4> QED
        BY <1>1, <1>2, <4>1 DEF AsksForStatus, StatusKey
    <3> QED
      BY <3>1, <3>2
  <2> QED
    BY <2>1 DEF RequestsAreSteps
<1>6. pc' = [pc EXCEPT ![a] = "emitting"] /\ claim' = claim /\ told' = told
  BY DEF Emit
<1>7. TypeOK'
  BY <1>1, <1>6 DEF IInv, TypeOK, Steps
<1>8. ASSUME NEW b \in Calls
      PROVE  CallKnows(b)'
  <2>1. CASE b = a
    <3>1. pc'[b] = "emitting" /\ (told[b] = "ok" => StatusKey(RunOf[b]) \in DOMAIN keys')
      BY <1>1, <1>6, <2>1 DEF IInv, TypeOK, CallKnows, KeysGrow
    <3> QED
      BY <1>1, <1>2, <1>6, <2>1, <3>1 DEF CallKnows
  <2>2. CASE b # a
    <3>1. pc'[b] = pc[b]
      BY <1>6, <2>2 DEF IInv, TypeOK
    <3> QED
      BY <1>1, <1>6, <3>1, KnowingStays
  <2> QED
    BY <2>1, <2>2
<1> QED
  BY <1>1, <1>5, <1>7, <1>8 DEF IInv

LEMMA LongerLog ==
  ASSUME NEW n \in Nat, NEW m, m = n + 1
  PROVE  n + 1 \in 1..m /\ \A i \in 1..n : i \in 1..m
  OBVIOUS

\* A run recorded is one that was not: its row is its only one, and is evidence.
LEMMA RecordingKeepsRecords ==
  ASSUME IInv, NEW a \in Calls, pc[a] = "taken in", ~RunRecorded(RunOf[a]),
         Store!Record(Content(a)), UNCHANGED systems
  PROVE  /\ recorded' = recorded \union {Content(a)}
         /\ recorded' \subseteq Contents /\ IsLog(log')
         /\ RowsAreEvidence' /\ KeysNameClaims' /\ HistoriesAreOfKeys'
<1> DEFINE e == NextEntry(LastRow(log), Content(a))
<1>1. recorded' = recorded \union {Content(a)} /\ log' = Append(log, e)
  BY DEF Store!Record, Store!NextEntry, NextEntry, Store!Linked, Linked, Store!Continues, Continues,
         Store!LastRow, LastRow, Store!GENESIS, GENESIS, Store!Digest, Digest
<1>2. e.content = Content(a)
  BY DEF NextEntry, Linked
<1>3. /\ Content(a).run_id = RunOf[a]
      /\ Content(a).claim_id = claim[a]
      /\ Content(a).status = Decided
  BY DEF Content
<1>4. TheClaimOf(RunOf[a], claim[a])
  BY DEF IInv, CallKnows
<1>5. Content(a) \in Contents
  <2>1. claim[a] \in DOMAIN claims
    BY <1>4 DEF IInv, KeysNameClaims, TheClaimOf
  <2> QED
    BY <2>1, CallsAssumption DEF IInv, TypeOK, Content, Contents, Decided, Statuses
<1> HIDE DEF e
<1>6. /\ IsLog(log')
      /\ Len(log) \in Nat /\ Len(log') = Len(log) + 1
      /\ \A i \in 1..Len(log) : log'[i] = log[i]
      /\ log'[Len(log) + 1] = e
  BY <1>1, AppendIsLog DEF IInv, TypeOK
<1>7. claims' = claims /\ keys' = keys
  BY DEF systems
<1>8. RowsAreEvidence'
  <2>1. ASSUME NEW row \in recorded'
        PROVE  /\ row.status = Decided
               /\ \E i \in 1..Len(log') : log'[i].content = row
               /\ TheClaimOf(row.run_id, row.claim_id)'
    <3>1. CASE row \in recorded
      <4>1. PICK i \in 1..Len(log) : log[i].content = row
        BY <3>1 DEF IInv, RowsAreEvidence
      <4>2. i \in 1..Len(log')
        BY <1>6, LongerLog
      <4>3. log'[i].content = row
        BY <1>6, <4>1
      <4> QED
        BY <3>1, <4>2, <4>3, <1>7 DEF IInv, RowsAreEvidence, TheClaimOf
    <3>2. CASE row = Content(a)
      <4>1. Len(log) + 1 \in 1..Len(log')
        BY <1>6, LongerLog
      <4> QED
        BY <3>2, <4>1, <1>2, <1>3, <1>4, <1>6, <1>7 DEF TheClaimOf
    <3> QED
      BY <1>1, <3>1, <3>2
  <2>2. \A row, other \in recorded' : row.run_id = other.run_id => row = other
    BY <1>1, <1>3 DEF IInv, RowsAreEvidence, RunRecorded
  <2> QED
    BY <2>1, <2>2 DEF RowsAreEvidence
<1>9. KeysNameClaims' /\ HistoriesAreOfKeys'
  BY <1>1, <1>7 DEF IInv, KeysNameClaims, HistoriesAreOfKeys, TheClaimOf, RunRecorded
<1> QED
  BY <1>1, <1>5, <1>6, <1>8, <1>9 DEF IInv, TypeOK

LEMMA RecordKeepsIInv ==
  ASSUME IInv, NEW a \in Calls, Record(a)
  PROVE  IInv'
<1>1. /\ pc[a] = "taken in" /\ UNCHANGED systems /\ requests' = requests
      /\ claims' = claims /\ keys' = keys /\ "defect" \in Told \ {"ok"}
  BY DEF Record, systems, Told
<1>2. CASE RunRecorded(RunOf[a])
  <2>1. End(a, "defect") /\ UNCHANGED <<systems, store>>
    BY <1>2 DEF Record
  <2> QED
    BY <1>1, <2>1, EndingKeepsIInv
<1>3. CASE ~RunRecorded(RunOf[a])
  <2>1. Store!Record(Content(a))
    BY <1>3 DEF Record
  <2>2. /\ recorded' = recorded \union {Content(a)}
        /\ recorded' \subseteq Contents /\ IsLog(log')
        /\ RowsAreEvidence' /\ KeysNameClaims' /\ HistoriesAreOfKeys'
    BY <1>1, <1>3, <2>1, RecordingKeepsRecords
  <2>3. KeysGrow /\ RequestsAreSteps'
    BY <1>1, <2>2, StepsStaySteps DEF KeysGrow, RequestsAreSteps
  <2>4. CASE End(a, "defect")
    <3>1. /\ pc' \in [Calls -> Steps]
          /\ told' \in [Calls -> Told]
          /\ claim' \in [Calls -> Calls \union {Nothing}]
          /\ \A b \in Calls : CallKnows(b)'
      BY <1>1, <2>2, <2>3, <2>4, EndKeepsCalls
    <3> QED
      BY <1>1, <2>2, <2>3, <3>1 DEF IInv, TypeOK
  <2>5. CASE pc' = [pc EXCEPT ![a] = "recorded"] /\ UNCHANGED <<claim, told>>
    <3>1. TypeOK'
      BY <1>1, <2>2, <2>5 DEF IInv, TypeOK, Steps
    <3>2. ASSUME NEW b \in Calls
          PROVE  CallKnows(b)'
      <4>1. CASE b = a
        <5>1. pc'[b] = "recorded" /\ (told[b] = "ok" => StatusKey(RunOf[b]) \in DOMAIN keys')
          BY <1>1, <2>5, <4>1 DEF IInv, TypeOK, CallKnows
        <5>2. Content(a) \in recorded' /\ Content(a).run_id = RunOf[a] /\ Content(a).claim_id = claim'[a]
          BY <2>2, <2>5 DEF Content
        <5> QED
          BY <2>5, <4>1, <5>1, <5>2 DEF CallKnows
      <4>2. CASE b # a
        <5>1. pc'[b] = pc[b]
          BY <2>5, <4>2 DEF IInv, TypeOK
        <5> QED
          BY <2>2, <2>3, <2>5, <5>1, KnowingStays
      <4> QED
        BY <4>1, <4>2
    <3> QED
      BY <2>2, <2>3, <3>1, <3>2 DEF IInv
  <2> QED
    BY <1>3, <2>4, <2>5 DEF Record
<1> QED
  BY <1>2, <1>3

LEMMA NextKeepsIInv ==
  ASSUME IInv, [Next]_vars
  PROVE  IInv'
<1>1. CASE UNCHANGED vars
  <2>1. /\ UNCHANGED <<systems, store>> /\ requests' = requests
        /\ pc' = pc /\ claim' = claim /\ told' = told
    BY <1>1 DEF vars, systems, store
  <2>2. /\ DOMAIN claims' \subseteq Calls
        /\ DOMAIN keys' \subseteq Runs \X Legs
        /\ RowsAreEvidence' /\ KeysNameClaims' /\ HistoriesAreOfKeys'
        /\ KeysGrow /\ RequestsAreSteps'
        /\ recorded' = recorded /\ log' = log
    BY <2>1, RecordsAsTheyWere
  <2> QED
    BY <2>1, <2>2, SameCallsKnow DEF IInv, TypeOK
<1>2. CASE Crash
  BY <1>2, CrashKeepsIInv
<1>3. ASSUME NEW a \in Calls,
             Submit(a) \/ Record(a) \/ RecordFails(a) \/ Emit(a) \/ TimeOut(a) \/ GiveUp(a)
      PROVE  IInv'
  BY <1>3, SubmitKeepsIInv, RecordKeepsIInv, RecordFailsKeepsIInv, EmitKeepsIInv,
     TimeOutKeepsIInv, GiveUpKeepsIInv
<1>4. ASSUME NEW r \in requests, SystemsAnswer(r) \/ SystemsFail(r) \/ NoReply(r)
      PROVE  IInv'
  BY <1>4, SystemsAnswerKeepsIInv, SystemsFailKeepsIInv, NoReplyKeepsIInv
<1> QED
  BY <1>1, <1>2, <1>3, <1>4 DEF Next

\* The strengthened invariant holds of every reachable state: what the systems hold,
\* what the triager recorded and what is on its way agree on each run's one claim.
THEOREM PipelineInductive == Spec => []IInv
  BY InitIInv, NextKeepsIInv, PTL DEF Spec

-----------------------------------------------------------------------------

\* A claim never moves in the system of record but for a run that is recorded with its
\* entry in the audit log, whatever is lost, late, repeated or cut off.
THEOREM StatusHasEvidence == Spec => []NoStatusWithoutEvidence
<1>1. ASSUME IInv
      PROVE  NoStatusWithoutEvidence
  <2> SUFFICES ASSUME NEW c \in DOMAIN claims
               PROVE  /\ \A i \in 2..Len(claims[c]) : \E row \in Evidence(c) : row.status = claims[c][i].status
                      /\ Len(claims[c]) - 1 <= Cardinality(Evidence(c))
    BY DEF NoStatusWithoutEvidence
  <2>1. c \in Calls /\ RunOf[c] \in Runs
    BY <1>1, CallsAssumption DEF IInv, TypeOK
  <2>2. \A row \in Evidence(c) : row.run_id = RunOf[c]
    <3>1. ASSUME NEW row \in Evidence(c)
          PROVE  row.run_id = RunOf[c]
      <4>1. TheClaimOf(row.run_id, c)
        BY <1>1 DEF Evidence, IInv, RowsAreEvidence
      <4>2. ClaimKey(row.run_id)[1] = row.run_id
        BY DEF ClaimKey
      <4> QED
        BY <1>1, <4>1, <4>2 DEF IInv, KeysNameClaims, TheClaimOf
    <3> QED
      BY <3>1
  <2>3. \A row, other \in Evidence(c) : row = other
    BY <1>1, <2>2 DEF Evidence, IInv, RowsAreEvidence
  <2>4. Cardinality(Evidence(c)) \in {0, 1} /\ (Evidence(c) # {} => Cardinality(Evidence(c)) = 1)
    <3>1. CASE Evidence(c) = {}
      BY <3>1, FS_EmptySet
    <3>2. CASE Evidence(c) # {}
      <4>1. PICK row : Evidence(c) = {row}
        BY <2>3, <3>2
      <4> QED
        BY <3>2, <4>1, FS_Singleton
    <3> QED
      BY <3>1, <3>2
  <2>5. CASE StatusKey(RunOf[c]) \notin DOMAIN keys
    <3>1. claims[c] = Received(c)
      BY <1>1, <2>5 DEF IInv, HistoriesAreOfKeys
    <3>2. Len(claims[c]) = 1
      BY <3>1 DEF Received
    <3> QED
      BY <2>4, <3>2
  <2>6. CASE StatusKey(RunOf[c]) \in DOMAIN keys
    <3>1. PICK by \in Calls : claims[c] = Moved(c, by)
      BY <1>1, <2>6 DEF IInv, HistoriesAreOfKeys
    <3>2. Len(claims[c]) = 2 /\ claims[c][2].status = Decided
      BY <3>1, MovedOnce
    <3>3. PICK row \in recorded : row.run_id = RunOf[c]
      BY <1>1, <2>1, <2>6 DEF IInv, KeysNameClaims, RunRecorded
    <3>4. row \in Evidence(c) /\ row.status = Decided
      <4>1. TheClaimOf(RunOf[c], c) /\ TheClaimOf(row.run_id, row.claim_id)
        BY <1>1 DEF IInv, KeysNameClaims, RowsAreEvidence
      <4>2. row.claim_id = c
        BY <3>3, <4>1 DEF TheClaimOf
      <4> QED
        BY <1>1, <4>2 DEF IInv, RowsAreEvidence, Evidence
    <3> QED
      BY <2>4, <3>2, <3>4
  <2> QED
    BY <2>5, <2>6
<1> QED
  BY <1>1, PipelineInductive, PTL

\* A run takes in one claim, however often it is sent, and the row recorded for it
\* names the claim core-sim holds.
THEOREM RunTakesInOneClaim == Spec => []OneClaimPerRun
<1>1. ASSUME IInv
      PROVE  OneClaimPerRun
  <2>1. ASSUME NEW k \in DOMAIN keys, NEW l \in DOMAIN keys, k[1] = l[1]
        PROVE  keys[k].answer.claim = keys[l].answer.claim
    <3>1. /\ TheClaimOf(k[1], keys[k].answer.claim)
          /\ TheClaimOf(l[1], keys[l].answer.claim)
      BY <1>1 DEF IInv, KeysNameClaims
    <3> QED
      BY <2>1, <3>1 DEF TheClaimOf
  <2>2. \A row \in recorded : TheClaimOf(row.run_id, row.claim_id)
    BY <1>1 DEF IInv, RowsAreEvidence
  <2> QED
    BY <2>1, <2>2 DEF OneClaimPerRun, TheClaimOf, ClaimKey
<1> QED
  BY <1>1, PipelineInductive, PTL

\* A caller told of success was told the truth: its run is recorded, and core-sim
\* holds its claim as decided.
THEOREM SuccessIsTrue == Spec => []OkMeansDone
<1>1. ASSUME IInv
      PROVE  OkMeansDone
  <2> SUFFICES ASSUME NEW a \in Calls, told[a] = "ok"
               PROVE  \E row \in recorded : /\ row.run_id = RunOf[a]
                                            /\ \E i \in 2..Len(claims[row.claim_id]) :
                                                 claims[row.claim_id][i].status = Decided
    BY DEF OkMeansDone
  <2>1. StatusKey(RunOf[a]) \in DOMAIN keys /\ RunOf[a] \in Runs
    BY <1>1, CallsAssumption DEF IInv, CallKnows
  <2>2. PICK row \in recorded : row.run_id = RunOf[a]
    BY <1>1, <2>1 DEF IInv, KeysNameClaims, RunRecorded
  <2> DEFINE c == row.claim_id
  <2>3. c \in DOMAIN claims /\ RunOf[c] = RunOf[a]
    <3>1. TheClaimOf(RunOf[a], c)
      BY <1>1, <2>2 DEF IInv, RowsAreEvidence
    <3>2. ClaimKey(RunOf[a])[1] = RunOf[a]
      BY DEF ClaimKey
    <3> QED
      BY <1>1, <3>1, <3>2 DEF IInv, KeysNameClaims, TheClaimOf
  <2>4. PICK by \in Calls : claims[c] = Moved(c, by)
    BY <1>1, <2>1, <2>3 DEF IInv, HistoriesAreOfKeys
  <2>5. Len(claims[c]) = 2 /\ claims[c][2].status = Decided
    BY <2>4, MovedOnce
  <2>6. 2 \in 2..Len(claims[c])
    BY <2>5
  <2> QED
    BY <2>2, <2>5, <2>6
<1> QED
  BY <1>1, PipelineInductive, PTL
=============================================================================
