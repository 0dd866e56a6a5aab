---------------------------- MODULE CoreSimProofs ---------------------------
(***************************************************************************)
(* The safety of core-sim's writes, and that they implement the promise of *)
(* IdempotentWrites, for any number of attempts, keys and claims.          *)
(***************************************************************************)
EXTENDS CoreSim, SequenceTheorems, TLAPS

Transitions == [status : Statuses, by : ClaimIds]

TypeOK ==
  /\ DOMAIN claims \subseteq ClaimIds
  /\ \A c \in DOMAIN claims : claims[c] \in Seq(Transitions) /\ claims[c] # <<>>
  /\ pc \in [Attempts -> Steps]
  /\ told \in [Attempts -> Told]
  /\ call \in [Attempts -> [request : Requests, key : Keys] \union {Nothing}]
  /\ DOMAIN written = Attempts

\* An attempt has a call once it has asked, and no answer before it is over.
InCall ==
  \A a \in Attempts :
    /\ pc[a] = "idle" <=> call[a] = Nothing
    /\ pc[a] # "over" => told[a] = "none"

\* A claim is there from the start, or the work of an attempt that is over.
Minted == \A c \in DOMAIN claims : c \in Held \/ (c \in Attempts /\ pc[c] = "over")

\* What an attempt wrote is what it would write now: the rows it holds keep others
\* from changing what it read.
WrittenCurrent ==
  \A a \in Holding : /\ FindsItsTarget(Request(a), claims)
                     /\ written[a] = Written(Request(a), claims, a)

RowsHeld ==
  \A a, b \in Holding :
    a # b /\ Request(a).op # "create_claim" /\ Request(b).op # "create_claim"
          /\ Request(a).on = Request(b).on
      => ~MutuallyExclusive(Request(a).op, Request(b).op)

\* An uncommitted key is nobody else's, and an attempt rolls back for a key that is.
KeysInserted ==
  \A a \in Attempts : pc[a] = "keyed" =>
    /\ Key(a) \notin DOMAIN keys
    /\ \A b \in Attempts : pc[b] = "keyed" /\ Key(b) = Key(a) => a = b

KeysLost == \A a \in Attempts : pc[a] = "rolled back" => Key(a) \in DOMAIN keys

\* A key is the work of the attempt its answer names, which carried it.
KeysOfAttempts ==
  \A k \in DOMAIN keys :
    /\ keys[k].answer.by \in Attempts
    /\ pc[keys[k].answer.by] = "over"
    /\ Key(keys[k].answer.by) = k
    /\ OfClaim(keys[k].answer.op) => keys[k].answer.claim \in DOMAIN claims

\* Whoever is told "ok" is told what its key answered, to what it asked.
OkIsTheKeys ==
  \A a \in Attempts : told[a] = "ok" =>
    /\ Key(a) \in DOMAIN keys
    /\ keys[Key(a)].fingerprint = Fingerprint(Request(a))
    /\ written[a] = keys[Key(a)].answer

\* The first transition a key answers for: a claim held has one before it.
First(c) == IF c \in Held THEN 2 ELSE 1

HistoriesOfKeys ==
  \A c \in DOMAIN claims :
    {keys[k].answer.history : k \in ClaimKeys(c)}
      = {SubSeq(claims[c], 1, n) : n \in First(c)..Len(claims[c])}

AttachmentsOfKeys == attachments = {keys[k].answer : k \in AttachmentKeys}

IInv ==
  /\ TypeOK
  /\ InCall
  /\ Minted
  /\ WrittenCurrent
  /\ RowsHeld
  /\ KeysInserted
  /\ KeysLost
  /\ KeysOfAttempts
  /\ OkIsTheKeys
  /\ NoRetryFailsOnItsTwin
  /\ HistoriesOfKeys
  /\ AttachmentsOfKeys

-----------------------------------------------------------------------------

LEMMA InitIInv == Init => IInv
<1> SUFFICES ASSUME Init PROVE IInv
  OBVIOUS
<1>1. /\ claims = HeldClaims /\ attachments = {} /\ keys = << >>
      /\ pc = [a \in Attempts |-> "idle"]
      /\ call = [a \in Attempts |-> Nothing]
      /\ written = [a \in Attempts |-> Nothing]
      /\ told = [a \in Attempts |-> "none"]
  BY DEF Init
<1>2. DOMAIN keys = {}
  BY <1>1
<1>3. /\ DOMAIN claims = Held
      /\ \A c \in Held : claims[c] = <<Transition("received", c)>>
  BY <1>1 DEF HeldClaims
<1>4. \A c \in Held : Transition("received", c) \in Transitions
  BY DEF Transition, Transitions, Statuses, ClaimIds
<1>5. ASSUME NEW c \in Held
      PROVE  claims[c] \in Seq(Transitions) /\ claims[c] # <<>> /\ Len(claims[c]) = 1
  <2> DEFINE t == Transition("received", c)
  <2>1. t \in Transitions /\ claims[c] = <<t>>
    BY <1>3, <1>4
  <2> HIDE DEF t
  <2> QED
    BY <2>1
<1>6. TypeOK
  BY <1>1, <1>3, <1>5 DEF TypeOK, ClaimIds, Steps, Told
<1>7. InCall /\ Minted /\ KeysInserted /\ KeysLost /\ NoRetryFailsOnItsTwin
  BY <1>1, <1>3 DEF InCall, Minted, KeysInserted, KeysLost, NoRetryFailsOnItsTwin
<1>8. Holding = {}
  BY <1>1 DEF Holding
<1>9. WrittenCurrent /\ RowsHeld
  BY <1>8 DEF WrittenCurrent, RowsHeld
<1>10. KeysOfAttempts /\ OkIsTheKeys
  BY <1>1, <1>2 DEF KeysOfAttempts, OkIsTheKeys
<1>11. HistoriesOfKeys
  <2>1. \A c \in DOMAIN claims : ClaimKeys(c) = {}
    BY <1>2 DEF ClaimKeys
  <2>2. \A c \in DOMAIN claims : First(c) = 2 /\ Len(claims[c]) = 1
    BY <1>3, <1>5 DEF First
  <2>3. 2..1 = {}
    OBVIOUS
  <2> QED
    BY <2>1, <2>2, <2>3 DEF HistoriesOfKeys
<1>12. AttachmentsOfKeys
  BY <1>1, <1>2 DEF AttachmentsOfKeys, AttachmentKeys
<1> QED
  BY <1>6, <1>7, <1>9, <1>10, <1>11, <1>12 DEF IInv

\* What a step that leaves the tables alone preserves of them.
LEMMA TablesUnchanged ==
  ASSUME IInv, UNCHANGED <<claims, attachments, keys>>
  PROVE  /\ DOMAIN claims' \subseteq ClaimIds
         /\ \A c \in DOMAIN claims' : claims'[c] \in Seq(Transitions) /\ claims'[c] # <<>>
         /\ HistoriesOfKeys'
         /\ AttachmentsOfKeys'
  BY DEF IInv, TypeOK, HistoriesOfKeys, AttachmentsOfKeys, ClaimKeys, AttachmentKeys

\* An attempt that ends without a commit, with an answer or without.
LEMMA EndKeepsIInv ==
  ASSUME IInv, NEW a \in Attempts, pc[a] \notin {"idle", "over"},
         UNCHANGED <<claims, attachments, keys>>,
         NEW what \in Told \ {"none", "duplicate"}, NEW with, End(a, what, with),
         what = "ok" => /\ Key(a) \in DOMAIN keys
                        /\ keys[Key(a)].fingerprint = Fingerprint(Request(a))
                        /\ with = keys[Key(a)].answer
  PROVE  IInv'
<1>1. /\ pc' = [pc EXCEPT ![a] = "over"]
      /\ told' = [told EXCEPT ![a] = what]
      /\ written' = [written EXCEPT ![a] = with]
      /\ call' = call
  BY DEF End
<1>2. Holding' = Holding \ {a} /\ DOMAIN written = Attempts
  BY <1>1 DEF IInv, TypeOK, Holding
<1>3. \A b \in Attempts : Key(b)' = Key(b) /\ Request(b)' = Request(b)
  BY <1>1 DEF Key, Request
<1>4. TypeOK'
  BY <1>1, TablesUnchanged DEF IInv, TypeOK, Steps
<1>5. InCall' /\ Minted'
  BY <1>1 DEF IInv, TypeOK, InCall, Minted
<1>6. WrittenCurrent'
  <2> SUFFICES ASSUME NEW b \in Holding, b # a
               PROVE  /\ FindsItsTarget(Request(b), claims)
                      /\ written'[b] = Written(Request(b), claims, b)
    BY <1>2, <1>3 DEF WrittenCurrent, Holding
  <2> QED
    BY <1>1, <1>2 DEF IInv, WrittenCurrent, Holding
<1>7. RowsHeld'
  BY <1>2, <1>3 DEF IInv, RowsHeld, Holding
<1>8. KeysInserted' /\ KeysLost'
  BY <1>1, <1>3 DEF IInv, TypeOK, KeysInserted, KeysLost, Key
<1>9. KeysOfAttempts'
  BY <1>1, <1>3 DEF IInv, TypeOK, KeysOfAttempts, Key
<1>10. OkIsTheKeys'
  BY <1>1, <1>2, <1>3 DEF IInv, TypeOK, OkIsTheKeys
<1>11. NoRetryFailsOnItsTwin'
  BY <1>1 DEF IInv, TypeOK, NoRetryFailsOnItsTwin
<1> QED
  BY <1>4, <1>5, <1>6, <1>7, <1>8, <1>9, <1>10, <1>11, TablesUnchanged DEF IInv

\* A statement that moves attempt a on within its call.
LEMMA MoveKeepsIInv ==
  ASSUME IInv, NEW a \in Attempts, pc[a] \notin {"idle", "over"},
         UNCHANGED <<claims, attachments, keys, call, told>>,
         NEW step \in Steps \ {"idle", "over"}, pc' = [pc EXCEPT ![a] = step],
         DOMAIN written' = Attempts, \A b \in Attempts \ {a} : written'[b] = written[b],
         WrittenCurrent', RowsHeld', KeysInserted', KeysLost'
  PROVE  IInv'
<1>1. \A b \in Attempts : Key(b)' = Key(b) /\ Request(b)' = Request(b)
  BY DEF Key, Request
<1>2. TypeOK'
  BY TablesUnchanged DEF IInv, TypeOK
<1>3. InCall' /\ Minted' /\ NoRetryFailsOnItsTwin'
  BY DEF IInv, TypeOK, InCall, Minted, NoRetryFailsOnItsTwin
<1>4. KeysOfAttempts'
  BY <1>1 DEF IInv, TypeOK, KeysOfAttempts, Key
<1>5. OkIsTheKeys'
  BY <1>1 DEF IInv, TypeOK, InCall, OkIsTheKeys
<1> QED
  BY <1>2, <1>3, <1>4, <1>5, TablesUnchanged DEF IInv

-----------------------------------------------------------------------------

LEMMA AskKeepsIInv ==
  ASSUME IInv, NEW a \in Attempts, Ask(a)
  PROVE  IInv'
<1>1. PICK request \in Requests, key \in Keys :
        call' = [call EXCEPT ![a] = [request |-> request, key |-> key]]
  BY DEF Ask
<1>2. /\ pc[a] = "idle" /\ pc' = [pc EXCEPT ![a] = "asked"]
      /\ UNCHANGED <<claims, attachments, keys, written, told>>
  BY DEF Ask
<1>3. [request |-> request, key |-> key] \in [request : Requests, key : Keys]
  OBVIOUS
<1>4. TypeOK'
  BY <1>1, <1>2, <1>3, TablesUnchanged DEF IInv, TypeOK, Steps
<1>5. InCall' /\ Minted' /\ NoRetryFailsOnItsTwin'
  BY <1>1, <1>2, <1>3, NothingAssumption
     DEF IInv, TypeOK, InCall, Minted, NoRetryFailsOnItsTwin
<1>6. Holding' = Holding /\ a \notin Holding
  BY <1>2 DEF IInv, TypeOK, Holding
<1>7. \A b \in Attempts \ {a} : Key(b)' = Key(b) /\ Request(b)' = Request(b)
  BY <1>1 DEF IInv, TypeOK, Key, Request
<1>8. \A b \in Holding : Request(b)' = Request(b)
  BY <1>6, <1>7 DEF Holding
<1>9. WrittenCurrent'
  BY <1>2, <1>6, <1>8 DEF IInv, WrittenCurrent
<1>10. RowsHeld'
  BY <1>6, <1>8 DEF IInv, RowsHeld
<1>11. KeysInserted' /\ KeysLost'
  BY <1>2, <1>7 DEF IInv, TypeOK, KeysInserted, KeysLost, Key
<1>12. KeysOfAttempts'
  BY <1>2, <1>7 DEF IInv, TypeOK, KeysOfAttempts, Key
<1>13. OkIsTheKeys'
  BY <1>2, <1>7 DEF IInv, TypeOK, InCall, OkIsTheKeys
<1> QED
  BY <1>2, <1>4, <1>5, <1>9, <1>10, <1>11, <1>12, <1>13, TablesUnchanged DEF IInv

LEMMA ReplayedKeepsIInv ==
  ASSUME IInv, NEW a \in Attempts, pc[a] \notin {"idle", "over"},
         UNCHANGED <<claims, attachments, keys>>, Key(a) \in DOMAIN keys, Replayed(a)
  PROVE  IInv'
<1>1. CASE keys[Key(a)].fingerprint = Fingerprint(Request(a))
  <2>1. End(a, "ok", keys[Key(a)].answer)
    BY <1>1 DEF Replayed
  <2> QED
    BY <1>1, <2>1, EndKeepsIInv DEF Told
<1>2. CASE keys[Key(a)].fingerprint # Fingerprint(Request(a))
  <2>1. End(a, "idempotency_key_reuse", Nothing)
    BY <1>2 DEF Replayed
  <2> QED
    BY <2>1, EndKeepsIInv DEF Told
<1> QED
  BY <1>1, <1>2

LEMMA RememberKeepsIInv ==
  ASSUME IInv, NEW a \in Attempts, Remember(a)
  PROVE  IInv'
<1>1. pc[a] = "asked" /\ UNCHANGED <<claims, attachments, keys>>
  BY DEF Remember
<1>2. CASE Key(a) \in DOMAIN keys
  BY <1>1, <1>2, ReplayedKeepsIInv DEF Remember
<1>3. CASE Key(a) \notin DOMAIN keys
  <2>1. pc' = [pc EXCEPT ![a] = "fresh"] /\ UNCHANGED <<call, written, told>>
    BY <1>3 DEF Remember
  <2>2. Holding' = Holding
    BY <1>1, <2>1 DEF IInv, TypeOK, Holding
  <2>3. WrittenCurrent' /\ RowsHeld'
    BY <1>1, <2>1, <2>2 DEF IInv, WrittenCurrent, RowsHeld, Request
  <2>4. KeysInserted' /\ KeysLost'
    BY <1>1, <2>1 DEF IInv, TypeOK, KeysInserted, KeysLost, Key
  <2> QED
    BY <1>1, <2>1, <2>3, <2>4, MoveKeepsIInv DEF IInv, TypeOK, Steps
<1> QED
  BY <1>2, <1>3

LEMMA PerformKeepsIInv ==
  ASSUME IInv, NEW a \in Attempts, Perform(a)
  PROVE  IInv'
<1>1. pc[a] = "fresh" /\ RowFree(a) /\ UNCHANGED <<claims, attachments, keys>>
  BY DEF Perform
<1>2. CASE ~FindsItsTarget(Request(a), claims)
  <2>1. End(a, NotFound(Request(a)), Nothing)
    BY <1>2 DEF Perform
  <2>2. NotFound(Request(a)) \in Told \ {"none", "duplicate", "ok"}
    BY DEF NotFound, Told
  <2> QED
    BY <1>1, <2>1, <2>2, EndKeepsIInv
<1>3. CASE FindsItsTarget(Request(a), claims)
  <2>1. /\ written' = [written EXCEPT ![a] = Written(Request(a), claims, a)]
        /\ pc' = [pc EXCEPT ![a] = "performed"]
        /\ UNCHANGED <<call, told>>
    BY <1>3 DEF Perform
  <2>2. Holding' = Holding \union {a} /\ a \notin Holding /\ Holding \subseteq Attempts
    BY <1>1, <2>1 DEF IInv, TypeOK, Holding
  <2>3. \A b \in Attempts : Request(b)' = Request(b) /\ Key(b)' = Key(b)
    BY <2>1 DEF Request, Key
  <2>4. DOMAIN written' = Attempts /\ \A b \in Attempts \ {a} : written'[b] = written[b]
    BY <2>1 DEF IInv, TypeOK
  <2>5. WrittenCurrent'
    <3>1. written'[a] = Written(Request(a), claims, a)
      BY <2>1 DEF IInv, TypeOK
    <3>2. \A b \in Holding : /\ FindsItsTarget(Request(b), claims)
                             /\ written'[b] = Written(Request(b), claims, b)
      BY <2>2, <2>4 DEF IInv, WrittenCurrent
    <3> QED
      BY <1>1, <1>3, <2>2, <2>3, <3>1, <3>2 DEF WrittenCurrent
  <2>6. RowsHeld'
    <3>1. \A b \in Holding :
            Request(b).op # "create_claim" /\ Request(b).on = Request(a).on
              => ~MutuallyExclusive(Request(a).op, Request(b).op)
      BY <1>1 DEF RowFree
    <3>2. \A b \in Holding : MutuallyExclusive(Request(a).op, Request(b).op)
                               <=> MutuallyExclusive(Request(b).op, Request(a).op)
      BY DEF MutuallyExclusive
    <3> QED
      BY <2>2, <2>3, <3>1, <3>2 DEF IInv, RowsHeld
  <2>7. KeysInserted' /\ KeysLost'
    BY <1>1, <2>1, <2>3 DEF IInv, TypeOK, KeysInserted, KeysLost, Key
  <2> QED
    BY <1>1, <2>1, <2>4, <2>5, <2>6, <2>7, MoveKeepsIInv DEF Steps
<1> QED
  BY <1>2, <1>3

LEMMA InsertKeyKeepsIInv ==
  ASSUME IInv, NEW a \in Attempts, InsertKey(a)
  PROVE  IInv'
<1> DEFINE step == IF Key(a) \in DOMAIN keys THEN "rolled back" ELSE "keyed"
<1>1. /\ pc[a] = "performed" /\ KeyFree(a) /\ pc' = [pc EXCEPT ![a] = step]
      /\ UNCHANGED <<claims, attachments, keys, call, written, told>>
  BY DEF InsertKey
<1>2. Holding' \subseteq Holding
  BY <1>1 DEF IInv, TypeOK, Holding
<1>3. \A b \in Attempts : Request(b)' = Request(b) /\ Key(b)' = Key(b)
  BY <1>1 DEF Request, Key
<1>4. WrittenCurrent' /\ RowsHeld'
  BY <1>1, <1>2 DEF IInv, WrittenCurrent, RowsHeld, Request
<1>5. KeysInserted' /\ KeysLost'
  <2> USE DEF Key
  <2>1. CASE Key(a) \in DOMAIN keys
    BY <1>1, <2>1 DEF IInv, TypeOK, KeysInserted, KeysLost
  <2>2. CASE Key(a) \notin DOMAIN keys
    <3>1. /\ pc' = [pc EXCEPT ![a] = "keyed"] /\ pc \in [Attempts -> Steps]
          /\ \A b \in Attempts \ {a} : pc[b] = "keyed" => call[b].key # call[a].key
          /\ call[a].key \notin DOMAIN keys
          /\ UNCHANGED <<keys, call>>
      BY <1>1, <2>2 DEF IInv, TypeOK, KeyFree
    <3>2. KeysInserted /\ KeysLost
      BY DEF IInv
    <3> QED
      BY <3>1, <3>2 DEF KeysInserted, KeysLost
  <2> QED
    BY <2>1, <2>2
<1>6. step \in Steps \ {"idle", "over"}
  BY DEF Steps
<1> QED
  BY <1>1, <1>4, <1>5, <1>6, MoveKeepsIInv DEF IInv, TypeOK

LEMMA RereadKeepsIInv ==
  ASSUME IInv, NEW a \in Attempts, Reread(a)
  PROVE  IInv'
<1>1. pc[a] = "rolled back" /\ UNCHANGED <<claims, attachments, keys>>
  BY DEF Reread
<1>2. Key(a) \in DOMAIN keys
  BY <1>1 DEF IInv, KeysLost
<1> QED
  BY <1>1, <1>2, ReplayedKeepsIInv DEF Reread

LEMMA LoseConnectionKeepsIInv ==
  ASSUME IInv, NEW a \in Attempts, LoseConnection(a)
  PROVE  IInv'
  BY EndKeepsIInv DEF LoseConnection, Told

-----------------------------------------------------------------------------

\* What a commit makes of the claims: a new one, one transition more, or nothing.
LEMMA ClaimsAtCommit ==
  ASSUME IInv, NEW a \in Attempts, pc[a] = "keyed",
         claims' = ClaimsAfter(claims, written[a])
  PROVE  /\ written[a] = Written(Request(a), claims, a)
         /\ Request(a).op = "create_claim" =>
              /\ a \notin DOMAIN claims
              /\ DOMAIN claims' = DOMAIN claims \union {a}
              /\ claims'[a] = <<Transition("received", a)>>
              /\ \A c \in DOMAIN claims : claims'[c] = claims[c]
         /\ Request(a).op = "record_claim_status" =>
              /\ Request(a).on \in DOMAIN claims
              /\ DOMAIN claims' = DOMAIN claims
              /\ claims'[Request(a).on]
                   = Append(claims[Request(a).on], Transition(Request(a).body, a))
              /\ \A c \in DOMAIN claims \ {Request(a).on} : claims'[c] = claims[c]
         /\ ~OfClaim(Request(a).op) => claims' = claims
         /\ Transition("received", a) \in Transitions
         /\ Request(a).op = "record_claim_status" =>
              Transition(Request(a).body, a) \in Transitions
<1>1. a \in Holding /\ written[a] = Written(Request(a), claims, a)
      /\ FindsItsTarget(Request(a), claims)
  BY DEF IInv, WrittenCurrent, Holding
<1>2. /\ written[a].op = Request(a).op
      /\ written[a].claim = IF Request(a).op = "create_claim" THEN a ELSE Request(a).on
      /\ written[a].history = IF OfClaim(Request(a).op)
                              THEN HistoryAfter(Request(a), claims, a) ELSE <<>>
  BY <1>1 DEF Written
<1>3. Request(a) \in Requests
  BY DEF IInv, TypeOK, InCall, Request
<1>4. CASE Request(a).op = "create_claim"
  <2>1. a \notin DOMAIN claims
    BY HeldAssumption DEF IInv, Minted
  <2>2. OfClaim(written[a].op) /\ written[a].claim = a
        /\ written[a].history = <<Transition("received", a)>>
    BY <1>2, <1>4 DEF OfClaim, HistoryAfter
  <2>3. claims' = [c \in DOMAIN claims \union {a} |->
                     IF c = a THEN <<Transition("received", a)>> ELSE claims[c]]
    BY <2>2 DEF ClaimsAfter
  <2>4. Transition("received", a) \in Transitions
    BY DEF Transition, Transitions, Statuses, ClaimIds
  <2> QED
    BY <1>1, <1>4, <2>1, <2>3, <2>4 DEF OfClaim
<1>5. CASE Request(a).op = "record_claim_status"
  <2> DEFINE c0 == Request(a).on
             h == Append(claims[c0], Transition(Request(a).body, a))
  <2>1. c0 \in DOMAIN claims /\ Request(a).body \in Statuses
    BY <1>1, <1>3, <1>5 DEF FindsItsTarget, Requests
  <2>2. OfClaim(written[a].op) /\ written[a].claim = c0 /\ written[a].history = h
    BY <1>2, <1>5 DEF OfClaim, HistoryAfter
  <2>3. claims' = [c \in DOMAIN claims \union {c0} |-> IF c = c0 THEN h ELSE claims[c]]
    BY <2>2 DEF ClaimsAfter
  <2>4. /\ Transition(Request(a).body, a) \in Transitions
        /\ Transition("received", a) \in Transitions
    BY <2>1 DEF Transition, Transitions, Statuses, ClaimIds
  <2> QED
    BY <1>1, <1>5, <2>1, <2>3, <2>4 DEF OfClaim
<1>6. CASE ~OfClaim(Request(a).op)
  <2>1. claims' = claims
    BY <1>2, <1>6 DEF ClaimsAfter
  <2>2. Transition("received", a) \in Transitions
    BY DEF Transition, Transitions, Statuses, ClaimIds
  <2> QED
    BY <1>1, <1>6, <2>1, <2>2 DEF OfClaim
<1> QED
  BY <1>4, <1>5, <1>6 DEF OfClaim

\* A history that has one transition more has its own beginnings, and itself.
LEMMA Beginnings ==
  ASSUME NEW S, NEW s \in Seq(S), NEW e \in S, NEW m \in Nat \ {0}, m <= Len(s) + 1
  PROVE  {SubSeq(Append(s, e), 1, n) : n \in m..Len(Append(s, e))}
           = {SubSeq(s, 1, n) : n \in m..Len(s)} \union {Append(s, e)}
<1> DEFINE t == Append(s, e)
<1>1. /\ t \in Seq(S) /\ Len(t) = Len(s) + 1 /\ Len(s) \in Nat
      /\ \A i \in 1..Len(s) : t[i] = s[i] /\ s[i] \in S
      /\ t[Len(s) + 1] = e
  BY AppendProperties, LenProperties, ElementOfSeq
<1> HIDE DEF t
<1>2. SubSeq(t, 1, Len(t)) = t
  BY <1>1, SubSeqFull
<1>3. ASSUME NEW n \in m..Len(s)
      PROVE  SubSeq(t, 1, n) = SubSeq(s, 1, n)
  <2>1. n \in Int /\ 1 <= n /\ \A i \in 1..n : t[i] = s[i] /\ s[i] \in S /\ t[i] \in S
    BY <1>1
  <2>2. /\ SubSeq(t, 1, n) \in Seq(S) /\ Len(SubSeq(t, 1, n)) = n
        /\ \A i \in 1..n : SubSeq(t, 1, n)[i] = t[i]
    BY <2>1, SubSeqProperties
  <2>3. /\ SubSeq(s, 1, n) \in Seq(S) /\ Len(SubSeq(s, 1, n)) = n
        /\ \A i \in 1..n : SubSeq(s, 1, n)[i] = s[i]
    BY <2>1, SubSeqProperties
  <2> QED
    BY <2>1, <2>2, <2>3, SeqEqual
<1>4. m..Len(t) = (m..Len(s)) \union {Len(t)}
  BY <1>1
<1>5. {SubSeq(t, 1, n) : n \in m..Len(t)}
        = {SubSeq(t, 1, n) : n \in m..Len(s)} \union {SubSeq(t, 1, Len(t))}
  BY <1>4
<1>6. {SubSeq(t, 1, n) : n \in m..Len(s)} = {SubSeq(s, 1, n) : n \in m..Len(s)}
  BY <1>3
<1> QED
  BY <1>2, <1>5, <1>6 DEF t

LEMMA CommitKeepsIInv ==
  ASSUME IInv, NEW a \in Attempts, Commit(a)
  PROVE  IInv'
<1> DEFINE w == written[a]
           k == Key(a)
<1>1. /\ pc[a] = "keyed"
      /\ claims' = ClaimsAfter(claims, w)
      /\ attachments' = AttachmentsAfter(attachments, w)
      /\ keys' = KeysAfter(keys, k, Request(a), w)
      /\ call' = call
      /\ pc' = [pc EXCEPT ![a] = "over"]
  BY DEF Commit, End
<1>2. PICK what \in {"ok", "defect"}, with \in {w, Nothing} :
        /\ told' = [told EXCEPT ![a] = what]
        /\ written' = [written EXCEPT ![a] = with]
        /\ what = "ok" => with = w
  BY DEF Commit, End
<1>3. k \notin DOMAIN keys
  BY <1>1 DEF IInv, KeysInserted
<1>4. /\ DOMAIN keys' = DOMAIN keys \union {k}
      /\ keys'[k].fingerprint = Fingerprint(Request(a))
      /\ keys'[k].answer = w
      /\ \A l \in DOMAIN keys : keys'[l] = keys[l]
  BY <1>1, <1>3 DEF KeysAfter
<1>5. \A b \in Attempts : Key(b)' = Key(b) /\ Request(b)' = Request(b)
  BY <1>1 DEF Key, Request
<1>6. /\ w = Written(Request(a), claims, a)
      /\ w.op = Request(a).op /\ w.by = a
      /\ w.claim = IF Request(a).op = "create_claim" THEN a ELSE Request(a).on
      /\ w.history = IF OfClaim(Request(a).op)
                     THEN HistoryAfter(Request(a), claims, a) ELSE <<>>
  <2>1. w = Written(Request(a), claims, a)
    BY <1>1, ClaimsAtCommit
  <2> HIDE DEF w
  <2> QED
    BY <2>1 DEF Written
<1>7. /\ Holding' = Holding \ {a} /\ a \in Holding /\ Holding \subseteq Attempts
      /\ \A b \in Attempts \ {a} : written'[b] = written[b]
  BY <1>1, <1>2 DEF IInv, TypeOK, Holding
<1> HIDE DEF w, k
<1>8. DOMAIN claims \subseteq DOMAIN claims'
  BY <1>1, ClaimsAtCommit DEF OfClaim, w
<1>9. TypeOK'
  <2>1. \A c \in DOMAIN claims' : c \in ClaimIds /\ claims'[c] \in Seq(Transitions) /\ claims'[c] # <<>>
    <3>1. CASE Request(a).op = "create_claim"
      <4> DEFINE t == Transition("received", a)
      <4>1. t \in Transitions /\ claims'[a] = <<t>> /\ DOMAIN claims' = DOMAIN claims \union {a}
            /\ \A c \in DOMAIN claims : claims'[c] = claims[c]
        BY <1>1, <3>1, ClaimsAtCommit DEF w
      <4> HIDE DEF t
      <4>2. <<t>> \in Seq(Transitions) /\ <<t>> # <<>> /\ a \in ClaimIds
        BY <4>1 DEF ClaimIds
      <4> QED
        BY <4>1, <4>2 DEF IInv, TypeOK
    <3>2. CASE Request(a).op = "record_claim_status"
      <4> DEFINE t == Transition(Request(a).body, a)
                 c0 == Request(a).on
      <4>1. /\ t \in Transitions /\ c0 \in DOMAIN claims /\ DOMAIN claims' = DOMAIN claims
            /\ claims'[c0] = Append(claims[c0], t)
            /\ \A c \in DOMAIN claims \ {c0} : claims'[c] = claims[c]
        BY <1>1, <3>2, ClaimsAtCommit DEF w
      <4> HIDE DEF t, c0
      <4>2. claims'[c0] \in Seq(Transitions) /\ claims'[c0] # <<>>
        BY <4>1, AppendProperties DEF IInv, TypeOK
      <4> QED
        BY <4>1, <4>2 DEF IInv, TypeOK
    <3>3. CASE ~OfClaim(Request(a).op)
      BY <1>1, <3>3, ClaimsAtCommit DEF w, IInv, TypeOK
    <3> QED
      BY <3>1, <3>2, <3>3 DEF OfClaim
  <2>2. /\ pc' \in [Attempts -> Steps] /\ told' \in [Attempts -> Told]
        /\ DOMAIN written' = Attempts
    BY <1>1, <1>2 DEF IInv, TypeOK, Steps, Told
  <2> QED
    BY <1>1, <2>1, <2>2 DEF IInv, TypeOK
<1>10. InCall'
  BY <1>1, <1>2 DEF IInv, TypeOK, InCall
<1>11. Minted'
  <2>1. \A c \in DOMAIN claims' : c \in DOMAIN claims \/ c = a
    BY <1>1, ClaimsAtCommit DEF w, OfClaim
  <2> QED
    BY <1>1, <2>1 DEF IInv, TypeOK, Minted
<1>12. WrittenCurrent'
  <2> SUFFICES ASSUME NEW b \in Holding, b # a
               PROVE  /\ FindsItsTarget(Request(b), claims')
                      /\ written[b] = Written(Request(b), claims', b)
    BY <1>5, <1>7 DEF WrittenCurrent
  <2>1. FindsItsTarget(Request(b), claims) /\ written[b] = Written(Request(b), claims, b)
    BY DEF IInv, WrittenCurrent
  <2>2. FindsItsTarget(Request(b), claims')
    BY <1>8, <2>1 DEF FindsItsTarget
  <2>3. CASE Request(b).op # "record_claim_status"
    BY <2>1, <2>2, <2>3 DEF Written, OfClaim, HistoryAfter
  <2>4. CASE Request(b).op = "record_claim_status"
    <3>1. Request(b).on \in DOMAIN claims
      BY <2>1, <2>4 DEF FindsItsTarget
    <3>2. Request(a).op = "record_claim_status" => Request(a).on # Request(b).on
      BY <1>7, <2>4 DEF IInv, RowsHeld, MutuallyExclusive
    <3>3. claims'[Request(b).on] = claims[Request(b).on]
      BY <1>1, <3>1, <3>2, ClaimsAtCommit DEF w, OfClaim
    <3> QED
      BY <2>1, <2>2, <2>4, <3>3 DEF Written, OfClaim, HistoryAfter
  <2> QED
    BY <2>3, <2>4
<1>13. RowsHeld'
  BY <1>5, <1>7 DEF IInv, RowsHeld
<1>14. KeysInserted' /\ KeysLost'
  BY <1>1, <1>4, <1>5 DEF IInv, TypeOK, KeysInserted, KeysLost, Key, k
<1>15. KeysOfAttempts'
  <2>1. ASSUME NEW l \in DOMAIN keys
        PROVE  /\ keys'[l].answer.by \in Attempts
               /\ pc'[keys'[l].answer.by] = "over"
               /\ call[keys'[l].answer.by].key = l
               /\ OfClaim(keys'[l].answer.op) => keys'[l].answer.claim \in DOMAIN claims'
    BY <1>1, <1>4, <1>8 DEF IInv, TypeOK, KeysOfAttempts, Key
  <2>2. OfClaim(w.op) => w.claim \in DOMAIN claims'
    BY <1>1, <1>6, ClaimsAtCommit DEF w, OfClaim
  <2>3. /\ keys'[k].answer.by \in Attempts
        /\ pc'[keys'[k].answer.by] = "over"
        /\ call[keys'[k].answer.by].key = k
        /\ OfClaim(keys'[k].answer.op) => keys'[k].answer.claim \in DOMAIN claims'
    BY <1>1, <1>4, <1>6, <2>2 DEF IInv, TypeOK, Key, k
  <2> QED
    BY <1>1, <1>4, <2>1, <2>3 DEF KeysOfAttempts, Key
<1>16. OkIsTheKeys'
  <2> SUFFICES ASSUME NEW b \in Attempts, told'[b] = "ok"
               PROVE  /\ Key(b) \in DOMAIN keys'
                      /\ keys'[Key(b)].fingerprint = Fingerprint(Request(b))
                      /\ written'[b] = keys'[Key(b)].answer
    BY <1>5 DEF OkIsTheKeys
  <2>1. CASE b = a
    BY <1>2, <1>4, <2>1 DEF IInv, TypeOK, Key, k
  <2>2. CASE b # a
    <3>1. told[b] = "ok"
      BY <1>2, <2>2 DEF IInv, TypeOK
    <3> QED
      BY <1>4, <1>7, <2>2, <3>1 DEF IInv, OkIsTheKeys
  <2> QED
    BY <2>1, <2>2
<1>17. NoRetryFailsOnItsTwin'
  BY <1>2 DEF IInv, TypeOK, NoRetryFailsOnItsTwin
<1>18. HistoriesOfKeys'
  <2> SUFFICES ASSUME NEW c \in DOMAIN claims'
               PROVE  {keys'[l].answer.history : l \in ClaimKeys(c)'}
                        = {SubSeq(claims'[c], 1, n) : n \in First(c)..Len(claims'[c])}
    BY DEF HistoriesOfKeys, First
  <2>1. ClaimKeys(c)' = {l \in DOMAIN keys : OfClaim(keys[l].answer.op) /\ keys[l].answer.claim = c}
                          \union (IF OfClaim(w.op) /\ w.claim = c THEN {k} ELSE {})
    BY <1>3, <1>4 DEF ClaimKeys
  <2>2. CASE ~(OfClaim(w.op) /\ w.claim = c)
    <3>1. c \in DOMAIN claims /\ claims'[c] = claims[c]
      BY <1>1, <1>6, <2>2, ClaimsAtCommit DEF w, OfClaim
    <3>2. ClaimKeys(c)' = ClaimKeys(c) /\ ClaimKeys(c) \subseteq DOMAIN keys
      BY <2>1, <2>2 DEF ClaimKeys
    <3>3. {keys'[l].answer.history : l \in ClaimKeys(c)'} = {keys[l].answer.history : l \in ClaimKeys(c)}
      BY <1>4, <3>2
    <3> QED
      BY <3>1, <3>3 DEF IInv, HistoriesOfKeys
  <2>3. CASE OfClaim(w.op) /\ w.claim = c
    <3>1. ClaimKeys(c)' = ClaimKeys(c) \union {k} /\ ClaimKeys(c) \subseteq DOMAIN keys
      BY <2>1, <2>3 DEF ClaimKeys
    <3>2. {keys'[l].answer.history : l \in ClaimKeys(c)'}
            = {keys[l].answer.history : l \in ClaimKeys(c)} \union {w.history}
      BY <1>4, <3>1
    <3>3. CASE Request(a).op = "create_claim"
      <4> DEFINE t == Transition("received", a)
      <4>1. c = a /\ a \notin DOMAIN claims /\ t \in Transitions /\ claims'[a] = <<t>> /\ w.history = <<t>>
        BY <1>1, <1>6, <2>3, <3>3, ClaimsAtCommit DEF w, OfClaim, HistoryAfter
      <4>2. ClaimKeys(c) = {}
        BY <4>1 DEF IInv, KeysOfAttempts, ClaimKeys
      <4>3. First(c) = 1
        BY <4>1, HeldAssumption DEF First
      <4> HIDE DEF t
      <4>4. <<t>> \in Seq(Transitions) /\ Len(<<t>>) = 1
        BY <4>1
      <4>5. SubSeq(<<t>>, 1, 1) = <<t>>
        BY <4>4, SubSeqFull
      <4>6. First(c)..Len(claims'[c]) = {1}
        BY <4>1, <4>3, <4>4
      <4> QED
        BY <3>2, <4>1, <4>2, <4>5, <4>6
    <3>4. CASE Request(a).op = "record_claim_status"
      <4> DEFINE t == Transition(Request(a).body, a)
                 s == claims[c]
                 m == First(c)
      <4>1. /\ c = Request(a).on /\ c \in DOMAIN claims /\ t \in Transitions
            /\ claims'[c] = Append(s, t) /\ w.history = Append(s, t)
        BY <1>1, <1>6, <2>3, <3>4, ClaimsAtCommit DEF w, OfClaim, HistoryAfter
      <4>2. s \in Seq(Transitions) /\ s # <<>> /\ m \in {1, 2}
        BY <4>1 DEF IInv, TypeOK, First
      <4>3. {keys[l].answer.history : l \in ClaimKeys(c)} = {SubSeq(s, 1, n) : n \in m..Len(s)}
        BY <4>1 DEF IInv, HistoriesOfKeys
      <4> HIDE DEF t, s, m
      <4>4. m \in Nat \ {0} /\ m <= Len(s) + 1
        BY <4>2, EmptySeq
      <4>5. {SubSeq(Append(s, t), 1, n) : n \in m..Len(Append(s, t))}
              = {SubSeq(s, 1, n) : n \in m..Len(s)} \union {Append(s, t)}
        BY <4>1, <4>2, <4>4, Beginnings
      <4> QED
        BY <3>2, <4>1, <4>3, <4>5 DEF m
    <3> QED
      BY <1>6, <2>3, <3>3, <3>4 DEF OfClaim
  <2> QED
    BY <2>2, <2>3
<1>19. AttachmentsOfKeys'
  <2>1. AttachmentKeys' = AttachmentKeys \union (IF OfClaim(w.op) THEN {} ELSE {k})
        /\ AttachmentKeys \subseteq DOMAIN keys
    BY <1>3, <1>4 DEF AttachmentKeys
  <2>2. {keys'[l].answer : l \in AttachmentKeys'}
          = {keys[l].answer : l \in AttachmentKeys} \union (IF OfClaim(w.op) THEN {} ELSE {w})
    BY <1>4, <2>1
  <2> QED
    BY <1>1, <2>2 DEF IInv, AttachmentsOfKeys, AttachmentsAfter
<1> QED
  BY <1>9, <1>10, <1>11, <1>12, <1>13, <1>14, <1>15, <1>16, <1>17, <1>18, <1>19 DEF IInv

LEMMA CrashKeepsIInv ==
  ASSUME IInv, Crash
  PROVE  IInv'
<1>1. /\ pc' = [a \in Attempts |-> IF a \in InFlight THEN "over" ELSE pc[a]]
      /\ told' = [a \in Attempts |-> IF a \in InFlight THEN "lost" ELSE told[a]]
      /\ written' = [a \in Attempts |-> IF a \in InFlight THEN Nothing ELSE written[a]]
      /\ UNCHANGED <<claims, attachments, keys, call>>
  BY DEF Crash
<1>2. \A a \in Attempts : pc'[a] \in {"idle", "over"} /\ (pc'[a] = "idle" <=> pc[a] = "idle")
                          /\ (pc[a] = "over" => pc'[a] = "over")
  BY <1>1 DEF InFlight
<1>3. Holding' = {}
  BY <1>2 DEF Holding
<1>4. \A b \in Attempts : Key(b)' = Key(b) /\ Request(b)' = Request(b)
  BY <1>1 DEF Key, Request
<1>5. TypeOK'
  BY <1>1, TablesUnchanged DEF IInv, TypeOK, Steps, Told
<1>6. InCall' /\ Minted'
  BY <1>1, <1>2 DEF IInv, InCall, Minted, InFlight
<1>7. WrittenCurrent' /\ RowsHeld'
  BY <1>3 DEF WrittenCurrent, RowsHeld
<1>8. KeysInserted' /\ KeysLost'
  BY <1>2 DEF KeysInserted, KeysLost, Key
<1>9. KeysOfAttempts'
  BY <1>1, <1>2, <1>4 DEF IInv, KeysOfAttempts, Key
<1>10. OkIsTheKeys' /\ NoRetryFailsOnItsTwin'
  BY <1>1, <1>4 DEF IInv, OkIsTheKeys, NoRetryFailsOnItsTwin
<1> QED
  BY <1>1, <1>5, <1>6, <1>7, <1>8, <1>9, <1>10, TablesUnchanged DEF IInv

LEMMA NextKeepsIInv == IInv /\ [Next]_vars => IInv'
<1> SUFFICES ASSUME IInv, [Next]_vars PROVE IInv'
  OBVIOUS
<1>1. CASE UNCHANGED vars
  BY <1>1, TablesUnchanged
     DEF vars, IInv, TypeOK, InCall, Minted, WrittenCurrent, RowsHeld, KeysInserted, KeysLost,
         KeysOfAttempts, OkIsTheKeys, NoRetryFailsOnItsTwin, Holding, Key, Request
<1>2. CASE Crash
  BY <1>2, CrashKeepsIInv
<1>3. ASSUME NEW a \in Attempts,
             Ask(a) \/ Remember(a) \/ Perform(a) \/ InsertKey(a) \/ Reread(a) \/ Commit(a)
               \/ LoseConnection(a)
      PROVE  IInv'
  BY <1>3, AskKeepsIInv, RememberKeepsIInv, PerformKeepsIInv, InsertKeyKeepsIInv,
     RereadKeepsIInv, CommitKeepsIInv, LoseConnectionKeepsIInv
<1> QED
  BY <1>1, <1>2, <1>3 DEF Next, Finished

\* The strengthened invariant holds of every reachable state.
THEOREM CoreSimInductive == Spec => []IInv
  BY InitIInv, NextKeepsIInv, PTL DEF Spec

\* What the tables and the attempts hold keeps its type, for any attempts and keys.
THEOREM CoreSimTypes == Spec => []TypeOK
<1>1. IInv => TypeOK
  BY DEF IInv
<1> QED
  BY <1>1, CoreSimInductive, PTL

\* All that are answered "ok" under one key asked the same, and get the same answer.
THEOREM SameAnswerPerKey == Spec => []OneAnswerPerKey
<1>1. IInv => OneAnswerPerKey
  <2> SUFFICES ASSUME IInv, NEW a \in Attempts, NEW b \in Attempts,
                      told[a] = "ok", told[b] = "ok", Key(a) = Key(b)
               PROVE  Request(a) = Request(b) /\ written[a] = written[b]
    BY DEF OneAnswerPerKey
  <2>1. written[a] = written[b] /\ Fingerprint(Request(a)) = Fingerprint(Request(b))
    BY DEF IInv, OkIsTheKeys
  <2>2. Request(a) \in Requests /\ Request(b) \in Requests
    BY DEF IInv, TypeOK, InCall, Told, Request
  <2>3. /\ Request(a).op = Request(b).op /\ Request(a).on = Request(b).on
        /\ Request(a).body = Request(b).body
    BY <2>1 DEF Fingerprint
  <2> QED
    BY <2>1, <2>2, <2>3 DEF Requests
<1> QED
  BY <1>1, CoreSimInductive, PTL

\* Every change to claims, documents and parties is one key's, and every key's answer
\* is a change: no concurrent transition is lost, and no retry adds one.
THEOREM ChangesHaveTheirKeys == Spec => []EveryChangeHasItsKey
<1>1. IInv => EveryChangeHasItsKey
  <2> SUFFICES ASSUME IInv PROVE EveryChangeHasItsKey
    OBVIOUS
  <2>1. ASSUME NEW k \in DOMAIN keys, NEW l \in DOMAIN keys, keys[k].answer = keys[l].answer
        PROVE  k = l
    BY <2>1 DEF IInv, KeysOfAttempts
  <2>2. \A c \in DOMAIN claims :
          {keys[k].answer.history : k \in ClaimKeys(c)}
            = {SubSeq(claims[c], 1, n) : n \in (IF c \in Held THEN 2 ELSE 1)..Len(claims[c])}
    BY DEF IInv, HistoriesOfKeys, First
  <2>3. AttachmentKeys \subseteq DOMAIN keys /\ \A c : ClaimKeys(c) \subseteq DOMAIN keys
    BY DEF AttachmentKeys, ClaimKeys
  <2>4. attachments = {keys[k].answer : k \in AttachmentKeys}
    BY DEF IInv, AttachmentsOfKeys
  <2> QED
    BY <2>1, <2>2, <2>3, <2>4 DEF EveryChangeHasItsKey
<1> QED
  BY <1>1, CoreSimInductive, PTL

\* A retry that lost its key to another finds what that one recorded.
THEOREM RetryFindsItsTwin == Spec => []NoRetryFailsOnItsTwin
<1>1. IInv => NoRetryFailsOnItsTwin
  BY DEF IInv
<1> QED
  BY <1>1, CoreSimInductive, PTL

\* Waits for rows and keys are never circular: whoever has inserted its key goes on,
\* and if none has, whoever has performed, and if none has, whoever is fresh.
THEOREM WaitsAreNotCircular == Spec => []SomeCallGoesOn
<1>1. IInv => SomeCallGoesOn
  <2> SUFFICES ASSUME IInv, NEW c \in InFlight PROVE \E a \in InFlight : Granted(a)
    BY DEF SomeCallGoesOn
  <2>1. CASE \E a \in InFlight : pc[a] \notin {"fresh", "performed"}
    BY <2>1 DEF Granted
  <2>2. CASE \A a \in InFlight : pc[a] \in {"fresh", "performed"}
    <3>1. \A b \in Attempts : pc[b] # "keyed"
      BY <2>2 DEF InFlight
    <3>2. CASE \E a \in InFlight : pc[a] = "performed"
      BY <3>1, <3>2 DEF Granted, KeyFree
    <3>3. CASE \A a \in InFlight : pc[a] = "fresh"
      <4>1. Holding = {}
        BY <3>3 DEF Holding, InFlight
      <4>2. pc[c] = "fresh" /\ RowFree(c)
        BY <3>3, <4>1 DEF RowFree
      <4> QED
        BY <4>2 DEF Granted
    <3> QED
      BY <2>2, <3>2, <3>3
  <2> QED
    BY <2>1, <2>2
<1> QED
  BY <1>1, CoreSimInductive, PTL

-----------------------------------------------------------------------------

\* The promise's own copies of the operators of ClaimRecords are these.
LEMMA PromisedRecords ==
  /\ Promise!Requests = Requests /\ Promise!HeldClaims = HeldClaims
  /\ \A request, cs, a : /\ Promise!Written(request, cs, a) = Written(request, cs, a)
                         /\ Promise!FindsItsTarget(request, cs) = FindsItsTarget(request, cs)
                         /\ Promise!NotFound(request) = NotFound(request)
                         /\ Promise!Fingerprint(request) = Fingerprint(request)
  /\ \A cs, w : /\ Promise!ClaimsAfter(cs, w) = ClaimsAfter(cs, w)
                /\ Promise!AttachmentsAfter(cs, w) = AttachmentsAfter(cs, w)
  /\ \A ks, k, request, w : Promise!KeysAfter(ks, k, request, w) = KeysAfter(ks, k, request, w)
  BY DEF Promise!Requests, Requests, Promise!ClaimIds, ClaimIds, Promise!Statuses, Statuses,
         Promise!HeldClaims, HeldClaims, Promise!Transition, Transition, Promise!Written, Written,
         Promise!OfClaim, OfClaim, Promise!HistoryAfter, HistoryAfter, Promise!FindsItsTarget,
         FindsItsTarget, Promise!NotFound, NotFound, Promise!Fingerprint, Fingerprint,
         Promise!ClaimsAfter, ClaimsAfter, Promise!AttachmentsAfter, AttachmentsAfter,
         Promise!KeysAfter, KeysAfter

\* An attempt that ends tells its caller; one that goes on tells nothing.
LEMMA EndTells ==
  ASSUME IInv, NEW a \in Attempts, pc[a] \notin {"idle", "over"}, NEW what, NEW with,
         End(a, what, with)
  PROVE  Promise!Asking(a) /\ Promise!Tell(a, what, with)
<1>1. Promise!Asking(a)
  BY DEF Promise!Asking, IInv, InCall
<1>2. [b \in Attempts |-> IF pc'[b] = "over" THEN written'[b] ELSE Nothing]
        = [[b \in Attempts |-> IF pc[b] = "over" THEN written[b] ELSE Nothing] EXCEPT ![a] = with]
  BY DEF End, IInv, TypeOK
<1> QED
  BY <1>1, <1>2 DEF End, Promise!Tell

LEMMA MovePromisesNothing ==
  ASSUME IInv, NEW a \in Attempts, pc[a] # "over", NEW step, step # "over",
         pc' = [pc EXCEPT ![a] = step], \A b \in Attempts \ {a} : written'[b] = written[b]
  PROVE  [b \in Attempts |-> IF pc'[b] = "over" THEN written'[b] ELSE Nothing]
           = [b \in Attempts |-> IF pc[b] = "over" THEN written[b] ELSE Nothing]
  BY DEF IInv, TypeOK

LEMMA ReplayedIsReplay ==
  ASSUME IInv, NEW a \in Attempts, pc[a] \notin {"idle", "over"},
         UNCHANGED <<claims, attachments, keys>>, Key(a) \in DOMAIN keys, Replayed(a)
  PROVE  Promise!Replay(a)
<1>1. CASE keys[Key(a)].fingerprint = Fingerprint(Request(a))
  <2> PICK recorded : recorded = keys[Key(a)].answer
    OBVIOUS
  <2>1. End(a, "ok", recorded)
    BY <1>1 DEF Replayed
  <2>2. Promise!Asking(a) /\ Promise!Tell(a, "ok", recorded)
    BY <2>1, EndTells
  <2>3. Promise!Fingerprint(Request(a)) = Fingerprint(Request(a))
    BY PromisedRecords
  <2> QED
    BY <1>1, <2>2, <2>3 DEF Promise!Replay, Promise!Tell, Key, Request
<1>2. CASE keys[Key(a)].fingerprint # Fingerprint(Request(a))
  <2>1. Promise!Asking(a) /\ Promise!Tell(a, "idempotency_key_reuse", Nothing)
    BY <1>2, EndTells DEF Replayed
  <2> QED
    BY <1>2, <2>1, PromisedRecords DEF Promise!Replay, Key, Request
<1> QED
  BY <1>1, <1>2

\* A commit is the promise's write: what it wrote is current, and its key fresh.
LEMMA CommitIsWrite ==
  ASSUME IInv, NEW a \in Attempts, Commit(a)
  PROVE  Promise!Write(a)
<1>1. /\ pc[a] = "keyed" /\ a \in Holding
      /\ claims' = ClaimsAfter(claims, written[a])
      /\ attachments' = AttachmentsAfter(attachments, written[a])
      /\ keys' = KeysAfter(keys, Key(a), Request(a), written[a])
  BY DEF Commit, Holding
<1>2. /\ Key(a) \notin DOMAIN keys
      /\ FindsItsTarget(Request(a), claims)
      /\ written[a] = Written(Request(a), claims, a)
  BY <1>1 DEF IInv, KeysInserted, WrittenCurrent
<1>3. /\ Promise!Asking(a)
      /\ Promise!Tell(a, "ok", written[a]) \/ Promise!Tell(a, "defect", Nothing)
  <2> PICK wrote : wrote = written[a]
    OBVIOUS
  <2>1. pc[a] \notin {"idle", "over"}
    BY <1>1
  <2>2. End(a, "ok", wrote) \/ End(a, "defect", Nothing)
    BY DEF Commit
  <2>3. CASE End(a, "ok", wrote)
    <3>1. Promise!Asking(a) /\ Promise!Tell(a, "ok", wrote)
      BY <2>1, <2>3, EndTells
    <3> QED
      BY <3>1 DEF Promise!Tell
  <2>4. CASE End(a, "defect", Nothing)
    BY <2>1, <2>4, EndTells
  <2> QED
    BY <2>2, <2>3, <2>4
<1>4. /\ Promise!Written(call[a].request, claims, a) = written[a]
      /\ Promise!FindsItsTarget(call[a].request, claims)
      /\ claims' = Promise!ClaimsAfter(claims, written[a])
      /\ attachments' = Promise!AttachmentsAfter(attachments, written[a])
      /\ keys' = Promise!KeysAfter(keys, call[a].key, call[a].request, written[a])
  BY <1>1, <1>2, PromisedRecords DEF Key, Request
<1> PICK wrote : wrote = written[a]
  OBVIOUS
<1>5. Promise!Tell(a, "ok", wrote) \/ Promise!Tell(a, "defect", Nothing)
  BY <1>3 DEF Promise!Tell
<1>6. Promise!Written(call[a].request, claims, a) = wrote
  BY <1>4
<1>7. /\ claims' = Promise!ClaimsAfter(claims, wrote)
      /\ attachments' = Promise!AttachmentsAfter(attachments, wrote)
      /\ keys' = Promise!KeysAfter(keys, call[a].key, call[a].request, wrote)
  BY <1>4
<1>8. call[a].key \notin DOMAIN keys
  BY <1>2 DEF Key
<1> QED
  BY <1>3, <1>4, <1>5, <1>6, <1>7, <1>8 DEF Promise!Write, Promise!Tell

\* What fails has changed nothing, and is told so.
LEMMA FailureIsFail ==
  ASSUME IInv, NEW a \in Attempts, LoseConnection(a)
  PROVE  Promise!Fail({a})
<1>1. pc[a] \notin {"idle", "over"} /\ End(a, "defect", Nothing) /\ UNCHANGED <<claims, attachments, keys>>
  BY DEF LoseConnection
<1>2. Promise!Asking(a)
  BY <1>1, EndTells
<1>3. [b \in Attempts |-> IF pc'[b] = "over" THEN written'[b] ELSE Nothing]
        = [b \in Attempts |-> IF pc[b] = "over" THEN written[b] ELSE Nothing]
  BY <1>1 DEF End, IInv, TypeOK
<1>4. told' = [b \in Attempts |-> IF b \in {a} THEN "defect" ELSE told[b]] /\ call' = call
  BY <1>1 DEF End, IInv, TypeOK
<1> QED
  BY <1>1, <1>2, <1>3, <1>4 DEF Promise!Fail

LEMMA CrashIsFail ==
  ASSUME IInv, Crash
  PROVE  Promise!Fail(InFlight)
<1>1. InFlight # {} /\ \A a \in InFlight : Promise!Asking(a)
  BY DEF Crash, InFlight, Promise!Asking, IInv, InCall
<1>2. [b \in Attempts |-> IF pc'[b] = "over" THEN written'[b] ELSE Nothing]
        = [b \in Attempts |-> IF pc[b] = "over" THEN written[b] ELSE Nothing]
  BY DEF Crash, InFlight
<1>3. told' = [b \in Attempts |-> IF b \in InFlight THEN "lost" ELSE told[b]]
      /\ UNCHANGED <<claims, attachments, keys, call>>
  BY DEF Crash
<1> QED
  BY <1>1, <1>2, <1>3 DEF Promise!Fail

LEMMA StepKeepsPromise ==
  ASSUME IInv, [Next]_vars
  PROVE  [Promise!Next]_(Promise!vars)
<1> USE DEF Promise!vars
<1>1. CASE UNCHANGED vars
  BY <1>1 DEF vars
<1>2. CASE Crash
  <2>1. InFlight \in SUBSET Attempts
    BY DEF InFlight
  <2> QED
    BY <1>2, <2>1, CrashIsFail DEF Promise!Next
<1>3. ASSUME NEW a \in Attempts, Ask(a) PROVE Promise!Ask(a)
  <2>1. /\ pc[a] = "idle" /\ pc' = [pc EXCEPT ![a] = "asked"] /\ call[a] = Nothing
        /\ UNCHANGED <<claims, attachments, keys, written, told>>
    BY <1>3 DEF Ask, IInv, InCall
  <2>2. \E request \in Requests, key \in Keys :
          call' = [call EXCEPT ![a] = [request |-> request, key |-> key]]
    BY <1>3 DEF Ask
  <2> QED
    BY <2>1, <2>2, MovePromisesNothing, PromisedRecords DEF Promise!Ask
<1>4. ASSUME NEW a \in Attempts, Remember(a) PROVE Promise!Replay(a) \/ UNCHANGED Promise!vars
  <2>1. pc[a] = "asked" /\ UNCHANGED <<claims, attachments, keys>>
    BY <1>4 DEF Remember
  <2>2. CASE Key(a) \in DOMAIN keys
    BY <1>4, <2>1, <2>2, ReplayedIsReplay DEF Remember
  <2>3. CASE Key(a) \notin DOMAIN keys
    BY <1>4, <2>1, <2>3, MovePromisesNothing DEF Remember
  <2> QED
    BY <2>2, <2>3
<1>5. ASSUME NEW a \in Attempts, Perform(a) PROVE Promise!Refuse(a) \/ UNCHANGED Promise!vars
  <2>1. pc[a] = "fresh" /\ UNCHANGED <<claims, attachments, keys>>
    BY <1>5 DEF Perform
  <2>2. CASE FindsItsTarget(Request(a), claims)
    <3>1. /\ written' = [written EXCEPT ![a] = Written(Request(a), claims, a)]
          /\ pc' = [pc EXCEPT ![a] = "performed"]
          /\ UNCHANGED <<call, told>>
      BY <1>5, <2>2 DEF Perform
    <3>2. \A b \in Attempts \ {a} : written'[b] = written[b]
      BY <3>1 DEF IInv, TypeOK
    <3> QED
      BY <2>1, <3>1, <3>2, MovePromisesNothing
  <2>3. CASE ~FindsItsTarget(Request(a), claims)
    <3>1. Promise!Asking(a) /\ Promise!Tell(a, NotFound(Request(a)), Nothing)
      BY <1>5, <2>1, <2>3, EndTells DEF Perform
    <3> QED
      BY <2>1, <2>3, <3>1, PromisedRecords DEF Promise!Refuse, Request
  <2> QED
    BY <2>2, <2>3
<1>6. ASSUME NEW a \in Attempts, InsertKey(a) PROVE UNCHANGED Promise!vars
  <2> DEFINE step == IF Key(a) \in DOMAIN keys THEN "rolled back" ELSE "keyed"
  <2>1. /\ pc[a] = "performed" /\ pc' = [pc EXCEPT ![a] = step]
        /\ UNCHANGED <<claims, attachments, keys, call, written, told>>
    BY <1>6 DEF InsertKey
  <2>2. step # "over"
    OBVIOUS
  <2> HIDE DEF step
  <2> QED
    BY <2>1, <2>2, MovePromisesNothing
<1>7. ASSUME NEW a \in Attempts, Reread(a) PROVE Promise!Replay(a)
  <2>1. /\ pc[a] = "rolled back" /\ UNCHANGED <<claims, attachments, keys>>
        /\ Key(a) \in DOMAIN keys
    BY <1>7 DEF Reread, IInv, KeysLost
  <2> QED
    BY <1>7, <2>1, ReplayedIsReplay DEF Reread
<1>8. ASSUME NEW a \in Attempts, Commit(a) PROVE Promise!Write(a)
  BY <1>8, CommitIsWrite
<1>9. ASSUME NEW a \in Attempts, LoseConnection(a) PROVE \E A \in SUBSET Attempts : Promise!Fail(A)
  <2>1. {a} \in SUBSET Attempts
    OBVIOUS
  <2> QED
    BY <1>9, <2>1, FailureIsFail
<1> QED
  BY <1>1, <1>2, <1>3, <1>4, <1>5, <1>6, <1>7, <1>8, <1>9 DEF Next, Finished, Promise!Next

\* The transactions implement the promise: the first write under a key changes the
\* records in one step with it, every other answers what that one answered, or is
\* refused, and changes nothing.
THEOREM CoreSimKeepsPromise == Spec => WritesOncePerKey
<1>1. Init => Promise!Init
  <2> SUFFICES ASSUME Init PROVE Promise!Init
    OBVIOUS
  <2>1. [a \in Attempts |-> IF pc[a] = "over" THEN written[a] ELSE Nothing] = [a \in Attempts |-> Nothing]
    BY DEF Init
  <2> QED
    BY <2>1, PromisedRecords DEF Init, Promise!Init
<1>2. IInv /\ [Next]_vars => [Promise!Next]_(Promise!vars)
  BY StepKeepsPromise
<1> QED
  BY <1>1, <1>2, CoreSimInductive, PTL DEF Spec, WritesOncePerKey, Promise!Spec
=============================================================================
