-------------------------- MODULE IdempotentWrites --------------------------
(***************************************************************************)
(* What the contract promises of a write that carries an Idempotency-Key:  *)
(* the first one to succeed under a key changes the records, in one step   *)
(* with the key; every other answers what it answered, or is refused, and  *)
(* changes nothing.                                                        *)
(***************************************************************************)
EXTENDS ClaimRecords

CONSTANT Nothing      \* no answer, no call

VARIABLES claims,       \* claim id -> status history
          attachments,  \* documents and parties
          keys,         \* key -> the fingerprint it carried, the answer it gave
          call,         \* what each attempt asks, once it has
          told,         \* what it was told
          answer        \* what it was answered with, if it was told "ok"

vars == <<claims, attachments, keys, call, told, answer>>

Init ==
  /\ claims = HeldClaims
  /\ attachments = {}
  /\ keys = << >>
  /\ call = [a \in Attempts |-> Nothing]
  /\ told = [a \in Attempts |-> "none"]
  /\ answer = [a \in Attempts |-> Nothing]

Ask(a) ==
  /\ call[a] = Nothing
  /\ \E request \in Requests, key \in Keys :
       call' = [call EXCEPT ![a] = [request |-> request, key |-> key]]
  /\ UNCHANGED <<claims, attachments, keys, told, answer>>

Asking(a) == call[a] # Nothing /\ told[a] = "none"

Tell(a, what, with) ==
  /\ told' = [told EXCEPT ![a] = what]
  /\ answer' = [answer EXCEPT ![a] = with]
  /\ UNCHANGED call

\* The first success under a key; its caller may never hear of it.
Write(a) ==
  /\ Asking(a)
  /\ call[a].key \notin DOMAIN keys
  /\ FindsItsTarget(call[a].request, claims)
  /\ LET written == Written(call[a].request, claims, a)
     IN  /\ claims' = ClaimsAfter(claims, written)
         /\ attachments' = AttachmentsAfter(attachments, written)
         /\ keys' = KeysAfter(keys, call[a].key, call[a].request, written)
         /\ Tell(a, "ok", written) \/ Tell(a, "defect", Nothing)

\* A retry answers what the key answered; another request is refused.
Replay(a) ==
  /\ Asking(a)
  /\ call[a].key \in DOMAIN keys
  /\ IF keys[call[a].key].fingerprint = Fingerprint(call[a].request)
     THEN Tell(a, "ok", keys[call[a].key].answer)
     ELSE Tell(a, "idempotency_key_reuse", Nothing)
  /\ UNCHANGED <<claims, attachments, keys>>

\* What it names is not held.
Refuse(a) ==
  /\ Asking(a)
  /\ ~FindsItsTarget(call[a].request, claims)
  /\ Tell(a, NotFound(call[a].request), Nothing)
  /\ UNCHANGED <<claims, attachments, keys>>

\* Some of the calls fail, having changed nothing.
Fail(A) ==
  /\ A # {} /\ \A a \in A : Asking(a)
  /\ \E what \in {"defect", "lost"} :
       told' = [a \in Attempts |-> IF a \in A THEN what ELSE told[a]]
  /\ UNCHANGED <<claims, attachments, keys, call, answer>>

Next ==
  \/ \E a \in Attempts : Ask(a) \/ Write(a) \/ Replay(a) \/ Refuse(a)
  \/ \E A \in SUBSET Attempts : Fail(A)

Spec == Init /\ [][Next]_vars
=============================================================================
