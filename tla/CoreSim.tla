------------------------------ MODULE CoreSim -------------------------------
(***************************************************************************)
(* core-sim's tables and the transactions that write them                  *)
(* (PostgresCoreSimStore in core_sim/store.py).                            *)
(*                                                                         *)
(* An attempt is one call of a write, on a thread and a connection of its  *)
(* own: it looks the key up, performs the write, inserts the key and       *)
(* commits; losing the key to another attempt it rolls back and answers    *)
(* what that one recorded.  Postgres is READ COMMITTED: a statement sees   *)
(* what was committed before it, FOR UPDATE waits for the row's other      *)
(* holders and reads it again, a row that references a claim holds it      *)
(* against FOR UPDATE, an insert waits for an uncommitted one of its key.  *)
(***************************************************************************)
EXTENDS ClaimRecords, Integers

CONSTANT Nothing      \* no answer, no call

\* A claim's id is minted afresh; nothing is no call.
ASSUME HeldAssumption == Held \intersect Attempts = {}
ASSUME NothingAssumption == Nothing \notin [request : Requests, key : Keys]

VARIABLES claims,       \* claims, committed: claim id -> status history
          attachments,  \* claim_documents and claim_parties, committed
          keys,         \* idempotency_keys, committed
          pc,           \* the statement each attempt has got to
          call,         \* the request each attempt carries, and its key
          written,      \* what it wrote and has not committed, or answers with
          told          \* what its caller was told

vars == <<claims, attachments, keys, pc, call, written, told>>

(***************************************************************************)
(* An attempt is idle, has asked, found its key fresh, performed its       *)
(* write, inserted its key, or rolled back after losing it; then is over.  *)
(***************************************************************************)
Steps == {"idle", "asked", "fresh", "performed", "keyed", "rolled back", "over"}

\* "defect" is an error core-sim does not translate, a 500, "duplicate" one of
\* them, the UniqueViolation; "lost" a process that died before it answered.
Told == {"none", "ok", "policy_not_found", "claim_not_found",
         "idempotency_key_reuse", "duplicate", "defect", "lost"}

Init ==
  /\ claims = HeldClaims
  /\ attachments = {}
  /\ keys = << >>
  /\ pc = [a \in Attempts |-> "idle"]
  /\ call = [a \in Attempts |-> Nothing]
  /\ written = [a \in Attempts |-> Nothing]
  /\ told = [a \in Attempts |-> "none"]

Key(a) == call[a].key
Request(a) == call[a].request

\* A caller names a policy, or a claim it was told of, or gets it wrong.
Ask(a) ==
  /\ pc[a] = "idle"
  /\ \E request \in Requests, key \in Keys :
       /\ request.op # "create_claim" => request.on \in DOMAIN claims \union {Unknown}
       /\ call' = [call EXCEPT ![a] = [request |-> request, key |-> key]]
  /\ pc' = [pc EXCEPT ![a] = "asked"]
  /\ UNCHANGED <<claims, attachments, keys, written, told>>

End(a, what, with) ==
  /\ pc' = [pc EXCEPT ![a] = "over"]
  /\ told' = [told EXCEPT ![a] = what]
  /\ written' = [written EXCEPT ![a] = with]
  /\ UNCHANGED call

\* _replayed: the answer the key gave, or the refusal of another request.
Replayed(a) ==
  IF keys[Key(a)].fingerprint = Fingerprint(Request(a))
  THEN End(a, "ok", keys[Key(a)].answer)
  ELSE End(a, "idempotency_key_reuse", Nothing)

\* _idempotent connects and reads the key.
Remember(a) ==
  /\ pc[a] = "asked"
  /\ IF Key(a) \in DOMAIN keys
     THEN Replayed(a)
     ELSE pc' = [pc EXCEPT ![a] = "fresh"] /\ UNCHANGED <<call, written, told>>
  /\ UNCHANGED <<claims, attachments, keys>>

\* The attempts that hold an uncommitted write, or the row it needs.
\* Mutant: a connection left open, in its transaction, by a call that is over.
HoldingOnceOver == {a \in Attempts : pc[a] \in {"performed", "keyed", "over"}}

Holding == {a \in Attempts : pc[a] \in {"performed", "keyed"}}

\* FOR UPDATE waits for every holder of the claim's row, and a row that
\* references the claim waits for its FOR UPDATE; such rows share it.
MutuallyExclusive(op1, op2) == "record_claim_status" \in {op1, op2}

RowFree(a) ==
  \A b \in Holding : /\ Request(b).op # "create_claim"
                     /\ Request(b).on = Request(a).on
                     => ~MutuallyExclusive(Request(a).op, Request(b).op)

\* perform(): read what the request names, and write; the write stays private.
\* Mutant: the claim is read without FOR UPDATE.
PerformUnlocked(a) ==
  /\ pc[a] = "fresh"
  /\ IF FindsItsTarget(Request(a), claims)
     THEN /\ written' = [written EXCEPT ![a] = Written(Request(a), claims, a)]
          /\ pc' = [pc EXCEPT ![a] = "performed"]
          /\ UNCHANGED <<call, told>>
     ELSE End(a, NotFound(Request(a)), Nothing)
  /\ UNCHANGED <<claims, attachments, keys>>

Perform(a) ==
  /\ pc[a] = "fresh"
  /\ RowFree(a)
  /\ IF FindsItsTarget(Request(a), claims)
     THEN /\ written' = [written EXCEPT ![a] = Written(Request(a), claims, a)]
          /\ pc' = [pc EXCEPT ![a] = "performed"]
          /\ UNCHANGED <<call, told>>
     ELSE End(a, NotFound(Request(a)), Nothing)
  /\ UNCHANGED <<claims, attachments, keys>>

\* The insert of the key waits for an uncommitted one, and fails on a committed
\* one: the attempt rolls back what it wrote.  Mutant: the failure is let out.
KeyFree(a) == \A b \in Attempts \ {a} : pc[b] = "keyed" => Key(b) # Key(a)

InsertKeyOrRaise(a) ==
  /\ pc[a] = "performed"
  /\ KeyFree(a)
  /\ IF Key(a) \in DOMAIN keys
     THEN End(a, "duplicate", Nothing)
     ELSE pc' = [pc EXCEPT ![a] = "keyed"] /\ UNCHANGED <<call, written, told>>
  /\ UNCHANGED <<claims, attachments, keys>>

InsertKey(a) ==
  /\ pc[a] = "performed"
  /\ KeyFree(a)
  /\ pc' = [pc EXCEPT ![a] = IF Key(a) \in DOMAIN keys THEN "rolled back" ELSE "keyed"]
  /\ UNCHANGED <<claims, attachments, keys, call, written, told>>

\* What the other attempt recorded; if there were nothing, the error goes out.
Reread(a) ==
  /\ pc[a] = "rolled back"
  /\ IF Key(a) \in DOMAIN keys THEN Replayed(a) ELSE End(a, "duplicate", Nothing)
  /\ UNCHANGED <<claims, attachments, keys>>

\* COMMIT, on leaving `with connection`: the write and its key become visible
\* together; if the answer to COMMIT is lost the caller gets a 500 instead.
\* Mutant: the key is recorded on a connection of its own, and may be lost.
CommitKeyApart(a) ==
  /\ pc[a] = "keyed"
  /\ claims' = ClaimsAfter(claims, written[a])
  /\ attachments' = AttachmentsAfter(attachments, written[a])
  /\ \/ End(a, "ok", written[a]) /\ keys' = KeysAfter(keys, Key(a), Request(a), written[a])
     \/ End(a, "defect", Nothing) /\ UNCHANGED keys

Commit(a) ==
  /\ pc[a] = "keyed"
  /\ claims' = ClaimsAfter(claims, written[a])
  /\ attachments' = AttachmentsAfter(attachments, written[a])
  /\ keys' = KeysAfter(keys, Key(a), Request(a), written[a])
  /\ End(a, "ok", written[a]) \/ End(a, "defect", Nothing)

\* The connection is refused or lost: nothing is committed and core-sim has no
\* answer of its own for it (app.py maps three refusals only).
LoseConnection(a) ==
  /\ pc[a] \notin {"idle", "over"}
  /\ End(a, "defect", Nothing)
  /\ UNCHANGED <<claims, attachments, keys>>

\* The process dies: every transaction in flight rolls back.
InFlight == {a \in Attempts : pc[a] \notin {"idle", "over"}}

Crash ==
  /\ InFlight # {}
  /\ pc' = [a \in Attempts |-> IF a \in InFlight THEN "over" ELSE pc[a]]
  /\ told' = [a \in Attempts |-> IF a \in InFlight THEN "lost" ELSE told[a]]
  /\ written' = [a \in Attempts |-> IF a \in InFlight THEN Nothing ELSE written[a]]
  /\ UNCHANGED <<claims, attachments, keys, call>>

Finished == (\A a \in Attempts : pc[a] = "over") /\ UNCHANGED vars

Next ==
  \/ \E a \in Attempts :
       \/ Ask(a)
       \/ Remember(a)
       \/ Perform(a)
       \/ InsertKey(a)
       \/ Reread(a)
       \/ Commit(a)
       \/ LoseConnection(a)
  \/ Crash
  \/ Finished

Spec == Init /\ [][Next]_vars

-----------------------------------------------------------------------------

\* However attempts with one key interleave, all that are answered "ok" were
\* asking the same thing and get the same answer (core_sim/store.py:7-11).
OneAnswerPerKey ==
  \A a, b \in Attempts :
    told[a] = "ok" /\ told[b] = "ok" /\ Key(a) = Key(b)
      => Request(a) = Request(b) /\ written[a] = written[b]

\* Every change to the records is the work of exactly one key: the histories the
\* keys answered with are the prefixes of the claims' histories, each once, and
\* the attachments they answered with are the attachments held.  No concurrent
\* transition is lost and none is recorded twice.
ClaimKeys(c) == {k \in DOMAIN keys : OfClaim(keys[k].answer.op) /\ keys[k].answer.claim = c}
AttachmentKeys == {k \in DOMAIN keys : ~OfClaim(keys[k].answer.op)}

EveryChangeHasItsKey ==
  /\ \A c \in DOMAIN claims :
       /\ {keys[k].answer.history : k \in ClaimKeys(c)}
            = {SubSeq(claims[c], 1, n) : n \in (IF c \in Held THEN 2 ELSE 1)..Len(claims[c])}
       /\ \A k, l \in ClaimKeys(c) : keys[k].answer = keys[l].answer => k = l
  /\ attachments = {keys[k].answer : k \in AttachmentKeys}
  /\ \A k, l \in AttachmentKeys : keys[k].answer = keys[l].answer => k = l

\* An attempt that loses its key to a concurrent one answers what that one
\* recorded; "failing a retry that did its job" (store.py:388-390) never happens.
NoRetryFailsOnItsTwin == \A a \in Attempts : told[a] # "duplicate"

\* The transactions implement the promise: one write for each key, in one step.
Promise ==
  INSTANCE IdempotentWrites WITH
    answer <- [a \in Attempts |-> IF pc[a] = "over" THEN written[a] ELSE Nothing]

WritesOncePerKey == Promise!Spec

\* Waiting for a row or a key is never circular: as long as a call is in flight,
\* one is whose next statement Postgres grants, so none waits for ever though a
\* write holds its claim's row while it waits for its key (core_sim/store.py:382).
Granted(a) ==
  CASE pc[a] = "fresh"     -> RowFree(a)
    [] pc[a] = "performed" -> KeyFree(a)
    [] OTHER               -> TRUE

SomeCallGoesOn == InFlight # {} => \E a \in InFlight : Granted(a)
=============================================================================
