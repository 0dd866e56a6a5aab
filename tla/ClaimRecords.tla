---------------------------- MODULE ClaimRecords ----------------------------
(***************************************************************************)
(* The writes core-sim accepts (core_sim/store.py): what each one asks     *)
(* for, what it is known by, and what performing it makes of the records.  *)
(***************************************************************************)
EXTENDS Sequences

CONSTANTS Attempts,   \* calls of a write, each on a connection of its own
          Keys,       \* values of Idempotency-Key
          Policies,   \* the policies seeded
          Held,       \* claims taken in before the calls modelled
          Unknown     \* a policy number or a claim id the systems do not hold

\* contract/models.py ClaimStatus.
Statuses == {"received", "triaged"}

\* The attempt that created a claim names it: each mints a fresh uuid.
ClaimIds == Held \union Attempts

\* A write: its operation, what it names (a policy or a claim), what it says.
Requests ==
  [op : {"create_claim"}, on : Policies \union {Unknown}, body : {"claim"}]
    \union
  [op : {"record_claim_status"}, on : ClaimIds \union {Unknown}, body : Statuses]
    \union
  [op : {"attach_claim_document", "record_claim_party"},
   on : ClaimIds \union {Unknown}, body : {"attachment"}]

\* What identifies one write: the operation and the request, canonically.
\* Mutant: the body only, without the claim its path names.
FingerprintOfBody(request) == [op |-> request.op, body |-> request.body]

Fingerprint(request) == [op |-> request.op, request |-> <<request.on, request.body>>]

\* The policy or the claim it names is held; if not, the refusal it gets.
FindsItsTarget(request, claims) ==
  IF request.op = "create_claim"
  THEN request.on \in Policies
  ELSE request.on \in DOMAIN claims

NotFound(request) ==
  IF request.op = "create_claim" THEN "policy_not_found" ELSE "claim_not_found"

\* The claim's history as the write leaves it; `by` stands for the time recorded.
Transition(status, a) == [status |-> status, by |-> a]

HistoryAfter(request, claims, a) ==
  IF request.op = "create_claim"
  THEN <<Transition("received", a)>>
  ELSE Append(claims[request.on], Transition(request.body, a))

OfClaim(op) == op \in {"create_claim", "record_claim_status"}

\* What attempt a writes, and answers with: the claim as it now is, or the
\* document or party with the id it minted.
Written(request, claims, a) ==
  [op      |-> request.op,
   claim   |-> IF request.op = "create_claim" THEN a ELSE request.on,
   by      |-> a,
   history |-> IF OfClaim(request.op) THEN HistoryAfter(request, claims, a) ELSE <<>>]

\* The claims, and the documents and parties, once `written` is committed.
ClaimsAfter(claims, written) ==
  IF OfClaim(written.op)
  THEN [c \in DOMAIN claims \union {written.claim} |->
          IF c = written.claim THEN written.history ELSE claims[c]]
  ELSE claims

AttachmentsAfter(attachments, written) ==
  IF OfClaim(written.op) THEN attachments ELSE attachments \union {written}

\* The keys once `key` has answered `request`.
KeysAfter(keys, key, request, answer) ==
  [k \in DOMAIN keys \union {key} |->
     IF k = key THEN [fingerprint |-> Fingerprint(request), answer |-> answer] ELSE keys[k]]

\* The records before the calls modelled: each claim held as it was received.
HeldClaims == [c \in Held |-> <<Transition("received", c)>>]
=============================================================================
