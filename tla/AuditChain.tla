----------------------------- MODULE AuditChain -----------------------------
(***************************************************************************)
(* The hash chain of the audit log (triage/audit.py): what one entry is,   *)
(* where the next one belongs, and what verifying a chain accepts.         *)
(*                                                                         *)
(* SHA-256 is symbolic: a hash is the tuple it is the hash of, so two      *)
(* hashes are equal exactly when everything hashed is equal.  A prev_hash  *)
(* is such a tuple too, or GENESIS, which no digest is equal to.           *)
(***************************************************************************)
EXTENDS Integers, Sequences

\* The hash "before" the first entry: sixty-four zeros in the code.
GENESIS == <<>>

\* The hash one entry has: over its position, its predecessor and its content.
\* Mutant: a canonical form that forgets the content.
DigestWithoutContent(entry) == <<entry.seq, entry.prev_hash>>

Digest(entry) == <<entry.seq, entry.prev_hash, entry.content>>

\* The entry an append produces: content, position, and the hash linking it on.
Linked(prev_hash, seq, content) ==
  LET at == [seq |-> seq, prev_hash |-> prev_hash, content |-> content]
  IN  [seq |-> seq, prev_hash |-> prev_hash, content |-> content, hash |-> Digest(at)]

\* A log is a sequence of entries; hashes have no set of their own to range over.
IsLog(log) == log \in Seq({log[i] : i \in 1..Len(log)})

\* The last row as the store reads it: <<seq, hash>>, or <<>> from an empty log.
LastRow(log) ==
  IF log = <<>> THEN <<>> ELSE <<log[Len(log)].seq, log[Len(log)].hash>>

\* Where the next entry sits after the row `previous`: <<seq, prev_hash>>.
ContinuesAtGenesis(previous) ==
  IF previous = <<>> THEN <<1, GENESIS>> ELSE <<previous[1] + 1, GENESIS>>

Continues(previous) ==
  IF previous = <<>> THEN <<1, GENESIS>> ELSE <<previous[1] + 1, previous[2]>>

\* The entry that continues the chain after the row `previous`.
NextEntry(previous, content) ==
  Linked(Continues(previous)[2], Continues(previous)[1], content)

\* What verify answers of entry i, given the entries before it.
\* Mutant: a chain may begin anywhere.
FollowsAnything(entries, i) ==
  i = 1 \/ (/\ entries[i].seq > entries[i - 1].seq
            /\ entries[i].prev_hash = entries[i - 1].hash)

FollowsPredecessor(entries, i) ==
  IF i = 1
  THEN entries[i].prev_hash = GENESIS
  ELSE /\ entries[i].seq > entries[i - 1].seq
       /\ entries[i].prev_hash = entries[i - 1].hash

HashesToWhatItSays(entries, i) == Digest(entries[i]) = entries[i].hash

\* The chain is intact: each entry follows its predecessor and hashes right.
Verify(entries) ==
  \A i \in 1..Len(entries) : FollowsPredecessor(entries, i) /\ HashesToWhatItSays(entries, i)
=============================================================================
