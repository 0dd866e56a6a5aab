----------------------------- MODULE AuditRows ------------------------------
(***************************************************************************)
(* What verifying the audit log detects once its stored rows have changed  *)
(* outside the store: a column edited, a row removed, a row's hash         *)
(* recomputed over what the row now says (triage/audit.py verify, over     *)
(* triage/store.py entries).                                               *)
(***************************************************************************)
EXTENDS AuditChain, FiniteSets, SequencesExt

CONSTANTS Contents,    \* what an entry may record
          MaxEntries,  \* how many entries the store appends
          MaxChanges   \* how many changes are made to the stored rows

VARIABLES log,         \* the entries as the store appended them
          rows,        \* the rows of audit_log now, a set: seq is the key
          changes,     \* how many changes were made to them
          rehashed     \* whether one of the changes recomputed a hash

vars == <<log, rows, changes, rehashed>>

Init == log = <<>> /\ rows = {} /\ changes = 0 /\ rehashed = FALSE

\* PostgresTriageStore.entries: every row, ORDER BY seq.
InOrder(entries) == \A i, j \in DOMAIN entries : i < j => entries[i].seq < entries[j].seq
Entries == CHOOSE entries \in [1..Cardinality(rows) -> rows] : InOrder(entries)

\* The store appends while nothing else has touched the table.
StoreAppends ==
  /\ changes = 0
  /\ Len(log) < MaxEntries
  /\ \E content \in Contents :
       LET entry == NextEntry(LastRow(log), content)
       IN  log' = Append(log, entry) /\ rows' = rows \union {entry}
  /\ UNCHANGED <<changes, rehashed>>

\* One row replaced by another, or by none.
Replace(row, by) ==
  /\ changes < MaxChanges
  /\ changes' = changes + 1
  /\ rows' = (rows \ {row}) \union by
  /\ UNCHANGED log

Hashes == {log[i].hash : i \in 1..Len(log)}
\* A row can move to a position only if no other has it: seq is the primary key.
FreeSeqs == (1..MaxEntries + 1) \ {row.seq : row \in rows}

EditContent(row) ==
  /\ \E content \in Contents : Replace(row, {[row EXCEPT !.content = content]})
  /\ UNCHANGED rehashed

\* The row moves: entries orders by seq.
EditSeq(row) ==
  /\ \E seq \in FreeSeqs : Replace(row, {[row EXCEPT !.seq = seq]})
  /\ UNCHANGED rehashed

EditPrevHash(row) ==
  /\ \E hash \in Hashes \union {GENESIS} : Replace(row, {[row EXCEPT !.prev_hash = hash]})
  /\ UNCHANGED rehashed

EditHash(row) ==
  /\ \E hash \in Hashes : Replace(row, {[row EXCEPT !.hash = hash]})
  /\ UNCHANGED rehashed

RemoveRow(row) == Replace(row, {}) /\ UNCHANGED rehashed

Rehash(row) == Replace(row, {[row EXCEPT !.hash = Digest(row)]}) /\ rehashed' = TRUE

Next ==
  \/ StoreAppends
  \/ \E row \in rows :
       \/ EditContent(row)
       \/ EditSeq(row)
       \/ EditPrevHash(row)
       \/ EditHash(row)
       \/ RemoveRow(row)
       \/ Rehash(row)

Spec == Init /\ [][Next]_vars

-----------------------------------------------------------------------------

\* Whatever was edited, moved or removed without computing a new hash, a chain
\* that still verifies is the one that was written, or the beginning of it: an
\* entry changed, moved or removed stops matching (audit.py:3-5).
OnlyACutVerifies == ~rehashed /\ Verify(Entries) => IsPrefix(Entries, log)

\* The hash of the last entry pins every entry before it: a chain that verifies
\* and ends in the hash that was written is the chain that was written, even if
\* hashes were recomputed (what an anchor outside the database would compare).
HeadPinsTheChain ==
  /\ Verify(Entries)
  /\ Entries # <<>> /\ log # <<>>
  /\ Last(Entries).hash = Last(log).hash
  => Entries = log
=============================================================================
