---------------------------- MODULE TriageStore -----------------------------
(***************************************************************************)
(* The triager's two tables and the transactions that write them           *)
(* (triage/store.py, driven by TriagePipeline._recorded).                  *)
(*                                                                         *)
(* An attempt is one call of _recorded, on a thread and a connection of    *)
(* its own: it inserts the run, takes the chain's advisory lock, reads the *)
(* last entry, inserts the next one and commits.  Between any two of these *)
(* statements other attempts run theirs, and the connection may be lost.   *)
(* Postgres is modelled by what READ COMMITTED gives the code: a statement *)
(* sees what was committed before it, an insert waits for an uncommitted   *)
(* insert of the same key and fails once that one is committed, and the    *)
(* advisory lock and every uncommitted row go when the transaction ends.   *)
(***************************************************************************)
EXTENDS AuditChain

CONSTANTS Attempts,   \* calls of _recorded, each on a connection of its own
          Runs,       \* run identifiers
          RunOf,      \* the run each attempt records; two attempts may share one
          NoOne       \* the advisory lock is free

ASSUME RunOfAssumption == RunOf \in [Attempts -> Runs]
ASSUME NoOneAssumption == NoOne \notin Attempts

VARIABLES runs,       \* triage_runs, committed: one row for each run recorded
          log,        \* audit_log, committed, in the order of seq
          lock,       \* who holds CHAIN_LOCK
          pc,         \* the statement each attempt has got to
          tail,       \* the last row each attempt read, while it runs
          answer      \* what each attempt's caller was told

vars == <<runs, log, lock, pc, tail, answer>>

(***************************************************************************)
(* An attempt is idle, then open (connected, the schema applied), has its  *)
(* run inserted, the lock, the tail, its entry inserted, is committed, the *)
(* answer to its COMMIT still on the way, and is over.                     *)
(***************************************************************************)
Steps == {"idle", "open", "run", "locked", "tail", "entry", "committed", "over"}

\* The attempts that hold an uncommitted row of triage_runs, or of audit_log.
RunInserted == {a \in Attempts : pc[a] \in {"run", "locked", "tail", "entry"}}
EntryInserted == {a \in Attempts : pc[a] = "entry"}

\* "ok" is a return; "unavailable" a TriageStoreUnavailable, a 503; "duplicate"
\* a UniqueViolation and "defect" any other psycopg error, both a 500; "lost" a
\* process that died before it answered, of which the caller learns nothing.
Answers == {"none", "ok", "unavailable", "duplicate", "defect", "lost"}

\* What an attempt writes, in its run's row and in its entry: the run it is for,
\* and the trace and the times that tell one attempt's rows from another's.
Content(a) == [run_id |-> RunOf[a], trace_id |-> a]

\* The entry attempt a computes from the tail it read.
EntryOf(a) == NextEntry(tail[a], Content(a))

CommittedRuns == {row.run_id : row \in runs}
CommittedSeqs == {log[i].seq : i \in 1..Len(log)}

Init ==
  /\ runs = {}
  /\ log = <<>>
  /\ lock = NoOne
  /\ pc = [a \in Attempts |-> "idle"]
  /\ tail = [a \in Attempts |-> <<>>]
  /\ answer = [a \in Attempts |-> "none"]

\* The transaction of a is over: its lock is released, what it read is forgotten
\* and its caller told.
End(a, told) ==
  /\ pc' = [pc EXCEPT ![a] = "over"]
  /\ answer' = [answer EXCEPT ![a] = told]
  /\ lock' = IF lock = a THEN NoOne ELSE lock
  /\ tail' = [tail EXCEPT ![a] = <<>>]

\* psycopg.connect succeeds, or fails within its timeout.
Connect(a) ==
  /\ pc[a] = "idle"
  /\ pc' = [pc EXCEPT ![a] = "open"]
  /\ UNCHANGED <<runs, log, lock, tail, answer>>

ConnectFails(a) ==
  /\ pc[a] = "idle"
  /\ End(a, "unavailable")
  /\ UNCHANGED <<runs, log>>

\* record_run inserts the run.  The insert waits while another transaction holds
\* an uncommitted row for the same run, and fails once that row is committed.
RunFree(a) == \A b \in RunInserted : RunOf[b] # RunOf[a]

\* Mutant: the connection autocommits, and the run is there before its entry.
InsertRunAutocommitted(a) ==
  /\ pc[a] = "open"
  /\ RunFree(a)
  /\ RunOf[a] \notin CommittedRuns
  /\ runs' = runs \union {Content(a)}
  /\ pc' = [pc EXCEPT ![a] = "run"]
  /\ UNCHANGED <<log, lock, tail, answer>>

InsertRun(a) ==
  /\ pc[a] = "open"
  /\ RunFree(a)
  /\ RunOf[a] \notin CommittedRuns
  /\ pc' = [pc EXCEPT ![a] = "run"]
  /\ UNCHANGED <<runs, log, lock, tail, answer>>

DuplicateRun(a) ==
  /\ pc[a] = "open"
  /\ RunFree(a)
  /\ RunOf[a] \in CommittedRuns
  /\ End(a, "duplicate")
  /\ UNCHANGED <<runs, log>>

\* append_entry, statement by statement.  pg_advisory_xact_lock waits for its
\* holder.  Mutant: an append that takes no lock.
TakeLockShared(a) ==
  /\ pc[a] = "run"
  /\ lock' = a
  /\ pc' = [pc EXCEPT ![a] = "locked"]
  /\ UNCHANGED <<runs, log, tail, answer>>

TakeLock(a) ==
  /\ pc[a] = "run"
  /\ lock = NoOne
  /\ lock' = a
  /\ pc' = [pc EXCEPT ![a] = "locked"]
  /\ UNCHANGED <<runs, log, tail, answer>>

\* SELECT ... ORDER BY seq DESC LIMIT 1: the last row committed by now.
ReadTail(a) ==
  /\ pc[a] = "locked"
  /\ tail' = [tail EXCEPT ![a] = LastRow(log)]
  /\ pc' = [pc EXCEPT ![a] = "tail"]
  /\ UNCHANGED <<runs, log, lock, answer>>

\* The insert of the entry: seq is the primary key, so it too waits for an
\* uncommitted row of the same seq and fails on a committed one.
InsertEntry(a) ==
  /\ pc[a] = "tail"
  /\ \A b \in EntryInserted : EntryOf(b).seq # EntryOf(a).seq
  /\ IF EntryOf(a).seq \in CommittedSeqs
     THEN End(a, "duplicate")
     ELSE /\ pc' = [pc EXCEPT ![a] = "entry"]
          /\ UNCHANGED <<lock, tail, answer>>
  /\ UNCHANGED <<runs, log>>

\* COMMIT, on leaving `with connection`, takes effect: both rows become visible
\* at once and the lock goes with the transaction.  The answer is still to come.
Commit(a) ==
  /\ pc[a] = "entry"
  /\ runs' = runs \union {Content(a)}
  /\ log' = Append(log, EntryOf(a))
  /\ pc' = [pc EXCEPT ![a] = "committed"]
  /\ lock' = IF lock = a THEN NoOne ELSE lock
  /\ UNCHANGED <<tail, answer>>

\* The answer to COMMIT arrives, and _recorded returns.
Answer(a) ==
  /\ pc[a] = "committed"
  /\ End(a, "ok")
  /\ UNCHANGED <<runs, log>>

\* The connection is lost or a statement fails with an operational error: the
\* transaction rolls back.  Inside the yielded block that is an Unavailable;
\* when it is COMMIT that fails, or its answer that is lost, the error leaves
\* the block untranslated: a defect, of a run that may be there.
\* Mutants: a session-level lock, which the rollback leaves with its holder; and
\* a translation that wraps the commit as well.
LoseConnectionKeepingLock(a) ==
  /\ pc[a] \notin {"idle", "over"}
  /\ pc' = [pc EXCEPT ![a] = "over"]
  /\ answer' = [answer EXCEPT ![a] = "unavailable"]
  /\ UNCHANGED <<runs, log, lock, tail>>

LoseConnectionTranslated(a) ==
  /\ pc[a] \notin {"idle", "over"}
  /\ End(a, "unavailable")
  /\ UNCHANGED <<runs, log>>

LoseConnection(a) ==
  /\ pc[a] \notin {"idle", "over"}
  /\ End(a, IF pc[a] \in {"entry", "committed"} THEN "defect" ELSE "unavailable")
  /\ UNCHANGED <<runs, log>>

\* The triager's process dies: no caller of an attempt in flight is answered.
\* What was not committed rolls back; what was stays, with nobody told.
InFlight == {a \in Attempts : pc[a] \notin {"idle", "over"}}

Crash ==
  /\ InFlight # {}
  /\ pc' = [a \in Attempts |-> IF a \in InFlight THEN "over" ELSE pc[a]]
  /\ answer' = [a \in Attempts |-> IF a \in InFlight THEN "lost" ELSE answer[a]]
  /\ lock' = NoOne
  /\ tail' = [a \in Attempts |-> <<>>]
  /\ UNCHANGED <<runs, log>>

\* Every attempt is over: nothing is left to happen.
Finished == (\A a \in Attempts : pc[a] = "over") /\ UNCHANGED vars

\* The statements of one attempt, without what may go wrong around them.
Progress(a) ==
  \/ InsertRun(a)
  \/ DuplicateRun(a)
  \/ ReadTail(a)
  \/ InsertEntry(a)
  \/ Commit(a)
  \/ Answer(a)

Next ==
  \/ \E a \in Attempts :
       Connect(a) \/ ConnectFails(a) \/ Progress(a) \/ TakeLock(a) \/ LoseConnection(a)
  \/ Crash
  \/ Finished

Spec == Init /\ [][Next]_vars

(***************************************************************************)
(* A thread keeps executing its statements, and a commit or a statement is *)
(* answered or fails.  Postgres queues the waiters of an advisory lock and *)
(* of a key, so a waiter that can be granted again and again is granted:   *)
(* strong fairness for the two statements that wait.  Nothing is assumed   *)
(* about Connect, LoseConnection or Crash.                                 *)
(***************************************************************************)
Fairness ==
  \A a \in Attempts :
    /\ WF_vars(Progress(a))
    /\ SF_vars(InsertRun(a) \/ DuplicateRun(a))
    /\ SF_vars(TakeLock(a))

FairSpec == Spec /\ Fairness

-----------------------------------------------------------------------------

\* Types: a row names a run and an attempt, the log is a sequence of entries with
\* such contents and positions from 1 on, the lock is free or held by an attempt.
TypeOK ==
  /\ runs \subseteq [run_id : Runs, trace_id : Attempts]
  /\ IsLog(log)
  /\ \A i \in 1..Len(log) : /\ log[i].seq \in Nat \ {0}
                             /\ log[i].content \in [run_id : Runs, trace_id : Attempts]
  /\ lock \in Attempts \union {NoOne}
  /\ pc \in [Attempts -> Steps]
  /\ DOMAIN tail = Attempts
  /\ answer \in [Attempts -> Answers]

\* The log as committed verifies after every interleaving of appends, losses of
\* connection and crashes: two writers never fork the chain (store.py:13-15).
ChainIntact == Verify(log)

\* Every run recorded has its entry, every entry its run, both written by the
\* same attempt, and a run has one entry only, whatever fails (docs/adr/0005).
RunsWithEvidence ==
  /\ runs = {log[i].content : i \in 1..Len(log)}
  /\ \A i, j \in 1..Len(log) : log[i].content.run_id = log[j].content.run_id => i = j

\* A UniqueViolation means what record_run says it means, that the run was
\* recorded before; contention for the next position in the chain never makes
\* one, so concurrent runs do not fail each other.
DuplicateOnlyIfRecorded ==
  \A a \in Attempts : answer[a] = "duplicate" =>
    \E i \in 1..Len(log) : log[i].content.run_id = RunOf[a] /\ log[i].content.trace_id # a

\* What the caller was told is true of the log: a return means the attempt's own
\* entry is there, an Unavailable or a duplicate that it wrote nothing.  A defect
\* and a process that died leave it open: COMMIT may have taken effect.
AnswerTruthful ==
  \A a \in Attempts :
    LET wrote == \E i \in 1..Len(log) : log[i].content.trace_id = a
    IN  /\ answer[a] = "ok" => wrote
        /\ answer[a] \in {"unavailable", "duplicate"} => ~wrote

\* The transactions implement the atomic record the port promises.
Promise ==
  INSTANCE AuditLog WITH
    recorded <- runs,
    Contents <- {Content(a) : a \in Attempts}

RecordsAtomically == Promise!Spec

\* An attempt that connected comes to an end, with an answer: no waiting for a
\* key or for the chain's lock lasts for ever, even when holders are lost.
EveryAttemptEnds == \A a \in Attempts : pc[a] = "open" ~> pc[a] = "over"
=============================================================================
