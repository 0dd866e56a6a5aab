-------------------------- MODULE TriageStoreProofs -------------------------
(***************************************************************************)
(* The safety of the triage store, for any number of attempts and runs.    *)
(***************************************************************************)
EXTENDS TriageStore, AuditChainProofs

\* The advisory lock is held by the one attempt between TakeLock and its end.
LockHeld == \A a \in Attempts : pc[a] \in {"locked", "tail", "entry"} <=> lock = a

\* What an attempt read under the lock is still the last row.
TailCurrent == \A a \in Attempts : pc[a] \in {"tail", "entry"} => tail[a] = LastRow(log)

\* An uncommitted run is nobody else's: neither committed nor in flight twice.
RunsInFlight ==
  /\ \A a \in RunInserted : RunOf[a] \notin CommittedRuns
  /\ \A a, b \in RunInserted : RunOf[a] = RunOf[b] => a = b

\* An attempt that is not over has no answer yet.
Unanswered == \A a \in Attempts : pc[a] # "over" => answer[a] = "none"

\* An attempt has its entry from the commit on, and not before.
Wrote(a) == \E i \in 1..Len(log) : log[i].content.trace_id = a

WrittenByCommit ==
  \A a \in Attempts :
    /\ pc[a] = "committed" => Wrote(a)
    /\ pc[a] \notin {"committed", "over"} => ~Wrote(a)

\* An entry is its attempt's: it records the run that attempt is for.
EntriesOfAttempts ==
  \A i \in 1..Len(log) : log[i].content = Content(log[i].content.trace_id)

IInv ==
  /\ TypeOK
  /\ Numbered(log)
  /\ ChainIntact
  /\ RunsWithEvidence
  /\ LockHeld
  /\ TailCurrent
  /\ RunsInFlight
  /\ Unanswered
  /\ WrittenByCommit
  /\ EntriesOfAttempts
  /\ DuplicateOnlyIfRecorded
  /\ AnswerTruthful

-----------------------------------------------------------------------------

LEMMA InitIInv == Init => IInv
<1> SUFFICES ASSUME Init PROVE IInv
  OBVIOUS
<1>1. /\ runs = {} /\ log = <<>> /\ lock = NoOne
      /\ pc = [a \in Attempts |-> "idle"]
      /\ tail = [a \in Attempts |-> <<>>]
      /\ answer = [a \in Attempts |-> "none"]
  BY DEF Init
<1>2. IsLog(log) /\ 1..Len(log) = {}
  BY <1>1, EmptyLog
<1>3. TypeOK
  BY <1>1, <1>2 DEF TypeOK, Steps, Answers
<1>4. Numbered(log) /\ ChainIntact /\ RunsWithEvidence /\ EntriesOfAttempts
  BY <1>1, <1>2 DEF Numbered, ChainIntact, Verify, RunsWithEvidence, EntriesOfAttempts
<1>5. LockHeld /\ TailCurrent
  BY <1>1, NoOneAssumption DEF LockHeld, TailCurrent
<1>6. RunsInFlight
  BY <1>1 DEF RunsInFlight, RunInserted
<1>7. Unanswered /\ WrittenByCommit /\ DuplicateOnlyIfRecorded /\ AnswerTruthful
  BY <1>1, <1>2 DEF Unanswered, WrittenByCommit, Wrote, DuplicateOnlyIfRecorded, AnswerTruthful
<1> QED
  BY <1>3, <1>4, <1>5, <1>6, <1>7 DEF IInv

\* What a step that leaves the tables alone preserves of them.
LEMMA TablesUnchanged ==
  ASSUME IInv, UNCHANGED <<runs, log>>
  PROVE  /\ runs' \subseteq [run_id : Runs, trace_id : Attempts]
         /\ IsLog(log)'
         /\ (\A i \in 1..Len(log) : /\ log[i].seq \in Nat \ {0}
                                   /\ log[i].content \in [run_id : Runs, trace_id : Attempts])'
         /\ Numbered(log)' /\ ChainIntact' /\ RunsWithEvidence' /\ EntriesOfAttempts'
         /\ LastRow(log)' = LastRow(log)
         /\ CommittedRuns' = CommittedRuns
  BY DEF IInv, TypeOK, IsLog, Numbered, ChainIntact, Verify, FollowsPredecessor,
         HashesToWhatItSays, RunsWithEvidence, EntriesOfAttempts, Content, LastRow, CommittedRuns

\* An attempt that ends, its transaction rolled back or committed before, and
\* whose caller is told what is true of it.
LEMMA EndKeepsIInv ==
  ASSUME IInv, NEW a \in Attempts, pc[a] # "over", UNCHANGED <<runs, log>>,
         NEW told \in {"ok", "unavailable", "duplicate", "defect"}, End(a, told),
         told = "ok" => pc[a] = "committed",
         told \in {"unavailable", "duplicate"} => pc[a] # "committed",
         told = "duplicate" => \E i \in 1..Len(log) : log[i].content.run_id = RunOf[a]
  PROVE  IInv'
<1>1. /\ pc' = [pc EXCEPT ![a] = "over"]
      /\ answer' = [answer EXCEPT ![a] = told]
      /\ lock' = IF lock = a THEN NoOne ELSE lock
      /\ tail' = [tail EXCEPT ![a] = <<>>]
  BY DEF End
<1>2. TypeOK'
  BY <1>1, TablesUnchanged DEF IInv, TypeOK, Steps, Answers
<1>3. LockHeld'
  BY <1>1, NoOneAssumption DEF IInv, TypeOK, LockHeld
<1>4. TailCurrent'
  BY <1>1, TablesUnchanged DEF IInv, TypeOK, TailCurrent
<1>5. RunsInFlight'
  BY <1>1, TablesUnchanged DEF IInv, TypeOK, RunsInFlight, RunInserted
<1>6. Unanswered' /\ WrittenByCommit'
  BY <1>1 DEF IInv, TypeOK, Unanswered, WrittenByCommit, Wrote
<1>7. /\ told = "ok" => Wrote(a)
      /\ told \in {"unavailable", "duplicate"} => ~Wrote(a)
  BY DEF IInv, WrittenByCommit
<1>8. DuplicateOnlyIfRecorded'
  BY <1>1, <1>7 DEF IInv, TypeOK, DuplicateOnlyIfRecorded, Wrote
<1>9. AnswerTruthful'
  BY <1>1, <1>7 DEF IInv, TypeOK, AnswerTruthful, Wrote
<1> QED
  BY <1>2, <1>3, <1>4, <1>5, <1>6, <1>8, <1>9, TablesUnchanged DEF IInv

\* A statement that moves attempt a on within its transaction.
LEMMA MoveKeepsIInv ==
  ASSUME IInv, NEW a \in Attempts, pc[a] \notin {"committed", "over"},
         UNCHANGED <<runs, log, answer>>,
         NEW step \in Steps \ {"committed", "over"}, pc' = [pc EXCEPT ![a] = step],
         DOMAIN tail' = Attempts, lock' \in Attempts \union {NoOne},
         LockHeld', TailCurrent', RunsInFlight'
  PROVE  IInv'
<1>1. TypeOK'
  BY TablesUnchanged DEF IInv, TypeOK
<1>2. Unanswered' /\ WrittenByCommit'
  BY DEF IInv, TypeOK, Unanswered, WrittenByCommit, Wrote
<1>3. DuplicateOnlyIfRecorded' /\ AnswerTruthful'
  BY DEF IInv, TypeOK, DuplicateOnlyIfRecorded, AnswerTruthful
<1> QED
  BY <1>1, <1>2, <1>3, TablesUnchanged DEF IInv

LEMMA ConnectKeepsIInv ==
  ASSUME IInv, NEW a \in Attempts, Connect(a)
  PROVE  IInv'
<1>1. /\ pc[a] = "idle" /\ pc' = [pc EXCEPT ![a] = "open"]
      /\ UNCHANGED <<runs, log, lock, tail, answer>>
  BY DEF Connect
<1>2. LockHeld' /\ TailCurrent' /\ RunsInFlight'
  BY <1>1, TablesUnchanged DEF IInv, TypeOK, LockHeld, TailCurrent, RunsInFlight, RunInserted
<1> QED
  BY <1>1, <1>2, MoveKeepsIInv DEF IInv, TypeOK, Steps

LEMMA InsertRunKeepsIInv ==
  ASSUME IInv, NEW a \in Attempts, InsertRun(a)
  PROVE  IInv'
<1>1. /\ pc[a] = "open" /\ pc' = [pc EXCEPT ![a] = "run"]
      /\ RunFree(a) /\ RunOf[a] \notin CommittedRuns
      /\ UNCHANGED <<runs, log, lock, tail, answer>>
  BY DEF InsertRun
<1>2. LockHeld' /\ TailCurrent'
  BY <1>1, TablesUnchanged DEF IInv, TypeOK, LockHeld, TailCurrent
<1>3. RunInserted' = RunInserted \union {a}
  BY <1>1 DEF IInv, TypeOK, RunInserted
<1>4. RunsInFlight'
  BY <1>1, <1>3, TablesUnchanged DEF IInv, RunsInFlight, RunFree
<1> QED
  BY <1>1, <1>2, <1>4, MoveKeepsIInv DEF IInv, TypeOK, Steps

LEMMA TakeLockKeepsIInv ==
  ASSUME IInv, NEW a \in Attempts, TakeLock(a)
  PROVE  IInv'
<1>1. /\ pc[a] = "run" /\ pc' = [pc EXCEPT ![a] = "locked"]
      /\ lock = NoOne /\ lock' = a
      /\ UNCHANGED <<runs, log, tail, answer>>
  BY DEF TakeLock
<1>2. LockHeld'
  BY <1>1, NoOneAssumption DEF IInv, TypeOK, LockHeld
<1>3. TailCurrent'
  BY <1>1, TablesUnchanged DEF IInv, TypeOK, TailCurrent
<1>4. RunInserted' = RunInserted
  BY <1>1 DEF IInv, TypeOK, RunInserted
<1>5. RunsInFlight'
  BY <1>4, TablesUnchanged, <1>1 DEF IInv, RunsInFlight
<1> QED
  BY <1>1, <1>2, <1>3, <1>5, MoveKeepsIInv DEF IInv, TypeOK, Steps

LEMMA ReadTailKeepsIInv ==
  ASSUME IInv, NEW a \in Attempts, ReadTail(a)
  PROVE  IInv'
<1>1. /\ pc[a] = "locked" /\ pc' = [pc EXCEPT ![a] = "tail"]
      /\ tail' = [tail EXCEPT ![a] = LastRow(log)]
      /\ UNCHANGED <<runs, log, lock, answer>>
  BY DEF ReadTail
<1>2. LockHeld'
  BY <1>1 DEF IInv, TypeOK, LockHeld
<1>3. TailCurrent'
  BY <1>1, TablesUnchanged DEF IInv, TypeOK, TailCurrent
<1>4. RunInserted' = RunInserted
  BY <1>1 DEF IInv, TypeOK, RunInserted
<1>5. RunsInFlight'
  BY <1>4, TablesUnchanged, <1>1 DEF IInv, RunsInFlight
<1> QED
  BY <1>1, <1>2, <1>3, <1>5, MoveKeepsIInv DEF IInv, TypeOK, Steps

\* The entry an attempt computed under the lock is the next one of the log.
LEMMA EntryIsNext ==
  ASSUME IInv, NEW a \in Attempts, pc[a] \in {"tail", "entry"}
  PROVE  /\ EntryOf(a) = NextEntry(LastRow(log), Content(a))
         /\ EntryOf(a).seq = Len(log) + 1
         /\ EntryOf(a).content = Content(a)
         /\ Numbered(Append(log, EntryOf(a)))
         /\ Verify(Append(log, EntryOf(a)))
<1>1. EntryOf(a) = NextEntry(LastRow(log), Content(a))
  BY DEF EntryOf, IInv, TailCurrent
<1>2. IsLog(log) /\ Numbered(log) /\ Verify(log)
  BY DEF IInv, TypeOK, ChainIntact
<1> QED
  BY <1>1, <1>2, NextEntryKeepsChain

\* Its position is free, so the primary key of audit_log never refuses it.
LEMMA InsertEntryKeepsIInv ==
  ASSUME IInv, NEW a \in Attempts, InsertEntry(a)
  PROVE  IInv'
<1>1. pc[a] = "tail" /\ UNCHANGED <<runs, log>>
  BY DEF InsertEntry
<1>2. EntryOf(a).seq \notin CommittedSeqs
  <2>1. EntryOf(a).seq = Len(log) + 1
    BY <1>1, EntryIsNext
  <2>2. IsLog(log) /\ Numbered(log)
    BY DEF IInv, TypeOK
  <2> QED
    BY <2>1, <2>2, EmptyLog DEF CommittedSeqs, Numbered
<1>3. pc' = [pc EXCEPT ![a] = "entry"] /\ UNCHANGED <<lock, tail, answer>>
  BY <1>2 DEF InsertEntry
<1>4. LockHeld' /\ TailCurrent'
  BY <1>1, <1>3, TablesUnchanged DEF IInv, TypeOK, LockHeld, TailCurrent
<1>5. RunInserted' = RunInserted
  BY <1>1, <1>3 DEF IInv, TypeOK, RunInserted
<1>6. RunsInFlight'
  BY <1>5, <1>1, TablesUnchanged DEF IInv, RunsInFlight
<1> QED
  BY <1>1, <1>3, <1>4, <1>6, MoveKeepsIInv DEF IInv, TypeOK, Steps

LEMMA CommitKeepsIInv ==
  ASSUME IInv, NEW a \in Attempts, Commit(a)
  PROVE  IInv'
<1> DEFINE e == EntryOf(a)
           n == Len(log)
<1>1. /\ pc[a] = "entry"
      /\ runs' = runs \union {Content(a)}
      /\ log' = Append(log, e)
      /\ pc' = [pc EXCEPT ![a] = "committed"]
      /\ lock' = IF lock = a THEN NoOne ELSE lock
      /\ tail' = tail
      /\ answer' = answer
  BY DEF Commit
<1>2. /\ n \in Nat
      /\ IsLog(log')
      /\ Len(log') = n + 1
      /\ \A i \in 1..n : log'[i] = log[i]
      /\ log'[n + 1] = e
  BY <1>1, AppendIsLog DEF IInv, TypeOK
<1>3. e.seq = n + 1 /\ e.content = Content(a) /\ Numbered(log') /\ Verify(log')
  BY <1>1, EntryIsNext
<1>4. /\ Content(a) \in [run_id : Runs, trace_id : Attempts]
      /\ Content(a).run_id = RunOf[a]
      /\ Content(a).trace_id = a
  BY RunOfAssumption DEF Content
<1> HIDE DEF e, n
<1>5. TypeOK'
  <2>1. (\A i \in 1..Len(log) : /\ log[i].seq \in Nat \ {0}
                              /\ log[i].content \in [run_id : Runs, trace_id : Attempts])'
    BY <1>2, <1>3, <1>4 DEF IInv, TypeOK, n
  <2> QED
    BY <1>1, <1>2, <1>4, <2>1 DEF IInv, TypeOK, Steps, Answers
<1>6. Numbered(log)' /\ ChainIntact'
  BY <1>3 DEF ChainIntact
<1>7. RunsWithEvidence'
  <2>1. runs' = {log'[i].content : i \in 1..Len(log')}
    BY <1>1, <1>2, <1>3 DEF IInv, RunsWithEvidence, n
  <2>2. \A i \in 1..n : log'[i].content.run_id # RunOf[a]
    <3>1. RunOf[a] \notin CommittedRuns
      BY <1>1 DEF IInv, RunsInFlight, RunInserted
    <3> QED
      BY <3>1, <1>2 DEF IInv, RunsWithEvidence, CommittedRuns, n
  <2>3. log'[n + 1].content.run_id = RunOf[a]
    BY <1>2, <1>3, <1>4
  <2>4. \A i, j \in 1..n : log'[i].content.run_id = log'[j].content.run_id => i = j
    BY <1>2 DEF IInv, RunsWithEvidence, n
  <2>5. \A i, j \in 1..(n + 1) : log'[i].content.run_id = log'[j].content.run_id => i = j
    BY <2>2, <2>3, <2>4, <1>2
  <2> QED
    BY <2>1, <2>5, <1>2 DEF RunsWithEvidence
<1>8. LockHeld'
  BY <1>1, NoOneAssumption DEF IInv, TypeOK, LockHeld
<1>9. TailCurrent'
  <2>1. \A b \in Attempts : pc[b] \in {"tail", "entry"} => b = a
    BY <1>1 DEF IInv, LockHeld
  <2> QED
    BY <2>1, <1>1 DEF IInv, TypeOK, TailCurrent
<1>10. RunsInFlight'
  <2>1. RunInserted' = RunInserted \ {a} /\ a \in RunInserted
    BY <1>1 DEF IInv, TypeOK, RunInserted
  <2>2. CommittedRuns' = CommittedRuns \union {RunOf[a]}
    BY <1>1, <1>4 DEF CommittedRuns
  <2> QED
    BY <2>1, <2>2 DEF IInv, RunsInFlight
<1>11. \A b \in Attempts : Wrote(b)' <=> (b = a \/ Wrote(b))
  BY <1>2, <1>3, <1>4 DEF Wrote, n
<1>12. Unanswered' /\ WrittenByCommit'
  BY <1>1, <1>11 DEF IInv, TypeOK, Unanswered, WrittenByCommit
<1>13. EntriesOfAttempts'
  <2> SUFFICES ASSUME NEW i \in 1..Len(log')
               PROVE  log'[i].content = Content(log'[i].content.trace_id)
    BY DEF EntriesOfAttempts, Content
  <2>1. CASE i \in 1..n
    BY <2>1, <1>2 DEF IInv, EntriesOfAttempts, n
  <2>2. CASE i = n + 1
    BY <2>2, <1>2, <1>3, <1>4
  <2> QED
    BY <2>1, <2>2, <1>2
<1>14. DuplicateOnlyIfRecorded'
  <2> SUFFICES ASSUME NEW b \in Attempts, answer'[b] = "duplicate"
               PROVE  \E i \in 1..Len(log') : /\ log'[i].content.run_id = RunOf[b]
                                             /\ log'[i].content.trace_id # b
    BY DEF DuplicateOnlyIfRecorded
  <2>1. answer[b] = "duplicate"
    BY <1>1 DEF IInv, TypeOK
  <2>2. PICK i \in 1..n : log[i].content.run_id = RunOf[b] /\ log[i].content.trace_id # b
    BY <2>1 DEF IInv, DuplicateOnlyIfRecorded, n
  <2> QED
    BY <2>2, <1>2
<1>15. AnswerTruthful'
  <2>1. answer[a] = "none"
    BY <1>1 DEF IInv, Unanswered
  <2> QED
    BY <2>1, <1>1, <1>11 DEF IInv, AnswerTruthful, Wrote
<1> QED
  BY <1>5, <1>6, <1>7, <1>8, <1>9, <1>10, <1>12, <1>13, <1>14, <1>15 DEF IInv

LEMMA CrashKeepsIInv ==
  ASSUME IInv, Crash
  PROVE  IInv'
<1>1. /\ pc' = [a \in Attempts |-> IF a \in InFlight THEN "over" ELSE pc[a]]
      /\ answer' = [a \in Attempts |-> IF a \in InFlight THEN "lost" ELSE answer[a]]
      /\ lock' = NoOne
      /\ tail' = [a \in Attempts |-> <<>>]
      /\ UNCHANGED <<runs, log>>
  BY DEF Crash
<1>2. \A a \in Attempts : pc'[a] \in {"idle", "over"}
  BY <1>1 DEF IInv, TypeOK, InFlight
<1>3. TypeOK'
  BY <1>1, TablesUnchanged DEF IInv, TypeOK, Steps, Answers
<1>4. LockHeld' /\ TailCurrent' /\ RunsInFlight'
  BY <1>1, <1>2, NoOneAssumption DEF LockHeld, TailCurrent, RunsInFlight, RunInserted
<1>6. Unanswered' /\ WrittenByCommit'
  BY <1>1, <1>2 DEF IInv, Unanswered, WrittenByCommit, Wrote, InFlight
<1>7. DuplicateOnlyIfRecorded'
  BY <1>1 DEF IInv, DuplicateOnlyIfRecorded
<1>8. AnswerTruthful'
  BY <1>1 DEF IInv, AnswerTruthful
<1> QED
  BY <1>3, <1>4, <1>6, <1>7, <1>8, <1>1, TablesUnchanged DEF IInv

LEMMA StutterKeepsIInv ==
  ASSUME IInv, UNCHANGED vars
  PROVE  IInv'
<1>1. UNCHANGED <<runs, log>> /\ UNCHANGED <<lock, pc, tail, answer>>
  BY DEF vars
<1>2. TypeOK'
  BY <1>1, TablesUnchanged DEF IInv, TypeOK
<1>3. LockHeld' /\ TailCurrent' /\ RunsInFlight'
  BY <1>1, TablesUnchanged DEF IInv, LockHeld, TailCurrent, RunsInFlight, RunInserted
<1>4. Unanswered' /\ WrittenByCommit' /\ DuplicateOnlyIfRecorded' /\ AnswerTruthful'
  BY <1>1 DEF IInv, Unanswered, WrittenByCommit, Wrote, DuplicateOnlyIfRecorded, AnswerTruthful
<1> QED
  BY <1>1, <1>2, <1>3, <1>4, TablesUnchanged DEF IInv

LEMMA NextKeepsIInv == IInv /\ [Next]_vars => IInv'
<1> SUFFICES ASSUME IInv, [Next]_vars PROVE IInv'
  OBVIOUS
<1>1. ASSUME NEW a \in Attempts, Connect(a) PROVE IInv'
  BY <1>1, ConnectKeepsIInv
<1>2. ASSUME NEW a \in Attempts, ConnectFails(a) PROVE IInv'
  BY <1>2, EndKeepsIInv DEF ConnectFails
<1>3. ASSUME NEW a \in Attempts, InsertRun(a) PROVE IInv'
  BY <1>3, InsertRunKeepsIInv
<1>4. ASSUME NEW a \in Attempts, DuplicateRun(a) PROVE IInv'
  <2>1. pc[a] = "open" /\ RunOf[a] \in CommittedRuns /\ End(a, "duplicate")
        /\ UNCHANGED <<runs, log>>
    BY <1>4 DEF DuplicateRun
  <2>2. \E i \in 1..Len(log) : log[i].content.run_id = RunOf[a]
    BY <2>1 DEF IInv, RunsWithEvidence, CommittedRuns
  <2> QED
    BY <2>1, <2>2, EndKeepsIInv
<1>5. ASSUME NEW a \in Attempts, TakeLock(a) PROVE IInv'
  BY <1>5, TakeLockKeepsIInv
<1>6. ASSUME NEW a \in Attempts, ReadTail(a) PROVE IInv'
  BY <1>6, ReadTailKeepsIInv
<1>7. ASSUME NEW a \in Attempts, InsertEntry(a) PROVE IInv'
  BY <1>7, InsertEntryKeepsIInv
<1>8. ASSUME NEW a \in Attempts, Commit(a) PROVE IInv'
  BY <1>8, CommitKeepsIInv
<1>9. ASSUME NEW a \in Attempts, Answer(a) PROVE IInv'
  BY <1>9, EndKeepsIInv DEF Answer
<1>10. ASSUME NEW a \in Attempts, LoseConnection(a) PROVE IInv'
  BY <1>10, EndKeepsIInv DEF LoseConnection
<1>11. CASE Crash
  BY <1>11, CrashKeepsIInv
<1>12. CASE UNCHANGED vars
  BY <1>12, StutterKeepsIInv
<1> QED
  BY <1>1, <1>2, <1>3, <1>4, <1>5, <1>6, <1>7, <1>8, <1>9, <1>10, <1>11, <1>12
     DEF Next, Progress, Finished

-----------------------------------------------------------------------------

THEOREM Inductive == Spec => []IInv
  BY InitIInv, NextKeepsIInv, PTL DEF Spec

\* Types hold for any number of attempts and runs.
THEOREM TypeCorrect == Spec => []TypeOK
<1>1. IInv => TypeOK
  BY DEF IInv
<1> QED
  BY <1>1, Inductive, PTL

\* The audit log verifies after every interleaving of any number of concurrent
\* transactions, lost connections and crashes.
THEOREM ChainNeverForks == Spec => []ChainIntact
<1>1. IInv => ChainIntact
  BY DEF IInv
<1> QED
  BY <1>1, Inductive, PTL

\* The runs recorded and the entries of the log are the same, one for one.
THEOREM NoRunWithoutEvidence == Spec => []RunsWithEvidence
<1>1. IInv => RunsWithEvidence
  BY DEF IInv
<1> QED
  BY <1>1, Inductive, PTL

\* Contention never shows as a UniqueViolation: only a run recorded before does.
THEOREM NoFalseDuplicate == Spec => []DuplicateOnlyIfRecorded
<1>1. IInv => DuplicateOnlyIfRecorded
  BY DEF IInv
<1> QED
  BY <1>1, Inductive, PTL

\* What a caller of the store was told of its attempt is true of the log: the
\* entry is there after a return, and is not after an Unavailable or a duplicate.
THEOREM AnswersAreTrue == Spec => []AnswerTruthful
<1>1. IInv => AnswerTruthful
  BY DEF IInv
<1> QED
  BY <1>1, Inductive, PTL

-----------------------------------------------------------------------------

\* Every commit is one Record of the abstract log; nothing else touches it.
LEMMA CommitIsRecord ==
  ASSUME IInv, NEW a \in Attempts, Commit(a)
  PROVE  Promise!Record(Content(a))
<1>1. /\ pc[a] = "entry"
      /\ runs' = runs \union {Content(a)}
      /\ log' = Append(log, EntryOf(a))
  BY DEF Commit
<1>2. EntryOf(a) = NextEntry(LastRow(log), Content(a))
  BY <1>1, EntryIsNext
<1>3. RunOf[a] \notin CommittedRuns
  BY <1>1 DEF IInv, RunsInFlight, RunInserted
<1>4. \A row \in runs : row.run_id # Content(a).run_id
  BY <1>3 DEF CommittedRuns, Content
<1> QED
  BY <1>1, <1>2, <1>4 DEF Promise!Record, Promise!NextEntry, Promise!LastRow, Promise!Linked,
     Promise!Continues, Promise!Digest, Promise!GENESIS, NextEntry, LastRow, Linked, Continues,
     Digest, GENESIS

\* The transactions of the store implement the atomic record of docs/adr/0005.
THEOREM StoreKeepsPromise == Spec => RecordsAtomically
<1>1. Init => Promise!Init
  BY DEF Init, Promise!Init
<1>2. IInv /\ [Next]_vars => [Promise!Next]_(Promise!vars)
  <2> SUFFICES ASSUME IInv, [Next]_vars PROVE Promise!Next \/ UNCHANGED <<runs, log>>
    BY DEF Promise!vars
  <2>1. ASSUME NEW a \in Attempts, Commit(a) PROVE Promise!Next
    BY <2>1, CommitIsRecord DEF Promise!Next
  <2>2. ASSUME NEW a \in Attempts,
               Connect(a) \/ ConnectFails(a) \/ InsertRun(a) \/ DuplicateRun(a) \/ TakeLock(a)
               \/ ReadTail(a) \/ InsertEntry(a) \/ Answer(a) \/ LoseConnection(a)
        PROVE  UNCHANGED <<runs, log>>
    BY <2>2 DEF Connect, ConnectFails, InsertRun, DuplicateRun, TakeLock, ReadTail, InsertEntry,
                Answer, LoseConnection
  <2>3. CASE Crash \/ UNCHANGED vars
    BY <2>3 DEF Crash, vars
  <2> QED
    BY <2>1, <2>2, <2>3 DEF Next, Progress, Finished
<1> QED
  BY <1>1, <1>2, Inductive, PTL DEF Spec, RecordsAtomically, Promise!Spec
=============================================================================
