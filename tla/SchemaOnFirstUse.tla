-------------------------- MODULE SchemaOnFirstUse --------------------------
(***************************************************************************)
(* How each store applies its schema (_apply_schema in triage/store.py and *)
(* core_sim/store.py): the first call to open a connection runs the CREATE *)
(* TABLE statements in the transaction of that call, under a lock of the   *)
(* process, and sets a flag of the process; later calls see the flag and   *)
(* go straight to their own statements.  Several processes may serve one   *)
(* database: a second one, or the successor of one that was killed while   *)
(* Postgres still ran its transaction.                                     *)
(***************************************************************************)
CONSTANTS Calls,            \* the threads that call a store
          Processes,        \* the processes of the service
          ProcessOf(_),     \* whose thread a call is
          NoOne             \* a lock is free

ASSUME NoOneAssumption == NoOne \notin Calls
ASSUME ProcessOfAssumption == \A c \in Calls : ProcessOf(c) \in Processes

VARIABLES applied,  \* the processes whose _schema_applied is set
          lock,     \* who holds each process's _schema_lock
          tables,   \* whether the tables are committed
          created,  \* the calls whose open transaction created them
          pc,       \* where each call has got to
          answer,   \* how its last call ended
          undone    \* history: the processes that lost the tables they created

schemaVars == <<applied, lock, tables, created, pc, answer, undone>>

\* Out of a call, connected, holding the lock and looking for the tables, having
\* found none and inserting them in the catalog, with the schema behind it, or
\* with its own statements executed.
CallSteps == {"out", "connected", "locked", "inserting", "ready", "executed"}

\* "failed" is a refusal or an error of the call itself or of its connection;
\* "clash" the UniqueViolation of the catalog's index; "undefined table" what
\* Postgres answers a statement without its tables.
Answers == {"none", "done", "failed", "clash", "undefined table"}

SchemaInit ==
  /\ applied = {}
  /\ lock = [p \in Processes |-> NoOne]
  /\ tables = FALSE
  /\ created = {}
  /\ pc = [c \in Calls |-> "out"]
  /\ answer = [c \in Calls |-> "none"]
  /\ undone = {}

Goto(c, step) == pc' = [pc EXCEPT ![c] = step]

\* The call ends and its transaction with it.
End(c, how) ==
  /\ Goto(c, "out")
  /\ answer' = [answer EXCEPT ![c] = how]
  /\ created' = created \ {c}

\* Tables that were created and not committed are gone with their transaction.
Undo(c) == undone' = IF c \in created THEN undone \union {ProcessOf(c)} ELSE undone

Release(c) == lock' = [lock EXCEPT ![ProcessOf(c)] = NoOne]

\* A connection is opened; _apply_schema returns at once if the flag is set.
Connect(c) ==
  /\ pc[c] = "out"
  /\ Goto(c, IF ProcessOf(c) \in applied THEN "ready" ELSE "connected")
  /\ UNCHANGED <<applied, lock, tables, created, answer, undone>>

TakeLock(c) ==
  /\ pc[c] = "connected"
  /\ lock[ProcessOf(c)] = NoOne
  /\ lock' = [lock EXCEPT ![ProcessOf(c)] = c]
  /\ Goto(c, "locked")
  /\ UNCHANGED <<applied, tables, created, answer, undone>>

\* The flag is read again, and IF NOT EXISTS looks for committed tables: found
\* none, it goes on to create them.
\* Mutant: the flag is read before the lock only.
LookUnchecked(c) ==
  /\ pc[c] = "locked"
  /\ IF tables
     THEN /\ applied' = applied \union {ProcessOf(c)}
          /\ Release(c)
          /\ Goto(c, "ready")
     ELSE Goto(c, "inserting") /\ UNCHANGED <<applied, lock>>
  /\ UNCHANGED <<tables, created, answer, undone>>

Look(c) ==
  /\ pc[c] = "locked"
  /\ IF ProcessOf(c) \in applied \/ tables
     THEN /\ applied' = applied \union {ProcessOf(c)}
          /\ Release(c)
          /\ Goto(c, "ready")
     ELSE Goto(c, "inserting") /\ UNCHANGED <<applied, lock>>
  /\ UNCHANGED <<tables, created, answer, undone>>

\* The catalog's unique index makes a second creator wait for the first one's
\* transaction.  The flag is set and the lock released, the transaction still open.
\* Mutant: the tables another process is creating are taken for created.
CreateUnlessCreated(c) ==
  /\ pc[c] = "inserting"
  /\ ~ tables
  /\ created' = IF created = {} THEN {c} ELSE created
  /\ applied' = applied \union {ProcessOf(c)}
  /\ Release(c)
  /\ Goto(c, "ready")
  /\ UNCHANGED <<tables, answer, undone>>

Create(c) ==
  /\ pc[c] = "inserting"
  /\ ~ tables
  /\ created = {}
  /\ created' = {c}
  /\ applied' = applied \union {ProcessOf(c)}
  /\ Release(c)
  /\ Goto(c, "ready")
  /\ UNCHANGED <<tables, answer, undone>>

\* The other creator committed since: the statement fails with the call, the flag
\* not set, and a later call will find the tables.
Clash(c) ==
  /\ pc[c] = "inserting"
  /\ tables
  /\ End(c, "clash")
  /\ Release(c)
  /\ UNCHANGED <<applied, tables, undone>>

\* A statement of the schema fails: the lock is released, the flag stays.
\* Mutant: the lock is released at the end of _apply_schema only.
ApplyFailsLocked(c) ==
  /\ pc[c] \in {"locked", "inserting"}
  /\ End(c, "failed")
  /\ UNCHANGED <<applied, lock, tables, undone>>

ApplyFails(c) ==
  /\ pc[c] \in {"locked", "inserting"}
  /\ End(c, "failed")
  /\ Release(c)
  /\ UNCHANGED <<applied, tables, undone>>

\* The call's own statements: they see committed tables and their own.
Execute(c) ==
  /\ pc[c] = "ready"
  /\ IF tables \/ c \in created
     THEN Goto(c, "executed") /\ UNCHANGED <<created, answer>>
     ELSE End(c, "undefined table")
  /\ UNCHANGED <<applied, lock, tables, undone>>

\* ready() executes SELECT 1, which needs no table.
Probe(c) ==
  /\ pc[c] = "ready"
  /\ Goto(c, "executed")
  /\ UNCHANGED <<applied, lock, tables, created, answer, undone>>

\* On leaving `with connection`, the transaction commits, the tables with it.
Commit(c) ==
  /\ pc[c] = "executed"
  /\ tables' = (tables \/ c \in created)
  /\ End(c, "done")
  /\ UNCHANGED <<applied, lock, undone>>

\* An exception leaves `with connection`, a refusal or a failure, or the
\* connection is lost: the transaction rolls back, the flag does not.
RollBack(c) ==
  /\ pc[c] \in {"connected", "ready", "executed"}
  /\ End(c, "failed")
  /\ Undo(c)
  /\ UNCHANGED <<applied, lock, tables>>

\* A process restarts: its flag and lock are new, its transactions roll back.
Restart(p) ==
  /\ applied' = applied \ {p}
  /\ lock' = [lock EXCEPT ![p] = NoOne]
  /\ created' = {c \in created : ProcessOf(c) # p}
  /\ pc' = [c \in Calls |-> IF ProcessOf(c) = p THEN "out" ELSE pc[c]]
  /\ undone' = undone \ {p}
  /\ UNCHANGED <<tables, answer>>

SchemaNext ==
  \/ \E c \in Calls :
       \/ Connect(c)
       \/ TakeLock(c)
       \/ Look(c)
       \/ Create(c)
       \/ Clash(c)
       \/ ApplyFails(c)
       \/ Execute(c)
       \/ Probe(c)
       \/ Commit(c)
       \/ RollBack(c)
  \/ \E p \in Processes : Restart(p)

SchemaSpec == SchemaInit /\ [][SchemaNext]_schemaVars

(***************************************************************************)
(* A thread in a call goes on; a thread waiting for the lock, or new calls *)
(* that come in, are not passed over for ever.  Nothing is fair to a       *)
(* creator that waits for another's transaction: it goes on when that one  *)
(* has ended.                                                              *)
(***************************************************************************)
SchemaFairness ==
  \A c \in Calls :
    /\ WF_schemaVars(Connect(c))
    /\ SF_schemaVars(TakeLock(c))
    /\ WF_schemaVars(Look(c))
    /\ SF_schemaVars(Create(c) \/ Clash(c))
    /\ WF_schemaVars(Execute(c) \/ Probe(c))
    /\ WF_schemaVars(Commit(c))

SchemaFairSpec == SchemaSpec /\ SchemaFairness

\* And a call that gets as far as its commit does not fail there every time, nor
\* does every schema statement.
HealthySpec ==
  SchemaFairSpec /\ \A c \in Calls : SF_schemaVars(Execute(c)) /\ SF_schemaVars(Commit(c)) /\ SF_schemaVars(Look(c))

-----------------------------------------------------------------------------

\* Types: the lock is held by the call inside it, and only a call past it created
\* tables.
TypeOK ==
  /\ applied \subseteq Processes
  /\ tables \in BOOLEAN
  /\ lock \in [Processes -> Calls \union {NoOne}]
  /\ \A c \in Calls : pc[c] \in {"locked", "inserting"} => lock[ProcessOf(c)] = c
  /\ created \subseteq {c \in Calls : pc[c] \in {"ready", "executed"}}
  /\ pc \in [Calls -> CallSteps]
  /\ answer \in [Calls -> Answers]
  /\ undone \subseteq Processes

\* A thread never creates the tables, or waits in Postgres to, while another thread
\* of its own process has created them and not committed: it would wait with the
\* process's lock in hand, and then fail on its sibling's tables.
NoThreadWaitsForItsSibling ==
  \A c \in Calls, d \in created :
    ProcessOf(c) = ProcessOf(d) /\ c # d => pc[c] # "inserting"

\* A process that holds the schema for applied before it is there is the one whose
\* transaction is creating it, or whose transaction was rolled back after: what
\* another process does, or fails to do, never misleads it.  So a call answered
\* "undefined table" is only ever a sibling of the creator's.
OnlyItsOwnCreatorMisleads ==
  \A p \in Processes :
    p \in applied /\ ~ tables => p \in undone \/ \E c \in created : ProcessOf(c) = p

\* Whatever fails while the schema is applied, no call waits for ever, neither for
\* its process's lock nor for another process's transaction.
EveryCallEnds == \A c \in Calls : pc[c] \in {"connected", "inserting"} ~> pc[c] = "out"

\* The schema is applied "on the first connection that succeeds"
\* (core_sim/store.py:13): once a process holds it for applied, it is there.
AppliedIsThere == \A p \in Processes : p \in applied ~> tables
=============================================================================
