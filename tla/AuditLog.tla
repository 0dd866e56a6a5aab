------------------------------ MODULE AuditLog ------------------------------
(***************************************************************************)
(* What the triage store promises (triage/store.py, docs/adr/0005): a run  *)
(* and the audit entry that is its evidence are recorded in one step, each *)
(* run once, and the entry is linked onto the chain the log already is.    *)
(***************************************************************************)
EXTENDS AuditChain

CONSTANT Contents    \* what an entry may record: the run it is for, and the rest

VARIABLES recorded,  \* the runs recorded, each with what was recorded of it
          log        \* the audit log, oldest entry first

vars == <<recorded, log>>

Init == recorded = {} /\ log = <<>>

Record(content) ==
  /\ \A other \in recorded : other.run_id # content.run_id
  /\ recorded' = recorded \union {content}
  /\ log' = Append(log, NextEntry(LastRow(log), content))

Next == \E content \in Contents : Record(content)

Spec == Init /\ [][Next]_vars
=============================================================================
