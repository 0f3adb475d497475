------------------------------- MODULE MCTasks -------------------------------
(***************************************************************************)
(* Instances of Tasks for TLC: two tasks for alice and one for nobody.     *)
(***************************************************************************)
EXTENDS Tasks, TLC

CONSTANTS r1, r2, r3, alice

ForAliceTwice == [r \in Request |-> IF r = r3 THEN Empty ELSE alice]

-----------------------------------------------------------------------------
\* What the documentation says and the code does not do.

\* model.go:119-120, "If not, task is marked Status = "unassigned" instead of
\* erroring", and :153, "degrade gracefully so offline op still persists": a
\* task that the hook has marked is stored, if nothing fails.
UnassignedPersists ==
  \A r \in Request :
    step[r] = "answered" /\ task[r].status = "unassigned" /\ failures = 0 =>
      row[r] = task[r]
=============================================================================
