---------------------------- MODULE RunLifecycle ----------------------------
(***************************************************************************)
(* What the backend promises about one row of the table `runs`: the        *)
(* statuses it goes through (app/services/runs/lifecycle.py), and that the *)
(* terminal event and the assistant message appear together with the       *)
(* terminal status, never before it and never twice.                       *)
(*                                                                         *)
(* This is the specification clients rely on.  Nothing of how a worker     *)
(* gets a run there (leases, sinks, Redis, recovery) is visible here;      *)
(* RunExecution is shown to implement it.                                  *)
(***************************************************************************)
EXTENDS RunStatuses

VARIABLES
  status,     \* runs.status, "none" before the row is inserted
  terminals,  \* the types of the terminal rows of run_events
  message     \* TRUE once the assistant message of the run exists

vars == <<status, terminals, message>>

Init == /\ status = "none"
        /\ terminals = {}
        /\ message = FALSE

Move(from, to) == /\ status \in from
                  /\ status' = to
                  /\ UNCHANGED <<terminals, message>>

Submit        == Move({"none"}, "queued")
Claim         == Move({"queued"}, "started")
Stream        == Move({"started"}, "streaming")
RequestCancel == Move({"started", "streaming"}, "cancelling")

(* A terminal status, its event, and the assistant message exactly when the *)
(* run succeeded: one transaction.                                          *)
Finish(from, to) == /\ status \in from
                    /\ status' = to
                    /\ terminals' = {TerminalType(to)}
                    /\ message' = (to = "succeeded")

Succeed == Finish(SucceededFrom, "succeeded")
Fail    == Finish(FailedFrom, "failed")
Cancel  == Finish(CancelledFrom, "cancelled")

Next == \/ Submit \/ Claim \/ Stream \/ RequestCancel
        \/ Succeed \/ Fail \/ Cancel

(* A cancel that was accepted is carried out: the run does not stay         *)
(* `cancelling` for ever.                                                   *)
Settle == status = "cancelling" /\ (Fail \/ Cancel)

Safety == Init /\ [][Next]_vars
Spec == Safety /\ WF_vars(Settle)
=============================================================================
