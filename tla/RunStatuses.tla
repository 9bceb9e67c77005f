----------------------------- MODULE RunStatuses ----------------------------
(* The statuses of a run and the event types that report the terminal ones *)
(* (app/services/runs/lifecycle.py, app/services/runs/service.py).         *)

TerminalStatuses   == {"succeeded", "failed", "cancelled"}
RenewableStatuses  == {"started", "streaming", "cancelling"}
SucceededFrom      == {"started", "streaming"}
FailedFrom         == {"started", "streaming", "cancelling"}
CancelledFrom      == {"queued", "started", "streaming", "cancelling"}

(* "none": the row has not been inserted yet.                              *)
Statuses == {"none", "queued"} \cup RenewableStatuses \cup TerminalStatuses

TerminalType(s) == CASE s = "succeeded" -> "run_succeeded"
                     [] s = "failed"    -> "run_failed"
                     [] s = "cancelled" -> "run_cancelled"
                     [] OTHER           -> "none"

TerminalTypes == {"run_succeeded", "run_failed", "run_cancelled"}
=============================================================================
