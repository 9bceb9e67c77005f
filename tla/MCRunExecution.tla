--------------------------- MODULE MCRunExecution ---------------------------
(***************************************************************************)
(* RunExecution for TLC: the bounds are in the .cfg files.  Besides the    *)
(* properties of RunExecution, this module states two sentences of the     *)
(* documentation that the code does not keep.                              *)
(***************************************************************************)
EXTENDS RunExecution

(* docs/architecture/overview.md, the state machine of a run: `cancelled`  *)
(* is reached from `queued` by a cancel, or from `cancelling`.  But the    *)
(* executor also stops on a failed heartbeat, and _finalize_result then    *)
(* cancels a run nobody asked to cancel (CANCELLED_FROM_STATUSES).         *)
CancelledOnlyWhenAsked == status = "cancelled" => asked

(* CONTEXT.md: stream entries and PostgreSQL events share one seq.  But an *)
(* executor that recovery takes for dead goes on numbering its own events. *)
SeqNamesOneEvent ==
  \A e \in events, x \in stream : e.seq = x.seq => e = x
=============================================================================
