------------------------------ MODULE MCRunSse ------------------------------
(***************************************************************************)
(* RunSse for TLC, and four sentences of the documentation that the code   *)
(* does not keep.                                                          *)
(***************************************************************************)
EXTENDS RunSse

(* docs/architecture/overview.md: the stream is closed after a terminal    *)
(* event was received.  But the run may end between the read of run_events *)
(* and run_has_terminal_event, and then the stream ends without it.        *)
ClosedAfterTerminal ==
  healthy /\ pc = "closed" /\ after < TerminalSeq => terminal

(* README.md: the stream merges PostgreSQL and Redis and removes           *)
(* duplicates by seq.  But a client that starts from 0 after the first     *)
(* checkpoint gets the letters from Redis and the whole snapshot as well.  *)
NoLetterTwice == Increasing(shown)

(* docs/archive/scratch/agent-runtime-refactor/PRD.md: reconnecting loses  *)
(* nothing.  But the loop asks Redis first and PostgreSQL second: a tool   *)
(* call that lands in between moves the cursor past deltas nobody sent.    *)
NothingSkipped ==
  healthy /\ after > 0 /\ Connected => Deltas(1..cursor) \subseteq Range(shown)

(* docs/architecture/overview.md: without Redis the cumulative snapshot of *)
(* the draft is turned into deltas.  But only its newest events are sent,  *)
(* whenever it has one that the client lacks.  (Stated for a run without   *)
(* tool calls, of which Redis knows nothing.)                              *)
FallbackComplete ==
  /\ stream = {} /\ events = {} /\ pc = "check"
  /\ draft > 0 /\ cursor = draft
  => Deltas(1..draft) \subseteq Range(shown)
=============================================================================
