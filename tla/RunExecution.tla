---------------------------- MODULE RunExecution ----------------------------
(***************************************************************************)
(* One run, from the row a request inserts to its terminal event, with     *)
(* everything that touches it concurrently:                                *)
(*   - the executor of the worker that claimed it (app/worker/executor.py) *)
(*     and its three event sinks, which one asyncio.gather runs at once    *)
(*     (app/worker/event_sink.py);                                         *)
(*   - its heartbeat task and the Redis cancel hint;                       *)
(*   - the cancel endpoint (app/api/v1/runs.py);                           *)
(*   - the recovery loop of any worker (app/worker/main.py), which fails a *)
(*     run whose lease expired, whether its executor is dead or just slow. *)
(*                                                                         *)
(* A run is claimed at most once (nothing puts a row back to "queued"), so *)
(* one run has one executor, and the executor's locals are variables.      *)
(* Many runs and workers are the subject of WorkerPool.                    *)
(*                                                                         *)
(* Every action is one PostgreSQL transaction, one Redis command or one    *)
(* uninterrupted stretch of a coroutine.  A transaction that locks the row *)
(* of the run waits while recovery holds it (RowFree).  What can fail (a    *)
(* transaction, a Redis command, a worker process) fails at most MaxFaults  *)
(* times; Redis may always be unreachable for the recovery loop.            *)
(***************************************************************************)
EXTENDS Integers, FiniteSetsExt, RunStatuses

CONSTANTS
  MaxSeq,     \* bound on the seq the agent reaches in this run
  MaxPending, \* draft_checkpoint_max_pending_chars, in deltas of one char
  Gap,        \* uncertain_stream_seq_gap = 2 * run_stream_maxlen
  MaxFaults   \* bound on failing transactions and worker crashes

ASSUME BoundAssumption == /\ MaxSeq \in Nat \ {0}
                          /\ MaxPending \in Nat \ {0}
                          /\ MaxFaults \in Nat

(* The defaults are equal: 2 * 2048 = 4096.  Nothing in the settings        *)
(* enforces it.                                                             *)
ASSUME GapAssumption == Gap \in Nat /\ Gap >= MaxPending

VARIABLES
  \* PostgreSQL
  status,    \* runs.status
  lease,     \* lease_owner/lease_expires_at: "none", "live" or "expired"
  events,    \* run_events: set of [seq, type]
  draft,     \* run_drafts.seq, 0 when there is no row
  message,   \* the assistant message has been materialised
  \* Redis
  stream,    \* the stream of the run: set of [seq, type]
  hint,      \* a cancel hint is in flight on the pub/sub channel
  \* execute_run
  pc,        \* where the executor is
  seq,       \* FanoutSink._latest_seq, the seq of the last emitted event
  kind,      \* type of the last emitted event, "none" before the first
  sinks,     \* sinks that have not finished emitting it
  cancel,    \* the asyncio.Event
  heartbeat, \* the heartbeat task runs
  outcome,   \* status of _StreamOutcome
  terminal,  \* the terminal event this executor wrote, to be published
  \* PostgresEventSink, DraftCheckpointSink
  streamingStarted,  \* _streaming_started
  pending,   \* deltas buffered since the last checkpoint
  latest,    \* _latest_seq: seq of the last buffered delta
  bgError,   \* _background_error is set
  \* recovery loop, cancel endpoint
  recovery,  \* "idle", "read" (row locked) or "committed"
  recSeq,    \* the terminal seq recovery computed
  api,       \* the cancel endpoint: "idle" or "committed"
  \* history
  asked,     \* a user asked to cancel the run while it was active
  zombie,    \* recovery failed the run while its executor was running
  faults     \* faults left

pg   == <<status, lease, events, draft, message>>
redis == <<stream, hint>>
exec == <<pc, seq, kind, sinks, cancel, heartbeat, outcome, terminal>>
sink == <<streamingStarted, pending, latest, bgError>>
rec  == <<recovery, recSeq>>
hist == <<asked, zombie, faults>>
vars == <<pg, redis, exec, sink, rec, api, hist>>

-----------------------------------------------------------------------------
Event == [seq : Nat, type : {"run_started", "delta", "tool"} \cup TerminalTypes]
Ev(n, t) == [seq |-> n, type |-> t]

(* Seqs in use.  get_next_run_event_seq - 1 looks at PostgreSQL only.       *)
LastSeq(es) == IF es = {} THEN 0 ELSE Max({e.seq : e \in es})
DurableSeq == IF LastSeq(events) > draft THEN LastSeq(events) ELSE draft

(* Something fails: a transaction, a command, a process.                    *)
Fault == faults > 0 /\ faults' = faults - 1 /\ UNCHANGED <<asked, zombie>>

(* RedisRunEventStream.append: XADD with id "<seq>-0".  An id that is not   *)
(* larger than the last one is refused; the refusal is swallowed by append  *)
(* or logged by its caller, so it changes nothing either way.               *)
XAdd(s, e) == IF e.seq > LastSeq(s) THEN s \cup {e} ELSE s

(* Best-effort append: the command takes effect, or it is dropped.          *)
Append(e) == \/ stream' = XAdd(stream, e) /\ UNCHANGED hist
             \/ Fault /\ UNCHANGED stream

(* run_events has UNIQUE (run_id, seq).                                     *)
SeqFree(n) == \A e \in events : e.seq # n

(* Recovery locks the row FOR UPDATE from its read to its commit.           *)
RowFree == recovery # "read"

(* The upsert of a draft updates a row in place; inserting one waits for    *)
(* the lock on the run, through the foreign key.                            *)
DraftFree == RowFree \/ draft > 0

(* The statuses a run can still leave, and an executor that still runs.     *)
Active   == status \in RenewableStatuses
Terminal == status \in TerminalStatuses
Running  == pc \notin {"none", "done", "crashed"}

(* A terminal status, its event and the end of the lease.                   *)
SetTerminal(s, n) == /\ SeqFree(n)
                     /\ status' = s
                     /\ lease' = "none"
                     /\ events' = events \cup {Ev(n, TerminalType(s))}

Init == /\ status = "none" /\ lease = "none"
        /\ events = {} /\ draft = 0 /\ message = FALSE
        /\ stream = {} /\ hint = FALSE
        /\ pc = "none" /\ seq = 0 /\ kind = "none" /\ sinks = {}
        /\ cancel = FALSE /\ heartbeat = FALSE
        /\ outcome = "none" /\ terminal = "none"
        /\ streamingStarted = FALSE /\ pending = 0 /\ latest = 0
        /\ bgError = FALSE
        /\ recovery = "idle" /\ recSeq = 0 /\ api = "idle"
        /\ asked = FALSE /\ zombie = FALSE /\ faults = MaxFaults

-----------------------------------------------------------------------------
(* Requests.                                                                *)

(* submit_message & co. insert the row; WorkerPool models the wake-up.      *)
CreateRun ==
  /\ status = "none"
  /\ status' = "queued"
  /\ UNCHANGED <<lease, events, draft, message, redis, exec, sink, rec, api, hist>>

(* Mutant: a queued run is asked to cancel like a started one.              *)
CancelQueuedLikeStarted ==
  /\ api = "idle" /\ RowFree
  /\ status \in {"queued", "started", "streaming"}
  /\ status' = "cancelling"
  /\ asked' = TRUE
  /\ api' = "committed"
  /\ UNCHANGED <<lease, events, draft, message, redis, exec, sink, rec, zombie,
                 faults>>

(* cancel_owned_run, and the commit of the endpoint.                        *)
CancelOwnedRun ==
  /\ api = "idle" /\ status # "none" /\ RowFree
  /\ \/ /\ status = "queued"
        /\ SetTerminal("cancelled", DurableSeq + 1)
        /\ asked' = TRUE
     \/ /\ status \in {"started", "streaming"}
        /\ status' = "cancelling"
        /\ asked' = TRUE
        /\ UNCHANGED <<lease, events>>
     \/ /\ status \in {"cancelling"} \cup TerminalStatuses
        /\ UNCHANGED <<status, lease, events, asked>>
  /\ api' = "committed"
  /\ UNCHANGED <<draft, message, redis, exec, sink, rec, zombie, faults>>

(* The rest of cancel_run_route: the hint if the run is cancelling now, and *)
(* the terminal event, if any, once more to Redis.                          *)
CancelRunRoutePublish ==
  /\ api = "committed"
  /\ api' = "idle"
  /\ hint' \in (IF status = "cancelling" THEN {hint, TRUE} ELSE {hint})
  /\ IF Terminal
     THEN \E e \in events : e.type \in TerminalTypes /\ Append(e)
     ELSE UNCHANGED <<stream, hist>>
  /\ UNCHANGED <<pg, exec, sink, rec>>

(* RunCancelListener: the hint reaches a registered run, or nobody.         *)
CancelHint ==
  /\ hint
  /\ hint' = FALSE
  /\ cancel' = (cancel \/ /\ outcome # "build_error"
                          /\ pc \in {"stream", "emit", "flush", "finalize",
                                     "aclose", "mark_error", "publish", "delete"})
  /\ UNCHANGED <<pg, stream, pc, seq, kind, sinks, heartbeat, outcome,
                 terminal, sink, rec, api, hist>>

-----------------------------------------------------------------------------
(* The executor.                                                            *)

(* claim_next_queued_run: the row, the lease and the first event.           *)
ClaimNextQueuedRun ==
  /\ status = "queued" /\ RowFree
  /\ status' = "started"
  /\ lease' = "live"
  /\ events' = events \cup {Ev(DurableSeq + 1, "run_started")}
  /\ pc' = "setup"
  /\ UNCHANGED <<draft, message, redis, seq, kind, sinks, cancel, heartbeat,
                 outcome, terminal, sink, rec, api, hist>>

(* The first transaction of execute_run; a run that cannot be built leads   *)
(* to context_build_error.  The status is not looked at.                    *)
Setup ==
  /\ pc = "setup" /\ RowFree
  /\ seq' = DurableSeq
  /\ pc' = "replay"
  /\ outcome' \in {"none", "build_error"}
  /\ UNCHANGED <<pg, redis, kind, sinks, cancel, heartbeat, terminal,
                 sink, rec, api, hist>>

(* The stream after appending the rows of run_events in order, up to the    *)
(* first one that is refused because it is older than the stream.           *)
Replay == IF \A e \in events : e.seq <= LastSeq(stream) => \E x \in stream : x.seq = e.seq
          THEN stream \cup {e \in events : e.seq > LastSeq(stream)}
          ELSE stream

(* _publish_persisted_events appends the rows in order and stops at the     *)
(* first refusal or failure; then the heartbeat and the stream start.       *)
PublishPersistedEvents ==
  /\ pc = "replay"
  /\ \/ stream' = Replay /\ UNCHANGED hist
     \/ Fault /\ \E n \in {e.seq : e \in events} :
                  stream' = {e \in Replay : e \in stream \/ e.seq < n}
  /\ IF outcome = "build_error"
     THEN pc' = "mark_error" /\ UNCHANGED heartbeat
     ELSE pc' = "stream" /\ heartbeat' = TRUE
  /\ UNCHANGED <<pg, hint, seq, kind, sinks, cancel, outcome, terminal,
                 sink, rec, api>>

(* _consume_agent: the next event of the agent gets the next seq and goes   *)
(* to the three sinks.                                                      *)
EmitEvent ==
  /\ pc = "stream" /\ ~cancel /\ seq < MaxSeq
  /\ seq' = seq + 1
  /\ kind' \in {"delta", "tool"}
  /\ sinks' = {"redis", "pg", "draft"}
  /\ pc' = "emit"
  /\ UNCHANGED <<pg, redis, cancel, heartbeat, outcome, terminal, sink,
                 rec, api, hist>>

(* The generator ends, or raises a ProviderError that is not retried.  A    *)
(* retry restarts the generator only when nothing was forwarded yet, with   *)
(* the same seq: it changes nothing that is modelled here.                  *)
AgentEnds ==
  /\ pc = "stream" /\ ~cancel
  /\ outcome' \in {"succeeded", "failed"}
  /\ pc' = "flush"
  /\ UNCHANGED <<pg, redis, seq, kind, sinks, cancel, heartbeat,
                 terminal, sink, rec, api, hist>>

(* _iter_until_cancel raises _Cancelled as soon as the event is set,        *)
(* whatever the generator has to say.                                       *)
StopOnCancel ==
  /\ pc = "stream" /\ cancel
  /\ outcome' = "cancelled"
  /\ pc' = "flush"
  /\ UNCHANGED <<pg, redis, seq, kind, sinks, cancel, heartbeat,
                 terminal, sink, rec, api, hist>>

(* Any other exception of the agent.                                        *)
AgentRaises ==
  /\ pc = "stream" /\ ~cancel
  /\ pc' = "aclose"
  /\ cancel' = TRUE
  /\ UNCHANGED <<pg, redis, seq, kind, sinks, heartbeat, outcome,
                 terminal, sink, rec, api, hist>>

-----------------------------------------------------------------------------
(* FanoutSink.emit: asyncio.gather over the sinks.  Each finishes in its    *)
(* own time; the first one that raises ends the gather, the others go on.   *)

(* The effect of an exception from a sink on the coroutine that emits.      *)
SinkRaises == IF pc = "emit" THEN pc' = "aclose" /\ cancel' = TRUE
                             ELSE UNCHANGED <<pc, cancel>>

Finished(s) == s \in sinks /\ sinks' = sinks \ {s}

RedisSinkEmit ==
  /\ Finished("redis")
  /\ Append(Ev(seq, kind))
  /\ UNCHANGED <<pg, hint, pc, seq, kind, cancel, heartbeat, outcome,
                 terminal, sink, rec, api>>

(* PostgresEventSink.emit: the first event moves the run to streaming, or   *)
(* finds that it is no longer started and stops the executor; after that    *)
(* only tool events are written, and the status is not looked at again.     *)
PgSinkEmit ==
  /\ Finished("pg")
  /\ \/ /\ streamingStarted /\ kind = "delta"
        /\ UNCHANGED <<status, events, streamingStarted, cancel>>
     \/ /\ ~streamingStarted /\ RowFree /\ status # "started"
        /\ cancel' = TRUE
        /\ UNCHANGED <<status, events, streamingStarted>>
     \/ /\ streamingStarted \/ status = "started"
        /\ ~(streamingStarted /\ kind = "delta")
        /\ RowFree /\ SeqFree(seq)
        /\ status' = IF streamingStarted THEN status ELSE "streaming"
        /\ events' = IF kind = "tool" THEN events \cup {Ev(seq, kind)} ELSE events
        /\ streamingStarted' = TRUE
        /\ UNCHANGED cancel
  /\ UNCHANGED <<lease, draft, message, redis, pc, seq, kind, heartbeat,
                 outcome, terminal, pending, latest, bgError, rec, api, hist>>

(* The transaction of the PostgreSQL sink fails, or meets the unique index  *)
(* (only when recovery has used the seq).                                   *)
PgSinkRaises ==
  /\ Finished("pg")
  /\ ~(streamingStarted /\ kind = "delta")
  /\ \/ Fault
     \/ /\ RowFree /\ kind = "tool" /\ streamingStarted /\ ~SeqFree(seq)
        /\ UNCHANGED hist
  /\ SinkRaises
  /\ UNCHANGED <<pg, redis, seq, kind, heartbeat, outcome, terminal,
                 sink, rec, api>>

(* DraftCheckpointSink.emit: buffer a delta, and write the snapshot when    *)
(* the buffer is full or a tool call comes.                                 *)
DraftSinkEmit ==
  /\ Finished("draft") /\ ~bgError
  /\ LET buffered == IF kind = "delta" THEN pending + 1 ELSE pending
         upTo     == IF kind = "delta" THEN seq ELSE latest
         write    == IF kind = "delta" THEN buffered >= MaxPending ELSE pending > 0
     IN /\ latest' = upTo
        /\ IF write THEN DraftFree /\ draft' = upTo /\ pending' = 0
                    ELSE pending' = buffered /\ UNCHANGED draft
  /\ UNCHANGED <<status, lease, events, message, redis, pc, seq, kind, cancel,
                 heartbeat, outcome, terminal, streamingStarted, bgError,
                 rec, api, hist>>

(* Mutant: a delta whose snapshot could not be written is counted again.    *)
DraftSinkCountsTwice ==
  /\ Finished("draft")
  /\ \/ bgError /\ UNCHANGED <<pending, latest, hist>>
     \/ /\ ~bgError /\ Fault
        /\ IF kind = "delta"
           THEN pending + 1 >= MaxPending /\ pending' = pending + 2 /\ latest' = seq
           ELSE pending > 0 /\ UNCHANGED <<pending, latest>>
  /\ SinkRaises
  /\ UNCHANGED <<pg, redis, seq, kind, heartbeat, outcome, terminal,
                 streamingStarted, bgError, rec, api>>

(* The snapshot cannot be written (the delta stays buffered), or a failure  *)
(* of the timer is reported.                                                *)
DraftSinkRaises ==
  /\ Finished("draft")
  /\ \/ bgError /\ UNCHANGED <<pending, latest, hist>>
     \/ /\ ~bgError /\ Fault
        /\ IF kind = "delta"
           THEN pending + 1 >= MaxPending /\ pending' = pending + 1 /\ latest' = seq
           ELSE pending > 0 /\ UNCHANGED <<pending, latest>>
  /\ SinkRaises
  /\ UNCHANGED <<pg, redis, seq, kind, heartbeat, outcome, terminal,
                 streamingStarted, bgError, rec, api>>

(* All sinks are done: back to the agent.                                   *)
Emitted ==
  /\ pc = "emit" /\ sinks = {}
  /\ pc' = "stream"
  /\ UNCHANGED <<pg, redis, seq, kind, sinks, cancel, heartbeat, outcome,
                 terminal, sink, rec, api, hist>>

(* _checkpoint_after_interval: the timer that the first buffered delta      *)
(* starts, until somebody cancels it.                                       *)
TimerCheckpoint ==
  /\ pc \in {"stream", "emit", "flush", "aclose"} /\ pending > 0 /\ ~bgError
  /\ \/ /\ DraftFree
        /\ draft' = latest /\ pending' = 0
        /\ UNCHANGED <<bgError, cancel, hist>>
     \/ /\ Fault
        /\ bgError' = TRUE /\ cancel' = TRUE
        /\ UNCHANGED <<draft, pending>>
  /\ UNCHANGED <<status, lease, events, message, redis, pc, seq, kind, sinks,
                 heartbeat, outcome, terminal, streamingStarted, latest,
                 rec, api>>

-----------------------------------------------------------------------------
(* The end of the run, as its executor sees it.                             *)

(* DraftCheckpointSink._checkpoint.                                         *)
Checkpoint == IF pending > 0
              THEN DraftFree /\ draft' = latest /\ pending' = 0
              ELSE UNCHANGED <<draft, pending>>

(* sink.flush() after the agent ended; the heartbeat is then cancelled.     *)
Flush ==
  /\ pc = "flush" /\ ~bgError
  /\ Checkpoint
  /\ pc' = "finalize"
  /\ heartbeat' = FALSE
  /\ UNCHANGED <<status, lease, events, message, redis, seq, kind, sinks, cancel,
                 outcome, terminal, streamingStarted, latest, bgError,
                 rec, api, hist>>

FlushRaises ==
  /\ pc = "flush"
  /\ \/ bgError /\ UNCHANGED hist
     \/ ~bgError /\ pending > 0 /\ Fault
  /\ pc' = "aclose"
  /\ cancel' = TRUE
  /\ UNCHANGED <<pg, redis, seq, kind, sinks, heartbeat, outcome, terminal,
                 sink, rec, api>>

(* Mutant: the outcome alone decides, the row is not looked at.             *)
FinalStatusIgnoresRow == IF outcome = "build_error" THEN "failed" ELSE outcome

(* _finalize_result: the status the outcome leads to, "none" when the row   *)
(* has moved on and nothing is written.                                     *)
FinalStatus ==
  CASE outcome = "succeeded" /\ status \in SucceededFrom -> "succeeded"
    [] outcome = "cancelled" /\ status \in CancelledFrom -> "cancelled"
    [] outcome # "cancelled" /\ status = "cancelling"    -> "cancelled"
    [] outcome = "failed" /\ status \in SucceededFrom    -> "failed"
    [] OTHER                                             -> "none"

(* Mutant: the message is materialised before the status is decided.        *)
FinalizeMessageFirst ==
  /\ pc = "finalize" /\ RowFree
  /\ message' = (outcome = "succeeded")
  /\ IF FinalStatus = "none"
     THEN UNCHANGED <<status, lease, events, terminal>>
     ELSE /\ SetTerminal(FinalStatus, seq + 1)
          /\ terminal' = TerminalType(FinalStatus)
  /\ pc' = "publish"
  /\ UNCHANGED <<draft, redis, seq, kind, sinks, cancel, heartbeat,
                 outcome, sink, rec, api, hist>>

FinalizeResult ==
  /\ pc = "finalize" /\ RowFree
  /\ IF FinalStatus = "none"
     THEN UNCHANGED <<status, lease, events, message, terminal>>
     ELSE /\ SetTerminal(FinalStatus, seq + 1)
          /\ message' = (FinalStatus = "succeeded")
          /\ terminal' = TerminalType(FinalStatus)
  /\ pc' = "publish"
  /\ UNCHANGED <<draft, redis, seq, kind, sinks, cancel, heartbeat,
                 outcome, sink, rec, api, hist>>

(* sink.aclose() after an exception: flush, errors ignored.  Only the draft *)
(* sink has something to close, and its lock is taken in turn.              *)
Aclose ==
  /\ pc = "aclose" /\ "draft" \notin sinks
  /\ \/ ~bgError /\ Checkpoint /\ UNCHANGED hist
     \/ bgError /\ UNCHANGED <<draft, pending, hist>>
     \/ ~bgError /\ pending > 0 /\ Fault /\ UNCHANGED <<draft, pending>>
  /\ pc' = "mark_error"
  /\ UNCHANGED <<status, lease, events, message, redis, seq, kind, sinks, cancel,
                 heartbeat, outcome, terminal, streamingStarted, latest,
                 bgError, rec, api>>

(* _mark_failed_or_cancelled_if_cancelling, for a run that could not be     *)
(* built and for one that raised.                                           *)
ErrorStatus == CASE status = "cancelling"       -> "cancelled"
                 [] status \in SucceededFrom    -> "failed"
                 [] OTHER                       -> "none"

MarkError ==
  /\ pc = "mark_error" /\ RowFree
  /\ IF ErrorStatus = "none"
     THEN UNCHANGED <<status, lease, events, terminal>>
     ELSE /\ SetTerminal(ErrorStatus, seq + 1)
          /\ terminal' = TerminalType(ErrorStatus)
  /\ pc' = "publish"
  /\ UNCHANGED <<draft, message, redis, seq, kind, sinks, cancel, heartbeat,
                 outcome, sink, rec, api, hist>>

(* A transaction of the executor fails outside every handler:               *)
(* _execute_and_log logs it and leaves the run to recovery.                 *)
ExecutorRaises ==
  /\ pc \in {"setup", "finalize", "mark_error"}
  /\ Fault
  /\ pc' = "done"
  /\ heartbeat' = FALSE
  /\ UNCHANGED <<pg, redis, seq, kind, sinks, cancel, outcome, terminal,
                 sink, rec, api>>

PublishTerminal ==
  /\ pc = "publish"
  /\ IF terminal = "none" THEN UNCHANGED <<stream, hist>>
                        ELSE Append(Ev(seq + 1, terminal))
  /\ pc' = IF outcome = "build_error" THEN "done" ELSE "delete"
  /\ UNCHANGED <<pg, hint, seq, kind, sinks, cancel, heartbeat, outcome,
                 terminal, sink, rec, api>>

(* draft_sink.delete(): flush once more, then delete.  Errors are ignored.  *)
DeleteDraft ==
  /\ pc = "delete"
  /\ \/ /\ ~bgError /\ (pending = 0 \/ DraftFree)
        /\ draft' = 0 /\ pending' = 0 /\ UNCHANGED hist
     \/ bgError /\ UNCHANGED <<draft, pending, hist>>
     \/ Fault /\ UNCHANGED <<draft, pending>>
     \/ ~bgError /\ Fault /\ Checkpoint
  /\ pc' = "done"
  /\ heartbeat' = FALSE
  /\ UNCHANGED <<status, lease, events, message, redis, seq, kind, sinks, cancel,
                 outcome, terminal, streamingStarted, latest, bgError,
                 rec, api>>

-----------------------------------------------------------------------------
(* Leases.                                                                  *)

(* Mutant: the heartbeat renews the lease and does not look at the status.  *)
HeartbeatOnlyRenews ==
  /\ heartbeat /\ RowFree
  /\ lease' = IF Active THEN "live" ELSE lease
  /\ IF Active THEN UNCHANGED <<cancel, heartbeat>>
               ELSE cancel' = TRUE /\ heartbeat' = FALSE
  /\ UNCHANGED <<status, events, draft, message, redis, pc, seq, kind, sinks,
                 outcome, terminal, sink, rec, api, hist>>

(* _heartbeat_loop: renew_lease and is_cancelling in one transaction.  The  *)
(* lease is renewed even when it has expired, as long as nobody noticed.    *)
Heartbeat ==
  /\ heartbeat /\ RowFree
  /\ lease' = IF Active THEN "live" ELSE lease
  /\ IF status \in {"started", "streaming"}
     THEN UNCHANGED <<cancel, heartbeat>>
     ELSE cancel' = TRUE /\ heartbeat' = FALSE
  /\ UNCHANGED <<status, events, draft, message, redis, pc, seq, kind, sinks,
                 outcome, terminal, sink, rec, api, hist>>

HeartbeatRaises ==
  /\ heartbeat
  /\ Fault
  /\ cancel' = TRUE /\ heartbeat' = FALSE
  /\ UNCHANGED <<pg, redis, pc, seq, kind, sinks, outcome, terminal,
                 sink, rec, api>>

(* lease_expires_at passes.  Nothing bounds how late a heartbeat can be.    *)
LeaseExpires ==
  /\ lease = "live"
  /\ lease' = "expired"
  /\ UNCHANGED <<status, events, draft, message, redis, exec, sink, rec, api, hist>>

(* The worker process dies, with all its tasks and everything they knew.    *)
WorkerCrashes ==
  /\ Running \/ sinks # {}
  /\ Fault
  /\ pc' = "crashed" /\ seq' = 0 /\ kind' = "none" /\ sinks' = {}
  /\ cancel' = FALSE /\ heartbeat' = FALSE
  /\ outcome' = "none" /\ terminal' = "none"
  /\ streamingStarted' = FALSE /\ pending' = 0 /\ latest' = 0 /\ bgError' = FALSE
  /\ UNCHANGED <<pg, redis, rec, api>>

(* Mutant: an unreachable Redis is taken for an empty stream.               *)
RecoverWithoutGap ==
  /\ recovery = "idle" /\ Active /\ lease = "expired"
  /\ recovery' = "read"
  /\ recSeq' \in {DurableSeq + 1, Max({DurableSeq, LastSeq(stream)}) + 1}
  /\ zombie' = (Running \/ sinks # {})
  /\ UNCHANGED <<pg, redis, exec, sink, api, asked, faults>>

(* recover_expired_runs: lock the row, compute a seq above everything       *)
(* known.  Redis answers, or does not.                                      *)
RecoverRead ==
  /\ recovery = "idle" /\ Active /\ lease = "expired"
  /\ recovery' = "read"
  /\ recSeq' \in {DurableSeq + Gap + 1, Max({DurableSeq, LastSeq(stream)}) + 1}
  /\ zombie' = (Running \/ sinks # {})
  /\ UNCHANGED <<pg, redis, exec, sink, api, asked, faults>>

(* mark_run_failed(lease_expired) and the draft, committed.                 *)
RecoverCommit ==
  /\ recovery = "read"
  /\ recovery' = "committed"
  /\ SetTerminal("failed", recSeq)
  /\ draft' = 0
  /\ UNCHANGED <<message, redis, exec, sink, recSeq, api, hist>>

(* The transaction, or the worker that runs it, fails: rolled back.         *)
RecoverAborts ==
  /\ recovery = "read"
  /\ Fault
  /\ recovery' = "idle"
  /\ recSeq' = 0
  /\ UNCHANGED <<pg, redis, exec, sink, api>>

(* _broadcast_terminal.                                                     *)
BroadcastTerminal ==
  /\ recovery = "committed"
  /\ recovery' = "idle" /\ recSeq' = 0
  /\ Append(Ev(recSeq, "run_failed"))
  /\ UNCHANGED <<pg, hint, exec, sink, api>>

-----------------------------------------------------------------------------
Requests == CreateRun \/ CancelOwnedRun \/ CancelRunRoutePublish \/ CancelHint

Agent == EmitEvent \/ AgentEnds \/ StopOnCancel \/ AgentRaises

Sinks == \/ RedisSinkEmit \/ PgSinkEmit \/ PgSinkRaises
         \/ DraftSinkEmit \/ DraftSinkRaises \/ Emitted \/ TimerCheckpoint

Ending == \/ Flush \/ FlushRaises \/ FinalizeResult \/ Aclose \/ MarkError
          \/ ExecutorRaises \/ PublishTerminal \/ DeleteDraft

Leases == \/ Heartbeat \/ HeartbeatRaises \/ LeaseExpires \/ WorkerCrashes
          \/ RecoverRead \/ RecoverCommit \/ RecoverAborts \/ BroadcastTerminal

Next == \/ Requests
        \/ ClaimNextQueuedRun \/ Setup \/ PublishPersistedEvents
        \/ Agent \/ Sinks \/ Ending \/ Leases

Safety == Init /\ [][Next]_vars

(* Tasks of a live process run, transactions end, leases expire and some    *)
(* worker runs the recovery loop.  Nothing is assumed of users, of the      *)
(* model provider (the agent may hang), of the hint or of the timer.        *)
Fairness ==
  /\ WF_vars(Setup) /\ WF_vars(PublishPersistedEvents)
  /\ WF_vars(StopOnCancel)
  /\ WF_vars(RedisSinkEmit) /\ WF_vars(PgSinkEmit \/ PgSinkRaises)
  /\ WF_vars(DraftSinkEmit \/ DraftSinkRaises) /\ WF_vars(Emitted)
  /\ WF_vars(Flush \/ FlushRaises) /\ WF_vars(FinalizeResult)
  /\ WF_vars(Aclose) /\ WF_vars(MarkError)
  /\ WF_vars(PublishTerminal) /\ WF_vars(DeleteDraft)
  /\ WF_vars(Heartbeat) /\ WF_vars(LeaseExpires)
  /\ WF_vars(RecoverRead) /\ WF_vars(RecoverCommit) /\ WF_vars(BroadcastTerminal)

Spec == Safety /\ Fairness

-----------------------------------------------------------------------------
(* Where execute_run can be; "none" before the claim, "done" when it has    *)
(* returned or raised, "crashed" when its process is dead.                  *)
Places == {"none", "setup", "replay", "stream", "emit", "flush", "finalize",
           "aclose", "mark_error", "publish", "delete", "done", "crashed"}

(* Types; the buffer of the draft sink never holds more than its limit.     *)
TypeOK ==
  /\ status \in Statuses /\ lease \in {"none", "live", "expired"}
  /\ events \subseteq Event /\ draft \in Nat /\ message \in BOOLEAN
  /\ stream \subseteq Event /\ hint \in BOOLEAN
  /\ pc \in Places
  /\ seq \in Nat /\ kind \in {"none", "delta", "tool"}
  /\ sinks \subseteq {"redis", "pg", "draft"}
  /\ cancel \in BOOLEAN /\ heartbeat \in BOOLEAN
  /\ outcome \in {"none", "build_error", "succeeded", "cancelled", "failed"}
  /\ terminal \in {"none"} \cup TerminalTypes
  /\ streamingStarted \in BOOLEAN /\ pending \in 0..MaxPending /\ latest \in Nat
  /\ bgError \in BOOLEAN
  /\ recovery \in {"idle", "read", "committed"} /\ recSeq \in Nat
  /\ api \in {"idle", "committed"}
  /\ asked \in BOOLEAN /\ zombie \in BOOLEAN /\ faults \in 0..MaxFaults

TerminalEvents == {e \in events : e.type \in TerminalTypes}

(* Whoever ends the run first - the executor, the cancel endpoint or the    *)
(* recovery loop - writes the one terminal event, and it says what the row  *)
(* says: the guards of mark_run_* under the row lock.                       *)
TerminalEventMatches ==
  /\ ~Terminal => TerminalEvents = {}
  /\ Terminal => \E e \in TerminalEvents :
                   TerminalEvents = {e} /\ e.type = TerminalType(status)

(* The assistant message exists exactly for a run that succeeded: a cancel  *)
(* or a recovery that overtakes _finalize_result also keeps the message out. *)
MessageIffSucceeded == message <=> status = "succeeded"

(* Recovery finds every run nobody will end: a run keeps a lease for as     *)
(* long as it is active, so recover_expired_runs can select it.             *)
LeasedWhileActive == Active <=> lease # "none"

(* recover_expired_runs: unless the executor was still running, the         *)
(* terminal event comes after everything a client can have seen of the run, *)
(* in PostgreSQL, in the Redis stream and in the draft, even when Redis     *)
(* does not answer and the newest deltas are known to nobody.               *)
TerminalIsLast ==
  Terminal /\ ~zombie =>
    \A t \in TerminalEvents :
      /\ \A x \in (events \cup stream) \ {t} : x.seq < t.seq
      /\ draft < t.seq

(* get_next_run_event_seq and the checkpoints of the draft sink: what was   *)
(* put on the Redis stream is ahead of PostgreSQL by less than the gap      *)
(* recovery leaves.                                                         *)
UncheckpointedWithinGap ==
  Active => LastSeq(stream) <= DurableSeq + Gap

(* Both halves of what recovery's numbering rests on: the executor never    *)
(* runs further ahead of PostgreSQL than the gap, and so the terminal seq   *)
(* that recover_expired_runs guesses is above all that a client has seen.   *)
RecoverySeqSafe == TerminalIsLast /\ UncheckpointedWithinGap

(* An action property: once a cancel was accepted the run never succeeds,   *)
(* and a status that was left is not taken again (cancel_owned_run against  *)
(* mark_run_streaming, mark_run_succeeded and renew_lease).                 *)
NeverUncancelled ==
  [][status = "cancelling" => status' \in {"cancelling", "cancelled", "failed"}]_vars

(* A cancelled run ends, although the provider may hang and the hint may be *)
(* lost: the heartbeat sees the status, and recovery covers the executor.   *)
CancelCompletes == status = "cancelling" ~> Terminal

(* A run whose executor is gone ends: its lease runs out and recovery fails *)
(* it.                                                                      *)
OrphanedRunEnds == (Active /\ pc \in {"done", "crashed"}) ~> Terminal

(* Nobody but the heartbeat and the recovery loop is relied upon to end a   *)
(* run that was cancelled or has lost its executor.                         *)
RunsEnd == CancelCompletes /\ OrphanedRunEnds

(* The run implements what RunLifecycle promises.                           *)
Lifecycle == INSTANCE RunLifecycle WITH
               terminals <- {e.type : e \in TerminalEvents}
RefinesLifecycle == Lifecycle!Spec
=============================================================================
