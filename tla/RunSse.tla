------------------------------- MODULE RunSse -------------------------------
(***************************************************************************)
(* What a browser sees of a run: GET /runs/{id}/events (iter_run_events in *)
(* app/services/runs/streaming.py), GET /runs/{id}/state                   *)
(* (get_owned_run_state) and the client that combines the two              *)
(* (frontend/src/runs/useRunStream.ts, useRunRecovery.ts).                 *)
(*                                                                         *)
(* The same event may be known to PostgreSQL (semantic events), to the     *)
(* Redis stream (everything, best effort, trimmed) and to the draft (a     *)
(* cumulative snapshot of the deltas plus its newest MaxEvents deltas);    *)
(* the endpoints read the three one after the other while the worker goes  *)
(* on writing.  The text of the delta with seq n is the one letter n, so a *)
(* text is a sequence of seqs, and a text that a client assembles is right *)
(* when it is increasing and has no holes.                                 *)
(*                                                                         *)
(* The worker is reduced to what it writes and in which order (RunExecution *)
(* has the whole of it); it does not crash here.                           *)
(***************************************************************************)
EXTENDS Integers, SequencesExt

CONSTANTS
  MaxSeq,    \* bound on the events of the run before the terminal one
  MaxEvents  \* run_stream_maxlen: size of the stream and of draft.events

ASSUME SseAssumption == MaxSeq \in Nat /\ MaxEvents \in Nat \ {0}

VARIABLES
  \* the worker and what it has written
  types,     \* type of each event emitted so far: "delta" or "tool"
  todo,      \* sinks that have not finished with the newest event
  events,    \* seqs in run_events
  stream,    \* seqs in the Redis stream
  draft,     \* run_drafts.seq, 0 when there is no row
  latest,    \* newest delta the draft sink has buffered
  phase,     \* "running", then "ended", "published" and "deleted"
  \* iter_run_events
  pc,        \* "off", "list", "replay", "merge", "check", "tail", "closed"
  after,     \* after_seq of the request
  cursor, sent, baseline, first,  \* cursor, sent_text, checkpoint_baseline_known
  persisted, streamed,            \* what was read in this iteration
  \* the client
  shown,     \* the text on the screen
  terminal,  \* the client has seen the terminal event
  st,        \* get_owned_run_state: "idle", "row", "events" or "draft"
  stSeq, stText, stAfter, stEnded, \* its locals
  \* history
  healthy    \* Redis has dropped, trimmed and refused nothing so far

worker == <<types, todo, events, stream, draft, latest, phase>>
conn   == <<pc, after, cursor, sent, baseline, first, persisted, streamed>>
state  == <<st, stSeq, stText, stAfter, stEnded>>
client == <<shown, terminal>>
vars   == <<worker, conn, state, client, healthy>>

last == Len(types)

(* Mutant: the terminal event skips a seq.                                  *)
TerminalSeqSkips == last + 2

(* get_next_run_event_seq for the terminal event.                           *)
TerminalSeq == last + 1

Increasing(s) == \A i, j \in DOMAIN s : i < j => s[i] < s[j]

(* The letters of a set of events, and their text.                          *)
Deltas(S) == {n \in S : n <= last /\ types[n] = "delta"}
Text(S)   == CHOOSE s \in [1..Cardinality(Deltas(S)) -> Deltas(S)] : Increasing(s)

(* The newest k members of a set of seqs.                                   *)
Newest(S, k) == {n \in S : Cardinality({m \in S : m > n}) < k}

(* The row of run_drafts: its text and its events.                          *)
DraftText   == Text(1..draft)
DraftEvents == Newest(Deltas(1..draft), MaxEvents)

Init ==
  /\ types = <<>> /\ todo = {} /\ events = {} /\ stream = {}
  /\ draft = 0 /\ latest = 0 /\ phase = "running"
  /\ pc = "off" /\ after = 0 /\ cursor = 0 /\ sent = <<>> /\ baseline = FALSE
  /\ first = FALSE /\ persisted = {} /\ streamed = {}
  /\ shown = <<>> /\ terminal = FALSE
  /\ st = "idle" /\ stSeq = 0 /\ stText = <<>> /\ stAfter = 0 /\ stEnded = FALSE
  /\ healthy = TRUE

-----------------------------------------------------------------------------
(* The worker.                                                              *)

Emit ==
  /\ phase = "running" /\ todo = {} /\ last < MaxSeq
  /\ \E t \in {"delta", "tool"} : types' = Append(types, t)
  /\ todo' = {"redis", "pg", "draft"}
  /\ UNCHANGED <<events, stream, draft, latest, phase, conn, state, client, healthy>>

(* XADD MAXLEN ~: the entry is dropped, or added and the stream trimmed to  *)
(* no less than its limit.                                                  *)
XAdd(n) == \/ healthy' = FALSE /\ UNCHANGED stream
           \/ \E k \in MaxEvents..(MaxSeq + 1) :
                /\ stream' = Newest(stream \cup {n}, k)
                /\ healthy' = (healthy /\ stream \subseteq stream')

RedisSink ==
  /\ "redis" \in todo
  /\ todo' = todo \ {"redis"}
  /\ XAdd(last)
  /\ UNCHANGED <<types, events, draft, latest, phase, conn, state, client>>

(* Deltas are not written to run_events.                                    *)
PgSink ==
  /\ "pg" \in todo
  /\ todo' = todo \ {"pg"}
  /\ events' = IF types[last] = "tool" THEN events \cup {last} ELSE events
  /\ UNCHANGED <<types, stream, draft, latest, phase, conn, state, client, healthy>>

(* A delta is buffered; a tool call writes the snapshot.                    *)
DraftSink ==
  /\ "draft" \in todo
  /\ todo' = todo \ {"draft"}
  /\ IF types[last] = "delta"
     THEN latest' = last /\ UNCHANGED draft
     ELSE draft' = latest /\ UNCHANGED latest
  /\ UNCHANGED <<types, events, stream, phase, conn, state, client, healthy>>

(* The timer, a full buffer or the final flush.                             *)
Checkpoint ==
  /\ phase = "running" /\ draft < latest
  /\ draft' = latest
  /\ UNCHANGED <<types, todo, events, stream, latest, phase, conn, state, client,
                 healthy>>

(* _finalize_result, _publish_terminal and draft_sink.delete, in order.     *)
Finish ==
  /\ phase = "running" /\ todo = {} /\ draft = latest
  /\ phase' = "ended"
  /\ events' = events \cup {TerminalSeq}
  /\ UNCHANGED <<types, todo, stream, draft, latest, conn, state, client, healthy>>

PublishTerminal ==
  /\ phase = "ended"
  /\ phase' = "published"
  /\ XAdd(TerminalSeq)
  /\ UNCHANGED <<types, todo, events, draft, latest, conn, state, client>>

DeleteDraft ==
  /\ phase = "published"
  /\ phase' = "deleted"
  /\ draft' = 0
  /\ UNCHANGED <<types, todo, events, stream, latest, conn, state, client, healthy>>

-----------------------------------------------------------------------------
(* iter_run_events.                                                         *)

(* Mutant: the lower bound of the reads includes the cursor.                *)
AtOrAbove(S) == {n \in S : n >= cursor}

(* seq > after_seq, min="(after_seq-0" and XREAD's exclusive start.         *)
Above(S) == {n \in S : n > cursor}

(* The locals of iter_run_events for a request with after_seq = a.          *)
Connect(a) ==
  /\ pc' = "list" /\ after' = a /\ cursor' = a
  /\ sent' = <<>> /\ baseline' = (a = 0) /\ first' = TRUE
  /\ persisted' = {} /\ streamed' = {}

(* list_run_events_after: semantic events from PostgreSQL.                  *)
ListPersisted ==
  /\ pc = "list"
  /\ persisted' = Above(events)
  /\ streamed' = {}
  /\ pc' = IF first THEN "replay" ELSE "merge"
  /\ UNCHANGED <<worker, after, cursor, sent, baseline, first, state, client, healthy>>

(* _replay_redis, which may fail.                                           *)
ReplayRedis ==
  /\ pc = "replay"
  /\ \/ streamed' = Above(stream) /\ UNCHANGED healthy
     \/ streamed' = {} /\ healthy' = FALSE
  /\ pc' = "merge"
  /\ UNCHANGED <<worker, after, cursor, sent, baseline, first, persisted, state, client>>

(* What a client appends for a set of events, whole snapshot included.      *)
SnapshotSuffix(snapshot, done) ==
  IF IsPrefix(done, snapshot) THEN SubSeq(snapshot, Len(done) + 1, Len(snapshot))
  ELSE snapshot

(* The deltas of the draft that Redis did not deliver (checkpoint_events).  *)
CheckpointEvents == IF draft > cursor THEN Above(DraftEvents) \ streamed ELSE {}

(* When they are none, and the server knows what the client has, the rest   *)
(* of the snapshot goes out as one delta with the seq of the draft.         *)
SnapshotDelta == IF draft > cursor /\ CheckpointEvents = {} /\ baseline
                 THEN SnapshotSuffix(DraftText, sent) ELSE <<>>

(* The merged events in order of seq; the snapshot comes after the delta    *)
(* with its seq.                                                            *)
MergedText ==
  LET upTo == Text({n \in streamed \cup CheckpointEvents : n <= draft})
      rest == Text({n \in streamed \cup CheckpointEvents : n > draft})
  IN upTo \o SnapshotDelta \o rest

(* get_run_draft, the merge and everything that is yielded.                 *)
Merge ==
  /\ pc = "merge"
  /\ LET known == draft > cursor \/ (draft > 0 /\ draft = cursor /\ ~baseline)
         merged == streamed \cup CheckpointEvents \cup persisted
     IN /\ shown' = shown \o MergedText
        /\ baseline' = (baseline \/ known)
        /\ sent' = IF baseline'
                   THEN (IF known THEN DraftText ELSE sent) \o Text(streamed)
                   ELSE sent
        /\ cursor' = Max(merged \cup {cursor, draft})
        /\ terminal' = (TerminalSeq \in merged)
        /\ pc' = IF terminal' THEN "closed" ELSE "check"
  /\ UNCHANGED <<worker, after, first, persisted, streamed, state, healthy>>

(* Mutant: the loop looks for new events, never for the end of the run.     *)
CheckNothing ==
  /\ pc = "check"
  /\ pc' = "tail"
  /\ first' = FALSE
  /\ UNCHANGED <<worker, after, cursor, sent, baseline, persisted, streamed, state,
                 client, healthy>>

(* run_has_terminal_event: the stream ends if the run has.                  *)
CheckTerminal ==
  /\ pc = "check"
  /\ pc' = IF phase = "running" THEN "tail" ELSE "closed"
  /\ first' = FALSE
  /\ UNCHANGED <<worker, after, cursor, sent, baseline, persisted, streamed, state,
                 client, healthy>>

(* XREAD BLOCK brings something, and everything of it is yielded.           *)
ReadTail ==
  /\ pc = "tail" /\ Above(stream) # {}
  /\ shown' = shown \o Text(Above(stream))
  /\ sent' = IF baseline THEN sent \o Text(Above(stream)) ELSE sent
  /\ cursor' = Max(Above(stream))
  /\ terminal' = (TerminalSeq \in Above(stream))
  /\ pc' = IF terminal' THEN "closed" ELSE "tail"
  /\ UNCHANGED <<worker, after, baseline, first, persisted, streamed, state, healthy>>

(* It brings nothing, or fails: back to PostgreSQL and the draft.           *)
TailEmpty ==
  /\ pc = "tail"
  /\ \/ Above(stream) = {} /\ UNCHANGED healthy
     \/ healthy' = FALSE
  /\ pc' = "list"
  /\ UNCHANGED <<worker, after, cursor, sent, baseline, first, persisted, streamed,
                 state, client>>

(* The connection breaks, or the user leaves the page.                      *)
Disconnect ==
  /\ pc # "off"
  /\ pc' = "off" /\ after' = 0 /\ cursor' = 0 /\ sent' = <<>> /\ baseline' = FALSE
  /\ first' = FALSE /\ persisted' = {} /\ streamed' = {}
  /\ UNCHANGED <<worker, state, client, healthy>>

-----------------------------------------------------------------------------
(* The client.                                                              *)

(* run/started and start(runId, conversationId, 0), after the message was   *)
(* sent; nothing bounds how long the request takes to arrive.               *)
StartFresh ==
  /\ pc = "off" /\ st = "idle"
  /\ Connect(0)
  /\ shown' = <<>> /\ terminal' = FALSE
  /\ UNCHANGED <<worker, state, healthy>>

(* useRunRecovery: get_owned_run_state reads the row, the events, the draft *)
(* and the stream, each at its own time.                                    *)
StateRow ==
  /\ pc = "off" /\ st = "idle"
  /\ st' = "row" /\ stEnded' = (phase # "running")
  /\ UNCHANGED <<worker, conn, client, stSeq, stText, stAfter, healthy>>

StateEvents ==
  /\ st = "row"
  /\ st' = "events" /\ stSeq' = Max(events \cup {0})
  /\ UNCHANGED <<worker, conn, client, stText, stAfter, stEnded, healthy>>

StateDraft ==
  /\ st = "events"
  /\ st' = "draft"
  /\ stText' = DraftText /\ stAfter' = draft /\ stSeq' = Max({stSeq, draft})
  /\ UNCHANGED <<worker, conn, client, stEnded, healthy>>

(* Mutant: the increment starts at the newest event, not at the draft.      *)
StateStreamAfterLatest ==
  /\ st = "draft"
  /\ st' = "idle" /\ stSeq' = 0 /\ stText' = <<>> /\ stAfter' = 0 /\ stEnded' = FALSE
  /\ LET newer == {n \in stream : n > stSeq}
         seen  == Max(newer \cup {stSeq})
     IN /\ shown' = stText \o Text(newer)
        /\ terminal' = stEnded
        /\ IF stEnded THEN UNCHANGED conn ELSE Connect(seen)
  /\ UNCHANGED <<worker, healthy>>

(* The stream after the draft, or not; run/restored, and start() from       *)
(* latest_seq unless the row said that the run is over.                     *)
StateStream ==
  /\ st = "draft"
  /\ st' = "idle" /\ stSeq' = 0 /\ stText' = <<>> /\ stAfter' = 0 /\ stEnded' = FALSE
  /\ \E newer \in {{n \in stream : n > stAfter}, {}} :
       /\ healthy' = (healthy /\ newer = {n \in stream : n > stAfter})
       /\ shown' = stText \o Text(newer)
       /\ terminal' = stEnded
       /\ IF stEnded THEN UNCHANGED conn ELSE Connect(Max(newer \cup {stSeq}))
  /\ UNCHANGED worker

-----------------------------------------------------------------------------
Worker == \/ Emit \/ RedisSink \/ PgSink \/ DraftSink \/ Checkpoint
          \/ Finish \/ PublishTerminal \/ DeleteDraft

Server == \/ ListPersisted \/ ReplayRedis \/ Merge \/ CheckTerminal
          \/ ReadTail \/ TailEmpty \/ Disconnect

Client == StartFresh \/ StateRow \/ StateEvents \/ StateDraft \/ StateStream

Next == Worker \/ Server \/ Client

Safety == Init /\ [][Next]_vars

(* The generator of a connected client runs; XREAD blocks for at most       *)
(* three seconds.                                                           *)
Spec == /\ Safety
        /\ WF_vars(ListPersisted) /\ WF_vars(ReplayRedis) /\ WF_vars(Merge)
        /\ WF_vars(CheckTerminal) /\ WF_vars(ReadTail \/ TailEmpty)

-----------------------------------------------------------------------------
(* Types; no store, cursor or state names a seq beyond the terminal event.  *)
TypeOK ==
  /\ types \in BoundedSeq({"delta", "tool"}, MaxSeq)
  /\ todo \subseteq {"redis", "pg", "draft"}
  /\ events \cup stream \cup persisted \cup streamed \subseteq 1..(MaxSeq + 1)
  /\ {draft, latest} \subseteq 0..MaxSeq
  /\ {after, cursor, stSeq, stAfter} \subseteq 0..(MaxSeq + 1)
  /\ phase \in {"running", "ended", "published", "deleted"}
  /\ pc \in {"off", "list", "replay", "merge", "check", "tail", "closed"}
  /\ st \in {"idle", "row", "events", "draft"}
  /\ {baseline, first, terminal, stEnded, healthy} \subseteq BOOLEAN

Connected == pc \notin {"off", "closed"}

(* A client that resumes from latest_seq never sees a letter twice or out   *)
(* of order: the merge of iter_run_events, whatever Redis loses and however *)
(* often it fails and comes back.                                           *)
ResumedInOrder == after > 0 => Increasing(shown)

(* get_owned_run_state: with a Redis that has lost nothing, the text it     *)
(* gives a client has every letter up to the seq from which it resumes,     *)
(* although rows, draft and stream are read at different times.             *)
RestoredComplete ==
  healthy /\ first /\ pc = "list" => shown = Text(1..cursor)

(* The first iteration of iter_run_events reads PostgreSQL, then Redis,     *)
(* then the draft: a client that connects gets, with the first answer,      *)
(* every letter before the newest event in it, as long as the draft holds   *)
(* all its events (the server has lost nothing and the run is not longer    *)
(* than MaxEvents).                                                         *)
ReplayComplete ==
  /\ healthy /\ first /\ pc = "check"
  /\ Cardinality(Deltas(1..last)) <= MaxEvents
  => Deltas(1..cursor) \subseteq Range(shown)

(* A client is not kept waiting for ever: the stream of a run that ended    *)
(* ends, Redis or not.                                                      *)
StreamEnds == (phase # "running" /\ Connected) ~> ~Connected

(* Neither of the two answers a browser starts from has a hole: not what    *)
(* get_owned_run_state restores, not the first replay of iter_run_events.   *)
NothingMissing == RestoredComplete /\ ReplayComplete
=============================================================================
