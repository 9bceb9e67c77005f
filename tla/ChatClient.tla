----------------------------- MODULE ChatClient -----------------------------
(***************************************************************************)
(* The chat of one browser tab (frontend/src/app, conversations, runs):    *)
(* the reducers of the store, and the hooks that select a conversation,    *)
(* send, regenerate, stop and delete, read the events of a run, recover a  *)
(* run on entry and poll the list, with every await a point where anything *)
(* else may happen.                                                        *)
(*                                                                         *)
(* JavaScript runs one task at a time, so a hook between two awaits is one *)
(* step, and the actions that it dispatches are the composition of the     *)
(* reducers.  A request is a task: sent, answered (the answer says what    *)
(* the server knew then), settled.  A turn of a thread, that is a user's   *)
(* message with the answer to it, is named by its run.                     *)
(***************************************************************************)
EXTENDS Naturals, Sequences, FiniteSets

CONSTANTS
  Convs, None,
  First,      \* the conversation that exists when the tab opens
  MaxRuns,    \* bound on the runs
  MaxSeq,     \* bound on the events of a run before the terminal one
  MaxAsked,   \* bound on the user's actions
  MaxFaults   \* bound on lost requests, answers and streams

ASSUME ChatAssumption ==
  /\ None \notin Convs /\ First \in Convs
  /\ MaxRuns \in Nat \ {0} /\ MaxSeq \in Nat /\ MaxAsked \in Nat /\ MaxFaults \in Nat

VARIABLES
  phase, thread, runs,    \* the server's conversations and runs
  url,      \* the conversation in the path /c/:publicId
  seen,     \* what the effects of AppShell last saw of url and selectedId
  st,       \* AppState
  stream,   \* the one stream that useRunStream reads; its run is 0 if none
  tasks,    \* the requests whose promise has not settled
  asked,    \* number of the user's actions
  faults,
  odd       \* history: the unlucky orders that have happened (see below)

server == <<phase, thread, runs>>
vars == <<server, url, seen, st, stream, tasks, asked, faults, odd>>

Ended == {"succeeded", "failed", "cancelled"}
NoDetail == [conv |-> None, turns |-> <<>>, done |-> {}, status |-> "idle"]
NoRun == [run |-> 0, conv |-> None, seq |-> 0, draft |-> <<>>, status |-> "none"]
NoSubmission == [busy |-> FALSE, conv |-> None]
NoStream == [run |-> 0, conv |-> None, pos |-> 0]

-----------------------------------------------------------------------------
(* The server, as far as the client can tell                                *)

ActiveRuns(c) == {r \in DOMAIN runs : runs[r].conv = c /\ runs[r].status = "active"}

(* GET /conversations/:id.                                                  *)
DetailNow(c) ==
  [turns |-> thread[c],
   done |-> {r \in DOMAIN runs : runs[r].conv = c /\ runs[r].status = "succeeded"}]

NoAnswer == [turns |-> <<>>, done |-> {}, run |-> 0, conv |-> None, status |-> "none", seq |-> 0]

QueueRun(c, turns) ==
  /\ Len(runs) < MaxRuns
  /\ runs' = Append(runs, [conv |-> c, status |-> "active", seq |-> 0, stop |-> FALSE])
  /\ thread' = [thread EXCEPT ![c] = Append(turns, Len(runs) + 1)]

(* The worker: the next event, and the end of a run.                        *)
Emit(r) ==
  /\ runs[r].status = "active" /\ runs[r].seq < MaxSeq
  /\ runs' = [runs EXCEPT ![r].seq = @ + 1]
  /\ UNCHANGED <<phase, thread>>

EndRun(r, s) ==
  /\ runs[r].status = "active" /\ (s = "cancelled" => runs[r].stop)
  /\ runs' = [runs EXCEPT ![r].status = s]
  /\ UNCHANGED <<phase, thread>>

Worker ==
  /\ \E r \in DOMAIN runs : Emit(r) \/ \E s \in Ended : EndRun(r, s)
  /\ UNCHANGED <<url, seen, st, stream, tasks, asked, faults, odd>>

-----------------------------------------------------------------------------
(* conversationDetailReducer, and the selection of conversationIndexReducer *)
(* (its rows are ConversationList's)                                        *)

Selected(s, c) == [s EXCEPT !.sel = c]

DetailLoaded(s, c, a) ==
  [s EXCEPT !.detail = [conv |-> c, turns |-> a.turns, done |-> a.done,
                        status |-> "ready"]]
DetailLoading(s) == [s EXCEPT !.detail.status = "loading"]
DetailForbidden(s) == [s EXCEPT !.detail = [NoDetail EXCEPT !.status = "forbidden"]]
MessageAppended(s, r) == [s EXCEPT !.detail.turns = Append(@, r)]

-----------------------------------------------------------------------------
(* activeRunReducer.  The draft lists the events it was built from.         *)

RunStarted(s, c, r) ==
  [s EXCEPT !.active = [run |-> r, conv |-> c, seq |-> 0, draft |-> <<>>, status |-> "started"]]

RunRestored(s, c, r, a) ==
  [s EXCEPT !.active =
     [run |-> r, conv |-> c, seq |-> a.seq, draft |-> [k \in 1..a.seq |-> <<r, k>>],
      status |-> IF a.status = "active" THEN "streaming" ELSE a.status]]

(* run/textDelta, run/reasoningDelta and run/toolState.                     *)
Delta(s, r, k) ==
  [s EXCEPT !.active.seq = k, !.active.draft = Append(@, <<r, k>>),
            !.active.status = IF @ = "cancelling" THEN @ ELSE "streaming"]

RunTerminal(s, x) == IF s.active.run = 0 THEN s ELSE [s EXCEPT !.active.status = x]
CancelRequested(s) == [s EXCEPT !.active.status = "cancelling"]
CancelFailed(s) == IF s.active.status # "cancelling" THEN s
                   ELSE [s EXCEPT !.active.status = "streaming"]
RunCleared(s) == [s EXCEPT !.active = NoRun]

(* composerState of AppShell.                                               *)
ComposerState(s) ==
  IF s.pending.busy THEN "submitting"
  ELSE IF s.active.run # 0 /\ s.active.conv = s.sel /\ s.active.status = "cancelling" THEN "stopping"
  ELSE IF s.active.run # 0 /\ s.active.conv = s.sel /\ s.active.status \notin Ended THEN "streaming"
  ELSE "idle"

(* mutateDisabledReason: a thread is edited and regenerated when idle.      *)
MutateDisabled(s) == ComposerState(s) # "idle"

(* The message that is being sent, if it belongs to the open conversation,  *)
(* and StreamingMessage below it: the answer still moves.                   *)
VisiblePending(s) == s.pending.busy /\ s.pending.conv = s.sel
IsStreaming(s) ==
  VisiblePending(s) \/ (s.active.run # 0 /\ s.active.conv = s.sel /\ s.active.status \notin Ended)

-----------------------------------------------------------------------------
(* Requests                                                                 *)

Task(kind, c, r) == [id |-> asked, kind |-> kind, conv |-> c, run |-> r, step |-> "sent",
                     next |-> None, a |-> NoAnswer]

(* The server answers: 4xx is "refused".                                    *)
Answered(t, x, a) == tasks' = (tasks \ {t}) \cup {[t EXCEPT !.step = x, !.a = a]}

Alive(t) == t.conv # None /\ phase[t.conv] = "alive"

ServeRun(t) ==
  LET new == [NoAnswer EXCEPT !.run = Len(runs) + 1] IN
  \/ /\ t.kind = "create"
     /\ \E c \in Convs : /\ phase[c] = "unborn" /\ QueueRun(c, <<>>)
                         /\ phase' = [phase EXCEPT ![c] = "alive"]
                         /\ Answered(t, "ok", [new EXCEPT !.conv = c])
  \/ /\ t.kind \in {"send", "regen"} /\ Alive(t) /\ ActiveRuns(t.conv) = {}
     /\ \E n \in 0..Len(thread[t.conv]) :
          /\ IF t.kind = "send" THEN n = Len(thread[t.conv])
             ELSE n < Len(thread[t.conv]) /\ thread[t.conv][n + 1] = t.run
          /\ QueueRun(t.conv, SubSeq(thread[t.conv], 1, n))
     /\ Answered(t, "ok", new)
     /\ UNCHANGED phase
  \/ /\ t.kind \in {"create", "send", "regen"}
     /\ Answered(t, "refused", NoAnswer) /\ UNCHANGED server

ServeRead(t) ==
  /\ \/ /\ t.kind \in {"select", "reload", "refetch", "restore"}
        /\ IF Alive(t)
             THEN LET d == DetailNow(t.conv) IN
                  Answered(t, "ok", [NoAnswer EXCEPT
                    !.turns = d.turns, !.done = d.done])
             ELSE Answered(t, "refused", NoAnswer)
     \/ /\ t.kind = "recover"
        /\ Answered(t, "ok", [NoAnswer EXCEPT !.status = runs[t.run].status, !.seq = runs[t.run].seq])
  /\ UNCHANGED server

ServeCommand(t) ==
  \/ /\ t.kind = "cancel" /\ Answered(t, "ok", NoAnswer)
     /\ runs' = [runs EXCEPT ![t.run].stop = runs[t.run].status = "active"]
     /\ UNCHANGED <<phase, thread>>
  \/ /\ t.kind = "remove" /\ UNCHANGED <<thread, runs>>
     /\ phase' = [phase EXCEPT ![t.conv] = "deleted"]
     /\ Answered(t, IF Alive(t) THEN "ok" ELSE "refused", NoAnswer)

Serve(t) ==
  /\ t.step = "sent"
  /\ ServeRun(t) \/ ServeRead(t) \/ ServeCommand(t)
  /\ UNCHANGED <<url, seen, st, stream, asked, faults, odd>>

(* A request, or its answer, is lost.                                       *)
Lose(t) ==
  /\ t.step \in {"sent", "ok"} /\ faults < MaxFaults
  /\ faults' = faults + 1 /\ odd' = odd \cup {"race"}
  /\ tasks' = (tasks \ {t}) \cup {[t EXCEPT !.step = "lost", !.a = NoAnswer]}
  /\ UNCHANGED <<server, url, seen, st, stream, asked>>

(* React has rendered the last change of the address and of the selection,  *)
(* and its effects have run: the next callback, or action of the user,      *)
(* finds the screen committed.                                              *)
Rendered == seen = [ready |-> TRUE, url |-> url, sel |-> st.sel]

(* t has settled: the new state of the store, the stream and what is        *)
(* requested next.                                                          *)
Settle(t, s, str, more) ==
  /\ Rendered /\ st' = s /\ stream' = str /\ tasks' = (tasks \ {t}) \cup more
  /\ UNCHANGED <<server, seen, asked, faults>>

Failed(t) == t.step \in {"refused", "lost"}

(* start of useRunStream: the stream read before is aborted.                *)
Start(c, r, seq) == [run |-> r, conv |-> c, pos |-> seq]

-----------------------------------------------------------------------------
(* useSendMessage and useRegenerate                                         *)

Ask == Rendered /\ asked < MaxAsked /\ asked' = asked + 1

(* onSend and send, up to the request.                                      *)
SendMessage ==
  /\ Ask /\ ComposerState(st) = "idle"
  /\ st' = [st EXCEPT !.pending = [busy |-> TRUE, conv |-> st.sel]]
  /\ tasks' = tasks \cup {Task(IF st.sel = None THEN "create" ELSE "send", st.sel, 0)}
  /\ UNCHANGED <<server, url, seen, stream, faults, odd>>

Cleared(s) == [s EXCEPT !.pending = NoSubmission]

(* What the history keeps: an answer that comes after the user has left its *)
(* conversation, and a thread that comes after a newer turn was shown.      *)
Newest(turns) == IF turns = <<>> THEN 0 ELSE turns[Len(turns)]
Strayed(c) == IF st.sel = c THEN {} ELSE {"race"}
Stale(s, a) == IF Newest(a.turns) < Newest(s.detail.turns) \/ ~(s.detail.done \subseteq a.done)
                 THEN {"race"} ELSE {}

(* The first message of a new conversation has been accepted.               *)
Created(t) ==
  LET c == t.a.conv
      r == t.a.run
      s == Selected(DetailLoaded(st, c, [NoAnswer EXCEPT !.turns = <<r>>]), c)
  IN /\ t.kind = "create" /\ t.step = "ok"
     /\ Settle(t, Cleared(RunStarted(s, c, r)), Start(c, r, 0), {})
     /\ odd' = odd \cup Strayed(None) /\ UNCHANGED url

(* A message to an existing conversation has been accepted.                 *)
Sent(t) ==
  LET r == t.a.run
  IN /\ t.kind = "send" /\ t.step = "ok"
     /\ Settle(t, Cleared(RunStarted(MessageAppended(st, r), t.conv, r)), Start(t.conv, r, 0), {})
     /\ odd' = odd \cup Strayed(t.conv)
                   \cup (IF \E k \in DOMAIN st.detail.turns : st.detail.turns[k] = r
                           THEN {"race"} ELSE {})
     /\ UNCHANGED url

NotSent(t) ==
  /\ t.kind \in {"create", "send"} /\ Failed(t)
  /\ Settle(t, Cleared(st), stream, {}) /\ UNCHANGED <<url, odd>>

(* regenerate, and editAndRegenerate whose editor stays usable while a run  *)
(* is active.                                                               *)
Regenerate(edit) ==
  /\ Ask /\ st.sel # None /\ st.detail.turns # <<>>
  /\ edit \/ ~MutateDisabled(st)
  /\ tasks' = tasks \cup {Task("regen", st.sel, st.detail.turns[Len(st.detail.turns)])}
  /\ UNCHANGED <<server, url, seen, st, stream, faults, odd>>

(* run of useRegenerate: then the thread, then the stream.                  *)
Regenerated(t) ==
  /\ t.kind = "regen" /\ t.step = "ok"
  /\ Settle(t, st, stream, {[t EXCEPT !.kind = "reload", !.step = "sent", !.run = t.a.run, !.a = NoAnswer]})
  /\ UNCHANGED <<url, odd>>

Reloaded(t) ==
  /\ t.kind = "reload" /\ t.step = "ok"
  /\ Settle(t, RunStarted(DetailLoaded(st, t.conv, t.a), t.conv, t.run), Start(t.conv, t.run, 0), {})
  /\ odd' = odd \cup Strayed(t.conv) \cup Stale(st, t.a) /\ UNCHANGED url

NotRegenerated(t) ==
  /\ t.kind \in {"regen", "reload"} /\ Failed(t)
  /\ Settle(t, st, stream, {}) /\ UNCHANGED <<url, odd>>

-----------------------------------------------------------------------------
(* useConversationLoader and useRunRecovery                                 *)

(* selectConversation, up to its request.                                   *)
Selecting(s, c) == DetailLoading(Selected(IF c # s.sel THEN RunCleared(s) ELSE s, c))

(* newConversation.                                                         *)
NewConversation(s) == [Selected(RunCleared(s), None) EXCEPT !.detail = NoDetail]

(* findPendingRunId.                                                        *)
PendingRun(d) ==
  LET n == Len(d.turns) IN
  IF n = 0 THEN 0 ELSE IF d.turns[n] \in d.done THEN 0 ELSE d.turns[n]

(* The request of useRunRecovery, if there is a run to recover.             *)
Recover(s, c) ==
  LET r == PendingRun(s.detail) IN
  IF s.detail.conv = c /\ s.active.conv # c /\ r # 0 THEN {Task("recover", c, r)} ELSE {}

(* The detail that selectConversation asked for.                            *)
DetailArrived(t) ==
  LET s == IF st.sel # t.conv THEN st
           ELSE IF t.step = "ok" THEN DetailLoaded(st, t.conv, t.a)
           ELSE IF t.step = "refused" THEN Selected(DetailForbidden(st), None)
           ELSE DetailForbidden(st)
  IN /\ t.kind = "select" /\ t.step # "sent"
     /\ Settle(t, s, stream, Recover(s, t.conv))
     /\ odd' = odd \cup (IF st.sel = t.conv /\ t.step = "ok" THEN Stale(st, t.a) ELSE {})
     /\ UNCHANGED url

(* The state that useRunRecovery asked for.                                 *)
Recovered(t) ==
  LET s == RunRestored(st, t.conv, t.run, t.a)
      dropped == t.step = "lost" \/ st.sel # t.conv
  IN /\ t.kind = "recover" /\ t.step # "sent"
     /\ CASE dropped -> Settle(t, st, stream, {}) /\ UNCHANGED odd
          [] ~dropped /\ t.a.status = "succeeded" ->
               Settle(t, st, stream, {Task("restore", t.conv, t.run)}) /\ UNCHANGED odd
          [] OTHER ->
               /\ Settle(t, s, IF t.a.status = "active" THEN Start(t.conv, t.run, t.a.seq)
                               ELSE stream, {})
               /\ odd' = odd \cup (IF st.active.run # 0 THEN {"race"} ELSE {})
                             \cup (IF stream.run = t.run /\ t.a.status # "active" THEN {"lag"} ELSE {})
     /\ UNCHANGED url

(* The refetch after a recovery that found the run succeeded.               *)
Restored(t) ==
  /\ t.kind = "restore" /\ t.step # "sent"
  /\ Settle(t, IF t.step = "ok" /\ st.sel = t.conv THEN DetailLoaded(st, t.conv, t.a) ELSE st,
            stream, {})
  /\ odd' = odd \cup (IF st.sel = t.conv /\ t.step = "ok" THEN Stale(st, t.a) ELSE {})
  /\ UNCHANGED url

(* deleteConversation, asked with the rows and the selection of that        *)
(* moment: next is what will be opened if the open one is deleted.          *)
DeleteConversation(c) ==
  /\ Ask /\ phase[c] # "unborn"
  /\ \E n \in {None} \cup {d \in Convs \ {c} : phase[d] # "unborn"} :
       tasks' = tasks \cup {[Task("remove", c, IF st.sel = c THEN 1 ELSE 0) EXCEPT !.next = n]}
  /\ UNCHANGED <<server, url, seen, st, stream, faults, odd>>

ConversationDeleted(t) ==
  /\ t.kind = "remove" /\ t.step # "sent"
  /\ IF Failed(t) \/ t.run = 0 THEN Settle(t, st, stream, {})
     ELSE IF t.next = None THEN Settle(t, NewConversation(st), stream, {})
     ELSE Settle(t, Selecting(st, t.next), stream, {Task("select", t.next, 0)})
  /\ UNCHANGED <<url, odd>>

-----------------------------------------------------------------------------
(* useRunStream                                                             *)

IsActiveRun == st.active.run = stream.run

(* Mutant: the event goes to whatever run is shown.                         *)
StreamEventAny ==
  /\ Rendered /\ stream.run # 0 /\ stream.pos < runs[stream.run].seq
  /\ stream' = [stream EXCEPT !.pos = @ + 1]
  /\ st' = IF st.active.run # 0 THEN Delta(st, stream.run, stream.pos + 1) ELSE st
  /\ UNCHANGED <<server, url, seen, tasks, asked, faults, odd>>

(* The next event of the stream.                                            *)
StreamEvent ==
  /\ Rendered /\ stream.run # 0 /\ stream.pos < runs[stream.run].seq
  /\ stream' = [stream EXCEPT !.pos = @ + 1]
  /\ st' = IF IsActiveRun THEN Delta(st, stream.run, stream.pos + 1) ELSE st
  /\ UNCHANGED <<server, url, seen, tasks, asked, faults, odd>>

(* The terminal event: the stream ends; a success refetches.                *)
StreamTerminal ==
  LET x == runs[stream.run].status
  IN /\ Rendered /\ stream.run # 0 /\ stream.pos >= runs[stream.run].seq /\ x \in Ended
     /\ st' = IF IsActiveRun THEN RunTerminal(st, x) ELSE st
     /\ tasks' = IF x = "succeeded" THEN tasks \cup {Task("refetch", stream.conv, stream.run)}
                 ELSE tasks
     /\ stream' = NoStream
     /\ UNCHANGED <<server, url, seen, asked, faults, odd>>

(* The stream fails, or ends without a terminal event.                      *)
StreamBreaks ==
  /\ Rendered /\ stream.run # 0 /\ faults < MaxFaults /\ faults' = faults + 1
  /\ \/ st' = IF IsActiveRun THEN RunTerminal(st, "failed") ELSE st
     \/ st' = st
  /\ stream' = NoStream /\ odd' = odd \cup {"race"}
  /\ UNCHANGED <<server, url, seen, tasks, asked>>

(* Mutant: the draft is cleared without the thread that replaces it.        *)
RefetchedClears(t) ==
  LET s2 == IF st.active.run = t.run THEN RunCleared(st) ELSE st
  IN /\ t.kind = "refetch" /\ t.step # "sent"
     /\ Settle(t, IF t.step = "ok" THEN s2 ELSE st, stream, {})
     /\ UNCHANGED <<url, odd>>

(* The refetch after the terminal event of a success.                       *)
Refetched(t) ==
  LET s1 == IF st.sel = t.conv THEN DetailLoaded(st, t.conv, t.a) ELSE st
      s2 == IF s1.active.run = t.run THEN RunCleared(s1) ELSE s1
      failed == IF st.active.run = t.run THEN RunTerminal(st, "failed") ELSE st
  IN /\ t.kind = "refetch" /\ t.step # "sent"
     /\ Settle(t, IF t.step = "ok" THEN s2 ELSE failed, stream, {})
     /\ odd' = odd \cup (IF st.sel = t.conv /\ t.step = "ok" THEN Stale(st, t.a) ELSE {})
     /\ UNCHANGED url

(* onStop and cancel.                                                       *)
Cancel ==
  /\ Ask /\ ComposerState(st) = "streaming"
  /\ st' = CancelRequested(st)
  /\ tasks' = tasks \cup {Task("cancel", None, st.active.run)}
  /\ UNCHANGED <<server, url, seen, stream, faults, odd>>

CancelAnswered(t) ==
  /\ t.kind = "cancel" /\ t.step # "sent"
  /\ Settle(t, IF Failed(t) THEN CancelFailed(st) ELSE st, stream, {}) /\ UNCHANGED <<url, odd>>

-----------------------------------------------------------------------------
(* AppShell: the address and the selection                                  *)

(* onSelectConversation, onNewConversation and the back button.             *)
Navigate(c) ==
  /\ Ask /\ c # url /\ url' = c
  /\ UNCHANGED <<server, seen, st, stream, tasks, faults, odd>>

(* Mutant: the second effect uses the selection of its render.              *)
CommitStale ==
  LET urlNew == ~seen.ready \/ seen.url # url
      selNew == ~seen.ready \/ seen.sel # st.sel
      opens == urlNew /\ url # None /\ url # st.sel
      s == IF opens THEN Selecting(st, url)
           ELSE IF urlNew /\ url = None /\ st.sel # None THEN NewConversation(st) ELSE st
  IN /\ urlNew \/ selNew
     /\ st' = s
     /\ tasks' = IF opens THEN tasks \cup {Task("select", url, 0)} ELSE tasks
     /\ url' = IF selNew /\ url # st.sel THEN st.sel ELSE url
     /\ seen' = [ready |-> TRUE, url |-> url, sel |-> st.sel]
     /\ UNCHANGED <<server, stream, asked, faults, odd>>

(* A render is committed, and its two effects run in their order: the       *)
(* address drives the selection, then the selection drives the address.     *)
Commit ==
  LET urlNew == ~seen.ready \/ seen.url # url
      selNew == ~seen.ready \/ seen.sel # st.sel
      opens == urlNew /\ url # None /\ url # st.sel
      s == IF opens THEN Selecting(st, url)
           ELSE IF urlNew /\ url = None /\ st.sel # None THEN NewConversation(st) ELSE st
  IN /\ urlNew \/ selNew
     /\ st' = s
     /\ tasks' = IF opens THEN tasks \cup {Task("select", url, 0)} ELSE tasks
     /\ url' = IF selNew /\ url # s.sel THEN s.sel ELSE url
     /\ seen' = [ready |-> TRUE, url |-> url, sel |-> st.sel]
     /\ UNCHANGED <<server, stream, asked, faults, odd>>
-----------------------------------------------------------------------------
(* The tab opens at "/" or at a deep link once loadList has settled.  One   *)
(* conversation exists and its last run is active, or ends before the first *)
(* request.                                                                 *)
Init ==
    /\ phase = [c \in Convs |-> IF c = First THEN "alive" ELSE "unborn"]
    /\ thread = [c \in Convs |-> IF c = First THEN <<1>> ELSE <<>>]
    /\ runs = <<[conv |-> First, status |-> "active", seq |-> 0, stop |-> FALSE]>>
    /\ url \in {None, First}
    /\ seen = [ready |-> FALSE, url |-> None, sel |-> None]
    /\ st = [sel |-> None, detail |-> NoDetail, active |-> NoRun, pending |-> NoSubmission]
    /\ stream = NoStream /\ tasks = {} /\ asked = 0 /\ faults = 0 /\ odd = {}

User ==
  \/ SendMessage \/ Cancel \/ \E edit \in BOOLEAN : Regenerate(edit)
  \/ \E c \in Convs : DeleteConversation(c)
  \/ \E c \in {None} \cup {d \in Convs : phase[d] # "unborn"} : Navigate(c)

Continuation(t) ==
  \/ Created(t) \/ Sent(t) \/ NotSent(t) \/ Regenerated(t) \/ Reloaded(t) \/ NotRegenerated(t)
  \/ DetailArrived(t) \/ Recovered(t) \/ Restored(t)
  \/ ConversationDeleted(t) \/ Refetched(t) \/ CancelAnswered(t)

Browser ==
  \/ \E t \in tasks : Continuation(t)
  \/ StreamEvent \/ StreamTerminal \/ Commit

Next ==
  \/ Worker \/ User \/ Browser \/ StreamBreaks
  \/ \E t \in tasks : Serve(t) \/ Lose(t)

(* Runs end (the worker's liveness is RunExecution's), requests are         *)
(* answered, and the browser goes on with its callbacks, timers and         *)
(* renders.                                                                 *)
Fairness ==
  /\ WF_vars(Worker)
  /\ WF_vars(\E t \in tasks : Serve(t)) /\ WF_vars(\E t \in tasks : Continuation(t))
  /\ WF_vars(StreamEvent \/ StreamTerminal) /\ WF_vars(Commit)

Spec == Init /\ [][Next]_vars /\ Fairness
-----------------------------------------------------------------------------
Kinds == {"create", "send", "regen", "reload", "select", "recover", "restore",
          "refetch", "cancel", "remove"}

TypeOK ==
  LET Conv == Convs \cup {None}
      Turns == UNION {[1..n -> 1..MaxRuns] : n \in 0..MaxRuns}
  IN /\ phase \in [Convs -> {"unborn", "alive", "deleted"}]
     /\ \A c \in Convs : thread[c] \in Turns
     /\ \A r \in DOMAIN runs :
          runs[r] \in [conv : Convs, status : Ended \cup {"active"}, seq : 0..MaxSeq, stop : BOOLEAN]
     /\ Len(runs) <= MaxRuns /\ url \in Conv
     /\ seen \in [ready : BOOLEAN, url : Conv, sel : Conv]
     /\ st.sel \in Conv /\ st.detail.conv \in Conv
     /\ \A k \in DOMAIN st.detail.turns : st.detail.turns[k] \in 1..MaxRuns
     /\ st.detail.done \subseteq 1..MaxRuns
     /\ st.detail.status \in {"idle", "loading", "ready", "forbidden"}
     /\ st.active.run \in 0..MaxRuns /\ st.active.conv \in Conv /\ st.active.seq \in 0..MaxSeq
     /\ st.active.status \in Ended \cup {"none", "started", "streaming", "cancelling"}
     /\ st.pending \in [busy : BOOLEAN, conv : Conv]
     /\ stream \in [run : 0..MaxRuns, conv : Conv, pos : 0..MaxSeq]
     /\ \A t \in tasks : t.kind \in Kinds /\ t.step \in {"sent", "ok", "refused", "lost"}
     /\ asked \in 0..MaxAsked /\ faults \in 0..MaxFaults
     /\ odd \subseteq {"race", "lag"}

(* useRunStream: "a late event never lands on the wrong run".  Whatever is  *)
(* navigated, sent and recovered while a stream still yields, the draft on  *)
(* the screen is made of events of its own run.                             *)
DraftOfItsRun ==
  \A k \in DOMAIN st.active.draft : st.active.draft[k][1] = st.active.run

(* "events are never dispatched twice": the draft is the run's events up to *)
(* latestSeq, each of them once and in order.                               *)
EventsOnce ==
  /\ Len(st.active.draft) = st.active.seq
  /\ \A k \in DOMAIN st.active.draft : st.active.draft[k][2] = k

(* ... as long as no ended run was restored while a stream still read it.   *)
EventsOnceUnlessLagging == "lag" \in odd \/ EventsOnce

(* Sending ends, with success or not, and the composer can be used again.   *)
SubmissionEnds == []<>(~st.pending.busy)

(* The composer is freed: once the user stops and nothing was lost, it      *)
(* neither submits, streams nor stops for ever, whichever run is shown, and *)
(* no answer is still being waited for.                                     *)
ComposerFreed == <>[](odd = {} => ComposerState(st) = "idle" /\ ~IsStreaming(st))

(* The two effects of AppShell never chase each other: once the user stops, *)
(* the address and the selection agree for good.                            *)
AddressSettles == <>[](url = st.sel)

(* What the open conversation shows: it is loaded, and an answer that the   *)
(* server has is there.                                                     *)
ThreadComplete ==
  st.sel # None /\ phase[st.sel] = "alive" =>
    /\ st.detail.conv = st.sel /\ st.detail.turns = thread[st.sel]
    /\ PendingRun(st.detail) = 0 \/ runs[PendingRun(st.detail)].status # "succeeded"

(* Once the user stops and nothing was lost, the open conversation is       *)
(* complete, however its loading, its recovery, its stream and its refetch  *)
(* overtook each other.                                                     *)
ThreadCatchesUp == <>[](odd = {} => ThreadComplete)

(* The draft on the screen is always one run's, whole, in order and without *)
(* repetition (useRunStream, useRunRecovery, chatReducer).                  *)
DraftTrue == TypeOK /\ DraftOfItsRun /\ EventsOnceUnlessLagging

(* The page comes to rest once the user does: the submission, the composer  *)
(* and the address (useMessageSubmission, Composer, AppShell).              *)
ClientSettles == SubmissionEnds /\ ComposerFreed /\ AddressSettles
=============================================================================
