---------------------------- MODULE Conversation ----------------------------
(***************************************************************************)
(* One conversation: its messages, the runs that answer them, and the      *)
(* requests of several browser tabs that submit, edit, regenerate, cancel, *)
(* delete and restore (app/services/conversations/service.py) while        *)
(* workers finish, fail and recover runs and the maintenance job purges.   *)
(*                                                                         *)
(* Requests that write messages hold the row of the conversation (SELECT   *)
(* FOR UPDATE), workers do not: they take the row of the run, and wait for *)
(* the conversation only when they insert the answer (its foreign key).    *)
(* Reads are READ COMMITTED, so every statement of a request may see a     *)
(* later state than the one before it.                                     *)
(*                                                                         *)
(* How a worker gets a run to its end is RunExecution; "streaming" is not  *)
(* told apart from "started" here.  Content, attachments and titles are    *)
(* left out.                                                               *)
(***************************************************************************)
EXTENDS Integers, Sequences, FiniteSetsExt, RunStatuses

CONSTANTS
  Tabs,      \* browser tabs, each with one request at a time
  MaxMsgs,   \* bound on messages
  MaxRuns    \* bound on runs

ASSUME ConversationAssumption ==
  MaxMsgs \in Nat /\ MaxRuns \in Nat /\ "nobody" \notin Tabs

VARIABLES
  msgs,      \* rows of messages by id: [role, position, run, archived]
  runs,      \* rows of runs by id: [msg, status], msg is user_message_id
  deleted,   \* deleted_at: "no", "yes", or "due" once deletion_due_at passed
  gone,      \* the rows were purged
  lock,      \* the tab whose request holds the row, or "nobody"
  req,       \* the request of each tab: [pc, kind, target]
  fin,       \* run whose final transaction is open, 0 when there is none
  finPos     \* the position that transaction has read for its message

rows == <<msgs, runs>>
vars == <<msgs, runs, deleted, gone, lock, req, fin, finPos>>

Idle == [pc |-> "idle", kind |-> "none", target |-> 0]

Init ==
  /\ msgs = <<>> /\ runs = <<>>
  /\ deleted = "no" /\ gone = FALSE
  /\ lock = "nobody" /\ req = [t \in Tabs |-> Idle]
  /\ fin = 0 /\ finPos = 0

-----------------------------------------------------------------------------
(* ACTIVE_RUN_STATUSES, here without streaming.                             *)
ActiveStatuses == {"queued", "started", "cancelling"}
ActiveRuns == {r \in DOMAIN runs : runs[r].status \in ActiveStatuses}

Visible == {m \in DOMAIN msgs : ~msgs[m].archived}

(* Mutant: positions of archived messages are given out again.              *)
NextVisiblePosition == Max({msgs[m].position : m \in Visible} \cup {0}) + 1

(* Mutant: positions count from 0.                                          *)
NextPositionFromZero == Max({msgs[m].position : m \in DOMAIN msgs} \cup {-1}) + 1

(* get_next_message_position, over archived messages too.                   *)
NextPosition == Max({msgs[m].position : m \in DOMAIN msgs} \cup {0}) + 1

(* The messages with the ones at `position' or after it archived.           *)
ArchiveFrom(position) ==
  [m \in DOMAIN msgs |->
     IF msgs[m].position >= position THEN [msgs[m] EXCEPT !.archived = TRUE]
                                     ELSE msgs[m]]

UserMessage(position, run) ==
  [role |-> "user", position |-> position, run |-> run, archived |-> FALSE]
AssistantMessage(position, run) ==
  [role |-> "assistant", position |-> position, run |-> run, archived |-> FALSE]

NewRun == Len(runs) + 1
Queue(msg) == runs' = Append(runs, [msg |-> msg, status |-> "queued"])

SetRun(r, to) == runs' = [runs EXCEPT ![r].status = to]

-----------------------------------------------------------------------------
(* Requests that start a run.                                               *)

(* Mutant: the query does not look at deleted_at.                           *)
LockAny(t, kind, m) ==
  /\ req[t].pc = "idle" /\ lock = "nobody" /\ ~gone
  /\ lock' = t
  /\ req' = [req EXCEPT ![t] = [pc |-> "locked", kind |-> kind, target |-> m]]
  /\ UNCHANGED <<rows, deleted, gone, fin, finPos>>

(* get_owned_visible_conversation_for_update, and the message that the      *)
(* request is about, which must not be archived.                            *)
Lock(t, kind, m) ==
  /\ req[t].pc = "idle" /\ lock = "nobody" /\ deleted = "no" /\ ~gone
  /\ lock' = t
  /\ req' = [req EXCEPT ![t] = [pc |-> "locked", kind |-> kind, target |-> m]]
  /\ UNCHANGED <<rows, deleted, gone, fin, finPos>>

BeginSubmit(t) == Lock(t, "submit", 0)

BeginEdit(t, m) == m \in Visible /\ msgs[m].role = "user" /\ Lock(t, "edit", m)

(* regenerate_from_message: an assistant message stands for the user        *)
(* message of its run.                                                      *)
BeginRegenerate(t, m) ==
  /\ m \in Visible
  /\ LET anchor == IF msgs[m].role = "user" THEN m ELSE runs[msgs[m].run].msg
     IN anchor \in Visible /\ Lock(t, "regenerate", anchor)

(* The end of a request: rollback or commit.                                *)
Release(t) == lock' = "nobody" /\ req' = [req EXCEPT ![t] = Idle]

(* Mutant: the request goes on although a run is active.                    *)
EnsureNothing(t) ==
  /\ req[t].pc = "locked"
  /\ req' = [req EXCEPT ![t].pc = "ensured"] /\ UNCHANGED lock
  /\ UNCHANGED <<rows, deleted, gone, fin, finPos>>

(* ensure_no_active_run: 409 if there is one.                               *)
EnsureNoActiveRun(t) ==
  /\ req[t].pc = "locked"
  /\ IF ActiveRuns = {}
     THEN req' = [req EXCEPT ![t].pc = "ensured"] /\ UNCHANGED lock
     ELSE Release(t)
  /\ UNCHANGED <<rows, deleted, gone, fin, finPos>>

(* _submit_user_message_to_conversation: message and run.                   *)
CommitSubmit(t) ==
  /\ req[t].pc = "ensured" /\ req[t].kind = "submit"
  /\ Len(msgs) < MaxMsgs /\ Len(runs) < MaxRuns
  /\ msgs' = Append(msgs, UserMessage(NextPosition, NewRun))
  /\ Queue(Len(msgs) + 1)
  /\ Release(t)
  /\ UNCHANGED <<deleted, gone, fin, finPos>>

(* Mutant: an edit keeps the answer to what was edited.                     *)
CommitEditKeepingAnswer(t) ==
  /\ req[t].pc = "ensured" /\ req[t].kind = "edit"
  /\ Len(msgs) < MaxMsgs /\ Len(runs) < MaxRuns
  /\ msgs' = Append([msgs EXCEPT ![req[t].target].archived = TRUE],
                    UserMessage(NextPosition, NewRun))
  /\ Queue(Len(msgs) + 1)
  /\ Release(t)
  /\ UNCHANGED <<deleted, gone, fin, finPos>>

(* edit_user_message_and_regenerate: the message and everything after it is *)
(* archived; the new text is a new message.                                 *)
CommitEdit(t) ==
  /\ req[t].pc = "ensured" /\ req[t].kind = "edit"
  /\ Len(msgs) < MaxMsgs /\ Len(runs) < MaxRuns
  /\ msgs' = Append(ArchiveFrom(msgs[req[t].target].position),
                    UserMessage(NextPosition, NewRun))
  /\ Queue(Len(msgs) + 1)
  /\ Release(t)
  /\ UNCHANGED <<deleted, gone, fin, finPos>>

(* Mutant: regenerating archives nothing.                                   *)
CommitRegenerateKeepingAll(t) ==
  /\ req[t].pc = "ensured" /\ req[t].kind = "regenerate"
  /\ Len(runs) < MaxRuns
  /\ msgs' = [msgs EXCEPT ![req[t].target].run = NewRun]
  /\ Queue(req[t].target)
  /\ Release(t)
  /\ UNCHANGED <<deleted, gone, fin, finPos>>

(* regenerate_from_message: everything after the anchor is archived, and    *)
(* the anchor belongs to the new run.                                       *)
CommitRegenerate(t) ==
  /\ req[t].pc = "ensured" /\ req[t].kind = "regenerate"
  /\ Len(runs) < MaxRuns
  /\ msgs' = [ArchiveFrom(msgs[req[t].target].position + 1)
                EXCEPT ![req[t].target].run = NewRun]
  /\ Queue(req[t].target)
  /\ Release(t)
  /\ UNCHANGED <<deleted, gone, fin, finPos>>

(* A check on attachments, images or quotes refuses the request, or the     *)
(* connection is lost.                                                      *)
Abort(t) ==
  /\ req[t].pc \in {"locked", "ensured"}
  /\ Release(t)
  /\ UNCHANGED <<rows, deleted, gone, fin, finPos>>

-----------------------------------------------------------------------------
(* Runs.                                                                    *)

(* cancel_owned_run: only of a visible conversation, and not while the      *)
(* final transaction of the run has its row.                                *)
CancelRun(r) ==
  /\ r \in ActiveRuns /\ fin # r /\ deleted = "no" /\ ~gone
  /\ runs[r].status # "cancelling"
  /\ SetRun(r, IF runs[r].status = "queued" THEN "cancelled" ELSE "cancelling")
  /\ UNCHANGED <<msgs, deleted, gone, lock, req, fin, finPos>>

(* claim_next_queued_run does not look at the conversation.                 *)
ClaimRun(r) ==
  /\ r \in DOMAIN runs /\ runs[r].status = "queued" /\ ~gone
  /\ SetRun(r, "started")
  /\ UNCHANGED <<msgs, deleted, gone, lock, req, fin, finPos>>

(* mark_run_failed, mark_run_cancelled or recover_expired_runs.             *)
EndRun(r, to) ==
  /\ r \in DOMAIN runs /\ fin # r /\ ~gone
  /\ \/ to = "failed" /\ runs[r].status \in FailedFrom
     \/ to = "cancelled" /\ runs[r].status \in {"started", "cancelling"}
  /\ SetRun(r, to)
  /\ UNCHANGED <<msgs, deleted, gone, lock, req, fin, finPos>>

(* Mutant: the executor does not look at what became of its run.            *)
FinalizeAnyway(r) ==
  /\ r \in DOMAIN runs /\ runs[r].status \in {"started", "failed"}
  /\ fin = 0 /\ ~gone
  /\ fin' = r /\ finPos' = NextPosition
  /\ UNCHANGED <<rows, deleted, gone, lock, req>>

(* _finalize_result of a live or of a late executor: mark_run_succeeded     *)
(* locks the row of the run and goes on only if nobody ended it;            *)
(* materialize_assistant_message reads the position.                        *)
Finalize(r) ==
  /\ r \in DOMAIN runs /\ runs[r].status \in SucceededFrom
  /\ fin = 0 /\ ~gone
  /\ fin' = r /\ finPos' = NextPosition
  /\ UNCHANGED <<rows, deleted, gone, lock, req>>

(* The insert, which waits for a request that has the conversation, and the *)
(* commit.                                                                  *)
CommitFinalize ==
  /\ fin # 0 /\ lock = "nobody" /\ Len(msgs) < MaxMsgs
  /\ SetRun(fin, "succeeded")
  /\ msgs' = Append(msgs, AssistantMessage(finPos, fin))
  /\ fin' = 0 /\ finPos' = 0
  /\ UNCHANGED <<deleted, gone, lock, req>>

(* The worker dies, or its transaction is rolled back.                      *)
AbortFinalize ==
  /\ fin # 0
  /\ fin' = 0 /\ finPos' = 0
  /\ UNCHANGED <<rows, deleted, gone, lock, req>>

-----------------------------------------------------------------------------
(* The conversation itself.                                                 *)

(* delete_conversation looks for it without a lock ...                      *)
BeginDelete(t) ==
  /\ req[t].pc = "idle" /\ deleted = "no" /\ ~gone
  /\ req' = [req EXCEPT ![t] = [pc |-> "deleting", kind |-> "delete", target |-> 0]]
  /\ UNCHANGED <<rows, deleted, gone, lock, fin, finPos>>

(* ... and its UPDATE waits for whoever has the row, the insert of an       *)
(* answer included; it does not look at deleted_at again.                   *)
CommitDelete(t) ==
  /\ req[t].pc = "deleting" /\ lock = "nobody" /\ ~gone
  /\ deleted' = "yes"
  /\ req' = [req EXCEPT ![t] = Idle]
  /\ UNCHANGED <<rows, gone, lock, fin, finPos>>

DeleteFails(t) ==
  /\ req[t].pc = "deleting" /\ gone
  /\ req' = [req EXCEPT ![t] = Idle]
  /\ UNCHANGED <<rows, deleted, gone, lock, fin, finPos>>

(* restore_conversation, before deletion_due_at.                            *)
Restore ==
  /\ deleted = "yes" /\ lock = "nobody" /\ ~gone
  /\ deleted' = "no"
  /\ UNCHANGED <<rows, gone, lock, req, fin, finPos>>

RetentionEnds ==
  /\ deleted = "yes" /\ ~gone
  /\ deleted' = "due"
  /\ UNCHANGED <<rows, gone, lock, req, fin, finPos>>

(* purge_deleted_conversations, SKIP LOCKED.  It and an open final          *)
(* transaction wait for each other, and PostgreSQL aborts one of the two;   *)
(* when the purge goes through, the executor finds its run missing.         *)
Purge ==
  /\ deleted = "due" /\ lock = "nobody" /\ ~gone
  /\ gone' = TRUE
  /\ fin' = 0 /\ finPos' = 0
  /\ UNCHANGED <<rows, deleted, lock, req>>

-----------------------------------------------------------------------------
Request(t) ==
  \/ BeginSubmit(t)
  \/ \E m \in DOMAIN msgs : BeginEdit(t, m) \/ BeginRegenerate(t, m)
  \/ EnsureNoActiveRun(t)
  \/ CommitSubmit(t) \/ CommitEdit(t) \/ CommitRegenerate(t)
  \/ Abort(t)
  \/ BeginDelete(t) \/ CommitDelete(t) \/ DeleteFails(t)

RunStep ==
  \/ \E r \in DOMAIN runs : \/ CancelRun(r) \/ ClaimRun(r) \/ Finalize(r)
                            \/ \E to \in {"failed", "cancelled"} : EndRun(r, to)
  \/ CommitFinalize \/ AbortFinalize

Next == \/ \E t \in Tabs : Request(t)
        \/ RunStep
        \/ Restore \/ RetentionEnds \/ Purge

Safety == Init /\ [][Next]_vars

-----------------------------------------------------------------------------
(* Types; positions start at 1, and every message and run refers to a row   *)
(* that exists (the foreign keys between messages and runs).                *)
TypeOK ==
  /\ \A m \in DOMAIN msgs :
       msgs[m] \in [role : {"user", "assistant"}, position : 1..MaxMsgs,
                    run : DOMAIN runs, archived : BOOLEAN]
  /\ \A r \in DOMAIN runs :
       runs[r] \in [msg : DOMAIN msgs,
                    status : ActiveStatuses \cup TerminalStatuses]
  /\ Len(msgs) <= MaxMsgs /\ Len(runs) <= MaxRuns
  /\ deleted \in {"no", "yes", "due"} /\ gone \in BOOLEAN
  /\ lock \in Tabs \cup {"nobody"}
  /\ req \in [Tabs -> [pc : {"idle", "locked", "ensured", "deleting"},
                       kind : {"none", "submit", "edit", "regenerate", "delete"},
                       target : 0..MaxMsgs]]
  /\ fin \in 0..MaxRuns /\ finPos \in 0..(MaxMsgs + 1)

(* ensure_no_active_run is enough: the partial unique index on active runs  *)
(* of a conversation never has to refuse an insert, although the check and  *)
(* the insert are two statements and workers do not take the conversation.  *)
OneActiveRun == \A r, s \in ActiveRuns : r = s

(* get_next_message_position: max + 1 is read by requests and by workers    *)
(* before they insert, and still no two messages get the same position.     *)
PositionsUnique ==
  \A m, n \in DOMAIN msgs : m # n => msgs[m].position # msgs[n].position

(* What a reader of the conversation sees: an assistant message comes       *)
(* directly after the user message that its run answers, whatever was       *)
(* edited, regenerated, failed or recovered before.                         *)
AnswersInPlace ==
  \A m \in Visible : msgs[m].role = "assistant" =>
    LET asked == runs[msgs[m].run].msg
    IN /\ asked \in Visible /\ msgs[asked].role = "user"
       /\ msgs[asked].run = msgs[m].run
       /\ msgs[asked].position < msgs[m].position
       /\ ~ \E n \in Visible : /\ msgs[asked].position < msgs[n].position
                               /\ msgs[n].position < msgs[m].position

(* load_conversation_history: while a run is active, the message it answers *)
(* is the last one that is visible, so the history its executor loads, at   *)
(* any time, is the whole conversation.                                     *)
ActiveRunAnswersLast ==
  \A r \in ActiveRuns :
    /\ runs[r].msg \in Visible /\ msgs[runs[r].msg].run = r
    /\ \A n \in Visible : msgs[n].position <= msgs[runs[r].msg].position

(* Messages are never rewritten: no request and no worker changes role or   *)
(* position of a message, brings an archived one back, or takes an answer   *)
(* from its run.                                                            *)
HistoryKept ==
  [][\A m \in DOMAIN msgs :
       /\ m \in DOMAIN msgs'
       /\ msgs'[m].role = msgs[m].role /\ msgs'[m].position = msgs[m].position
       /\ msgs[m].archived => msgs'[m] = msgs[m]
       /\ msgs[m].role = "assistant" => msgs'[m].run = msgs[m].run]_vars

(* A delete and a submit race: the delete looks without a lock, the request *)
(* may already have the row.  Still no message is accepted and no run is    *)
(* started once it is in the trash; only an answer may still arrive.        *)
NothingAskedInTrash ==
  [][deleted # "no" \/ gone =>
       /\ DOMAIN runs' = DOMAIN runs
       /\ \A m \in DOMAIN msgs' \ DOMAIN msgs : msgs'[m].role = "assistant"]_vars

(* Every run of the conversation takes only the steps of RunLifecycle: the  *)
(* answer appears together with `succeeded', once, and nothing moves a run  *)
(* that has ended, whatever its conversation goes through.                  *)
StatusOf(r) == IF r \in DOMAIN runs THEN runs[r].status ELSE "none"
Answered(r) == \E m \in DOMAIN msgs : msgs[m].role = "assistant" /\ msgs[m].run = r
Run(r) == INSTANCE RunLifecycle WITH
            status    <- StatusOf(r),
            terminals <- {TerminalType(StatusOf(r))} \ {"none"},
            message   <- Answered(r)
RunsFollowLifecycle == [][\A r \in 1..MaxRuns : [Run(r)!Next]_(Run(r)!vars)]_vars
=============================================================================
