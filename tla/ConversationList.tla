-------------------------- MODULE ConversationList --------------------------
(***************************************************************************)
(* The list of conversations in the sidebar (frontend/src/conversations:   *)
(* state.ts, useConversationLoader, useConversationListSync,               *)
(* useConversationMarkers, Sidebar): two lists of rows that are paged,     *)
(* polled, pinned, starred, renamed and deleted, and changed by the runs   *)
(* of the open conversation, while every answer may come late and tell of  *)
(* a state that is gone.                                                   *)
(*                                                                         *)
(* The server is one record per conversation.  ver counts its changes: an  *)
(* answer carries the ver it was made at, and known is the latest change   *)
(* that this tab has been told of.                                         *)
(***************************************************************************)
EXTENDS Integers, Sequences, FiniteSets, SequencesExt

CONSTANTS
  Convs, None,
  PageSize,    \* CONVERSATION_PAGE_SIZE
  PinLimit,    \* PINNED_CONVERSATION_LIMIT
  MaxAsked,    \* bound on the user's actions
  MaxFaults    \* bound on the requests that fail

ASSUME ListAssumption ==
  /\ None \notin Convs /\ IsFiniteSet(Convs)
  /\ PageSize \in Nat \ {0} /\ PinLimit \in Nat \ {0}
  /\ MaxAsked \in Nat /\ MaxFaults \in Nat

VARIABLES
  srv,      \* the server's conversations
  ver,      \* number of the server's changes
  idx,      \* conversationIndex
  local,    \* the run that the chat streams, and whether it is the active one
  tasks,    \* requests that have not settled
  known, asked, faults, overtaken

vars == <<srv, ver, idx, local, tasks, known, asked, faults, overtaken>>

NoLocal == [conv |-> None, run |-> 0, live |-> FALSE, shown |-> FALSE]

-----------------------------------------------------------------------------
(* The server.  The recent view has the conversations that are not pinned,  *)
(* by updated_at; the pinned view has the others, by pinned_at.             *)

RowOf(c) == [id |-> c, stamp |-> srv[c].stamp, pin |-> srv[c].pin, fav |-> srv[c].fav,
             run |-> srv[c].run, title |-> srv[c].title]
Alive == {c \in Convs : srv[c].alive}
ByRecency(S) == SetToSortSeq(S, LAMBDA c, d : srv[c].stamp > srv[d].stamp)
Recent == LET q == ByRecency({c \in Alive : srv[c].pin = 0}) IN [i \in DOMAIN q |-> RowOf(q[i])]
Page(skip) == LET n == Len(Recent) - skip
              IN [i \in 1..(IF n < PageSize THEN n ELSE PageSize) |-> Recent[skip + i]]
Pinned == LET q == SetToSortSeq({c \in Alive : srv[c].pin # 0},
                                LAMBDA c, d : srv[c].pin > srv[d].pin)
          IN [i \in DOMAIN q |-> RowOf(q[i])]

Changed(c, row) == srv' = [srv EXCEPT ![c] = row] /\ ver' = ver + 1

-----------------------------------------------------------------------------
(* Rows                                                                     *)

Ids(q) == {q[i].id : i \in DOMAIN q}
Has(q, c) == c \in Ids(q)
Without(q, S) == SelectSeq(q, LAMBDA r : r.id \notin S)
In(q, c) == q[CHOOSE i \in DOMAIN q : q[i].id = c]
Edit(q, f(_)) == [i \in DOMAIN q |-> f(q[i])]
Rows(s) == s.items \o s.pins

(* The first place of q whose row satisfies P, or the end.                  *)
Place(q, P(_)) == SelectInSeq(q, P)
PutAt(q, i, r) == IF i = 0 THEN Append(q, r) ELSE InsertAt(q, i, r)

-----------------------------------------------------------------------------
(* conversationIndexReducer                                                 *)

MarkUnread(unread, c, sel) == IF c = sel THEN unread ELSE unread \cup {c}

(* mergeFirstPage.                                                          *)
MergeFirstPage(current, page) ==
  Edit(page, LAMBDA r : IF Has(current, r.id) /\ r.stamp < In(current, r.id).stamp
                        THEN In(current, r.id) ELSE r)
  \o Without(current, Ids(page))

(* Mutant: the recent list keeps what a fresh pinned list has.              *)
WithPinnedBoth(s, pins) == [s EXCEPT !.pins = pins]

(* withPinned: rows that are pinned leave the recent list.                  *)
WithPinned(s, pins) == [s EXCEPT !.pins = pins, !.items = Without(@, Ids(pins))]

(* reconcileList: a run that is gone makes its row unread, a title that has *)
(* come stops being pending.                                                *)
ReconcileList(prev, next) ==
  LET rows == Rows(next)
      gone == {c \in Ids(rows) : /\ Has(Rows(prev), c) /\ In(Rows(prev), c).run # 0
                                 /\ In(rows, c).run = 0}
  IN [next EXCEPT !.unread = @ \cup (gone \ {next.sel}),
                  !.titles = {c \in @ : ~(Has(rows, c) /\ In(rows, c).title)}]

ListLoaded(s, page, pins) ==
  ReconcileList(s, WithPinned([s EXCEPT !.items = page, !.status = "idle",
                                        !.more = Len(page) = PageSize], pins))

(* The pinned rows that a poll brings replace the local ones, each unless   *)
(* the local one is newer.                                                  *)
ListSynced(s, page) ==
  ReconcileList(s, WithPinned([s EXCEPT !.items = MergeFirstPage(@, page)], s.pins))
ListSyncedPins(s, page, pins) ==
  ReconcileList(s, WithPinned([s EXCEPT !.items = MergeFirstPage(@, page)],
    SelectSeq(MergeFirstPage(s.pins, pins), LAMBDA r : Has(pins, r.id))))

ListPageLoaded(s, page) ==
  [s EXCEPT !.items = @ \o Without(page, Ids(@)), !.more = Len(page) = PageSize,
            !.status = "idle"]

(* applyMarkers: the row moves to the list where its pin belongs.  A row    *)
(* that goes back behind the pages that are loaded waits for a later page.  *)
ApplyMarkers(s, in) ==
  LET had == Has(s.pins, in.id) \/ Has(s.items, in.id)
      old == IF Has(s.pins, in.id) THEN In(s.pins, in.id)
             ELSE IF had THEN In(s.items, in.id) ELSE in
      row == [old EXCEPT !.pin = in.pin, !.fav = in.fav]
      pins == Without(s.pins, {row.id})
      items == Without(s.items, {row.id})
      place == Place(items, LAMBDA r : r.stamp < row.stamp)
  IN IF row.pin # 0
       THEN [s EXCEPT !.items = items,
               !.pins = PutAt(pins, Place(pins, LAMBDA r : r.pin < row.pin), row)]
     ELSE IF ~had THEN s
     ELSE [s EXCEPT !.pins = pins,
             !.items = IF place = 0 /\ s.more THEN items ELSE PutAt(items, place, row)]

(* conversations/runStarted: a pinned row stays in its place.               *)
RunStarted(s, row, run) ==
  LET c == row.id
      start(r) == IF r.id = c THEN [r EXCEPT !.run = run, !.stamp = run] ELSE r
      old == IF Has(s.items, c) THEN In(s.items, c) ELSE row
  IN IF Has(s.pins, c) THEN [s EXCEPT !.pins = Edit(@, start)]
     ELSE [s EXCEPT !.items = <<start(old)>> \o Without(@, {c}),
                    !.titles = IF old.title THEN @ ELSE @ \cup {c}]

(* conversations/runFinished.                                               *)
RunFinished(s, c) ==
  LET stop(r) == IF r.id = c THEN [r EXCEPT !.run = 0] ELSE r
  IN [s EXCEPT !.items = Edit(@, stop), !.pins = Edit(@, stop),
               !.unread = MarkUnread(@, c, s.sel)]

Renamed(s, row) ==
  LET new(r) == IF r.id = row.id THEN [row EXCEPT !.run = r.run] ELSE r
  IN [s EXCEPT !.items = Edit(@, new), !.pins = Edit(@, new)]

Removed(s, c) ==
  [s EXCEPT !.items = Without(@, {c}), !.pins = Without(@, {c}), !.unread = @ \ {c}]

Selected(s, c) == [s EXCEPT !.sel = c, !.unread = @ \ {c}]

-----------------------------------------------------------------------------
(* Requests                                                                 *)

NoAnswer == [page |-> <<>>, pins |-> <<>>, row |-> <<>>, at |-> 0]
Task(kind, c, was) ==
  [id |-> asked, kind |-> kind, conv |-> c, was |-> was, step |-> "asked", a |-> NoAnswer,
   known |-> IF kind \in {"pin", "fav"} THEN known ELSE 0]
Ask == asked < MaxAsked /\ asked' = asked + 1

Answered(t, a) == tasks' = tasks \cup {[t EXCEPT !.step = "ok", !.a = a]}

(* The server's side of each request.                                       *)
Serve(t) ==
  LET c == t.conv
      now == [NoAnswer EXCEPT !.at = ver]
      done(row) == /\ Changed(c, row)
                   /\ Answered(t, [NoAnswer EXCEPT !.at = ver + 1,
                        !.row = <<[RowOf(c) EXCEPT !.stamp = row.stamp, !.pin = row.pin,
                                     !.fav = row.fav, !.run = row.run, !.title = row.title]>>])
      pinned == {d \in Alive : srv[d].pin # 0}
  IN /\ \/ /\ t.kind \in {"load", "refetch", "poll"} /\ UNCHANGED <<srv, ver>>
           /\ Answered(t, [now EXCEPT !.page = Page(0), !.pins = Pinned])
        \/ /\ t.kind = "more" /\ UNCHANGED <<srv, ver>>
           /\ Answered(t, [now EXCEPT !.page = Page(t.was)])
        \/ /\ t.kind = "pin" /\ srv[c].alive
           /\ t.was.pin = 0 /\ srv[c].pin = 0 => Cardinality(pinned) < PinLimit
           /\ done([srv[c] EXCEPT !.pin = IF t.was.pin # 0 THEN 0 ELSE IF @ = 0 THEN ver + 1 ELSE @])
        \/ /\ t.kind = "fav" /\ srv[c].alive
           /\ done([srv[c] EXCEPT !.fav = ~t.was.fav])
        \/ /\ t.kind = "rename" /\ srv[c].alive /\ done([srv[c] EXCEPT !.title = TRUE, !.stamp = ver + 1])
        \/ /\ t.kind = "remove" /\ srv[c].alive /\ done([srv[c] EXCEPT !.alive = FALSE, !.run = 0])
        \/ /\ t.kind = "send" /\ srv[c].alive /\ srv[c].run = 0
           /\ done([srv[c] EXCEPT !.run = ver + 1, !.stamp = ver + 1])
     /\ UNCHANGED faults

(* 4xx: the conversation is gone, it has a run, or too many are pinned; and *)
(* anything may fail (a poll that fails changes nothing, so it is a tick    *)
(* that has not come).                                                      *)
Refuse(t) ==
  /\ \/ t.conv # None /\ t.kind # "refetch" /\ ~srv[t.conv].alive /\ UNCHANGED faults
     \/ t.kind = "send" /\ srv[t.conv].run # 0 /\ UNCHANGED faults
     \/ /\ t.kind = "pin" /\ t.was.pin = 0 /\ srv[t.conv].pin = 0 /\ UNCHANGED faults
        /\ Cardinality({d \in Alive : srv[d].pin # 0}) >= PinLimit
     \/ t.kind # "poll" /\ faults < MaxFaults /\ faults' = faults + 1
  /\ tasks' = tasks \cup {[t EXCEPT !.step = "failed"]}
  /\ UNCHANGED <<srv, ver>>

(* A request reaches the server at once; its answer takes its time.         *)
Request(t) == Serve(t) \/ Refuse(t)

(* What the tab is told: overtaken is set when an answer is applied that is *)
(* older than another one that was applied before; known is kept until then.*)
TellAlso(at, crossed) ==
  /\ overtaken' = (overtaken \/ at < known \/ crossed)
  /\ known' = IF overtaken' THEN 0 ELSE at
Told(at) == TellAlso(at, FALSE)

Settle(t, s) == idx' = s /\ tasks' = tasks \ {t}

-----------------------------------------------------------------------------
(* useConversationLoader                                                    *)

(* loadList has been called on mount.                                       *)
Loaded(t) ==
  /\ t.kind = "load"
  /\ IF t.step = "ok" THEN Settle(t, ListLoaded(idx, t.a.page, t.a.pins)) /\ Told(t.a.at)
     ELSE Settle(t, [idx EXCEPT !.status = "error"]) /\ UNCHANGED <<known, overtaken>>
  /\ UNCHANGED <<srv, ver, local, asked, faults>>

(* loadMore, when the user or the ResizeObserver of Sidebar finds the end   *)
(* of the list on the screen.                                               *)
LoadMore ==
  /\ Ask /\ idx.more /\ idx.items # <<>> /\ idx.status \notin {"loading", "loadingMore"}
  /\ \A t \in tasks : t.kind # "more"
  /\ idx' = [idx EXCEPT !.status = "loadingMore"]
  /\ Request(Task("more", None, Len(idx.items)))
  /\ UNCHANGED <<local, known, overtaken>>

(* The history notes a page that brings a row which has been pinned here.   *)
LoadedMore(t) ==
  /\ t.kind = "more"
  /\ IF t.step = "ok"
       THEN /\ Settle(t, ListPageLoaded(idx, t.a.page))
            /\ TellAlso(t.a.at, Ids(t.a.page) \cap Ids(idx.pins) # {})
       ELSE Settle(t, [idx EXCEPT !.status = "error"]) /\ UNCHANGED <<known, overtaken>>
  /\ UNCHANGED <<srv, ver, local, asked, faults>>

(* The actions of a row, for a row that is shown.                           *)
RowActions(c) == Ask /\ Has(Rows(idx), c)

RenameConversation(c) ==
  /\ RowActions(c)
  /\ Request(Task("rename", c, None))
  /\ UNCHANGED <<idx, local, known, overtaken>>

ConversationRenamed(t) ==
  /\ t.kind = "rename"
  /\ IF t.step = "ok" THEN Settle(t, Renamed(idx, t.a.row[1])) /\ Told(t.a.at)
     ELSE Settle(t, idx) /\ UNCHANGED <<known, overtaken>>
  /\ UNCHANGED <<srv, ver, local, asked, faults>>

(* deleteConversation: the next row to open is one of the rows that were    *)
(* there when it was asked for.                                             *)
DeleteConversation(c) ==
  /\ RowActions(c)
  /\ LET rest == Without(idx.pins \o idx.items, {c})
     IN Request(Task("remove", c, [open |-> idx.sel = c,
                                   next |-> IF rest = <<>> THEN None ELSE Head(rest).id]))
  /\ UNCHANGED <<idx, local, known, overtaken>>

ConversationDeleted(t) ==
  /\ t.kind = "remove"
  /\ IF t.step = "ok"
       THEN /\ Settle(t, IF t.was.open THEN Selected(Removed(idx, t.conv), t.was.next)
                         ELSE Removed(idx, t.conv))
            /\ local' = IF t.was.open THEN [local EXCEPT !.shown = FALSE] ELSE local
            /\ Told(t.a.at)
       ELSE Settle(t, idx) /\ UNCHANGED <<local, known, overtaken>>
  /\ UNCHANGED <<srv, ver, asked, faults>>

(* A conversation is opened: run/cleared unless it is the open one.         *)
SelectConversation(c) ==
  /\ RowActions(c) /\ c # idx.sel
  /\ idx' = Selected(idx, c) /\ local' = [local EXCEPT !.shown = FALSE]
  /\ UNCHANGED <<srv, ver, tasks, known, faults, overtaken>>

-----------------------------------------------------------------------------
(* useConversationMarkers                                                   *)

Flip(row, kind) ==
  IF kind = "pin" THEN [row EXCEPT !.pin = IF @ = 0 THEN ver + 1 ELSE 0]
  ELSE [row EXCEPT !.fav = ~@]

(* togglePin and toggleFavorite move the row at once.                       *)
ToggleMarker(c, kind) ==
  LET row == In(idx.pins \o idx.items, c) IN
  /\ RowActions(c)
  /\ kind = "pin" /\ row.pin = 0 => Len(idx.pins) < PinLimit
  /\ idx' = ApplyMarkers(idx, Flip(row, kind))
  /\ Request(Task(kind, c, row))
  /\ UNCHANGED <<local, known, overtaken>>

(* Mutant: a failure leaves the row where it was moved to.                  *)
MarkerSettledKept(t) ==
  /\ t.kind \in {"pin", "fav"}
  /\ IF t.step = "ok" THEN Settle(t, ApplyMarkers(idx, t.a.row[1])) /\ Told(t.a.at)
     ELSE Settle(t, idx) /\ UNCHANGED <<known, overtaken>>
  /\ UNCHANGED <<srv, ver, local, asked, faults>>

(* The answer, or the whole row as it was before.  The history notes a      *)
(* failure that undoes what another answer said in the meantime.            *)
MarkerSettled(t) ==
  /\ t.kind \in {"pin", "fav"}
  /\ IF t.step = "ok" THEN Settle(t, ApplyMarkers(idx, t.a.row[1])) /\ Told(t.a.at)
     ELSE Settle(t, ApplyMarkers(idx, t.was)) /\ TellAlso(known, known > t.known)
  /\ UNCHANGED <<srv, ver, local, asked, faults>>

-----------------------------------------------------------------------------
(* The runs of the chat (useSendMessage and useRunStream), as far as they   *)
(* reach the list                                                           *)

SendMessage ==
  /\ Ask /\ idx.sel # None /\ Has(Rows(idx), idx.sel)
  /\ Request(Task("send", idx.sel, None))
  /\ UNCHANGED <<idx, local, known, overtaken>>

(* The message is accepted: its row starts, and the stream that was read is *)
(* aborted.                                                                 *)
Sent(t) ==
  /\ t.kind = "send"
  /\ IF t.step = "ok"
       THEN /\ Settle(t, RunStarted(idx, t.a.row[1], t.a.row[1].run)) /\ Told(t.a.at)
            /\ local' = [conv |-> t.conv, run |-> t.a.row[1].run, live |-> TRUE, shown |-> TRUE]
       ELSE Settle(t, idx) /\ UNCHANGED <<local, known, overtaken>>
  /\ UNCHANGED <<srv, ver, asked, faults>>

(* The terminal event of the run: the row stops, and a success refetches    *)
(* the first page.  A run that failed stays the active one of the store.    *)
StreamTerminal ==
  /\ local.live /\ srv[local.conv].run # local.run
  /\ idx' = RunFinished(idx, local.conv)
  /\ IF srv[local.conv].ok THEN Request(Task("refetch", local.conv, local.run))
     ELSE UNCHANGED <<srv, ver, tasks, faults>>
  /\ local' = [local EXCEPT !.live = FALSE]
  /\ Told(ver) /\ UNCHANGED asked

Refetched(t) ==
  /\ t.kind = "refetch"
  /\ IF t.step = "ok"
       THEN LET s == ListSynced(idx, t.a.page)
                untitled == Has(Rows(s), t.conv) /\ ~In(Rows(s), t.conv).title
            IN /\ Settle(t, IF untitled THEN [s EXCEPT !.titles = @ \cup {t.conv}] ELSE s)
               /\ Told(t.a.at)
               /\ local' = IF local.run = t.was /\ local.shown THEN NoLocal ELSE local
       ELSE Settle(t, idx) /\ UNCHANGED <<local, known, overtaken>>
  /\ UNCHANGED <<srv, ver, asked, faults>>

(* The worker ends a run, which touches the conversation if it succeeded,   *)
(* or generates a title, which touches it too.                              *)
RunEnds ==
  /\ \E c \in Alive, ok \in BOOLEAN :
       /\ srv[c].run # 0
       /\ Changed(c, [srv[c] EXCEPT !.run = 0, !.ok = ok, !.stamp = IF ok THEN ver + 1 ELSE @])
  /\ UNCHANGED <<idx, local, tasks, known, asked, faults, overtaken>>

TitleGenerated ==
  /\ \E c \in Alive :
       ~srv[c].title /\ Changed(c, [srv[c] EXCEPT !.title = TRUE, !.stamp = ver + 1])
  /\ UNCHANGED <<idx, local, tasks, known, asked, faults, overtaken>>

-----------------------------------------------------------------------------
(* useConversationListSync                                                  *)

HasBackgroundRun ==
  \E i \in DOMAIN Rows(idx) :
    Rows(idx)[i].run \notin {0, IF local.shown THEN local.run ELSE 0}

(* The interval of the effect; None when there is nothing to wait for.      *)
Delay == IF idx.titles # {} THEN "title" ELSE IF HasBackgroundRun THEN "run" ELSE None

Polling == \E t \in tasks : t.kind = "poll" /\ t.was = Delay
Poll == [Task("poll", None, Delay) EXCEPT !.id = 0]

(* A tick: the titles in exp have been pending for titleTimeoutMs; then the *)
(* first page and the pins are requested, unless the request of this        *)
(* interval is out; when the interval changes a new effect forgets the old  *)
(* request.                                                                 *)
Tick(exp) ==
  /\ Delay # None /\ exp \subseteq idx.titles
  /\ idx' = [idx EXCEPT !.titles = @ \ exp]
  /\ IF Polling THEN UNCHANGED <<srv, ver, tasks, faults>> ELSE Request(Poll)
  /\ UNCHANGED <<local, known, asked, overtaken>>

Polled(t) ==
  /\ t.kind = "poll"
  /\ Settle(t, ListSyncedPins(idx, t.a.page, t.a.pins)) /\ Told(t.a.at)
  /\ UNCHANGED <<srv, ver, local, asked, faults>>

-----------------------------------------------------------------------------
(* The tab opens: the newest conversation is open and has no title yet, or  *)
(* the oldest has a run of another tab.                                     *)
Init ==
  /\ \E busy \in BOOLEAN :
     LET age == CHOOSE f \in [Convs -> 1..Cardinality(Convs)] :
                  \A c, d \in Convs : f[c] = f[d] => c = d
     IN /\ srv = [c \in Convs |->
                    [alive |-> TRUE, stamp |-> age[c], pin |-> 0, fav |-> FALSE, ok |-> FALSE,
                     run |-> IF age[c] = 1 /\ busy THEN 1 ELSE 0, title |-> age[c] = 1 \/ busy]]
        /\ idx = [items |-> <<>>, pins |-> <<>>, titles |-> {}, unread |-> {},
                  sel |-> CHOOSE c \in Convs : age[c] = Cardinality(Convs),
                  status |-> "loading", more |-> TRUE]
  /\ ver = Cardinality(Convs) /\ known = 0 /\ asked = 0 /\ overtaken = FALSE
  /\ local = NoLocal
  /\ faults \in {0} \cup {f \in {1} : f <= MaxFaults}
  /\ tasks = {[Task("load", None, None) EXCEPT
                 !.step = IF faults = 0 THEN "ok" ELSE "failed",
                 !.a = [NoAnswer EXCEPT !.page = Page(0), !.at = ver]]}

User ==
  \/ LoadMore \/ SendMessage
  \/ \E c \in Convs : \/ RenameConversation(c) \/ DeleteConversation(c) \/ SelectConversation(c)
                      \/ \E kind \in {"pin", "fav"} : ToggleMarker(c, kind)

Continuation(t) ==
  \/ Loaded(t) \/ LoadedMore(t) \/ ConversationRenamed(t) \/ ConversationDeleted(t)
  \/ MarkerSettled(t) \/ Sent(t) \/ Refetched(t) \/ Polled(t)

Next ==
  \/ User
  \/ RunEnds \/ TitleGenerated
  \/ StreamTerminal
  \/ \E exp \in SUBSET idx.titles : Tick(exp)
  \/ \E t \in tasks : Continuation(t)

(* Runs end; answers come; timers fire, and in the end with every timeout   *)
(* over.                                                                    *)
Fairness ==
  /\ WF_vars(RunEnds)
  /\ WF_vars(\E t \in tasks : t.kind # "poll" /\ Continuation(t))
  /\ WF_vars(\E t \in tasks : Polled(t))
  /\ WF_vars(StreamTerminal)
  /\ WF_vars(Tick(idx.titles))

Spec == Init /\ [][Next]_vars /\ Fairness
-----------------------------------------------------------------------------
Row == [id : Convs, stamp : Nat, pin : Nat, fav : BOOLEAN, run : Nat, title : BOOLEAN]

TypeOK ==
  /\ \A i \in DOMAIN Rows(idx) : Rows(idx)[i] \in Row
  /\ idx.sel \in Convs \cup {None} /\ idx.titles \subseteq Convs /\ idx.unread \subseteq Convs
  /\ idx.status \in {"idle", "loading", "loadingMore", "error"} /\ idx.more \in BOOLEAN
  /\ local.conv \in Convs \cup {None} /\ local.run \in Nat /\ local.live \in BOOLEAN /\ local.shown \in BOOLEAN
  /\ ver \in Nat /\ known \in 0..ver /\ overtaken \in BOOLEAN

(* A conversation has at most one row, pinned or recent, whatever pages,    *)
(* polls and pins cross each other, unless an answer was overtaken.         *)
Distinct(q) == \A i, j \in DOMAIN q : q[i].id = q[j].id => i = j
NoRowTwice == Distinct(Rows(idx))
OneRow == overtaken \/ NoRowTwice

(* The conversation on the screen is never marked unread, in whatever order *)
(* the end of its run, the polls and the selection come.                    *)
UnreadNotOpen == idx.sel \notin idx.unread

(* mergeFirstPage: "a poll issued before a send landed after it" does not   *)
(* take the row back behind the message that was sent, and neither does the *)
(* refetch after a run.                                                     *)
RowNotOlder ==
  [][(\E t \in tasks : Polled(t) \/ Refetched(t)) =>
       /\ \A c \in Ids(idx.items) \cap Ids(idx'.items) :
            In(idx'.items, c).stamp >= In(idx.items, c).stamp
       /\ \A c \in Ids(idx.pins) \cap Ids(idx'.pins) :
            In(idx'.pins, c).stamp >= In(idx.pins, c).stamp]_vars

(* "A title that never lands stops pending after the timeout".              *)
TitlesResolve == []<>(idx.titles = {})

(* Once nothing more is asked the list tells the truth about the rows it    *)
(* shows, unless an answer was overtaken: no deleted row, no pin or star    *)
(* that the server does not have, and on the first page no spinner of a run *)
(* that has ended.                                                          *)
RowTrue(r) ==
  /\ srv[r.id].alive /\ (r.pin # 0) = (srv[r.id].pin # 0) /\ r.fav = srv[r.id].fav
  /\ r.run # 0 /\ Has(Page(0) \o Pinned, r.id) => srv[r.id].run = r.run
ListSettles == <>[](overtaken \/ \A i \in DOMAIN Rows(idx) : RowTrue(Rows(idx)[i]))

(* "Unconditional: the sidebar row stops spinning" (useRunStream): a row    *)
(* does not go on showing a run that has ended.                             *)
RowStopsSpinning ==
  <>[](\A i \in DOMAIN Rows(idx) :
         LET r == Rows(idx)[i] IN r.run # 0 => srv[r.id].run = r.run)

(* In every state the rows of the sidebar are sound (listSynced, markRead). *)
RowsSound == TypeOK /\ OneRow /\ UnreadNotOpen

(* However late the answers are, the rows only move forward and in the end  *)
(* tell what the server has (mergeFirstPage, the timers of the sync).       *)
RowsSettle == RowNotOlder /\ TitlesResolve /\ ListSettles
=============================================================================
