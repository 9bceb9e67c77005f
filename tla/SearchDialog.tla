---------------------------- MODULE SearchDialog ----------------------------
(***************************************************************************)
(* The search over past conversations (frontend/src/search/                *)
(* ConversationSearch.tsx): a query typed with or without an input method, *)
(* its request behind a timer, further pages, the page of recent           *)
(* conversations that is kept for the empty query, and the choice of a row *)
(* while its conversation is fetched.  A request that was replaced can     *)
(* only be dropped, so one slot holds the current one; a row remembers the *)
(* query it answered.                                                      *)
(***************************************************************************)
EXTENDS Integers, Sequences, FiniteSets

CONSTANTS SearchQueries,   \* the normalized texts, NoText among them
          SearchRows,      \* conversations that can be found
          SearchPages      \* bound on the pages of an answer

(* The normalized query of an input with nothing in it.                     *)
NoText == ""

ASSUME SearchAssumption ==
  NoText \in SearchQueries /\ IsFiniteSet(SearchRows) /\ SearchPages \in Nat \ {0}

VARIABLE cs

EmptyPage == [items |-> <<>>, next |-> 0]
NoRecent == [items |-> <<>>, next |-> -1]
NoRequest == [at |-> "none", q |-> NoText, prev |-> 0, got |-> EmptyPage, live |-> FALSE]
NoMore == [on |-> FALSE, q |-> NoText, page |-> 0, live |-> FALSE]

(* q, long: the text and whether it passes 200 characters.  last: the query *)
(* of the last answer.  req: the request of the effect.  active: the row    *)
(* under the keys or the pointer, from 0, or -1.  calls: choices in flight. *)
(* opened: the conversation a choice opened.                                *)
SearchStart(on) ==
  [on |-> on, open |-> FALSE, q |-> NoText, long |-> FALSE, page |-> EmptyPage, status |-> "loading",
   loadingMore |-> FALSE, lock |-> FALSE, pageError |-> FALSE, revalidating |-> FALSE,
   recent |-> NoRecent, last |-> "null", composing |-> FALSE, req |-> NoRequest, more |-> NoMore,
   active |-> -1, opening |-> {}, calls |-> {}, opened |-> {}]

-----------------------------------------------------------------------------
(* What the dialog shows                                                    *)

SearchEmpty == cs.long \/ cs.status = "error" \/ (cs.status = "ready" /\ cs.page.items = <<>>)
SearchRetry == cs.open /\ SearchEmpty /\ cs.status = "error" /\ ~cs.long
SearchLoading == ~SearchEmpty /\ cs.status = "loading"
SearchRowsShown == cs.open /\ ~SearchEmpty /\ ~SearchLoading
SearchInput == cs.open
ClearButton == cs.open /\ (cs.q # NoText \/ cs.long)
MoreButton == cs.open /\ cs.status = "ready" /\ cs.page.next > 0 /\ ~cs.loadingMore

(* Whether the keys reach the rows.                                         *)
KeysTaken == cs.open /\ ~cs.composing /\ cs.status = "ready"

-----------------------------------------------------------------------------
Convs(rows) == {rows[i].c : i \in 1..Len(rows)}

(* The rows of other conversations than these, in their order.              *)
RowsLeft(rows, gone) ==
  LET at == {i \in 1..Len(rows) : rows[i].c \notin gone}
      Rank(i) == Cardinality({j \in at : j <= i}) IN
  [k \in 1..Cardinality(at) |-> rows[CHOOSE i \in at : Rank(i) = k]]

(* The rows of a page behind the rows already there, each conversation once.*)
AppendRows(old, new) == old \o RowsLeft(new, Convs(old))

(* abort.current?.abort(), and the cleanup of the effect, which also clears *)
(* the timer of a request not yet sent.                                     *)
AbortRequest(s) == [s EXCEPT !.req.live = FALSE, !.more.live = FALSE]
Cleanup(s) == [AbortRequest(s) EXCEPT !.req = IF s.req.at = "timer" THEN NoRequest ELSE @]

(* The search effect: skipped while the input method composes.  A query     *)
(* other than the answered one starts from the recent page or from nothing; *)
(* the same query keeps its rows and asks for as many again.                *)
SearchEffect(s) ==
  LET c == Cleanup(s)
      changed == s.last # s.q
      kept == s.q = NoText /\ s.recent # NoRecent
      start == IF changed
               THEN [c EXCEPT !.page = IF kept THEN s.recent ELSE EmptyPage, !.active = -1,
                              !.status = IF kept THEN "ready" ELSE "loading"]
               ELSE c
      asked == [start EXCEPT !.loadingMore = FALSE, !.lock = FALSE, !.pageError = FALSE,
                             !.more = NoMore] IN
  IF ~s.open \/ s.composing THEN c
  ELSE IF s.long THEN [asked EXCEPT !.req = NoRequest]
  ELSE [asked EXCEPT !.revalidating = TRUE,
                     !.req = [at |-> "timer", q |-> s.q,
                              prev |-> IF changed THEN 0 ELSE Len(asked.page.items),
                              got |-> EmptyPage, live |-> TRUE]]

OpenSearch == /\ cs.on /\ ~cs.open
              /\ cs' = SearchEffect([cs EXCEPT !.open = TRUE, !.opened = {},
                                               !.active = IF cs.q = NoText THEN -1 ELSE @])

(* Closing aborts the request and the choice.  The input goes with the      *)
(* dialog: the end of a composition reaches it first, or never.             *)
Closed(s) == Cleanup([s EXCEPT !.open = FALSE, !.opening = {}, !.calls = {}])
CloseSearch(told) ==
  /\ cs.on /\ cs.open
  /\ cs' = Closed([cs EXCEPT !.composing = @ /\ ~told])

(* updateQuery, and the effect it causes.  A text of the same meaning       *)
(* changes nothing; another one withdraws the request and the choice.       *)
UpdateQuery(q, long) ==
  LET kept == q = NoText /\ ~long /\ cs.recent # NoRecent
      typed == AbortRequest([cs EXCEPT !.q = q, !.long = long, !.calls = {}, !.opening = {}, !.active = -1,
                                       !.status = IF kept THEN "ready" ELSE "loading"]) IN
  /\ cs.on /\ SearchInput /\ <<q, long>> # <<cs.q, cs.long>>
  /\ cs' = SearchEffect(
       IF kept THEN [typed EXCEPT !.page = cs.recent, !.loadingMore = FALSE, !.pageError = FALSE]
               ELSE typed)

ClearQuery == ClearButton /\ UpdateQuery(NoText, FALSE)

CompositionStart == /\ cs.on /\ SearchInput /\ ~cs.composing
                    /\ cs' = AbortRequest([cs EXCEPT !.composing = TRUE])

CompositionEnd == /\ cs.on /\ SearchInput /\ cs.composing
                  /\ cs' = SearchEffect([cs EXCEPT !.composing = FALSE])

RetrySearch == /\ cs.on /\ SearchRetry
               /\ cs' = SearchEffect(cs)

-----------------------------------------------------------------------------
(* The request                                                              *)

(* The pages the server may answer with: at most one row each.              *)
Answers(q, n) ==
  {[items |-> items, next |-> next] :
     items \in {<<>>} \cup {<<[c |-> c, q |-> q]>> : c \in SearchRows},
     next \in {0} \cup (IF n < SearchPages THEN {n + 1} ELSE {})}

(* The delay passes and the request is sent, aborted or not.                *)
SearchSent == /\ cs.on /\ cs.req.at = "timer"
              /\ cs' = [cs EXCEPT !.req.at = "asked"]

(* finally: only of the current request, which is the one in the slot.      *)
Settled(s) == [s EXCEPT !.req = NoRequest, !.revalidating = FALSE]

(* The row that was marked stays marked; with a query the first row is      *)
(* marked when there is none.                                               *)
MarkedRow(rows, q) ==
  LET marked == IF cs.active \in 0..(Len(cs.page.items) - 1)
                THEN {cs.page.items[cs.active + 1].c} ELSE {}
      at == {i \in 1..Len(rows) : rows[i].c \in marked} IN
  IF at # {} THEN (CHOOSE i \in at : TRUE) - 1 ELSE IF q # NoText /\ rows # <<>> THEN 0 ELSE -1

(* A page comes.  While there are fewer rows than were shown before and the *)
(* server has more, the next page is asked for; then all are shown.         *)
SearchAnswered ==
  /\ cs.on /\ cs.req.at = "asked" /\ cs.req.live
  /\ LET r == cs.req IN
     \E a \in Answers(r.q, IF r.got.next = 0 THEN 1 ELSE r.got.next) :
       LET got == [a EXCEPT !.items = AppendRows(r.got.items, a.items)] IN
       cs' = IF got.next > 0 /\ Len(got.items) < r.prev
             THEN [cs EXCEPT !.req.got = got]
             ELSE Settled([cs EXCEPT !.page = got, !.last = r.q, !.status = "ready",
                                     !.active = MarkedRow(got.items, r.q),
                                     !.recent = IF r.q = NoText THEN got ELSE @])

(* The request fails, or was aborted before its answer.                     *)
SearchFailed ==
  /\ cs.on /\ cs.req.at = "asked"
  /\ cs' = Settled(IF ~cs.req.live THEN cs
                   ELSE [cs EXCEPT !.status = IF cs.req.q = NoText /\ cs.recent # NoRecent
                                              THEN "ready" ELSE "error"])

(* more: asked for by the button, or by scrolling near the end.             *)
LoadMore ==
  /\ cs.on /\ (MoreButton \/ (SearchRowsShown /\ ~cs.pageError))
  /\ ~cs.revalidating /\ ~cs.lock /\ cs.page.next > 0 /\ cs.status = "ready"
  /\ cs' = [cs EXCEPT !.lock = TRUE, !.loadingMore = TRUE, !.pageError = FALSE,
                      !.more = [on |-> TRUE, q |-> cs.q, page |-> cs.page.next,
                                live |-> ~cs.composing]]

Unlocked(s) == [s EXCEPT !.lock = FALSE, !.loadingMore = FALSE, !.more = NoMore]

MoreAnswered ==
  /\ cs.on /\ cs.more.on /\ cs.more.live
  /\ \E a \in Answers(cs.more.q, cs.more.page) :
       cs' = Unlocked([cs EXCEPT !.page = [a EXCEPT !.items = AppendRows(cs.page.items, a.items)]])

(* A cursor the server no longer knows starts the search over.              *)
MoreFailed(stale) ==
  /\ cs.on /\ cs.more.on
  /\ cs' = IF ~cs.more.live THEN Unlocked(cs)
           ELSE IF stale THEN SearchEffect(Unlocked([cs EXCEPT !.last = "null"]))
           ELSE Unlocked([cs EXCEPT !.pageError = TRUE])

-----------------------------------------------------------------------------
(* Choosing a row                                                           *)

(* The arrows move the mark within the rows; the pointer marks and unmarks. *)
MoveActive(d) ==
  /\ cs.on /\ KeysTaken
  /\ LET n == Len(cs.page.items)
         low == IF cs.active + d < n - 1 THEN cs.active + d ELSE n - 1 IN
     cs' = [cs EXCEPT !.active = IF low > 0 THEN low ELSE 0]
PointAt(i) == /\ cs.on /\ SearchRowsShown /\ i < Len(cs.page.items)
              /\ cs' = [cs EXCEPT !.active = i]

Chosen(c) == [cs EXCEPT !.calls = {c}, !.opening = {c}]

Choose(c) == /\ cs.on /\ SearchRowsShown /\ c \in Convs(cs.page.items)
             /\ cs' = Chosen(c)
EnterKey == /\ cs.on /\ KeysTaken /\ cs.active \in 0..(Len(cs.page.items) - 1)
            /\ cs' = Chosen(cs.page.items[cs.active + 1].c)

(* The conversation is there: it is selected, the address follows, and the  *)
(* dialog closes.                                                           *)
ChoiceOpened(c) ==
  /\ cs.on /\ c \in cs.calls
  /\ cs' = Closed([cs EXCEPT !.opened = {c}, !.calls = @ \ {c}])

(* It is not: a toast, and a row that is gone for good is taken away.       *)
ChoiceFailed(c, gone) ==
  /\ cs.on /\ c \in cs.calls
  /\ cs' = [cs EXCEPT !.calls = @ \ {c}, !.opening = {},
              !.page.items = IF gone THEN RowsLeft(@, {c}) ELSE @]

SearchNext ==
  \/ OpenSearch \/ \E b \in BOOLEAN : CloseSearch(b)
  \/ \E q \in SearchQueries, long \in BOOLEAN : UpdateQuery(q, long)
  \/ ClearQuery \/ CompositionStart \/ CompositionEnd \/ RetrySearch
  \/ SearchSent \/ SearchAnswered \/ SearchFailed
  \/ LoadMore \/ MoreAnswered \/ \E b \in BOOLEAN : MoreFailed(b)
  \/ \E d \in {-1, 1} : MoveActive(d)
  \/ \E i \in -1..(Cardinality(SearchRows) - 1) : PointAt(i)
  \/ EnterKey
  \/ \E c \in SearchRows : Choose(c) \/ ChoiceOpened(c) \/ \E b \in BOOLEAN : ChoiceFailed(c, b)

(* Timers run out and requests end; what the user does is up to the user.   *)
SearchFairness ==
  /\ WF_cs(SearchSent) /\ WF_cs(SearchAnswered \/ SearchFailed)
  /\ WF_cs(MoreAnswered \/ \E b \in BOOLEAN : MoreFailed(b))
  /\ \A c \in SearchRows : WF_cs(ChoiceOpened(c) \/ \E b \in BOOLEAN : ChoiceFailed(c, b))

-----------------------------------------------------------------------------
SearchTypeOK ==
  /\ cs.status \in {"loading", "ready", "error"} /\ cs.q \in SearchQueries
  /\ cs.req.at \in {"none", "timer", "asked"} /\ cs.calls \subseteq SearchRows
  /\ cs.page.next \in 0..SearchPages

(* Rows on the screen answer the text that is in the input: whatever was    *)
(* typed, composed, cleared, closed or paged while an earlier answer was on *)
(* its way.                                                                 *)
RowsAnswerQuery ==
  cs.open /\ cs.status = "ready" /\ ~cs.long =>
    \A i \in 1..Len(cs.page.items) : cs.page.items[i].q = cs.q

(* Pages that overlap never list a conversation twice.                      *)
RowsOnce == Cardinality(Convs(cs.page.items)) = Len(cs.page.items)

(* The row that spins is the one that is being fetched, and only one is;    *)
(* what was opened is what was chosen last.                                 *)
OpeningTrue == cs.opening = cs.calls /\ \A x, y \in cs.calls : x = y

(* The list does not stay empty and busy: a search that loads ends with     *)
(* rows or with the error and its retry, unless the user types on, composes *)
(* or leaves.                                                               *)
SearchSettles ==
  \A q \in SearchQueries :
    (cs.open /\ cs.q = q /\ cs.status = "loading" /\ ~cs.long /\ ~cs.composing)
      ~> (cs.status # "loading" \/ cs.q # q \/ cs.long \/ cs.composing \/ ~cs.open)

(* The lock of the next page never outlives its request, so that the list   *)
(* can always be continued.                                                 *)
MoreUnlocks == cs.lock ~> ~cs.lock
=============================================================================
