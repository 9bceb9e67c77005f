---------------------------- MODULE ThreadScroll ----------------------------
(***************************************************************************)
(* Where a thread is scrolled to (frontend/src/messages/                   *)
(* useStickToBottom.ts): it follows the answer, holds the newest question  *)
(* near the top with space reserved below it, or leaves the reader alone.  *)
(* Lengths are in units of some pixels.  The browser clamps the position   *)
(* when the content shrinks and reports every change of it by an event     *)
(* that comes later; the question is lifted by an animation that the       *)
(* reader may interrupt at any position.                                   *)
(***************************************************************************)
EXTENDS Integers

CONSTANTS Port,         \* height of the scrollport
          Near, Far,    \* distances from the end: follow again, offer a return
          Gap, Peek,    \* space above a lifted question, and below a long one
          MaxEnd,       \* bound on the length of the thread
          MaxReads      \* bound on what the reader and the layout do
ASSUME ScrollAssumption ==
  /\ Port \in Nat /\ Port >= 3   \* a thread at its start fits
  /\ Near \in Nat \ {0} /\ Far \in Nat /\ Gap \in Nat /\ Peek \in Nat
  /\ MaxEnd \in Nat /\ MaxReads \in Nat

VARIABLE ts

Larger(a, b) == IF a > b THEN a ELSE b
Smaller(a, b) == IF a < b THEN a ELSE b
None0 == -1

(* ut, ub: the newest question; end: the end of the content; foot: the      *)
(* height of the composer.  tail, at, ab: the anchor, which is the question *)
(* that was the newest when it was lifted, with what was below it then.     *)
(* lift: where the animation began.  goal, timer: where a smooth return     *)
(* goes, and whether it still has to begin.  ev, mine: an event is to come, *)
(* for a scroll of the reader too.  resized: an observation is to come.     *)
(* late: the layout changed, or a motion was given up, since the button was *)
(* decided.  unread: the layout changed, or the reader came back to where   *)
(* the page had last put them, or a hold was given up for a hit, since the  *)
(* end was followed.                                                        *)
(* away: the reader was seen scrolling up, and asked for nothing since.     *)
ScrollStart(on) ==
  [on |-> on, calm |-> FALSE, ut |-> 0, ub |-> 1, end |-> 2, foot |-> 1, top |-> 0, reserve |-> 0,
   mode |-> "bottom", tail |-> None0, at |-> 0, ab |-> 0, armed |-> FALSE, lift |-> None0,
   show |-> FALSE, paused |-> FALSE, returning |-> FALSE, timer |-> FALSE, goal |-> None0, lastSet |-> None0, prev |-> 0,
   ev |-> FALSE, mine |-> FALSE, resized |-> FALSE, late |-> FALSE, unread |-> FALSE, away |-> FALSE, reads |-> 0]

-----------------------------------------------------------------------------
(* Geometry                                                                 *)

ScrollHeight(s) == Larger(Port, Larger(s.end, s.reserve) + s.foot)
MaxTop(s) == ScrollHeight(s) - Port
(* effectiveMetrics: without the blank space.                               *)
EffectiveHeight(s) == Larger(Port, s.end + s.foot)
DistanceFromBottom(s) == EffectiveHeight(s) - s.top - Port
IsNearBottom(s) == DistanceFromBottom(s) < Near
IsScrolledFromBottom(s) == DistanceFromBottom(s) > Far

(* The browser keeps the position within the content.                       *)
Clamped(s) == IF s.top <= MaxTop(s) THEN s ELSE [s EXCEPT !.top = MaxTop(s), !.ev = TRUE]

(* setTop: a scroll by the page ends a smooth one, and hides one of the     *)
(* reader that was not reported yet.                                        *)
SetTop(s, t) ==
  LET c == Larger(0, Smaller(t, MaxTop(s))) IN
  [s EXCEPT !.top = c, !.lastSet = c, !.prev = c, !.ev = @ \/ c # s.top,
            !.goal = None0, !.mine = FALSE]

Synced(s) == [s EXCEPT !.show = IsScrolledFromBottom(s), !.late = FALSE]
SetReserve(s, n) == Clamped([s EXCEPT !.reserve = n])

(* releaseReserve: only ever smaller.                                       *)
ReleaseReserve(s) ==
  IF s.reserve = 0 THEN s
  ELSE LET next == Smaller(s.reserve, s.top + Port - s.foot) IN SetReserve(s, IF next <= s.end THEN 0 ELSE next)

(* Where a held question wants the thread: at its natural place when that   *)
(* is high enough, else lifted; its end and the start of the answer show.   *)
AnchorTop(s) ==
  LET natural == Larger(0, s.ab + s.tail + s.foot - Port) IN
  Larger(0, Larger(IF (s.at - natural) * 3 <= Port THEN natural ELSE s.at - Gap,
                   s.ab - (Port - s.foot - Peek)))
ReserveFor(s, t) == Larger(0, t + Port - s.foot)

StartLift(s, from, to) == [SetTop(s, to) EXCEPT !.lift = from]
(* What is on the screen while the question is lifted.                      *)
OnScreen(s) == IF s.lift = None0 THEN {s.top} ELSE Smaller(s.lift, s.top)..Larger(s.lift, s.top)

(* holdAnchor; x is on the screen.  A lift goes where the page set the      *)
(* position when it began (animatingTo; the reserve lets it be reached),    *)
(* whatever moved the position since, until the question wants another.     *)
HoldAnchor(s, x) ==
  LET t == AnchorTop(s)
      animatingTo == s.lastSet
      r == SetReserve(s, ReserveFor(s, t)) IN
  IF s.lift # None0 THEN (IF animatingTo # t THEN StartLift(r, x, t) ELSE r)
  ELSE IF r.top # t THEN SetTop(r, t) ELSE r

(* stopAnimation: what is on the screen becomes the position.               *)
StopAnimation(s, x) == LET r == [s EXCEPT !.lift = None0] IN IF x # s.top THEN SetTop(r, x) ELSE r
ClearAnchor(s, x) == [StopAnimation(s, x) EXCEPT !.tail = None0, !.at = 0, !.ab = 0]
LeaveAnchor(s, next, x) ==
  ReleaseReserve([(IF s.mode = "anchored" THEN ClearAnchor(s, x) ELSE s) EXCEPT !.mode = next])

AnchorNewestTurn(s, x) ==
  LET a == [ClearAnchor(s, x) EXCEPT !.mode = "anchored", !.returning = FALSE, !.show = FALSE]
      b == [a EXCEPT !.tail = EffectiveHeight(a) - a.foot - a.ub, !.at = a.ut, !.ab = a.ub]
      t == AnchorTop(b)
      r == SetReserve(b, ReserveFor(b, t)) IN
  IF ~s.calm /\ r.top # t THEN StartLift(r, r.top, t) ELSE SetTop(r, t)

-----------------------------------------------------------------------------
(* A render                                                                 *)

(* Mutant: what is streamed is followed whoever scrolled.                   *)
SettledFollow(s, x) ==
  CASE s.mode = "anchored" ->
         LET h == HoldAnchor(s, x) IN IF h.lift = None0 THEN Synced(h) ELSE h
    [] OTHER ->
         [ReleaseReserve(SetTop(s, EffectiveHeight(s))) EXCEPT !.show = FALSE, !.late = FALSE, !.unread = FALSE]

(* The end of the layout effect.                                            *)
Settled(s, x) ==
  CASE s.mode = "anchored" ->
         LET h == HoldAnchor(s, x) IN IF h.lift = None0 THEN Synced(h) ELSE h
    [] s.mode = "bottom" ->
         [ReleaseReserve(SetTop(s, EffectiveHeight(s))) EXCEPT !.show = FALSE, !.late = FALSE, !.unread = FALSE]
    [] OTHER -> IF s.returning THEN s ELSE Synced(s)

(* The answer grows.                                                        *)
RenderDelta == /\ ts.on /\ ts.end < MaxEnd
               /\ \E x \in OnScreen(ts) : ts' = Settled([ts EXCEPT !.end = @ + 1], x)

(* A turn appears, asked for by anchorNextTurn or not: a new question of    *)
(* some length, or the last one again without its answer.                   *)
RenderTurn(len) ==
  LET s == Clamped(IF len = 0 THEN [ts EXCEPT !.end = ts.ub + 1]
                   ELSE [ts EXCEPT !.ut = ts.end, !.ub = ts.end + len, !.end = ts.end + len + 1]) IN
  /\ ts.on /\ s.end <= MaxEnd
  /\ \E x \in OnScreen(s) :
       ts' = IF s.armed /\ ~s.paused
             THEN LET a == AnchorNewestTurn([s EXCEPT !.armed = FALSE, !.away = FALSE], x) IN Settled(a, a.lift)
             ELSE Settled([s EXCEPT !.armed = FALSE], x)

(* Another conversation is entered; the first message of a new one makes    *)
(* its conversation, which is no navigation.                                *)
EnterThread(long, made) ==
  /\ ts.on /\ ts.reads < MaxReads
  /\ LET s == [ts EXCEPT !.reads = @ + 1, !.away = FALSE]
         n == [s EXCEPT !.ut = 0, !.ub = 1, !.end = IF long THEN MaxEnd - 2 ELSE 2]
         left == SetReserve([ClearAnchor(n, n.top) EXCEPT !.armed = FALSE], 0) IN
     \E x \in OnScreen(s) :
       ts' = IF made /\ ts.mode = "anchored" THEN Settled(s, x)
             ELSE Settled(IF ~ts.paused THEN [left EXCEPT !.mode = "bottom", !.returning = FALSE]
                          ELSE [left EXCEPT !.mode = IF @ = "anchored" THEN "free" ELSE @], left.top)

-----------------------------------------------------------------------------
(* Events                                                                   *)

(* Landing on the end below the held place is a clamp, not the reader.      *)
ClampedAnchor(s) == s.mode = "anchored" /\ s.top < s.lastSet /\ s.top >= MaxTop(s)

ScrolledByReader(s, x) ==
  CASE s.returning /\ s.top < s.prev -> LeaveAnchor([s EXCEPT !.returning = FALSE], "free", x)
    [] s.returning /\ s.top >= s.prev /\ IsNearBottom(s) ->
         LeaveAnchor([s EXCEPT !.returning = FALSE], "bottom", x)
    [] s.returning /\ s.top >= s.prev /\ ~IsNearBottom(s) -> s
    [] OTHER -> LeaveAnchor(s, IF s.top < s.prev \/ ~IsNearBottom(s) THEN "free" ELSE "bottom", x)

OnScroll ==
  /\ ts.on /\ ts.ev
  /\ LET e == [ts EXCEPT !.ev = FALSE, !.mine = FALSE, !.unread = @ \/ (ts.mine /\ ts.top = ts.lastSet),
                         !.away = IF ts.mine /\ ts.lift = None0 /\ ~ClampedAnchor(ts)
                                     THEN ts.top < ts.prev /\ ts.top # ts.lastSet /\ ts.goal = None0 ELSE @]
         held == HoldAnchor(e, e.top)
         moved == IF e.lift = None0 /\ ~e.paused /\ e.top # e.lastSet THEN ScrolledByReader(e, e.top) ELSE e
         kept == IF moved.mode # "anchored" /\ moved.lift = None0 THEN ReleaseReserve(moved) ELSE moved IN
     ts' = IF ClampedAnchor(e) THEN (IF held.lift = None0 THEN Synced(held) ELSE held)
           ELSE [(IF kept.returning \/ kept.lift # None0 THEN [kept EXCEPT !.show = FALSE] ELSE Synced(kept))
                   EXCEPT !.prev = e.top]

(* Gestures, and the scrolls they make; keys only end the pause.            *)
Gestured(s, x) == IF s.lift = None0 THEN [s EXCEPT !.paused = FALSE]
                  ELSE LeaveAnchor(StopAnimation([s EXCEPT !.paused = FALSE], x), "free", x)
ReaderScroll(t, key) ==
  /\ ts.on /\ ts.reads < MaxReads
  /\ \E x \in OnScreen(ts) :
       LET s == IF key THEN [ts EXCEPT !.paused = FALSE] ELSE Gestured(ts, x) IN
       /\ t # s.top /\ t \in 0..MaxTop(s)
       /\ ts' = [s EXCEPT !.top = t, !.goal = None0, !.ev = TRUE, !.mine = TRUE,
                          !.reads = @ + 1, !.away = @ /\ t < s.top]

(* The lift ends.                                                           *)
LiftFinished ==
  /\ ts.on /\ ts.lift # None0
  /\ LET s == [ts EXCEPT !.lift = None0] IN
     ts' = Synced(IF s.mode = "anchored" THEN HoldAnchor(s, s.top) ELSE s)

(* The composer or the question changes its height, or the answer does      *)
(* without a render, as an image is decoded.                                *)
LateLayout(part, d) ==
  LET s == CASE part = "foot" -> [ts EXCEPT !.foot = @ + d]
             [] part = "question" -> [ts EXCEPT !.ub = @ + d, !.end = @ + d,
                                                       !.ab = IF @ = ts.ub THEN @ + d ELSE @]
             [] OTHER -> [ts EXCEPT !.end = @ + d] IN
  /\ ts.on /\ ts.reads < MaxReads /\ s.foot \in 1..2 /\ s.ub > s.ut /\ s.ub < s.end /\ s.end <= MaxEnd
  /\ ts' = Clamped([s EXCEPT !.late = TRUE, !.unread = TRUE, !.resized = @ \/ part # "answer", !.reads = @ + 1])
Observed == /\ ts.on /\ ts.resized
            /\ \E x \in OnScreen(ts) :
                 LET s == [ts EXCEPT !.resized = FALSE] IN
                 ts' = IF s.mode = "anchored" THEN HoldAnchor(s, x) ELSE s

-----------------------------------------------------------------------------
(* What is asked of the hook                                                *)

AnchorNextTurn == /\ ts.on /\ ~ts.armed /\ ts.reads < MaxReads
                  /\ ts' = [ts EXCEPT !.armed = TRUE, !.paused = FALSE, !.away = FALSE, !.reads = @ + 1]

(* The button is in the scrollport: pressing it is a gesture.               *)
ReturnButton == ts.show
ScrollToBottom ==
  /\ ts.on /\ ReturnButton /\ ts.reads < MaxReads
  /\ \E x \in OnScreen(ts) :
       LET g == Gestured(ts, x)
           a == IF g.mode = "anchored" THEN ClearAnchor(g, g.top) ELSE g
           s == [a EXCEPT !.mode = "bottom", !.show = FALSE, !.reads = @ + 1, !.away = FALSE] IN
       ts' = IF s.calm THEN ReleaseReserve(SetTop(s, EffectiveHeight(s)))
             ELSE [s EXCEPT !.returning = TRUE, !.timer = TRUE, !.goal = None0]
(* The motion starts after the button is gone, unless it was given up.      *)
ReturnTimer == /\ ts.on /\ ts.timer
               /\ ts' = [ts EXCEPT !.timer = FALSE,
                                   !.goal = IF ts.returning THEN Smaller(EffectiveHeight(ts), MaxTop(ts)) ELSE @]
(* The browser moves on, and reports it.                                    *)
SmoothStep == /\ ts.on /\ ts.goal # None0
              /\ LET g == Smaller(ts.goal, MaxTop(ts)) IN
                 IF ts.top >= g THEN ts' = [ts EXCEPT !.goal = None0]
                 ELSE \E t \in {ts.top + 1, g} : ts' = [ts EXCEPT !.top = t, !.ev = TRUE]

PauseFollowing(p) ==
  /\ ts.on /\ ts.reads < MaxReads
  /\ LET s == [ts EXCEPT !.paused = p, !.reads = @ + 1, !.away = FALSE]
         a == [s EXCEPT !.returning = FALSE, !.late = @ \/ s.returning \/ s.lift # None0,
                         !.unread = @ \/ s.mode = "anchored"] IN
     ts' = IF ~p THEN s
           ELSE [(IF a.mode = "anchored" THEN ClearAnchor(a, a.top) ELSE a) EXCEPT !.mode = "free"]
(* The hit that following was paused for is shown.                          *)
ShowHit(t) == /\ ts.on /\ ts.paused /\ t \in 0..MaxTop(ts) /\ t # ts.top
              /\ ts' = [ts EXCEPT !.top = t, !.ev = TRUE, !.goal = None0, !.away = FALSE]

ScrollNext ==
  \/ RenderDelta \/ (\E len \in {0, 1, 3} : RenderTurn(len))
  \/ \E long, made \in BOOLEAN : EnterThread(long, made)
  \/ OnScroll \/ LiftFinished \/ Observed \/ AnchorNextTurn \/ ScrollToBottom \/ ReturnTimer \/ SmoothStep
  \/ \E t \in 0..MaxEnd, key \in BOOLEAN : ReaderScroll(t, key)
  \/ \E d \in {-1, 1}, part \in {"foot", "question", "answer"} : LateLayout(part, d)
  \/ \E p \in BOOLEAN : PauseFollowing(p)
  \/ \E t \in 0..MaxEnd : ShowHit(t)

-----------------------------------------------------------------------------
ScrollTypeOK ==
  /\ ts.top \in 0..MaxTop(ts) /\ ts.reserve \in Nat /\ ts.foot \in 1..2
  /\ ts.mode \in {"bottom", "anchored", "free"} /\ (ts.lift # None0 => ts.mode = "anchored")

Rest == ~ts.ev /\ ~ts.late /\ ~ts.returning /\ ts.lift = None0

(* The button that returns to the end is there exactly when the end is far. *)
ReturnOffered == ts.on /\ Rest => ts.show = IsScrolledFromBottom(ts)

(* A thread that follows is at its end when everything has been reported.   *)
FollowsEnd == ts.on /\ Rest /\ ~ts.unread /\ ts.mode = "bottom" => IsNearBottom(ts)

(* No blank space lies below the screen once the question is not held.      *)
NoBlankBelow == Rest /\ ~ts.unread /\ ts.mode # "anchored" /\ ts.reserve > ts.end => MaxTop(ts) <= ts.top

(* Nothing but the reader scrolls down a reader who scrolled up.            *)
ReaderStays == [][ts.away /\ ts'.away /\ ts'.reads = ts.reads => ts'.top <= ts.top]_ts

(* Only the reader ends the hold of a question: nothing rendered and no     *)
(* motion of the page's own does, while the layout keeps still.             *)
OnlyReaderLeaves ==
  [][ts.mode = "anchored" /\ ts'.mode # "anchored" /\ ~ts.unread => ts'.reads # ts.reads \/ ts.mine]_ts
=============================================================================
