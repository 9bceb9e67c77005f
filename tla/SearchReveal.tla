---------------------------- MODULE SearchReveal ----------------------------
(***************************************************************************)
(* Showing where a search hit is (frontend/src/search/                     *)
(* revealSearchResult.ts and the intent of AppShell): a chosen result      *)
(* opens its conversation, the address follows later, and the hit is       *)
(* scrolled to, painted for three seconds and taken away.  The text of the *)
(* message may be rendered again meanwhile; its hash is awaited.           *)
(***************************************************************************)
EXTENDS Integers, FiniteSets

CONSTANTS RevealConvs,   \* conversations with a hit
          MaxRenders     \* bound on the renders of the message under the hit
ASSUME RevealAssumption == MaxRenders \in Nat

VARIABLE rv

Nowhere == "none"

(* The reveal that runs.  dom: the render the message is at; hash: the      *)
(* render whose hash is awaited, or -1; range: the render the range is in,  *)
(* or -1; at: waiting, scrolled, painted.                                   *)
NoReveal == [conv |-> Nowhere, dom |-> 0, hash |-> -1, range |-> -1, at |-> "waiting"]

(* intent: the result whose hit is to be shown, with whether it names a     *)
(* place.  route, detail: the conversation of the address and of the page.  *)
(* going: a navigation the router has not committed.  ink: what is painted. *)
(* toasts: how often this intent was told the text changed.                 *)
RevealStart(on) ==
  [on |-> on, intent |-> Nowhere, target |-> FALSE, route |-> Nowhere, detail |-> Nowhere,
   going |-> Nowhere, run |-> NoReveal, ink |-> Nowhere, toasts |-> 0]

-----------------------------------------------------------------------------
(* cleanup: frames, observers and listeners end, and the paint goes.        *)
CleanupReveal(s) == [s EXCEPT !.run = NoReveal, !.ink = Nowhere]

Missing(s) == [CleanupReveal(s) EXCEPT !.toasts = @ + 1]

(* The effect on the intent and the page: the old reveal is cleaned up; the *)
(* new one starts when the page is the one of the intent, at the message,   *)
(* or tells that there is none.                                             *)
RevealEffect(s, found) ==
  LET c == CleanupReveal(s) IN
  IF ~s.target \/ s.intent = Nowhere \/ s.detail # s.intent THEN c
  ELSE IF ~found THEN Missing(c)
  ELSE [c EXCEPT !.run = [NoReveal EXCEPT !.conv = s.intent, !.hash = 0]]

(* The effect on the address: another conversation than the intent's ends   *)
(* it, its own does not.                                                    *)
RouteEffect(s, changed, found) ==
  IF changed /\ s.intent # s.route /\ s.intent # Nowhere
  THEN RevealEffect([s EXCEPT !.intent = Nowhere], found) ELSE s

-----------------------------------------------------------------------------
(* chooseSearchResult: the page shows the conversation, the navigation is   *)
(* begun, the intent is set.                                                *)
ChooseResult(c, target, found) ==
  /\ rv.on
  /\ rv' = RevealEffect([rv EXCEPT !.detail = c, !.going = c, !.intent = c, !.target = target,
                                   !.toasts = 0], found)

(* The router commits it; the user goes to another conversation, and the    *)
(* page follows the address.                                                *)
CommitRoute == /\ rv.on /\ rv.going # Nowhere
               /\ rv' = RouteEffect([rv EXCEPT !.route = rv.going, !.going = Nowhere],
                                    rv.going # rv.route, TRUE)
GoTo(c) == /\ rv.on /\ rv.going = Nowhere /\ rv.route # c
           /\ rv' = RouteEffect([rv EXCEPT !.route = c], TRUE, TRUE)
ShowDetail == /\ rv.on /\ rv.going = Nowhere /\ rv.detail # rv.route
              /\ \E found \in BOOLEAN :
                   rv' = IF rv.intent = Nowhere THEN [rv EXCEPT !.detail = rv.route]
                         ELSE RevealEffect([rv EXCEPT !.detail = rv.route], found)

-----------------------------------------------------------------------------
(* rebuild: the text is read and its hash awaited; a render while it is     *)
(* awaited is not read.                                                     *)
Rebuild(s) == IF s.run.hash # -1 THEN s ELSE [s EXCEPT !.run.hash = s.run.dom]
RenderMessage == /\ rv.on /\ rv.run.conv # Nowhere /\ rv.run.dom < MaxRenders
                 /\ rv' = Rebuild([rv EXCEPT !.run.dom = @ + 1])

PaintIfStarted(s) == IF s.run.at = "painted" THEN [s EXCEPT !.ink = s.run.conv] ELSE s

(* Mutant: the range is not taken.                                          *)
HashedSameLost == /\ rv.on /\ rv.run.hash # -1
                  /\ rv' = [rv EXCEPT !.run.hash = -1]

(* The hash is there: the same text gives the range, another one tells.     *)
HashedSame == /\ rv.on /\ rv.run.hash # -1
              /\ rv' = PaintIfStarted([rv EXCEPT !.run.range = rv.run.hash, !.run.hash = -1])
HashedOther == /\ rv.on /\ rv.run.hash # -1
               /\ rv' = Missing(rv)

(* tick: scroll to the range, wait until the scroll stands, paint, and take *)
(* the paint away after three seconds.                                      *)
TickPosition == /\ rv.on /\ rv.run.range # -1 /\ rv.run.at = "waiting"
                /\ rv' = [rv EXCEPT !.run.at = "scrolled"]
TickPaint == /\ rv.on /\ rv.run.at = "scrolled"
             /\ rv' = [rv EXCEPT !.run.at = "painted", !.ink = rv.run.conv]
TickEnd == /\ rv.on /\ rv.run.at = "painted"
           /\ rv' = CleanupReveal(rv)

(* A wheel, a touch, a press or a key ends it, and the intent.              *)
CancelByUser == /\ rv.on /\ rv.run.conv # Nowhere
                /\ rv' = [CleanupReveal(rv) EXCEPT !.intent = Nowhere]

RevealNext ==
  \/ \E c \in RevealConvs, t, f \in BOOLEAN : ChooseResult(c, t, f)
  \/ \E c \in RevealConvs : GoTo(c)
  \/ CommitRoute \/ ShowDetail \/ RenderMessage \/ HashedSame \/ HashedOther
  \/ TickPosition \/ TickPaint \/ TickEnd \/ CancelByUser

(* Hashes are computed and frames come, faster than anyone chooses results. *)
RevealFairness == /\ SF_rv(HashedSame \/ HashedOther)
                  /\ SF_rv(TickPosition) /\ SF_rv(TickPaint)

-----------------------------------------------------------------------------
RevealTypeOK ==
  /\ rv.intent \in RevealConvs \cup {Nowhere} /\ rv.run.at \in {"waiting", "scrolled", "painted"}
  /\ rv.run.hash \in -1..MaxRenders /\ rv.toasts \in 0..1

(* Nothing is painted over a page that does not show the hit, or after the  *)
(* user took over: the paint belongs to a running reveal of the intent's    *)
(* own page.                                                                *)
PaintOwned == rv.ink # Nowhere => rv.run.conv = rv.ink /\ rv.intent = rv.ink /\ rv.detail = rv.ink

(* The address of the chosen conversation is committed after the intent is  *)
(* set, and leaves the reveal alone.                                        *)
OwnAddressKept ==
  [][rv.going # Nowhere /\ rv'.going = Nowhere /\ rv.going = rv.intent
       => rv'.intent = rv.intent /\ rv'.run = rv.run]_rv

(* A reveal that was begun comes to the paint, or to an end: hashes that    *)
(* are awaited again after each render do not hold it up.                   *)
RevealEnds == (rv.run.conv # Nowhere) ~> (rv.run.at = "painted" \/ rv.run.conv = Nowhere)
=============================================================================
