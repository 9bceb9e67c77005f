------------------------------ MODULE Overlays ------------------------------
(***************************************************************************)
(* What lies over the pages (frontend/src/ui): the toast with its timer,   *)
(* the dialogs and the mobile sheet with their keyboard focus, the         *)
(* confirmation of a deletion, and the menu of the open chat that leads to *)
(* it (conversations/ThreadActions.tsx).                                   *)
(***************************************************************************)
EXTENDS Integers

CONSTANTS ToastTime,   \* ticks a toast is up
          MaxFocus     \* bound on the controls of an overlay
ASSUME OverlayAssumption == ToastTime \in Nat \ {0} /\ MaxFocus \in Nat \ {0, 1}

VARIABLE ov

(* toast: its id or 0; seq: the last id; timer: ticks left of the timer     *)
(* that will hide it, or 0; age: ticks the toast was up.  over: the overlay *)
(* and its number of enabled controls.  focus: a control from 1, the panel  *)
(* (0), or the page (-1).  back: where the focus was before, still there or *)
(* not.  menu: of the open chat.                                            *)
OverlayStart(on) ==
  [on |-> on, toast |-> 0, seq |-> 0, timer |-> 0, age |-> 0,
   over |-> "none", n |-> 0, focus |-> -1, back |-> FALSE, chat |-> TRUE, menu |-> FALSE, deleting |-> FALSE]

-----------------------------------------------------------------------------
(* The toast                                                                *)

(* The effect of Toast: keyed by the id, it restarts the countdown.         *)
ToastEffect(s, id) == IF s.toast = id THEN s ELSE [s EXCEPT !.timer = IF id = 0 THEN 0 ELSE ToastTime]

Toasted(s, id) == [ToastEffect(s, id) EXCEPT !.toast = id, !.age = 0]

(* Ids are taken modulo a small number, so that the model is finite.        *)
ShowToast == /\ ov.on
             /\ LET id == (ov.seq % 3) + 1 IN ov' = [Toasted(ov, id) EXCEPT !.seq = id]
ToastTick == /\ ov.on /\ ov.timer > 0
             /\ ov' = IF ov.timer = 1 THEN Toasted(ov, 0)
                      ELSE [ov EXCEPT !.timer = @ - 1, !.age = @ + 1]
ToastDismissed == /\ ov.on /\ ov.toast # 0
                  /\ ov' = Toasted(ov, 0)

-----------------------------------------------------------------------------
(* The menu of the chat and the confirmation                                *)

ThreadMenu == ov.chat /\ ov.menu
ConfirmShown == ov.deleting

ToggleThreadMenu == /\ ov.on /\ ov.chat /\ ov.over = "none"
                    /\ ov' = [ov EXCEPT !.menu = ~@]
CloseThreadMenu == /\ ov.on /\ ov.menu
                   /\ ov' = [ov EXCEPT !.menu = FALSE]
MenuItem == /\ ov.on /\ ThreadMenu
            /\ ov' = [ov EXCEPT !.menu = FALSE]

(* An overlay opens: a dialog takes the focus to a control, the sheet to    *)
(* its panel.  What had the focus may be gone by the time it closes.        *)
OpenedOver(s, kind, n, back) ==
  [s EXCEPT !.over = kind, !.n = n, !.focus = IF kind = "modal" /\ n > 0 THEN 1 ELSE 0, !.back = back]
Shut(s) == [s EXCEPT !.over = "none", !.n = 0, !.focus = -1, !.back = FALSE, !.deleting = FALSE]

(* app/reset puts the slice back to its start, the ids and the confirmation *)
(* too.                                                                     *)
ResetUi == /\ ov.on
           /\ LET reset == [Toasted(ov, 0) EXCEPT !.seq = 0] IN
              ov' = IF ov.deleting THEN Shut(reset) ELSE reset

OpenOverlay(kind, n) == /\ ov.on /\ ov.over = "none" /\ ~ov.menu
                        /\ ov' = OpenedOver(ov, kind, n, TRUE)
MenuDelete == /\ ov.on /\ ThreadMenu
              /\ ov' = OpenedOver([ov EXCEPT !.menu = FALSE, !.deleting = TRUE], "modal", 2, FALSE)

(* The conversation is deleted: the confirmation closes, and the blank chat *)
(* has no menu.                                                             *)
ConfirmDeletion == /\ ov.on /\ ConfirmShown
                   /\ ov' = Shut([ov EXCEPT !.chat = FALSE, !.menu = FALSE])
ChatMade == /\ ov.on /\ ~ov.chat
            /\ ov' = [ov EXCEPT !.chat = TRUE]

-----------------------------------------------------------------------------
(* The keyboard in an overlay                                               *)

(* Escape: heard by a dialog that has the focus, by the sheet anywhere.     *)
EscapeKey == /\ ov.on /\ ov.over # "none" /\ (ov.over = "sheet" \/ ov.focus >= 0)
             /\ ov' = Shut(ov)
BackdropPress == /\ ov.on /\ ov.over # "none"
                 /\ ov' = Shut(ov)

(* Where the browser goes by itself: the next control, or out of the        *)
(* overlay past its first or last one.                                      *)
Onward(f, back) == IF back THEN (IF f > 1 THEN f - 1 ELSE -1)
                   ELSE IF f \in 0..(ov.n - 1) THEN f + 1 ELSE -1

(* BottomSheet: from the panel or from outside it goes to an end.           *)
SheetTab(f, back) ==
  IF ov.n = 0 THEN 0
  ELSE IF back /\ f \in {1, 0, -1} THEN ov.n
  ELSE IF ~back /\ f \in {ov.n, 0, -1} THEN 1 ELSE Onward(f, back)

(* ModalDialog: only the first and the last control wrap around, and the    *)
(* keys are not heard outside.                                              *)
ModalTab(f, back) ==
  IF f = -1 THEN -1
  ELSE IF ov.n = 0 THEN 0
  ELSE IF back /\ f = 1 THEN ov.n ELSE IF ~back /\ f = ov.n THEN 1 ELSE Onward(f, back)

PressTab(back) ==
  /\ ov.on /\ ov.over # "none"
  /\ ov' = [ov EXCEPT !.focus = IF ov.over = "sheet" THEN SheetTab(@, back) ELSE ModalTab(@, back)]

(* The overlay renders other controls: one that had the focus and is gone   *)
(* leaves it to the page.  A press on its blank parts takes the focus.      *)
RenderControls(n) ==
  /\ ov.on /\ ov.over # "none" /\ ov.n # n
  /\ ov' = [ov EXCEPT !.n = n, !.focus = IF @ > n THEN -1 ELSE @]
PressPanel == /\ ov.on /\ ov.over # "none"
              /\ ov' = [ov EXCEPT !.focus = 0]

OverlayNext ==
  \/ ShowToast \/ ToastTick \/ ToastDismissed \/ ResetUi
  \/ ToggleThreadMenu \/ CloseThreadMenu \/ MenuItem \/ MenuDelete \/ ConfirmDeletion \/ ChatMade
  \/ \E k \in {"modal", "sheet"}, n \in 0..MaxFocus : OpenOverlay(k, n)
  \/ EscapeKey \/ BackdropPress \/ PressPanel
  \/ \E b \in BOOLEAN : PressTab(b)
  \/ \E n \in 0..MaxFocus : RenderControls(n)

-----------------------------------------------------------------------------
OverlayTypeOK == /\ ov.toast \in 0..3 /\ ov.timer \in 0..ToastTime
                 /\ ov.focus \in -1..MaxFocus /\ ov.n \in 0..MaxFocus

(* Every toast has its whole time, one that replaces another too, and none  *)
(* stays without a timer.                                                   *)
ToastWhole == IF ov.toast = 0 THEN ov.timer = 0 ELSE ov.timer + ov.age = ToastTime

(* A Tab in the sheet never reaches the page under it, even from the panel  *)
(* or after the control with the focus has gone.                            *)
SheetKeepsFocus ==
  [][ov.over = "sheet" /\ ov'.over = "sheet" /\ ov'.n = ov.n /\ ov'.focus # ov.focus
       => ov'.focus >= 0]_ov
=============================================================================
