---------------------------- MODULE ComposerMenus ----------------------------
(***************************************************************************)
(* The popovers and the drop zone of the composer (frontend/src/ui/        *)
(* Composer.tsx): the + menu, the picker of model and level with its       *)
(* submenus, and the overlay that is up while files are dragged over the   *)
(* page, which is counted by the events of the browser.                    *)
(***************************************************************************)
EXTENDS Integers

CONSTANT MaxDepth    \* bound on the elements a drag is counted in
ASSUME DragAssumption == MaxDepth \in Nat \ {0}

VARIABLE cm

(* allowed: canDropFiles.  over: files are dragged over the page.  pending: *)
(* a dragleave that is still to come.  offered: models are offered.         *)
(* wide: the prompt takes its own row,   *)
(* text: none, a line, or more than fits beside the controls.               *)
MenusStart(on) ==
  [on |-> on, tools |-> FALSE, picker |-> FALSE, submenu |-> "none", inline |-> FALSE,
   allowed |-> FALSE, over |-> FALSE, pending |-> FALSE, depth |-> 0, drag |-> FALSE,
   dropped |-> "none", offered |-> FALSE, levels |-> TRUE, text |-> "none", wide |-> FALSE]

-----------------------------------------------------------------------------
(* What is on the page                                                      *)

ToolsMenu == cm.tools
FileItem == ToolsMenu /\ cm.allowed
PickerButton == cm.offered \/ cm.levels
PickerMenu == PickerButton /\ cm.picker
ModelRow == PickerMenu /\ cm.offered
LevelRow == PickerMenu /\ cm.levels
LevelItems == LevelRow /\ cm.submenu = "level"
DropOverlay == cm.drag

-----------------------------------------------------------------------------

(* togglePicker, toggleTools: each closes the other.                        *)
TogglePicker == /\ cm.on /\ PickerButton
                /\ cm' = [cm EXCEPT !.tools = FALSE, !.picker = ~@, !.submenu = "none"]

ToggleTools == /\ cm.on
               /\ cm' = [cm EXCEPT !.tools = ~@, !.picker = FALSE]

(* toggleSubmenu: where the levels go is decided when they open.            *)
ToggleSubmenu(m, narrow) ==
  /\ cm.on /\ (IF m = "model" THEN ModelRow ELSE LevelRow)
  /\ cm' = [cm EXCEPT !.submenu = IF @ = m THEN "none" ELSE m,
                      !.inline = IF m = "level" THEN narrow ELSE @]

PickLevel == /\ cm.on /\ LevelItems
             /\ cm' = [cm EXCEPT !.submenu = "none"]

(* The model that is picked has levels or none, and sees or does not.       *)
PickModel(levels) == /\ cm.on /\ ModelRow /\ cm.submenu = "model"
                     /\ cm' = [cm EXCEPT !.submenu = "none", !.levels = levels]

(* A press outside, or Escape, closes what is open.                         *)
PressOutside == /\ cm.on /\ (cm.tools \/ cm.picker)
                /\ cm' = [cm EXCEPT !.tools = FALSE, !.picker = FALSE]

(* The file item: the menu closes and the browser's chooser opens.          *)
OpenChooser == /\ cm.on /\ FileItem
               /\ cm' = [cm EXCEPT !.tools = FALSE]

CapabilitiesArrive(models) ==
  /\ cm.on /\ ~cm.offered
  /\ cm' = [cm EXCEPT !.offered = models, !.allowed = TRUE]

-----------------------------------------------------------------------------
(* Dragging files                                                           *)

ResetDrag(c) == [c EXCEPT !.depth = 0, !.drag = FALSE]

OnDragEnter(c) == IF c.allowed THEN [c EXCEPT !.depth = @ + 1, !.drag = TRUE] ELSE c

OnDragLeave(c, window) ==
  LET d == IF c.depth = 0 THEN 0 ELSE c.depth - 1
      left == [c EXCEPT !.depth = d] IN
  IF ~c.allowed THEN c ELSE IF d = 0 \/ window THEN ResetDrag(left) ELSE left

DragIn == /\ cm.on /\ ~cm.over
          /\ cm' = [OnDragEnter(cm) EXCEPT !.over = TRUE, !.dropped = "none"]

(* The drag passes to another element: it is entered, then the old one is   *)
(* left, or was taken away by a render and is never left.                   *)
DragAcross == /\ cm.on /\ cm.over /\ ~cm.pending /\ cm.depth < MaxDepth
              /\ \E gone \in BOOLEAN : cm' = [OnDragEnter(cm) EXCEPT !.pending = ~gone]
DragLeft == /\ cm.on /\ cm.over /\ cm.pending
            /\ cm' = [OnDragLeave(cm, FALSE) EXCEPT !.pending = FALSE]

(* The drag leaves the window, or is given up.                              *)
DragOut == /\ cm.on /\ cm.over /\ ~cm.pending
           /\ cm' = [OnDragLeave(cm, TRUE) EXCEPT !.over = FALSE]

(* The files are let go: taken, or opened by the browser.                   *)
OnDrop == /\ cm.on /\ cm.over /\ ~cm.pending
          /\ cm' = [IF cm.allowed THEN ResetDrag(cm) ELSE cm
                      EXCEPT !.over = FALSE, !.dropped = IF cm.allowed THEN "taken" ELSE "browser"]

OnBlur == /\ cm.on /\ cm.drag
          /\ cm' = ResetDrag(cm)

(* The page becomes read-only, or can take files again.                     *)
AllowDrops(b) == /\ cm.on /\ cm.allowed # b
                 /\ cm' = IF b THEN [cm EXCEPT !.allowed = TRUE] ELSE ResetDrag([cm EXCEPT !.allowed = FALSE])

(* The prompt is measured when it changes: at the width beside the controls *)
(* even when it has a row of its own.                                       *)
MeasurePrompt(t) == /\ cm.on /\ cm.text # t
                    /\ cm' = [cm EXCEPT !.text = t, !.wide = t = "long"]

MenusNext ==
  \/ TogglePicker \/ ToggleTools \/ PickLevel \/ PressOutside \/ OpenChooser
  \/ \E m \in {"model", "level"}, b \in BOOLEAN : ToggleSubmenu(m, b)
  \/ \E b \in BOOLEAN : PickModel(b) \/ CapabilitiesArrive(b) \/ AllowDrops(b)
  \/ DragIn \/ DragAcross \/ DragLeft \/ DragOut \/ OnDrop \/ OnBlur
  \/ \E t \in {"none", "line", "long"} : MeasurePrompt(t)

-----------------------------------------------------------------------------
MenusTypeOK ==
  /\ cm.submenu \in {"none", "model", "level"} /\ cm.depth \in 0..(MaxDepth + 1)
  /\ cm.dropped \in {"none", "taken", "browser"} /\ cm.text \in {"none", "line", "long"}

(* However they are opened, by pointer or by key, one popover is up, and    *)
(* the picker opens without a submenu left from before.                     *)
OneMenu == /\ ~(cm.tools /\ cm.picker)
           /\ cm.on /\ LevelItems => ~cm.tools

(* The overlay is not left over a page that nothing is dragged over, or     *)
(* that takes no files, whatever elements came and went under the drag, and *)
(* the next drag is counted from nothing.                                   *)
OverlayTrue == /\ DropOverlay => cm.over /\ cm.allowed /\ cm.depth > 0
               /\ ~cm.over => cm.depth = 0
=============================================================================
