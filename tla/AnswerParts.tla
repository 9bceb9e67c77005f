----------------------------- MODULE AnswerParts -----------------------------
(***************************************************************************)
(* Three small surfaces of a message, each with timers or a life of its    *)
(* own: the reasoning of an answer (frontend/src/messages/                 *)
(* ThinkingBlock.tsx), whose block is replaced by another when the run is  *)
(* stored; a citation and its card (Citation.tsx); and the bubble of a     *)
(* question (Message.tsx) with its editor, sheet and long press.           *)
(***************************************************************************)
EXTENDS Integers

CONSTANTS Sources,     \* how many sources a citation may name
          MaxTouches   \* bound on what the reader does
ASSUME PartsAssumption == Sources \in Nat \ {0} /\ MaxTouches \in Nat

VARIABLE ap

PartOff == [kind |-> "off"]

-----------------------------------------------------------------------------
(* The reasoning block of one run.  block: the one of the stream, the one   *)
(* of the stored message, or none; choice: the module's map at this run;    *)
(* stored: the run is over and its message in the history; taken: a stored  *)
(* block was mounted since.                                                 *)

ThinkStart == [kind |-> "think", streaming |-> TRUE, stored |-> FALSE, block |-> "stream",
               open |-> FALSE, streamed |-> TRUE, choice |-> "none", taken |-> FALSE, acts |-> 0]

(* What the header and the body under it show.                              *)
ThinkingMode(s) == CASE s.open -> "full" [] ~s.open /\ s.streaming -> "preview" [] OTHER -> "collapsed"

(* setOpen: what a block that streamed shows is noted for its successor.    *)
ThinkingToggle ==
  /\ ap.kind = "think" /\ ap.block # "none" /\ ap.acts < MaxTouches
  /\ ap' = [ap EXCEPT !.open = ~@, !.acts = @ + 1,
                      !.choice = IF ap.streamed THEN (IF ap.open THEN "closed" ELSE "open") ELSE @]

(* Thinking ends, for now or for good: the block closes whatever was shown. *)
ThinkingEnded == /\ ap.kind = "think" /\ ap.streaming
                 /\ ap' = IF ap.block = "none" THEN [ap EXCEPT !.streaming = FALSE]
                          ELSE [ap EXCEPT !.streaming = FALSE, !.open = FALSE, !.choice = "none"]
(* After a tool call the model reasons again.                               *)
ThinkingResumed == /\ ap.kind = "think" /\ ~ap.streaming /\ ~ap.stored /\ ap.acts < MaxTouches
                   /\ ap' = [ap EXCEPT !.streaming = TRUE, !.streamed = ap.block # "none", !.acts = @ + 1]

(* A block opens as its predecessor was left, once.                         *)
Mounted(s, b) == [s EXCEPT !.block = b, !.open = s.choice = "open", !.streamed = s.streaming,
                           !.choice = IF s.streaming THEN @ ELSE "none", !.taken = @ \/ b = "stored"]
RunStored == /\ ap.kind = "think" /\ ~ap.streaming /\ ~ap.stored
             /\ LET s == [ap EXCEPT !.stored = TRUE] IN
                ap' = IF ap.block = "none" THEN s ELSE Mounted(s, "stored")
LeaveThread == /\ ap.kind = "think" /\ ap.block # "none" /\ ap.acts < MaxTouches
               /\ ap' = [ap EXCEPT !.block = "none", !.acts = @ + 1]
ReturnToThread == /\ ap.kind = "think" /\ ap.block = "none"
                  /\ ap' = Mounted(ap, IF ap.stored THEN "stored" ELSE "stream")

-----------------------------------------------------------------------------
(* A citation.  over: where the pointer is; key: the card was opened by the *)
(* keyboard, with the pointer elsewhere.                                    *)

CiteStart(mobile) == [kind |-> "cite", mobile |-> mobile, cited |-> 0, open |-> FALSE, page |-> 0, over |-> "none",
                      closing |-> FALSE, key |-> FALSE, acts |-> 0]

(* The chip and the card with its pages.                                    *)
CitationChip == ap.kind = "cite" /\ ap.cited > 0
CitationCard == CitationChip /\ ap.open
CardPages == CitationCard /\ ap.cited > 1

SourceArrives == /\ ap.kind = "cite" /\ ap.cited < Sources /\ ap' = [ap EXCEPT !.cited = @ + 1]
CancelClose(s) == [s EXCEPT !.closing = FALSE]
OpenCard(s) == [s EXCEPT !.page = 0, !.open = TRUE]
EnterChip == /\ CitationChip /\ ~ap.mobile /\ ap.over = "none" /\ ap.acts < MaxTouches
             /\ ap' = OpenCard(CancelClose([ap EXCEPT !.over = "chip", !.key = FALSE, !.acts = @ + 1]))

EnterCard == /\ CitationCard /\ ~ap.mobile /\ ap.over = "none"
             /\ ap' = CancelClose([ap EXCEPT !.over = "card", !.key = FALSE])
LeaveHover == /\ CitationChip /\ ~ap.mobile /\ ap.over # "none"
              /\ ap' = [ap EXCEPT !.over = "none", !.closing = TRUE]
ClickChip(byKey) ==
  /\ CitationChip /\ ap.acts < MaxTouches /\ (~byKey /\ ~ap.mobile => ap.over = "chip")
  /\ LET s == [ap EXCEPT !.acts = @ + 1] IN
     ap' = IF ap.open THEN [s EXCEPT !.open = FALSE] ELSE OpenCard([s EXCEPT !.key = byKey \/ ap.mobile])
(* A press elsewhere or a scroll; a card that goes takes the hover with it. *)
CardDismissed == /\ CitationCard /\ ap' = [ap EXCEPT !.open = FALSE, !.over = IF @ = "card" THEN "none" ELSE @]
CloseTimer == /\ ap.kind = "cite" /\ ap.closing
              /\ ap' = [CancelClose(ap) EXCEPT !.open = FALSE, !.over = IF @ = "card" THEN "none" ELSE @]
TurnPage(d) == /\ CardPages /\ ap.page + d \in 0..(ap.cited - 1) /\ ap' = [ap EXCEPT !.page = @ + d]

-----------------------------------------------------------------------------
(* The bubble of a question.  held: the one finger is on it; sent: what the *)
(* last edit sent; input: it has attachments or a quote too.                *)

BubbleStart(mobile, input) ==
  [kind |-> "bubble", mobile |-> mobile, input |-> input, pending |-> TRUE, busy |-> TRUE, legacy |-> FALSE,
   editing |-> FALSE, draft |-> "content", sheet |-> FALSE, held |-> FALSE, pressTimer |-> FALSE,
   copied |-> FALSE, copiedTimer |-> FALSE, expanded |-> FALSE, overflow |-> FALSE, sent |-> "none", acts |-> 0]

Touched(s) == [s EXCEPT !.acts = @ + 1]
Bubble == ap.kind = "bubble" /\ ~ap.editing
(* The bar of the desktop, the sheet of the phone, and what they offer.     *)
DesktopBar == Bubble /\ ~ap.pending /\ ~ap.mobile
SheetActions == Bubble /\ ~ap.pending /\ ap.mobile /\ ap.sheet
MutateOffered == (DesktopBar \/ SheetActions) /\ ~ap.busy
LegacyUpgrade == Bubble /\ ap.legacy
ExpandToggle == Bubble /\ ap.overflow
Editor == ap.kind = "bubble" /\ ap.editing

(* The message is stored, a run of the conversation starts or ends, and the *)
(* image of an old message may be upgraded.                                 *)
Committed == /\ ap.kind = "bubble" /\ ap.pending /\ ap' = [ap EXCEPT !.pending = FALSE]
BusyChanges == /\ ap.kind = "bubble" /\ ~ap.pending /\ ap.acts < MaxTouches
               /\ ap' = Touched([ap EXCEPT !.busy = ~@])
LegacyFound == /\ ap.kind = "bubble" /\ ~ap.pending /\ ~ap.legacy /\ ap.input /\ ap' = [ap EXCEPT !.legacy = TRUE]
Measure(b) == /\ Bubble /\ b # ap.overflow /\ ap.acts < MaxTouches /\ ap' = Touched([ap EXCEPT !.overflow = b])
ToggleExpanded == /\ ExpandToggle /\ ap.acts < MaxTouches /\ ap' = Touched([ap EXCEPT !.expanded = ~@])

StartLongPress == /\ Bubble /\ ap.mobile /\ ~ap.pending /\ ~ap.sheet /\ ~ap.held /\ ap.acts < MaxTouches
                  /\ ap' = Touched([ap EXCEPT !.held = TRUE, !.pressTimer = TRUE])

(* The finger is lifted, moves on, or the touch is taken away.              *)
CancelLongPress == /\ Bubble /\ ap.held
                   /\ ap' = [ap EXCEPT !.held = FALSE, !.pressTimer = FALSE]
LongPressTimer == /\ ap.kind = "bubble" /\ ap.pressTimer
                  /\ ap' = [ap EXCEPT !.pressTimer = FALSE, !.sheet = TRUE]
CloseSheet == /\ SheetActions /\ ap' = [ap EXCEPT !.sheet = FALSE]

BubbleCopy == /\ DesktopBar \/ SheetActions
              /\ ap' = IF ap.mobile THEN [ap EXCEPT !.sheet = FALSE]
                       ELSE [ap EXCEPT !.copied = TRUE, !.copiedTimer = TRUE]
BubbleCopiedTimer == /\ ap.kind = "bubble" /\ ap.copiedTimer
                     /\ ap' = [ap EXCEPT !.copied = FALSE, !.copiedTimer = FALSE]

StartEditing(s) == [s EXCEPT !.draft = "content", !.editing = TRUE]
MutateBubble == /\ MutateOffered /\ ~ap.held
                /\ ap' = StartEditing([ap EXCEPT !.sheet = FALSE])
(* The model that reads images is chosen first, when there is one.          *)
EditAndUpgradeLegacy(found) == /\ LegacyUpgrade /\ ~ap.held
                               /\ ap' = IF found THEN StartEditing(ap) ELSE ap
TypeDraft(d) == /\ Editor /\ d # ap.draft /\ ap.acts < MaxTouches /\ ap' = Touched([ap EXCEPT !.draft = d])
(* By the button or by Enter, which no button stops.                        *)
SaveEdit == /\ Editor /\ (ap.draft = "blank" => ap.input)
            /\ ap' = [ap EXCEPT !.editing = FALSE, !.sent = ap.draft]
CancelEdit == /\ Editor /\ ap' = [ap EXCEPT !.draft = "content", !.editing = FALSE]

PartsNext ==
  \/ ThinkingToggle \/ ThinkingEnded \/ ThinkingResumed \/ RunStored \/ LeaveThread \/ ReturnToThread
  \/ SourceArrives \/ EnterChip \/ EnterCard \/ LeaveHover \/ (\E k \in BOOLEAN : ClickChip(k))
  \/ CardDismissed \/ CloseTimer \/ (\E d \in {-1, 1} : TurnPage(d))
  \/ Committed \/ BusyChanges \/ LegacyFound \/ (\E b \in BOOLEAN : Measure(b)) \/ ToggleExpanded
  \/ StartLongPress \/ CancelLongPress \/ LongPressTimer \/ CloseSheet \/ BubbleCopy \/ BubbleCopiedTimer
  \/ MutateBubble \/ (\E f \in BOOLEAN : EditAndUpgradeLegacy(f))
  \/ (\E d \in {"content", "other", "blank"} : TypeDraft(d)) \/ SaveEdit \/ CancelEdit

-----------------------------------------------------------------------------
PartsTypeOK ==
  /\ ap.kind = "think" => ap.block \in {"none", "stream", "stored"} /\ ap.choice \in {"none", "open", "closed"}
  /\ ap.kind = "cite" => ap.cited \in 0..Sources /\ ap.over \in {"none", "chip", "card"}
  /\ ap.kind = "bubble" => ap.draft \in {"content", "other", "blank"}

(* When the stored block takes the place of the streamed one, the reader    *)
(* sees no change: what it would open as is what is shown.                  *)
HandoffShowsSame ==
  ap.kind = "think" /\ ap.block = "stream" /\ ap.streamed /\ ~ap.streaming =>
    ThinkingMode(ap) = IF ap.choice = "open" THEN "full" ELSE "collapsed"

(* A choice serves one handoff: once a stored block was shown, another one  *)
(* of the run opens closed.                                                 *)
ChoiceConsumed == ap.kind = "think" /\ ap.taken => ap.choice = "none"

(* The card does not go from under the pointer: no closing is timed while   *)
(* the pointer is on the chip or the card, and one is when it left both.    *)
CardFollowsPointer ==
  ap.kind = "cite" /\ ~ap.mobile =>
    /\ ap.closing => ap.over = "none"
    /\ ap.open /\ ap.over = "none" /\ ~ap.key => ap.closing

(* The sheet opens under a finger that rests, never after it left.          *)
SheetUnderFinger == ap.kind = "bubble" /\ ap.pressTimer => ap.held
=============================================================================
