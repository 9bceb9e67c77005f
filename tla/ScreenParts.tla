----------------------------- MODULE ScreenParts -----------------------------
(***************************************************************************)
(* Parts of the client and of the services behind them whose correctness   *)
(* is a matter of single states and steps: the options and menus of the    *)
(* composer, the thread, its quotes and the parts of an answer, public     *)
(* links, favorites and overlays.  They share no state: a behaviour is a   *)
(* behaviour of one of them.                                               *)
(***************************************************************************)
EXTENDS RunOptions, ComposerMenus, ThreadScroll, ReplyQuotes, CodeBlocks, AnswerParts,
        ShareLinks, Favorites, Overlays

composer == <<ro, cm>>
thread == <<ts, rq, cb, ap>>
library == <<sh, fv, ov>>
vars == <<composer, thread, library>>

(* Drafts as they were left in the storage of the first conversation.       *)
Drafts == {[c \in Rooms |-> IF c = CHOOSE r \in Rooms : TRUE THEN q ELSE NoQuote] :
             q \in UNION {Stored(c) : c \in {CHOOSE r \in Rooms : TRUE}}}

Init ==
  \E part \in {"options", "menus", "scroll", "quotes", "code", "think", "cite", "bubble",
               "card", "page", "favorites", "overlays"}, b \in BOOLEAN :
    /\ ro = OptionsStart(part = "options")
    /\ cm = MenusStart(part = "menus")
    /\ ts = [ScrollStart(part = "scroll") EXCEPT !.calm = b /\ part = "scroll"]
    /\ rq \in {QuotesStart(part = "quotes", b /\ part = "quotes", d) :
                 d \in IF part = "quotes" THEN Drafts ELSE {[c \in Rooms |-> NoQuote]}}
    /\ cb \in {CodeStart(part = "code", l) : l \in IF part = "code" THEN Langs ELSE {"plain"}}
    /\ ap \in CASE part = "think" -> {ThinkStart}
                [] part = "cite" -> {CiteStart(b)}
                [] part = "bubble" -> {BubbleStart(b, i) : i \in BOOLEAN}
                [] OTHER -> {PartOff}
    /\ sh = ShareStart(IF part \in {"card", "page"} THEN part ELSE "off")
    /\ fv = FavoritesStart(part = "favorites")
    /\ ov = OverlayStart(part = "overlays")

Next == \/ OptionsNext /\ UNCHANGED <<cm, thread, library>>
        \/ MenusNext /\ UNCHANGED <<ro, thread, library>>
        \/ ts.on /\ ScrollNext /\ UNCHANGED <<composer, rq, cb, ap, library>>
        \/ rq.on /\ QuotesNext /\ UNCHANGED <<composer, ts, cb, ap, library>>
        \/ cb.on /\ CodeNext /\ UNCHANGED <<composer, ts, rq, ap, library>>
        \/ ap.kind # "off" /\ PartsNext /\ UNCHANGED <<composer, ts, rq, cb, library>>
        \/ ShareNext /\ UNCHANGED <<composer, thread, fv, ov>>
        \/ FavoritesNext /\ UNCHANGED <<composer, thread, sh, ov>>
        \/ OverlayNext /\ UNCHANGED <<composer, thread, sh, fv>>

Spec == Init /\ [][Next]_vars

-----------------------------------------------------------------------------
(* What the parts promise, gathered by subject.                             *)

(* Options: what is sent is what the menus show, the level fits the model,  *)
(* a conversation that needs pictures keeps a model that reads them, and    *)
(* one menu is open at a time (modelPreference, thinkingLevel, Composer).   *)
OptionsSound == /\ OptionsTypeOK /\ SentAsShown /\ LevelFits /\ SeeingKept
                /\ MenusTypeOK /\ OneMenu /\ OverlayTrue

(* The thread: it follows its end exactly while the reader is there, and a  *)
(* quote is what was selected in the conversation it is sent to             *)
(* (useStickToBottom, useReplyQuoteSelection, replyQuoteDraftStore).        *)
ThreadSound == /\ ScrollTypeOK /\ ReturnOffered /\ FollowsEnd /\ NoBlankBelow
               /\ QuotesTypeOK /\ QuotesWhatIsShown /\ DraftIsShown
               /\ ButtonQuotesSelection /\ StylePutBack

(* The parts of an answer: code is shown whole whatever the highlighter     *)
(* does, the end of a run changes nothing the reader sees, and cards and    *)
(* sheets follow the pointer that opened them (CodeBlock, ThinkingBlock,    *)
(* Citation, Message).                                                      *)
AnswerSound == /\ CodeTypeOK /\ CodeShownWhole /\ HighlightSettles /\ CopyToldIsLast
               /\ PartsTypeOK /\ HandoffShowsSame /\ ChoiceConsumed
               /\ CardFollowsPointer /\ SheetUnderFinger

(* Public links, stars and overlays: a conversation has one live link and a *)
(* revoked one is dead, stars tell the truth to who clicks alone, a toast   *)
(* has its whole time (create_share, revoke_share, FavoritesDialog, Toast). *)
LibrarySound == /\ ShareTypeOK /\ OneActiveLink /\ RevokedIsDead
                /\ FavoritesTypeOK /\ StarsTrueAlone /\ OverlayTypeOK /\ ToastWhole

(* Steps of the thread, the links and the sheets: only the reader moves the *)
(* reader, a visitor only ever gets a live link, and the focus stays in the *)
(* sheet (useStickToBottom, SharePage, BottomSheet).                        *)
ScreenSteps == ReaderStays /\ OnlyReaderLeaves /\ VisitsActive /\ SheetKeepsFocus

=============================================================================
