----------------------------- MODULE ReplyQuotes -----------------------------
(***************************************************************************)
(* Quoting part of an answer (frontend/src/messages/                       *)
(* useReplyQuoteSelection.ts, replyQuoteSourceNavigation.ts,               *)
(* conversations/replyQuoteDraftStore.ts and the effects of AppShell.tsx): *)
(* a selection becomes a candidate, the candidate the composer's quote,    *)
(* kept in local storage per conversation, and a quote leads back to the   *)
(* paragraph it was taken from, which is lit for a while.  A conversation  *)
(* has one answer, which may be regenerated; its paragraphs are numbered.  *)
(***************************************************************************)
EXTENDS Integers, FiniteSets

CONSTANTS Rooms,        \* conversations of the user
          ParaText,     \* the text of each paragraph
          MaxQuoteActs  \* bound on what the reader does
ASSUME QuoteAssumption == MaxQuoteActs \in Nat /\ DOMAIN ParaText \subseteq Nat \ {0} /\ "no room" \notin Rooms

VARIABLE rq

Paras == DOMAIN ParaText
NoRoom == "no room"
NoPara == 0
BadPara == -1
NoQuote == [room |-> NoRoom, gen |-> 0, anchor |-> NoPara, text |-> "none"]
(* A stored value that is no quote at all.                                  *)
Garbage == [NoQuote EXCEPT !.text = "garbage"]
NoSelection == [p |-> NoPara, kind |-> "none"]
NoCandidate == [room |-> NoRoom, gen |-> 0, p |-> NoPara, kind |-> "none"]
NoHandle == [phase |-> "off", p |-> NoPara, gen |-> 0, bg |-> "plain", tr |-> "plain"]
QuoteOf(c, g, p) == [room |-> c, gen |-> g, anchor |-> p, text |-> ParaText[p]]
(* What an earlier version may have left in storage.                        *)
Stored(c) == {NoQuote, Garbage}
             \cup {[QuoteOf(c, 0, p) EXCEPT !.anchor = IF p = 1 THEN BadPara ELSE NoPara] : p \in Paras \cap 1..2}

(* ready: the open conversation is loaded; sent: a message on its way, with *)
(* its quote and conversation; timer: the selection is about to be looked   *)
(* at; ptr: a pointer is selecting; cut: a look at it was called off.       *)
(* carried: a quote was sent to another conversation than its own.          *)
QuotesStart(on, calm, store) ==
  [on |-> on, calm |-> calm, rooms |-> Rooms, chat |-> NoRoom, ready |-> FALSE, gen |-> [c \in Rooms |-> 0],
   comp |-> NoQuote, store |-> store, sent |-> NoQuote, from |-> NoRoom, sending |-> FALSE, carried |-> FALSE,
   sel |-> NoSelection, cand |-> NoCandidate, timer |-> FALSE, press |-> "none", ptr |-> FALSE, cut |-> FALSE,
   h |-> NoHandle, bg |-> [p \in Paras |-> "plain"], tr |-> [p \in Paras |-> "plain"], acts |-> 0]

-----------------------------------------------------------------------------
(* Drafts                                                                   *)

ValidAnchor(q) == q.anchor # BadPara
Valid(q) == q # Garbage /\ ValidAnchor(q)
(* readableQuote: a bad anchor is dropped, the quote kept.                  *)
ReadableQuote(q) == CASE q = Garbage -> NoQuote
                      [] q # Garbage /\ ~ValidAnchor(q) -> [q EXCEPT !.anchor = NoPara]
                      [] OTHER -> q
(* read: what cannot be read is removed, what was repaired written back.    *)
ReadDraft(s, c) == IF c = NoRoom THEN [s EXCEPT !.comp = NoQuote]
                   ELSE LET q == ReadableQuote(s.store[c]) IN [s EXCEPT !.comp = q, !.store[c] = q]
WriteDraft(s, c, q) == IF c = NoRoom THEN s ELSE [s EXCEPT !.store[c] = IF Valid(q) THEN q ELSE NoQuote]
ClearDraft(s, c) == IF c = NoRoom THEN s ELSE [s EXCEPT !.store[c] = NoQuote]

(* The answer that is quoted is shown.                                      *)
SourceVisible(s, q) == s.ready /\ q.room = s.chat /\ q.gen = s.gen[s.chat]

(* Mutant: the quote is taken for good once its conversation is open.       *)
ValidatedRoom(s) == IF s.chat = NoRoom \/ s.comp = NoQuote \/ ~s.ready \/ s.comp.room = s.chat THEN s
                    ELSE ClearDraft([s EXCEPT !.comp = NoQuote], s.chat)

(* The effect that drops a quote whose answer is gone.                      *)
Validated(s) == IF s.chat = NoRoom \/ s.comp = NoQuote \/ ~s.ready \/ SourceVisible(s, s.comp) THEN s
                ELSE ClearDraft([s EXCEPT !.comp = NoQuote], s.chat)

-----------------------------------------------------------------------------
(* The paragraph a quote leads to                                           *)

ExactTarget(q) == IF q.anchor \in Paras THEN q.anchor ELSE NoPara
(* Where the text occurs among what can be selected.                        *)
Occurrences(text) == {p \in Paras : ParaText[p] = text}
LegacyTarget(q) == LET ps == Occurrences(q.text) IN
                   IF Cardinality(ps) = 1 THEN CHOOSE p \in ps : TRUE ELSE NoPara
Target(q) == IF q.anchor # NoPara THEN ExactTarget(q) ELSE LegacyTarget(q)

(* Styles are set on the paragraphs the handle found, shown or not.         *)
Painted(s, b, t) == IF s.chat # NoRoom /\ s.h.p # NoPara /\ s.h.gen = s.gen[s.chat]
                    THEN [s EXCEPT !.bg[s.h.p] = b, !.tr[s.h.p] = t] ELSE s
Restored(s) == Painted(s, s.h.bg, s.h.tr)

(* cancel: no timer of the handle is left, and its style is put back.       *)
CancelHandle(s) == [(IF s.h.phase \in {"hold", "fade"} THEN Restored(s) ELSE s) EXCEPT !.h = NoHandle]

(* reveal, once the scroll has ended.                                       *)
Revealed(s) == IF s.h.p = NoPara THEN [s EXCEPT !.h.phase = "done"]
               ELSE Painted([s EXCEPT !.h.phase = "hold"], "lit", "off")

(* A quote in the composer, or in a message of the conversation, leads to   *)
(* its source; there is a toast when it is gone.  Where the scroll need not *)
(* move, or moves at once, it has ended.                                    *)
RevealQuote(q, there) ==
  /\ rq.on /\ rq.chat # NoRoom /\ rq.acts < MaxQuoteActs
  /\ q = rq.comp \/ (q.room = rq.chat /\ q.gen <= rq.gen[rq.chat])
  /\ q # NoQuote
  /\ LET s == CancelHandle([rq EXCEPT !.acts = @ + 1])
         p == Target(q)
         f == [s EXCEPT !.h = [phase |-> "wait", p |-> p, gen |-> q.gen,
                               bg |-> IF p = NoPara THEN "plain" ELSE s.bg[p],
                               tr |-> IF p = NoPara THEN "plain" ELSE s.tr[p]]] IN
     rq' = IF ~SourceVisible(rq, q) THEN s ELSE IF rq.calm \/ there THEN Revealed(f) ELSE f

(* scrollend, three still frames or the time limit, whichever comes first.  *)
FinishScroll == /\ rq.on /\ rq.h.phase = "wait" /\ rq' = Revealed(rq)
HoldEnds == /\ rq.on /\ rq.h.phase = "hold"
            /\ rq' = IF rq.calm THEN [Restored(rq) EXCEPT !.h.phase = "done"]
                     ELSE [Painted(rq, rq.h.bg, "slow") EXCEPT !.h.phase = "fade"]
FadeEnds == /\ rq.on /\ rq.h.phase = "fade"
            /\ rq' = [Restored(rq) EXCEPT !.h.phase = "done"]

-----------------------------------------------------------------------------
(* Selection                                                                *)

(* evaluate: a selection within one answer, of what may be quoted.          *)
Candidate(s) == IF s.sel.kind \in {"one", "long"}
                THEN [room |-> s.chat, gen |-> s.gen[s.chat], p |-> s.sel.p, kind |-> s.sel.kind]
                ELSE NoCandidate
Dismissed(s) == [s EXCEPT !.timer = FALSE, !.cand = NoCandidate, !.cut = FALSE]
(* scheduleEvaluate: not while the pointer is down.                         *)
Scheduled(s) == [s EXCEPT !.timer = ~s.ptr, !.cut = FALSE]

SelectionChanges(x) == /\ rq.on /\ rq.ready /\ rq.acts < MaxQuoteActs /\ x # rq.sel
                       /\ rq' = Scheduled([rq EXCEPT !.sel = x, !.acts = @ + 1])

SettleTimer == /\ rq.on /\ rq.timer
               /\ rq' = [rq EXCEPT !.timer = FALSE, !.cand = Candidate(rq)]

PointerDown(where) ==
  /\ rq.on /\ rq.chat # NoRoom /\ rq.press = "none" /\ (where = "button" => rq.cand # NoCandidate)
  /\ rq' = IF where = "button" THEN [rq EXCEPT !.press = where]
           ELSE Dismissed([rq EXCEPT !.press = where, !.ptr = where = "answer"])
PointerUp == /\ rq.on /\ rq.press # "none"
             /\ LET s == [rq EXCEPT !.press = "none", !.ptr = FALSE] IN
                rq' = IF rq.ptr THEN Scheduled(s) ELSE s
PointerCancel == /\ rq.on /\ rq.press # "none"
                 /\ rq' = [rq EXCEPT !.press = "none", !.ptr = FALSE, !.timer = FALSE, !.cut = @ \/ rq.timer]
(* A scroll, a resize or Escape.                                            *)
DismissPending == /\ rq.on /\ rq.cand # NoCandidate /\ rq' = Dismissed(rq)

(* The button over the selection, and what it does.                         *)
SelectionAction == rq.cand # NoCandidate /\ rq.press \in {"none", "button"}
QuoteSelected ==
  /\ rq.on /\ SelectionAction
  /\ LET q == QuoteOf(rq.cand.room, rq.cand.gen, rq.cand.p)
         s == [rq EXCEPT !.press = "none", !.cand = NoCandidate]
         set == Scheduled([s EXCEPT !.comp = q, !.sel = NoSelection]) IN
     rq' = IF rq.cand.kind = "long" THEN s ELSE Validated(WriteDraft(set, rq.chat, q))

-----------------------------------------------------------------------------
(* Conversations                                                            *)

Opened(s, c) ==
  CancelHandle(ReadDraft([s EXCEPT !.chat = c, !.ready = FALSE, !.sel = NoSelection, !.cand = NoCandidate,
                                   !.timer = FALSE, !.press = "none", !.ptr = FALSE, !.cut = FALSE,
                                   !.bg = [p \in Paras |-> "plain"], !.tr = [p \in Paras |-> "plain"]], c))
OpenRoom(c) == /\ rq.on /\ c \in rq.rooms \cup {NoRoom} /\ c # rq.chat /\ rq.acts < MaxQuoteActs
               /\ rq' = Opened([rq EXCEPT !.acts = @ + 1], c)
DetailReady == /\ rq.on /\ rq.chat # NoRoom /\ ~rq.ready
               /\ rq' = Validated([rq EXCEPT !.ready = TRUE])
(* The answer is replaced: what was selected or lit in it goes with it.     *)
AnswerReplaced(c) ==
  /\ rq.on /\ c \in rq.rooms /\ rq.gen[c] = 0 /\ (c = rq.chat => rq.ready)
  /\ LET s == [rq EXCEPT !.gen[c] = 1] IN
     rq' = IF c # rq.chat THEN s
           ELSE Validated([(IF rq.sel = NoSelection THEN s ELSE Scheduled([s EXCEPT !.sel = NoSelection]))
                             EXCEPT !.bg = [p \in Paras |-> "plain"], !.tr = [p \in Paras |-> "plain"]])
RoomDeleted(c, next) ==
  /\ rq.on /\ c \in rq.rooms /\ rq.acts < MaxQuoteActs
  /\ next \in IF c = rq.chat THEN (rq.rooms \ {c}) \cup {NoRoom} ELSE {rq.chat}
  /\ LET s == [rq EXCEPT !.rooms = @ \ {c}, !.acts = @ + 1] IN
     rq' = ClearDraft(IF c = rq.chat THEN Opened(s, next) ELSE s, c)

-----------------------------------------------------------------------------
(* The composer                                                             *)

QuoteRegion == rq.comp # NoQuote
RemoveQuote == /\ rq.on /\ QuoteRegion
               /\ rq' = ClearDraft([rq EXCEPT !.comp = NoQuote], rq.chat)
SendQuote == /\ rq.on /\ QuoteRegion /\ ~rq.sending
             /\ rq' = ClearDraft([rq EXCEPT !.sending = TRUE, !.sent = rq.comp, !.from = rq.chat, !.comp = NoQuote,
                                            !.carried = @ \/ rq.comp.room # rq.chat], rq.chat)
(* The server takes a quote of an answer of the conversation.               *)
SendAccepted == /\ rq.on /\ rq.sending /\ rq.from # NoRoom
                /\ rq.sent.room = rq.from /\ rq.sent.gen = rq.gen[rq.from]
                /\ rq' = [rq EXCEPT !.sending = FALSE, !.sent = NoQuote, !.from = NoRoom]

(* A failed message gives its quote back, to the composer as it is now and  *)
(* to the draft of its own conversation, unless another quote is there.     *)
SendFailed ==
  /\ rq.on /\ rq.sending
  /\ LET s == [rq EXCEPT !.sending = FALSE, !.sent = NoQuote, !.from = NoRoom] IN
     rq' = IF rq.comp = NoQuote /\ rq.from # NoRoom
           THEN Validated(WriteDraft([s EXCEPT !.comp = rq.sent], rq.from, rq.sent)) ELSE s

QuotesNext ==
  \/ \E c \in Rooms, g \in 0..1, p \in Paras, there \in BOOLEAN : RevealQuote(QuoteOf(c, g, p), there)
  \/ \E there \in BOOLEAN : RevealQuote(rq.comp, there)
  \/ FinishScroll \/ HoldEnds \/ FadeEnds
  \/ SelectionChanges(NoSelection)
  \/ \E p \in Paras, k \in {"one", "long", "cross"} : SelectionChanges([p |-> p, kind |-> k])
  \/ SettleTimer \/ (\E w \in {"answer", "button", "else"} : PointerDown(w)) \/ PointerUp \/ PointerCancel
  \/ DismissPending \/ QuoteSelected
  \/ \E c \in Rooms \cup {NoRoom} : OpenRoom(c)
  \/ DetailReady \/ (\E c \in Rooms : AnswerReplaced(c))
  \/ \E c \in Rooms, n \in Rooms \cup {NoRoom} : RoomDeleted(c, n)
  \/ RemoveQuote \/ SendQuote \/ SendAccepted \/ SendFailed

-----------------------------------------------------------------------------
QuotesTypeOK ==
  /\ rq.chat \in Rooms \cup {NoRoom} /\ rq.press \in {"none", "answer", "button", "else"}
  /\ rq.h.phase \in {"off", "wait", "hold", "fade", "done"}

(* What the composer quotes is an answer the reader can see, once the       *)
(* conversation is loaded, whatever was regenerated or sent meanwhile.      *)
QuotesWhatIsShown == rq.chat # NoRoom /\ rq.ready /\ rq.comp # NoQuote => SourceVisible(rq, rq.comp)

(* A reload shows the composer's quote again: the draft of the open         *)
(* conversation is what its composer holds, failed sends included, unless   *)
(* a quote that came back elsewhere was sent from there.                    *)
DraftIsShown ==
  ~rq.carried /\ rq.chat # NoRoom /\ (rq.comp = NoQuote \/ rq.comp.room = rq.chat) => rq.store[rq.chat] = rq.comp

(* The button over a selection quotes what is selected: the paragraph in    *)
(* the answer as it stands, unless a look at the selection is to come.      *)
ButtonQuotesSelection ==
  rq.cand # NoCandidate /\ ~rq.timer /\ ~rq.cut =>
    rq.cand = Candidate(rq)

(* A paragraph is lit, or keeps a changed style, only while a handle is     *)
(* about to put it back.                                                    *)
StylePutBack ==
  \A p \in Paras : /\ rq.bg[p] # "plain" => rq.h.phase = "hold" /\ rq.h.p = p
                   /\ rq.tr[p] # "plain" => rq.h.phase \in {"hold", "fade"} /\ rq.h.p = p
=============================================================================
