----------------------------- MODULE DesignChat -----------------------------
(***************************************************************************)
(* The chat page of the design workbench (design/src/canvas/ChatPage.tsx   *)
(* with runtime/outcomes.ts): the product's page over conversations held   *)
(* in memory, requests answered by timers and runs played by intervals.    *)
(*                                                                         *)
(* A conversation is a number: those of the scenes are negative, a new     *)
(* one is named after the ticket of its message, 0 is the page without a   *)
(* conversation.  Every handler is a function of the page as it was        *)
(* rendered; one that waits keeps what it read of that page in its call.   *)
(* A step is a handler or timers, the render and its effects.  Left out:   *)
(* quotes (they follow the text), pictures and models, favorites (a pin    *)
(* without a limit), the layout and leaving the page.                      *)
(***************************************************************************)
EXTENDS Integers, FiniteSets, SequencesExt

CONSTANTS Lengths,       \* lengths of the reasoning, and of its segments between searches
          Chunk,         \* characters of reasoning a step shows
          ToolRuns,      \* steps a search stays running
          ToolShows,     \* steps it then shows its result
          PlainSteps,    \* steps of the reasoning of a scene without a script
          AnswerSteps,   \* steps of the answer's text
          MaxCards,      \* files one message may carry
          MaxPinned,     \* conversations that may be pinned
          MaxMoves       \* bound on what the reviewer does
ASSUME DesignAssumption == /\ Lengths \subseteq Nat \ {0}
                           /\ {Chunk, ToolShows, PlainSteps} \subseteq Nat \ {0}
                           /\ {AnswerSteps, MaxCards} \subseteq Nat \ {0}
                           /\ ToolRuns \in Nat /\ ToolRuns >= 4
                           /\ {MaxPinned, MaxMoves} \subseteq Nat

VARIABLE dc

NoRoom == 0
Chat == -1
Other == -2
Ended == -3   \* the row that is marked as unread when its scene opens

-----------------------------------------------------------------------------
(* What a scene plays: frames of reasoning, each with how much of the text  *)
(* shows and what a search shows.                                           *)
ReasoningFrames(from, to) ==
  [k \in 1..((to - from + Chunk - 1) \div Chunk) |->
     [length |-> IF from + k * Chunk < to THEN from + k * Chunk ELSE to, tool |-> "none"]]

(* chunkedScript: the scene opens in the middle.                            *)
ChunkedScript(text) ==
  LET frames == ReasoningFrames(0, text) IN
  [whole |-> text, frames |-> frames, start |-> (Len(frames) * 45) \div 100]

(* toolScript: every segment but the last is followed by a search that runs *)
(* and then shows what it found; two characters part the segments.  The     *)
(* scene opens on the first search.                                         *)
ToolScript(segments) ==
  LET at(i) == SumFunctionOnSet(segments, 1..i) + IF i = 0 THEN 0 ELSE 2 * (i - 1)
      shows(i, what, n) == [k \in 1..n |-> [length |-> at(i), tool |-> what]]
      reasons(i) == ReasoningFrames(at(i - 1), at(i))
      part(i) == reasons(i) \o IF i = Len(segments) THEN <<>>
                               ELSE shows(i, "running", ToolRuns)
                                    \o shows(i, "succeeded", ToolShows)
  IN [whole |-> at(Len(segments)), start |-> Len(reasons(1)) + 4,
      frames |-> FlattenSeq([i \in DOMAIN segments |-> part(i)])]

(* Without a script a few steps show a short sentence, piece by piece.      *)
PlainScript ==
  [whole |-> PlainSteps, start |-> 0,
   frames |-> [k \in 1..PlainSteps |-> [length |-> k, tool |-> "none"]]]

(* What the foreground run shows: its status, its phase and how much of the *)
(* reasoning; Opening is the sentence a run begins with.                    *)
Opening == -1
NoRun == [status |-> "none", phase |-> "none", reason |-> 0]
StartRun(script) ==
  [status |-> "streaming", phase |-> "reasoning",
   reason |-> IF script = PlainScript THEN Opening ELSE 0]

(* The step's reasoning, with a search while the frame has one, then text.  *)
Draft(script, run, step) ==
  IF step > Len(script.frames) THEN [run EXCEPT !.phase = "text"]
  ELSE [run EXCEPT !.reason = script.frames[step].length,
                   !.phase = IF script.frames[step].tool = "none" THEN "reasoning" ELSE "tool"]

(* initialRun: what the scene opens with.                                   *)
InitialRun(initial, script) ==
  IF script # PlainScript THEN Draft(script, StartRun(script), script.start)
  ELSE IF initial \in {"streaming", "failed", "cancelled"}
  THEN [status |-> initial, phase |-> "text", reason |-> Opening]
  ELSE IF initial = "tool" THEN [StartRun(script) EXCEPT !.phase = "tool"]
  ELSE IF initial = "thinking" THEN StartRun(script) ELSE NoRun

Scripts(initial) ==
  CASE initial = "long" -> {s \in {ChunkedScript(n) : n \in Lengths} : s.start > 0}
    [] initial = "searches" -> {ToolScript(t) : t \in [1..2 -> Lengths]}
    [] OTHER -> {PlainScript}

(* sel: the conversation of the address.  convs: the conversations.  text:  *)
(* where the prompt's text was typed; cards: its files.  drafts: what was   *)
(* left in the others.  bg: how far the runs off the screen are.  untitled: *)
(* titles on their way.  deleting: the dialog.  calls: requests under way.  *)
(* begun, answers: runs begun and ended.  gone: what was deleted.  jumped:  *)
(* a control took the ticket of a message under way.  stale: a list older   *)
(* than the present one was put in its place.  strayed: a file was added    *)
(* elsewhere than it was chosen.                                            *)
DesignStart(on, initial, mode, script) ==
  LET room == [msgs |-> <<"user", "assistant">>, titled |-> TRUE, pinned |-> FALSE]
      sel == IF initial \in {"welcome", "sidebar-loading"} THEN NoRoom ELSE Chat
      status == initial = "run-status"
      run == InitialRun(initial, script)
  IN [on |-> on, mode |-> mode, released |-> FALSE, failed |-> {}, script |-> script,
      sel |-> sel, text |-> IF initial = "over-limit" THEN {sel} ELSE {}, cards |-> {},
      drafts |-> <<>>, made |-> 0,
      convs |-> [r \in {Chat, Other} \cup (IF status THEN {Ended} ELSE {}) |->
                   IF r # Other THEN room
                   ELSE IF status THEN [room EXCEPT !.msgs = <<"user">>]
                   ELSE [room EXCEPT !.pinned = initial = "pin-favorite"]],
      seq |-> 0, submitting |-> FALSE, run |-> run, step |-> script.start, playing |-> FALSE,
      bg |-> IF status THEN Other :> 1 ELSE <<>>, unread |-> IF status THEN {Ended} ELSE {},
      untitled |-> {}, deleting |-> NoRoom, listing |-> initial = "sidebar-loading",
      calls |-> <<>>, moves |-> 0, answers |-> EmptyBag,
      begun |-> SetToBag(IF status THEN {Other} ELSE IF run # NoRun THEN {sel} ELSE {}),
      gone |-> {}, jumped |-> FALSE, stale |-> FALSE, strayed |-> FALSE]

-----------------------------------------------------------------------------
Generating(run) == run.status \in {"streaming", "cancelling"}
Busy(s) == s.submitting \/ Generating(s.run)
RunSteps(s) == Len(s.script.frames) + AnswerSteps + 1

Without(f, keys) == [k \in DOMAIN f \ keys |-> f[k]]
Say(conv, role) == [conv EXCEPT !.msgs = Append(@, role)]

(* services.outcomes.run: the request waits behind those under way.         *)
Ask(s, call) == [s EXCEPT !.calls = Append(@, call)]

(* onConversations with a list that was read earlier.                       *)
PutBack(s, read, list) == [s EXCEPT !.convs = list, !.stale = @ \/ read # s.convs]

(* The effect on background: runs off the screen that are at their end      *)
(* answer in the list of this render and leave a mark.                      *)
BackgroundEffect(p, s) ==
  LET done == {r \in DOMAIN s.bg : s.bg[r] >= RunSteps(s)} IN
  IF s.bg = p.bg \/ done = {} THEN s
  ELSE [s EXCEPT !.bg = Without(@, done), !.unread = @ \cup (done \ {s.sel}),
                 !.answers = @ (+) SetToBag(done \cap DOMAIN s.convs),
                 !.convs = [r \in DOMAIN @ |-> IF r \in done THEN Say(@[r], "assistant") ELSE @[r]]]

(* The effect on step: the run shows the step, or answers at its end.  list *)
(* is the one of the render: what another effect put there is overwritten.  *)
StepEffect(p, s, list) ==
  IF s.step = p.step \/ s.step = 0 \/ s.run = NoRun THEN s
  ELSE IF s.step < RunSteps(s) THEN [s EXCEPT !.run = Draft(s.script, @, s.step)]
  ELSE [PutBack(s, list, [r \in DOMAIN list |->
                            IF r = s.sel THEN Say(list[r], "assistant") ELSE list[r]])
        EXCEPT !.answers = @ (+) SetToBag({s.sel} \cap DOMAIN list),
               !.run = NoRun, !.step = 0, !.playing = FALSE]

DesignCommit(p, s) == StepEffect(p, BackgroundEffect(p, s), s.convs)

(* What select reads of the page it was rendered with.                      *)
PageOf(s) == [sel |-> s.sel, text |-> s.text, cards |-> s.cards, convs |-> s.convs, bg |-> s.bg,
              live |-> Busy(s) /\ s.run # NoRun, step |-> s.step]

(* Mutant: the run that returns also stays off the screen.                  *)
OpenRoomTwice(s, page, id) ==
  LET o == [s EXCEPT !.seq = @ + 1, !.submitting = FALSE, !.text = {}, !.cards = {}, !.sel = id,
                     !.unread = @ \ {id}, !.run = NoRun, !.step = 0, !.playing = FALSE]
  IN IF id \in DOMAIN page.bg THEN [o EXCEPT !.run = StartRun(s.script), !.step = page.bg[id],
                                             !.playing = TRUE] ELSE o

(* select: the draft is put away and the other fetched; a run that was      *)
(* under way goes on off the screen and one that did so before returns.     *)
OpenRoom(s, page, id) ==
  LET drafts == page.sel :> [text |-> page.text, cards |-> page.cards] @@ s.drafts
      draft == IF id \in DOMAIN drafts THEN drafts[id] ELSE [text |-> {}, cards |-> {}]
      left == IF page.live /\ page.sel # NoRoom THEN page.sel :> page.step @@ s.bg ELSE s.bg
      o == [s EXCEPT !.seq = @ + 1, !.submitting = FALSE, !.step = 0, !.drafts = drafts,
                     !.text = draft.text, !.cards = draft.cards, !.run = NoRun,
                     !.playing = FALSE, !.sel = id]
  IN IF id = page.sel THEN o
     ELSE LET b == [o EXCEPT !.unread = @ \ {id}, !.bg = Without(left, {id} \ {NoRoom})] IN
          IF id \in DOMAIN page.bg \ {NoRoom}
          THEN [b EXCEPT !.run = StartRun(s.script), !.step = page.bg[id], !.playing = TRUE] ELSE b

(* addFiles, a file at a time: count is the one of the page it was called   *)
(* on, the file goes to the prompt that is shown now.                       *)
AddFile(s, more, count, home) ==
  IF more = 0 \/ count >= MaxCards THEN s
  ELSE LET id == s.made + 1 IN
       Ask([s EXCEPT !.made = id, !.cards = @ \cup {[id |-> id, home |-> home, at |-> "uploading"]},
                     !.strayed = @ \/ home # s.sel],
           [op |-> "upload", id |-> id, more |-> more - 1, count |-> count + 1, home |-> home])

Marked(cards, id, at) ==
  {IF c.id = id THEN [c EXCEPT !.at = at] ELSE c : c \in cards}

-----------------------------------------------------------------------------
(* What an answer does.                                                     *)

(* send: the message follows the ones it was sent after; a new conversation *)
(* heads the list and its title comes later.                                *)
SendLands(s, c) ==
  LET id == IF c.page.sel = NoRoom THEN c.ticket ELSE c.page.sel
      known == c.page.sel \in DOMAIN c.page.convs
      before == IF known THEN c.page.convs[id].msgs ELSE <<>>
      kept == IF c.edit = 0 THEN before ELSE SubSeq(before, 1, c.edit - 1)
      list == IF known THEN [c.page.convs EXCEPT ![id].msgs = Append(kept, "user")]
              ELSE id :> [msgs |-> <<"user">>, titled |-> FALSE, pinned |-> FALSE] @@ c.page.convs
      put == PutBack(s, c.page.convs, list)
  IN [put EXCEPT !.sel = id, !.untitled = IF known THEN @ ELSE @ \cup {id},
                 !.text = {}, !.cards = {}, !.step = 0, !.run = StartRun(s.script),
                 !.playing = TRUE, !.submitting = FALSE, !.begun = @ (+) SetToBag({id})]

DeleteLands(s, c) ==
  LET gone == [PutBack(s, c.page.convs, Without(c.page.convs, {c.id})) EXCEPT !.deleting = NoRoom,
                                                                          !.gone = @ \cup {c.id}]
  IN IF c.page.sel = c.id THEN OpenRoom(gone, c.page, NoRoom) ELSE gone

Lands(s, c) ==
  CASE c.op = "send" -> IF c.ticket = s.seq THEN SendLands(s, c) ELSE s
    [] c.op = "rename" -> PutBack(s, c.page.convs,
                                  [r \in DOMAIN c.page.convs |->
                                     [c.page.convs[r] EXCEPT !.titled = @ \/ r = c.id]])
    [] c.op = "delete" -> DeleteLands(s, c)
    [] c.op = "stop" -> IF s.run = NoRun THEN s ELSE [s EXCEPT !.run.status = "cancelled"]
    [] c.op = "upload" -> AddFile([s EXCEPT !.cards = Marked(@, c.id, "succeeded")],
                                  c.more, c.count, c.home)
    [] c.op = "list" -> [s EXCEPT !.listing = FALSE]

Fails(s, c) ==
  CASE c.op = "send" -> IF c.ticket # s.seq THEN s
                        ELSE [s EXCEPT !.submitting = FALSE,
                                       !.text = IF c.edit = 0 THEN c.page.text ELSE @]
    [] c.op = "stop" -> IF s.run = NoRun THEN [s EXCEPT !.playing = TRUE]
                        ELSE [s EXCEPT !.run.status = "streaming", !.playing = TRUE]
    [] c.op = "upload" -> AddFile([s EXCEPT !.cards = Marked(@, c.id, "failed")],
                                  c.more, c.count, c.home)
    [] OTHER -> s

(* outcomes.run: held while the scene loads; then answers come in order     *)
(* (in any order once the scene is released); the first request of a kind   *)
(* fails in a scene of errors, the list excepted.                           *)
DesignSettle ==
  \E i \in DOMAIN dc.calls :
    LET c == dc.calls[i]
        s == [dc EXCEPT !.calls = RemoveAt(@, i)]
        fails == dc.mode = "error" /\ c.op \notin dc.failed \cup {"list"}
    IN /\ dc.on
       /\ dc.mode = "loading" => dc.released
       /\ i = 1 \/ dc.mode = "loading"
       /\ dc' = DesignCommit(dc, IF fails THEN Fails([s EXCEPT !.failed = @ \cup {c.op}], c)
                                 ELSE Lands(s, c))

-----------------------------------------------------------------------------
(* Intervals; two of them may fire before one render.  Steps without a run  *)
(* show nothing and are not counted on.                                     *)
DesignTick(timers) ==
  /\ dc.on
  /\ "step" \in timers => dc.playing /\ (dc.run = NoRun => dc.step < RunSteps(dc))
  /\ "background" \in timers => dc.bg # <<>>
  /\ dc' = DesignCommit(dc, [dc EXCEPT !.step = IF "step" \in timers THEN @ + 1 ELSE @,
                                       !.bg = IF "background" \in timers
                                              THEN [r \in DOMAIN @ |-> @[r] + 1] ELSE @])

(* The title of a new conversation comes.                                   *)
TitleComes(r) ==
  /\ dc.on /\ r \in dc.untitled
  /\ dc' = DesignCommit(dc, [dc EXCEPT !.untitled = @ \ {r},
                                       !.convs = IF r \notin DOMAIN @ THEN @
                                                 ELSE [@ EXCEPT ![r].titled = TRUE]])

-----------------------------------------------------------------------------
(* What the reviewer does; the dialog stands before the page.               *)
Free(s) == dc.on /\ dc' = DesignCommit(dc, s)
Move(s) == dc.moves < MaxMoves /\ Free([s EXCEPT !.moves = dc.moves + 1])
OnPage == dc.deleting = NoRoom
Listed == IF dc.listing THEN {} ELSE DOMAIN dc.convs

TypeText == OnPage /\ Move([dc EXCEPT !.text = @ \cup {dc.sel}])

SelectRoom(id) == OnPage /\ id \in Listed \cup {NoRoom} /\ Move(OpenRoom(dc, PageOf(dc), id))

(* The prompt may be sent when it says something and its files are ready; a *)
(* question of the thread may be replaced.                                  *)
CanSend == (dc.text # {} \/ dc.cards # {}) /\ \A c \in dc.cards : c.at = "succeeded"
MayReplace(i) == /\ dc.sel \in DOMAIN dc.convs
                 /\ i \in DOMAIN dc.convs[dc.sel].msgs /\ dc.convs[dc.sel].msgs[i] = "user"

(* send, for the prompt (edit = 0) or in place of a message and all after   *)
(* it (onEditAndRegenerate, onRegenerate).                                  *)
SendMessage(edit) ==
  /\ OnPage /\ ~Busy(dc)
  /\ IF edit = 0 THEN CanSend ELSE MayReplace(edit)
  /\ Move(Ask([dc EXCEPT !.submitting = TRUE, !.seq = @ + 1, !.text = IF edit = 0 THEN {} ELSE @],
              [op |-> "send", ticket |-> dc.seq + 1, edit |-> edit,
               page |-> [sel |-> dc.sel, convs |-> dc.convs, text |-> dc.text]]))

StopRun ==
  /\ OnPage /\ ~dc.submitting /\ dc.run.status = "streaming"
  /\ Move(Ask([dc EXCEPT !.playing = FALSE, !.run.status = "cancelling"], [op |-> "stop"]))

RenameRoom(id) ==
  /\ OnPage /\ id \in Listed
  /\ Move(Ask(dc, [op |-> "rename", id |-> id, page |-> [convs |-> dc.convs]]))

TogglePin(id) ==
  /\ OnPage /\ id \in Listed \cup ({dc.sel} \cap DOMAIN dc.convs)
  /\ dc.convs[id].pinned \/ Cardinality({r \in DOMAIN dc.convs : dc.convs[r].pinned}) < MaxPinned
  /\ Move([dc EXCEPT !.convs[id].pinned = ~@])

(* The dialog of a deletion: it may be closed, and confirmed again, while   *)
(* the answer is awaited.                                                   *)
AskDelete(id) == /\ OnPage /\ id \in Listed \cup ({dc.sel} \ {NoRoom})
                 /\ Move([dc EXCEPT !.deleting = id])
ConfirmDelete == /\ ~OnPage
                 /\ Move(Ask(dc, [op |-> "delete", id |-> dc.deleting, page |-> PageOf(dc)]))
CancelDelete == ~OnPage /\ Free([dc EXCEPT !.deleting = NoRoom])

ChooseFiles(n) == OnPage /\ Move(AddFile(dc, n, Cardinality(dc.cards), dc.sel))

(* attachmentBlocker, handlePasteText: a large paste becomes a file while   *)
(* one may be added, else it goes into the prompt if it fits there.         *)
CanAttach == Cardinality(dc.cards) < MaxCards
PasteText == /\ OnPage
             /\ IF CanAttach THEN Move(AddFile(dc, 1, Cardinality(dc.cards), dc.sel))
                ELSE \E fits \in BOOLEAN :
                       Move([dc EXCEPT !.text = IF fits THEN @ \cup {dc.sel} ELSE @])

(* convertPromptToAttachment: the prompt becomes a file unless it is too    *)
(* large (n = 0), and is emptied in either case.                            *)
ConvertPrompt(n) ==
  /\ OnPage /\ dc.text # {} /\ CanAttach
  /\ Move([AddFile(dc, n, Cardinality(dc.cards), dc.sel) EXCEPT !.text = {}])

(* The files of the prompt are hidden while a message is sent.              *)
ShownCards == IF OnPage /\ ~dc.submitting THEN dc.cards ELSE {}
ExpandCard(c) == /\ c \in ShownCards
                 /\ Move([dc EXCEPT !.cards = @ \ {c}, !.text = @ \cup {dc.sel}])
CancelCard(c) == c \in ShownCards /\ Move([dc EXCEPT !.cards = @ \ {c}])
RetryCard(c) == /\ c \in ShownCards /\ c.at = "failed"
                /\ Move([dc EXCEPT !.cards = Marked(@, c.id, "succeeded")])

(* The controls of the workbench: messages of the frame around the page,    *)
(* which ask for nothing the page shows.                                    *)
Replay == [dc EXCEPT !.seq = @ + 1, !.step = 0, !.run = StartRun(dc.script),
                     !.begun = @ (+) SetToBag({dc.sel}), !.jumped = @ \/ dc.submitting]
ControlPlay ==
  Move([(IF dc.run.status \in {"none", "failed", "cancelled"} THEN Replay ELSE dc)
        EXCEPT !.playing = TRUE])
ControlPause == dc.playing /\ Move([dc EXCEPT !.playing = FALSE])
ControlStep == Move(IF dc.run = NoRun THEN Replay ELSE [dc EXCEPT !.step = @ + 1])
ControlRelease == /\ dc.on /\ dc.mode = "loading" /\ ~dc.released
                  /\ dc' = [dc EXCEPT !.released = TRUE]

-----------------------------------------------------------------------------
DesignInitial ==
  {"plain", "send-error", "over-limit", "welcome", "run-status", "thinking", "tool", "streaming",
   "failed", "cancelled", "pin-favorite", "sidebar-loading", "long", "searches"}

DesignInit(on) ==
  IF ~on THEN dc = DesignStart(FALSE, "plain", "ok", PlainScript)
  ELSE \E initial \in DesignInitial : \E script \in Scripts(initial) :
         \E mode \in IF initial = "sidebar-loading" THEN {"loading"}
                     ELSE {IF initial = "send-error" THEN "error" ELSE "ok"} :
           LET s == DesignStart(TRUE, initial, mode, script) IN
           dc = IF s.listing THEN Ask(s, [op |-> "list"]) ELSE s

StepTimer == DesignTick({"step"}) \/ DesignTick({"step", "background"})
BackgroundTimer == DesignTick({"background"}) \/ DesignTick({"step", "background"})
TitleTimer == \E r \in dc.untitled : TitleComes(r)

DesignNext ==
  \/ DesignSettle \/ StepTimer \/ BackgroundTimer \/ TitleTimer
  \/ TypeText \/ PasteText \/ StopRun \/ ConfirmDelete \/ CancelDelete
  \/ ControlPlay \/ ControlPause \/ ControlStep \/ ControlRelease
  \/ \E id \in DOMAIN dc.convs \cup {NoRoom} :
       SelectRoom(id) \/ RenameRoom(id) \/ TogglePin(id) \/ AskDelete(id)
  \/ \E i \in 0..3 : SendMessage(i)
  \/ \E n \in {0, 1} : ConvertPrompt(n)
  \/ \E n \in {1, 2} : ChooseFiles(n)
  \/ \E c \in dc.cards : ExpandCard(c) \/ CancelCard(c) \/ RetryCard(c)

(* Timers and intervals of the page fire as long as they are set.           *)
DesignFairness == /\ WF_dc(DesignSettle) /\ WF_dc(StepTimer)
                  /\ WF_dc(BackgroundTimer) /\ WF_dc(TitleTimer)

-----------------------------------------------------------------------------
DesignTypeOK ==
  /\ dc.sel \in Int /\ dc.seq \in Nat /\ dc.step \in Nat /\ dc.moves \in 0..MaxMoves
  /\ dc.run.status \in {"none", "streaming", "cancelling", "cancelled", "failed"}
  /\ \A r \in DOMAIN dc.convs : dc.convs[r].msgs \in Seq({"user", "assistant"})

(* The frames of a script never show less than the ones before and end with *)
(* the whole text; the scene opens on a frame, a scene with searches on one *)
(* that runs (reasoningScript).                                             *)
ScriptsWhole ==
  LET f == dc.script.frames IN
  /\ \A i \in 1..(Len(f) - 1) : f[i].length <= f[i + 1].length
  /\ f[Len(f)].length = dc.script.whole
  /\ dc.script.start \in 0..Len(f)
  /\ (\E i \in DOMAIN f : f[i].tool # "none") => f[dc.script.start].tool = "running"

(* A run is in one place, on the screen or off it, and answers once in its  *)
(* conversation (select, the effects on step and background).               *)
OneAnswerEach ==
  LET Times(r, bag) == IF r \in DOMAIN bag THEN bag[r] ELSE 0 IN
  \A r \in DOMAIN dc.convs \ dc.gone :
    Times(r, dc.answers) + (IF dc.run # NoRun /\ dc.sel = r THEN 1 ELSE 0)
      + (IF r \in DOMAIN dc.bg THEN 1 ELSE 0) <= Times(r, dc.begun)

(* The conversation on the screen has no mark and no run off the screen,    *)
(* and runs off the screen are not at their end (select, the effect on      *)
(* background).                                                             *)
OpenedIsClean ==
  /\ dc.sel \notin dc.unread /\ dc.sel \notin DOMAIN dc.bg
  /\ \A r \in DOMAIN dc.bg : dc.bg[r] < RunSteps(dc)

(* A row is not both marked as unread and running, unless an old list       *)
(* brought a deleted conversation back (rowStatus).                         *)
MarkedOrRunning == dc.unread \cap DOMAIN dc.bg \subseteq dc.gone

(* Pins stay within their limit, whatever lists are put back (togglePin).   *)
PinsWithin == Cardinality({r \in DOMAIN dc.convs : dc.convs[r].pinned}) <= MaxPinned

(* While the prompt waits its message is under way, unless a control took   *)
(* its ticket (send).                                                       *)
SubmittingIsSent ==
  dc.submitting /\ ~dc.jumped =>
    \E i \in DOMAIN dc.calls : dc.calls[i].op = "send" /\ dc.calls[i].ticket = dc.seq

(* Text and files are where they were typed and chosen, on the screen and   *)
(* in every draft, and a file is in one place, unless files chosen together *)
(* were parted (select, addFiles).                                          *)
DraftsAtHome ==
  /\ dc.text \subseteq {dc.sel}
  /\ \A r \in DOMAIN dc.drafts : dc.drafts[r].text \subseteq {r}
  /\ ~dc.strayed => /\ \A c \in dc.cards : c.home = dc.sel
                    /\ \A r \in DOMAIN dc.drafts : \A c \in dc.drafts[r].cards : c.home = r

(* A conversation without a title waits for it, unless an old list took it  *)
(* (the timer of send reads the present list).                              *)
TitleAwaited == \A r \in DOMAIN dc.convs : dc.convs[r].titled \/ r \in dc.untitled \/ dc.stale

(* Runs off the screen end or come back, a message is answered unless the   *)
(* scene holds it or a control took its ticket (the timers of ChatPage).    *)
Unfinished == \/ dc.bg # <<>>
              \/ dc.submitting /\ ~dc.jumped /\ (dc.mode = "loading" => dc.released)
WorkbenchEnds == Unfinished ~> ~Unfinished
=============================================================================
