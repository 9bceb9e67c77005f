------------------------------ MODULE Uploads ------------------------------
(***************************************************************************)
(* Attachments of a message that has not been sent: the draft of each      *)
(* conversation and the uploads it waits for (frontend/src/files:          *)
(* useAttachmentUploads, draftStore, pastedText; Composer; the sending     *)
(* half of AppShell) with the uploads and quota of the server              *)
(* (app/services/files).                                                   *)
(*                                                                         *)
(* A file is added at most once and stands for its card, its upload and    *)
(* the asset made of it.  A request is sent, served and answered in steps  *)
(* of their own, and is lost before or after it was served; the user moves *)
(* between conversations, hides and reloads the page in between.           *)
(***************************************************************************)
EXTENDS Integers, FiniteSets, FiniteSetsExt

CONSTANTS
  Convs, New, None,       \* scopes of a draft: conversations and "new"
  Made, Restored,         \* conversations that exist, files of the stored draft, at first
  Files, Images, Pastes,  \* what may be attached; pictures; long texts pasted
  MaxAttachments,         \* max_attachments_per_message
  MaxInflight,            \* files_max_inflight_uploads
  MaxAttempts,            \* files_processing_max_attempts
  MaxAsked,               \* bound on the user's actions
  MaxFaults               \* bound on the requests and deadlines that fail

ASSUME UploadsAssumption ==
  /\ None \notin [conv : Convs, to : Convs, files : SUBSET Files, text : {"none", "some"},
                  done : BOOLEAN]
  /\ None \notin Convs /\ IsFiniteSet(Files) /\ New \in Convs /\ Made \subseteq Convs \ {New}
  /\ Restored \subseteq SUBSET Files
  /\ Images \subseteq Files /\ Pastes \subseteq Files /\ Images \cap Pastes = {}
  /\ {MaxAttachments, MaxInflight, MaxAttempts, MaxAsked} \subseteq Nat \ {0}
  /\ MaxFaults \in Nat

VARIABLES
  at,       \* the open conversation
  list,     \* status of each card of the composer
  text,     \* the prompt: "none", "some", or "over" the limit of a message
  store,    \* localStorage: the draft of each conversation
  fresh,    \* cards with a local_preview_url
  preview,  \* object URL of each picture: who is to revoke it
  pics,     \* the chosen model reads pictures
  ask,      \* dialog of the composer: "none", "blocked" or "switch"
  hidden,   \* the tab is hidden
  may,      \* uploads are on and the user has a verified address
  up,       \* startFile of each file: the request it waits for, whether its scope is
            \* current, and the status that the confirmation was answered with
  exp,      \* expand of each pasted text that is being read: its conversation
  del,      \* cancelAttachment of each file: its conversation, whether the text is
            \* expanded then, and whether the server has served it
  rem,      \* removeImages under way
  snd,      \* the submission under way
  srv, tries, running, asset, reserved,  \* uploads, attempts and their workers, assets, quota
  made,     \* conversations that exist
  needs,    \* conversations whose history has a picture: vision_required
  home, fate, crossed,          \* history: where a file was added, what became of it
  asked, faults

page == <<at, list, text, fresh, preview, pics, ask, hidden>>
calls == <<up, exp, del, rem, snd>>
server == <<srv, tries, running, asset, reserved, made, needs>>
ghosts == <<home, fate, crossed>>
bounds == <<asked, faults, may>>
vars == <<page, store, calls, server, ghosts, bounds>>

-----------------------------------------------------------------------------
(* files/utils.ts                                                           *)

Active == {"pending", "queued", "processing"}
Failed == {"rejected", "failed", "expired", "cancelled"}
Terminal == Failed \cup {"succeeded"}
IsUploadInProgress(s) == s \in Active \cup {"creating", "uploading"}
IsUploadReady(s) == s = "succeeded"
IsUploadFailed(s) == s \in Failed

(* Mutant: a queued upload is not asked about.                              *)
IsPollingStatusQueued(s) == s \in Active \ {"queued"}
IsPollingStatus(s) == s \in Active

(* What a card becomes when the server's record of its upload arrives: one  *)
(* that has failed is taken away.                                           *)
DraftFromUpload(s) == IF IsUploadFailed(s) THEN "none" ELSE s

Cards(l) == {f \in Files : l[f] # "none"}
NoCards == [f \in Files |-> "none"]
EmptyDraft == [text |-> "none", cards |-> NoCards]
Without(l, S) == [f \in Files |-> IF f \in S THEN "none" ELSE l[f]]

-----------------------------------------------------------------------------
(* Persistence.  commit writes the draft of the conversation its closure    *)
(* was made in, and nothing when the list is as it was.                     *)

Persist(c, l, t) == [store EXCEPT ![c] = [text |-> t, cards |-> l]]
(* Mutant: only what is shown changes.                                      *)
CommitShown(c, l) == list' = l /\ UNCHANGED store

Commit(c, l) == /\ list' = l
                /\ store' = IF l = list THEN store ELSE Persist(c, l, text)

(* Object URLs of discarded cards are revoked.                              *)
Discard(S) == [f \in Files |-> IF f \in S /\ preview[f] = "hook" THEN "gone" ELSE preview[f]]

(* A put is given up at once; an upload that is being created or confirmed  *)
(* goes on.                                                                 *)
Idle == [pc |-> "idle", live |-> FALSE, rec |-> "none"]
Abort(S) == [f \in Files |-> IF f \in S /\ up[f].pc = "put" THEN Idle ELSE up[f]]

Fate(S, x) == [f \in Files |-> IF f \in S /\ fate[f] = "draft" THEN x ELSE fate[f]]

-----------------------------------------------------------------------------
(* What the composer shows: attachments are not offered during a            *)
(* submission.                                                              *)

Shown == IF snd = None THEN Cards(list) ELSE {}
Ready == {f \in Files : IsUploadReady(list[f])}
HasPendingAttachments == \E f \in Files : IsUploadInProgress(list[f])
HasFailedAttachments == \E f \in Files : IsUploadFailed(list[f])
HasModelConsumableAttachment == \E f \in Ready : f \in Images => pics
ReadyImagesAllowed == Ready \cap Images # {} => pics
VisionMutationBlocked == needs[at] /\ ~pics
SendDisabled ==
  \/ text = "over" \/ HasPendingAttachments \/ HasFailedAttachments
  \/ VisionMutationBlocked \/ ~ReadyImagesAllowed
  \/ (text = "none" /\ Cards(list) # {} /\ ~HasModelConsumableAttachment)
CanSend == /\ snd = None /\ ~SendDisabled
           /\ text # "none" \/ (HasModelConsumableAttachment /\ ReadyImagesAllowed)
(* A dialog covers what is clicked on, not what is typed or dropped.        *)
DialogOpen == ask # "none"
AttachmentCards == IF DialogOpen THEN {} ELSE Shown
CanExpand(f) == f \in AttachmentCards \cap Pastes /\ list[f] = "succeeded" /\ text # "over"
ConvertOffered == text = "over" /\ ~DialogOpen /\ ~VisionMutationBlocked

Asking == ~hidden /\ asked < MaxAsked /\ asked' = asked + 1 /\ UNCHANGED <<faults, may>>
Failing == faults < MaxFaults /\ faults' = faults + 1 /\ UNCHANGED <<asked, may>>

-----------------------------------------------------------------------------
(* The user                                                                 *)

OnComposerValueChange(t) == text' = t /\ store' = Persist(at, list, t)

TypeText(t) ==
  /\ ~VisionMutationBlocked /\ t # text /\ Asking
  /\ OnComposerValueChange(t)
  /\ UNCHANGED <<at, list, fresh, preview, pics, ask, hidden, calls, server, ghosts>>

(* startFile, to its first request.                                         *)
StartFile(f) ==
  /\ up' = [up EXCEPT ![f] = [Idle EXCEPT !.pc = "create", !.live = TRUE]]
  /\ preview' = IF f \in Images THEN [preview EXCEPT ![f] = "hook"] ELSE preview
  /\ fresh' = IF f \in Images THEN fresh \cup {f} ELSE fresh
  /\ home' = [home EXCEPT ![f] = at] /\ fate' = [fate EXCEPT ![f] = "draft"]

Addable(f) == fate[f] = "none"
HasRoom == may /\ Cardinality(Cards(list)) < MaxAttachments

(* handleSelectFiles keeps pictures from a model that cannot see them.      *)
ImageBlocked(f) == f \in Images /\ ~pics

(* handleSelectFiles and addFiles, for the picker, a drop or a pasted       *)
(* picture.  Files dropped on the page are taken with a dialog open too.    *)
AddFile(f) ==
  /\ ~VisionMutationBlocked /\ may /\ Addable(f) /\ f \notin Pastes /\ Asking
  /\ IF ImageBlocked(f)
     THEN ask' = "blocked" /\ UNCHANGED <<list, store, up, preview, fresh, home, fate>>
     ELSE /\ HasRoom /\ StartFile(f) /\ Commit(at, [list EXCEPT ![f] = "creating"])
          /\ UNCHANGED ask
  /\ UNCHANGED <<at, text, pics, hidden, exp, del, rem, snd, server, crossed>>

(* onPasteText: a long text becomes an attachment, or is pasted inline when *)
(* it cannot and fits the prompt, or is dropped.                            *)
PasteText(f) ==
  /\ ~VisionMutationBlocked /\ Addable(f) /\ f \in Pastes /\ Asking
  /\ IF HasRoom
     THEN StartFile(f) /\ Commit(at, [list EXCEPT ![f] = "creating"]) /\ UNCHANGED text
     ELSE /\ \/ text # "over" /\ OnComposerValueChange("some")
             \/ UNCHANGED <<text, store>>
          /\ UNCHANGED <<list, up, preview, fresh, home, fate>>
  /\ UNCHANGED <<at, pics, ask, hidden, exp, del, rem, snd, server, crossed>>

(* convertPromptToAttachment, offered when the prompt is too long.          *)
ConvertPrompt(f) ==
  /\ ConvertOffered /\ Addable(f) /\ f \in Pastes /\ HasRoom /\ Asking
  /\ StartFile(f) /\ text' = "none"
  /\ list' = [list EXCEPT ![f] = "creating"] /\ store' = Persist(at, list', "none")
  /\ UNCHANGED <<at, pics, ask, hidden, exp, del, rem, snd, server, crossed>>

AskCancel(f, c, expand) ==
  del' = [del EXCEPT ![f] = [conv |-> c, expand |-> expand, done |-> FALSE]]

(* cancelAttachment: nothing is asked of the server while the card has no   *)
(* upload id.                                                               *)
CancelAttachment(f) ==
  /\ f \in AttachmentCards /\ del[f] = None /\ Asking
  /\ IF list[f] = "creating"
     THEN /\ Commit(at, Without(list, {f})) /\ preview' = Discard({f})
          /\ fresh' = fresh \ {f} /\ fate' = Fate({f}, "removed")
          /\ UNCHANGED <<up, del>>
     ELSE /\ up' = Abort({f}) /\ AskCancel(f, at, FALSE)
          /\ UNCHANGED <<list, store, preview, fresh, fate>>
  /\ UNCHANGED <<at, text, pics, ask, hidden, exp, rem, snd, server, home, crossed>>

(* expand: the text is read first, from memory or from the server.          *)
Expand(f) ==
  /\ CanExpand(f) /\ exp[f] = None /\ Asking
  /\ exp' = [exp EXCEPT ![f] = at]
  /\ UNCHANGED <<page, store, up, del, rem, snd, server, ghosts>>

(* The model menu.  One that cannot see asks first when there are pictures. *)
ModelEnabled(p) == needs[at] => p
OnModelChange(p) ==
  /\ ~DialogOpen /\ p # pics /\ ModelEnabled(p) /\ Asking
  /\ IF ~p /\ Shown \cap Images # {} THEN ask' = "switch" /\ UNCHANGED pics
                                     ELSE pics' = p /\ UNCHANGED ask
  /\ UNCHANGED <<at, list, text, store, fresh, preview, hidden, calls, server, ghosts>>

CloseDialog ==
  /\ DialogOpen /\ ask' = "none"
  /\ UNCHANGED <<at, list, text, fresh, preview, pics, hidden>>
  /\ UNCHANGED <<store, calls, server, ghosts, bounds>>

(* The pictures go and the model is switched.                               *)
DropImages(c, S) ==
  /\ Commit(c, Without(list, S)) /\ up' = Abort(S)
  /\ preview' = Discard(S) /\ fresh' = fresh \ S /\ fate' = Fate(S, "removed")
  /\ pics' = FALSE /\ ask' = (IF ask = "switch" THEN "none" ELSE ask)

(* removeImages: one request for all that have an upload id, or none.       *)
RemoveImages ==
  LET images == Cards(list) \cap Images
      ids == {f \in images : list[f] # "creating"} IN
  /\ ask = "switch" /\ rem = None /\ Asking
  /\ IF ids = {} THEN DropImages(at, images) /\ UNCHANGED rem
     ELSE /\ rem' = [conv |-> at, files |-> images, ids |-> ids, done |-> FALSE]
          /\ UNCHANGED <<list, store, up, preview, fresh, fate, pics, ask>>
  /\ UNCHANGED <<at, text, hidden, exp, del, snd, server, home, crossed>>

Hide == /\ ~hidden /\ hidden' = TRUE /\ Asking
        /\ UNCHANGED <<at, list, text, fresh, preview, pics, ask, store, calls, server, ghosts>>
Show == /\ hidden /\ hidden' = FALSE
        /\ UNCHANGED <<at, list, text, fresh, preview, pics, ask>>
        /\ UNCHANGED <<store, calls, server, ghosts, bounds>>

-----------------------------------------------------------------------------
(* The scope of the draft                                                   *)

(* The effect of a change of conversation: what runs is aborted or becomes  *)
(* stale, the stored draft is shown; a conversation that needs a model that *)
(* sees pictures selects one.                                               *)
EnterScope(c) ==
  /\ at' = c /\ text' = store[c].text
  /\ LET kept == Without(store[c].cards, {f \in Files : IsUploadFailed(store[c].cards[f])})
     IN list' = kept /\ store' = [store EXCEPT ![c].cards = kept]
  /\ fresh' = {} /\ pics' = (pics \/ needs[c])

Stale == [f \in Files |-> [Abort(Files)[f] EXCEPT !.live = FALSE]]

SelectConversation(c) ==
  /\ c # at /\ c \in made \cup {New} /\ Asking /\ EnterScope(c)
  /\ up' = Stale /\ preview' = Discard(Files)
  /\ UNCHANGED <<ask, hidden, exp, del, rem, snd, server, ghosts>>

(* The page is reloaded: all that runs in it is gone; what the server has   *)
(* served stays served.                                                     *)
Reload ==
  /\ Asking /\ EnterScope(at) /\ ask' = "none"
  /\ preview' = [f \in Files |-> IF preview[f] = "none" THEN "none" ELSE "gone"]
  /\ up' = [f \in Files |-> Idle] /\ exp' = [f \in Files |-> None]
  /\ del' = [f \in Files |-> None] /\ rem' = None /\ snd' = None
  /\ UNCHANGED <<hidden, server, ghosts>>

-----------------------------------------------------------------------------
(* startFile, from its first answer on                                      *)

SetSrv(f, s) == srv' = [srv EXCEPT ![f] = s]
Step(f, pc) == up' = [up EXCEPT ![f].pc = pc]
Finish(f) == up' = [up EXCEPT ![f] = Idle]
Relink(f, s) == IF list[f] = "none" THEN list ELSE [list EXCEPT ![f] = s]
Inflight == {f \in Files : srv[f] \in Active}

(* create_upload: the declared size is reserved.                            *)
CreateUpload(f) ==
  /\ up[f].pc = "create" /\ Cardinality(Inflight) < MaxInflight
  /\ SetSrv(f, "pending") /\ reserved' = reserved + 1 /\ Step(f, "created")
  /\ UNCHANGED <<page, store, exp, del, rem, snd, tries, running, asset, made, needs>>
  /\ UNCHANGED <<ghosts, bounds>>

CreateAnswered(f) ==
  /\ up[f].pc = "created"
  /\ IF up[f].live THEN Step(f, "put") /\ Commit(at, Relink(f, "uploading"))
                   ELSE Finish(f) /\ UNCHANGED <<list, store>>
  /\ UNCHANGED <<at, text, fresh, preview, pics, ask, hidden, exp, del, rem, snd>>
  /\ UNCHANGED <<server, ghosts, bounds>>

PutAnswered(f) ==
  /\ up[f].pc = "put" /\ Step(f, "confirm")
  /\ UNCHANGED <<page, store, exp, del, rem, snd, server, ghosts, bounds>>

(* confirm_upload: the first confirmation queues the upload, or finds that  *)
(* its session has expired; one that is no longer pending is only read.     *)
ConfirmUpload(f) ==
  /\ up[f].pc = "confirm"
  /\ \/ srv[f] # "pending" /\ UNCHANGED <<srv, reserved>>
     \/ srv[f] = "pending" /\ SetSrv(f, "queued") /\ UNCHANGED reserved
     \/ srv[f] = "pending" /\ SetSrv(f, "expired") /\ reserved' = reserved - 1
  /\ up' = [up EXCEPT ![f].pc = "confirmed", ![f].rec = srv'[f]]
  /\ UNCHANGED <<page, store, exp, del, rem, snd, tries, running, asset, made, needs>>
  /\ UNCHANGED <<ghosts, bounds>>

(* A card goes without having been asked to.                                *)
LoseCards(S) == /\ preview' = Discard(S) /\ fresh' = fresh \ S
                /\ fate' = Fate(S \cap Cards(list), "failed")

(* updateUploadRecord, with what the confirmation found.                    *)
ConfirmAnswered(f) ==
  /\ up[f].pc = "confirmed" /\ Finish(f)
  /\ IF up[f].live THEN /\ Commit(at, Relink(f, DraftFromUpload(up[f].rec)))
                        /\ IF IsUploadFailed(up[f].rec) THEN LoseCards({f})
                           ELSE UNCHANGED <<preview, fresh, fate>>
                   ELSE UNCHANGED <<list, store, preview, fresh, fate>>
  /\ UNCHANGED <<at, text, pics, ask, hidden, exp, del, rem, snd>>
  /\ UNCHANGED <<server, home, crossed, bounds>>

(* A request is refused or fails, or its answer is lost: the card goes,     *)
(* with a message.                                                          *)
StartFailed(f) ==
  /\ up[f].pc # "idle" /\ Finish(f)
  /\ IF up[f].live THEN Commit(at, Without(list, {f})) /\ LoseCards({f})
                   ELSE UNCHANGED <<list, store, preview, fresh, fate>>
  /\ IF up[f].pc = "create" /\ Cardinality(Inflight) >= MaxInflight
     THEN UNCHANGED bounds ELSE Failing
  /\ UNCHANGED <<at, text, pics, ask, hidden, exp, del, rem, snd>>
  /\ UNCHANGED <<server, home, crossed>>

-----------------------------------------------------------------------------
(* cancel_uploads: all or none; a bound file cannot be cancelled.           *)

Cancellable(S) == \A f \in S : asset[f] # "bound"

CancelUploads(S) ==
  /\ Cancellable(S)
  /\ srv' = [f \in Files |-> IF f \in S /\ srv[f] \in Active THEN "cancelled" ELSE srv[f]]
  /\ reserved' = reserved - Cardinality(S \cap Inflight)
  /\ asset' = [f \in Files |-> IF f \in S /\ asset[f] = "free" THEN "deleted" ELSE asset[f]]
  /\ UNCHANGED <<page, store, up, exp, snd, tries, running, made, needs, ghosts, bounds>>

CancelUpload(f) ==
  /\ del[f] # None /\ ~del[f].done /\ CancelUploads({f})
  /\ del' = [del EXCEPT ![f].done = TRUE] /\ UNCHANGED rem

CancelMany ==
  /\ rem # None /\ ~rem.done /\ CancelUploads(rem.ids)
  /\ rem' = [rem EXCEPT !.done = TRUE] /\ UNCHANGED del

(* onExpand, at the end: the text goes to the prompt that is shown, and to  *)
(* the stored draft of the conversation it was expanded in.                 *)
Expanded(c, l) == /\ text' \in CASE text = "none" -> {"some"}
                                  [] text = "some" -> {"some", "over"}
                                  [] text = "over" -> {"over"}
                  /\ store' = Persist(c, l, text')
                  /\ crossed' = (crossed \/ c # at)

(* The text is there: its card is cancelled, or has gone meanwhile; or it   *)
(* cannot be read, or no longer fits.                                       *)
TextRead(f) ==
  /\ exp[f] # None /\ del[f] = None /\ exp' = [exp EXCEPT ![f] = None]
  /\ \/ /\ list[f] # "none" /\ AskCancel(f, exp[f], TRUE) /\ up' = Abort({f})
        /\ UNCHANGED <<text, store, crossed, bounds>>
     \/ list[f] = "none" /\ Expanded(exp[f], list) /\ UNCHANGED <<del, up, bounds>>
     \/ Failing /\ UNCHANGED <<text, store, crossed, del, up>>
  /\ UNCHANGED <<at, list, fresh, preview, pics, ask, hidden, rem, snd, server, home, fate>>

CancelAnswered(f) ==
  LET d == del[f] IN
  /\ d # None /\ d.done
  /\ list' = Without(list, {f})
  /\ IF d.expand THEN Expanded(d.conv, list')
     ELSE Commit(d.conv, Without(list, {f})) /\ UNCHANGED <<text, crossed>>
  /\ preview' = Discard({f}) /\ fresh' = fresh \ {f} /\ fate' = Fate({f}, "removed")
  /\ up' = Abort({f}) /\ del' = [del EXCEPT ![f] = None]
  /\ UNCHANGED <<at, pics, ask, hidden, exp, rem, snd, server, home, bounds>>

(* It is refused or fails, or its answer is lost, and the card stays;       *)
(* cancelAttachment does not throw, so a text is expanded all the same.     *)
CancelFailed(f) ==
  LET d == del[f] IN
  /\ d # None /\ (IF ~d.done /\ asset[f] = "bound" THEN UNCHANGED bounds ELSE Failing)
  /\ IF d.expand THEN Expanded(d.conv, list) ELSE UNCHANGED <<text, store, crossed>>
  /\ del' = [del EXCEPT ![f] = None]
  /\ UNCHANGED <<at, list, fresh, preview, pics, ask, hidden, up, exp, rem, snd, server>>
  /\ UNCHANGED <<home, fate>>

ImagesRemoved ==
  /\ rem # None /\ rem.done /\ DropImages(rem.conv, rem.files) /\ rem' = None
  /\ UNCHANGED <<at, text, hidden, exp, del, snd, server, home, crossed, bounds>>

RemoveFailed ==
  /\ rem # None
  /\ (IF ~rem.done /\ ~Cancellable(rem.ids) THEN UNCHANGED bounds ELSE Failing)
  /\ rem' = None
  /\ UNCHANGED <<page, store, up, exp, del, snd, server, ghosts>>

-----------------------------------------------------------------------------
(* Polling, while the tab is visible: status of every upload asked about.   *)
(* What is read is applied at once: when what is asked about changes before *)
(* the answer arrives, the effect starts again and the answer is dropped.   *)

Polled == {f \in Files : IsPollingStatus(list[f])}

Poll ==
  /\ ~hidden /\ Polled # {}
  /\ LET l == [f \in Files |-> IF f \in Polled THEN DraftFromUpload(srv[f]) ELSE list[f]]
         gone == Cards(list) \ Cards(l)
     IN l # list /\ Commit(at, l) /\ LoseCards(gone)
  /\ UNCHANGED <<at, text, pics, ask, hidden, calls, server, home, crossed, bounds>>

-----------------------------------------------------------------------------
(* Sending                                                                  *)

(* onSend: the prompt is emptied, the object URLs of the pictures go to the *)
(* thread.  A conversation that the first message makes is there to make.   *)
OnSend ==
  /\ CanSend /\ (at = New => Convs \ made # {New}) /\ Asking
  /\ snd' = [conv |-> at, to |-> at, files |-> Ready, text |-> text, done |-> FALSE]
  /\ text' = "none" /\ store' = Persist(at, list, "none")
  /\ preview' = [f \in Files |-> IF f \in Ready /\ preview[f] = "hook" THEN "sent" ELSE preview[f]]
  /\ UNCHANGED <<at, list, fresh, pics, ask, hidden, up, exp, del, rem, server, ghosts>>

(* The message is created, in a conversation of its own when it is the      *)
(* first: every file must be free, and is bound.                            *)
Sendable(s) == \A f \in s.files : asset[f] = "free"
Bind(s, c) == /\ asset' = [f \in Files |-> IF f \in s.files THEN "bound" ELSE asset[f]]
              /\ needs' = [needs EXCEPT ![c] = @ \/ s.files \cap Images # {}]
              /\ fate' = Fate(s.files, "sent")

CreateMessage ==
  /\ snd # None /\ ~snd.done /\ Sendable(snd)
  /\ \E c \in IF snd.conv = New THEN Convs \ (made \cup {New}) ELSE {snd.conv} :
       /\ Bind(snd, c) /\ made' = made \cup {c}
       /\ snd' = [snd EXCEPT !.to = c, !.done = TRUE]
  /\ UNCHANGED <<page, store, up, exp, del, rem, srv, tries, running, reserved, home, crossed>>
  /\ UNCHANGED bounds

(* clear: the stored draft of the conversation that sent, and whatever list *)
(* is shown.                                                                *)
Clear(c) == /\ list' = NoCards /\ store' = [store EXCEPT ![c] = EmptyDraft]
            /\ up' = Abort(Files) /\ fresh' = {}

(* The answer to a first message opens its conversation, wherever the user  *)
(* is by then; files that were added meanwhile are dropped with the draft.  *)
Sent ==
  /\ snd # None /\ snd.done /\ snd' = None /\ preview' = Discard(Files)
  /\ IF snd.conv = New /\ at # snd.to
     THEN /\ at' = snd.to /\ text' = store[at'].text /\ list' = store[at'].cards
          /\ store' = [store EXCEPT ![New] = EmptyDraft]
          /\ up' = Stale /\ fresh' = {} /\ pics' = (pics \/ needs[at'])
     ELSE /\ Clear(snd.conv) /\ pics' = (pics \/ (snd.conv = at /\ needs[at]))
          /\ UNCHANGED <<at, text>>
  /\ crossed' = \/ crossed \/ ~(Cards(store[snd.conv].cards) \subseteq snd.files)
                \/ snd.conv # at /\ at' = at
  /\ UNCHANGED <<ask, hidden, exp, del, rem, server, home, fate, bounds>>

(* The draft is put back, unless there is a new one: into the prompt that   *)
(* is shown, and into the store for the conversation that sent.             *)
RestoreDraft(s) ==
  /\ text' = (IF text = "none" THEN s.text ELSE text)
  /\ store' = Persist(s.conv, list, text')
  /\ crossed' = (crossed \/ s.conv # at)

(* restoreImagePreviews: to the card that still shows it, or revoked.       *)
RestoreImagePreviews(s) ==
  preview' = [f \in Files |-> IF f \in s.files /\ preview[f] = "sent"
                              THEN IF list[f] # "none" /\ f \in fresh THEN "hook" ELSE "gone"
                              ELSE preview[f]]

(* It is refused or fails, or its answer is lost.                           *)
SendFailed ==
  /\ snd # None /\ RestoreDraft(snd) /\ RestoreImagePreviews(snd) /\ snd' = None
  /\ IF ~snd.done /\ ~Sendable(snd) THEN UNCHANGED bounds ELSE Failing
  /\ UNCHANGED <<at, list, fresh, pics, ask, hidden, up, exp, del, rem, server, home, fate>>

(* releaseSentImagePreview: the thread is left, or shows the picture of the *)
(* server; a message under way keeps its own.                               *)
ReleaseSentImagePreview(f) ==
  /\ preview[f] = "sent" /\ (snd # None => f \notin snd.files)
  /\ preview' = [preview EXCEPT ![f] = "gone"]
  /\ UNCHANGED <<at, list, text, fresh, pics, ask, hidden, store, calls, server, ghosts, bounds>>

-----------------------------------------------------------------------------
(* The server's own steps                                                   *)

Work == UNCHANGED <<page, store, calls, made, needs, ghosts>>

(* process_upload, to the end of its claim.  The attempt is the owner of    *)
(* the lease; its worker goes on until it ends, with the lease or without.  *)
ClaimUpload(f) ==
  /\ srv[f] = "queued" /\ SetSrv(f, "processing") /\ tries' = [tries EXCEPT ![f] = @ + 1]
  /\ running' = [running EXCEPT ![f] = @ \cup {tries'[f]}]
  /\ UNCHANGED <<asset, reserved, bounds>> /\ Work

Ends(f, k) == k \in running[f] /\ running' = [running EXCEPT ![f] = @ \ {k}]
OwnsLease(f, k) == srv[f] = "processing" /\ k = tries[f]

CommitSuccess(f, k) ==
  /\ Ends(f, k)
  /\ IF OwnsLease(f, k)
     THEN /\ SetSrv(f, "succeeded") /\ reserved' = reserved - 1
          /\ asset' = [asset EXCEPT ![f] = "free"]
     ELSE UNCHANGED <<srv, reserved, asset>>
  /\ UNCHANGED <<tries, bounds>> /\ Work

(* _finish_error: refused, or tried again until the attempts are used up.   *)
FinishError(f, k) ==
  /\ Ends(f, k) /\ OwnsLease(f, k) /\ Failing
  /\ \/ SetSrv(f, "rejected") /\ reserved' = reserved - 1
     \/ k >= MaxAttempts /\ SetSrv(f, "failed") /\ reserved' = reserved - 1
     \/ k < MaxAttempts /\ SetSrv(f, "queued") /\ UNCHANGED reserved
  /\ UNCHANGED <<tries, asset>> /\ Work

(* sweep_uploads: a lease that has run out, a session that has expired.     *)
SweepUploads(f) ==
  /\ \/ /\ srv[f] = "processing" /\ tries[f] >= MaxAttempts
        /\ SetSrv(f, "failed") /\ reserved' = reserved - 1
     \/ /\ srv[f] = "processing" /\ tries[f] < MaxAttempts
        /\ SetSrv(f, "queued") /\ UNCHANGED reserved
     \/ srv[f] = "pending" /\ SetSrv(f, "expired") /\ reserved' = reserved - 1
  /\ UNCHANGED <<tries, running, asset, bounds>> /\ Work

(* reclaim_assets: a file that no message took.                             *)
ReclaimAssets(f) ==
  /\ asset[f] = "free" /\ Failing /\ asset' = [asset EXCEPT ![f] = "deleted"]
  /\ UNCHANGED <<srv, tries, running, reserved>> /\ Work

-----------------------------------------------------------------------------
(* The page opens on a stored draft: some files, ready to be sent, or none  *)
(* (what is done then is followed for one action less).                     *)
Init ==
  \E S \in Restored, c \in Made \cup {New} :
    LET Of(x, y) == [f \in Files |-> IF f \in S THEN x ELSE y] IN
    /\ at = c /\ list = Of("succeeded", "none") /\ text = "none"
    /\ store = [d \in Convs |-> IF d = c THEN [EmptyDraft EXCEPT !.cards = list] ELSE EmptyDraft]
    /\ fresh = {} /\ preview = [f \in Files |-> "none"]
    /\ pics = TRUE /\ ask = "none" /\ hidden = FALSE /\ may \in {S # {}, TRUE}
    /\ up = [f \in Files |-> Idle] /\ exp = [f \in Files |-> None]
    /\ del = [f \in Files |-> None] /\ rem = None /\ snd = None
    /\ srv = Of("succeeded", "none") /\ tries = Of(1, 0) /\ asset = Of("free", "none")
    /\ running = [f \in Files |-> {}] /\ reserved = 0
    /\ made = Made /\ needs = [d \in Convs |-> FALSE]
    /\ home = Of(c, None) /\ fate = Of("draft", "none") /\ crossed = FALSE
    /\ asked = (IF S = {} THEN 1 ELSE 0) /\ faults = 0

User ==
  \/ \E t \in {"none", "some", "over"} : TypeText(t)
  \/ \E f \in Files : \/ AddFile(f) \/ PasteText(f) \/ ConvertPrompt(f)
                      \/ CancelAttachment(f) \/ Expand(f)
  \/ \E p \in BOOLEAN : OnModelChange(p)
  \/ \E c \in Convs : SelectConversation(c)
  \/ CloseDialog \/ RemoveImages \/ Hide \/ Show \/ Reload \/ OnSend

Answers ==
  \/ \E f \in Files : \/ CreateAnswered(f) \/ PutAnswered(f) \/ ConfirmAnswered(f)
                      \/ StartFailed(f) \/ TextRead(f) \/ CancelAnswered(f) \/ CancelFailed(f)
                      \/ ReleaseSentImagePreview(f)
  \/ ImagesRemoved \/ RemoveFailed \/ Poll \/ Sent \/ SendFailed

Server ==
  \/ \E f \in Files : \/ CreateUpload(f) \/ ConfirmUpload(f) \/ CancelUpload(f)
                      \/ ClaimUpload(f) \/ SweepUploads(f) \/ ReclaimAssets(f)
                      \/ \E k \in running[f] : CommitSuccess(f, k) \/ FinishError(f, k)
  \/ CancelMany \/ CreateMessage

Next == User \/ Answers \/ Server

(* Requests are answered, the tab is shown again, polls and the sweep run   *)
(* on timers and a queued upload is picked up; that a worker finishes what  *)
(* it has claimed is not assumed.                                           *)
Fairness ==
  /\ \A f \in Files : /\ WF_vars(ClaimUpload(f)) /\ WF_vars(SweepUploads(f))
                      /\ WF_vars(CreateUpload(f) \/ CreateAnswered(f) \/ StartFailed(f))
                      /\ WF_vars(PutAnswered(f) \/ ConfirmUpload(f) \/ ConfirmAnswered(f))
                      /\ WF_vars(CancelUpload(f) \/ CancelAnswered(f) \/ CancelFailed(f))
                      /\ WF_vars(TextRead(f))
  /\ WF_vars(Poll) /\ WF_vars(Show) /\ WF_vars(CancelMany \/ ImagesRemoved \/ RemoveFailed)
  /\ WF_vars(CreateMessage \/ Sent \/ SendFailed)

Spec == Init /\ [][Next]_vars /\ Fairness

-----------------------------------------------------------------------------
(* Properties                                                               *)

CardStatus == {"none", "creating", "uploading", "pending", "queued", "processing", "succeeded"}

(* Every variable has its type; in particular a failed upload never shows   *)
(* as a card, here or in a stored draft, so that nothing waits for a retry. *)
TypeOK ==
  /\ at \in Convs /\ list \in [Files -> CardStatus] /\ text \in {"none", "some", "over"}
  /\ store \in [Convs -> [text : {"none", "some", "over"}, cards : [Files -> CardStatus]]]
  /\ fresh \subseteq Images /\ preview \in [Files -> {"none", "hook", "sent", "gone"}]
  /\ pics \in BOOLEAN /\ ask \in {"none", "blocked", "switch"} /\ {hidden, may} \subseteq BOOLEAN
  /\ up \in [Files -> [pc : {"idle", "create", "created", "put", "confirm", "confirmed"},
                       live : BOOLEAN, rec : {"none"} \cup Active \cup Terminal]]
  /\ exp \in [Files -> {None} \cup Convs]
  /\ del \in [Files -> {None} \cup [conv : Convs, expand : BOOLEAN, done : BOOLEAN]]
  /\ rem \in {None} \cup [conv : Convs, files : SUBSET Images, ids : SUBSET Images, done : BOOLEAN]
  /\ snd \in {None} \cup [conv : Convs, to : Convs, files : SUBSET Files,
                           text : {"none", "some"}, done : BOOLEAN]
  /\ running \in [Files -> SUBSET (1..MaxAttempts)] /\ made \subseteq Convs \ {New}
  /\ srv \in [Files -> {"none"} \cup Active \cup Terminal] /\ tries \in [Files -> 0..MaxAttempts]
  /\ asset \in [Files -> {"none", "free", "bound", "deleted"}] /\ reserved \in Nat
  /\ needs \in [Convs -> BOOLEAN] /\ home \in [Files -> {None} \cup Convs]
  /\ fate \in [Files -> {"none", "draft", "removed", "failed", "sent"}] /\ crossed \in BOOLEAN
  /\ asked \in 0..MaxAsked /\ faults \in 0..MaxFaults

(* What is reserved of a user's quota is what the uploads that have not     *)
(* ended were created with, whoever ends them: the worker, the sweep, a     *)
(* late confirmation or a cancellation (_locked_quota).                     *)
ReservedExact == reserved = Cardinality(Inflight)

(* A file that a message has taken is never deleted by a cancellation that  *)
(* was asked for before it was sent (cancel_uploads).                       *)
BoundStays == [][\A f \in Files : asset[f] = "bound" => asset'[f] = "bound"]_vars

(* An object URL that a card shows has not been revoked, and one that this  *)
(* hook owns has a card; one of the thread is not taken away while its      *)
(* message is under way (detachImagePreviews, restoreImagePreviews).        *)
PreviewsOwned ==
  /\ \A f \in fresh : list[f] # "none" /\ preview[f] \in {"hook", "sent"}
  /\ \A f \in Files : preview[f] = "hook" => f \in fresh

(* A stored draft, and the list that is shown, have only files that were    *)
(* added in their conversation, as long as no submission or expanded text   *)
(* was answered for after the user had left it (persist, the scope effect). *)
DraftsScoped == ~crossed =>
  /\ \A c \in Convs, f \in Files : store[c].cards[f] # "none" => home[f] = c
  /\ \A f \in Files : list[f] # "none" => home[f] = at

(* A file that was added stays in the draft of its conversation until it is *)
(* sent, removed by the user or reported as failed, through every change of *)
(* conversation and reload; the same exceptions (commit).                   *)
DraftKept == ~crossed =>
  \A f \in Files : fate[f] = "draft" =>
    store[home[f]].cards[f] # "none" /\ (home[f] = at => list[f] # "none")

(* A card whose upload is being processed ends: it becomes ready or goes,   *)
(* however often the tab is hidden or the worker dies (the polling effect). *)
CardsSettle == \A f \in Files : list[f] \in Active ~> list[f] \notin Active

(* Every upload ends on the server, also one whose card, tab or worker is   *)
(* gone (sweep_uploads).                                                    *)
UploadsEnd == \A f \in Files : srv[f] \in Active ~> srv[f] \in Terminal

(* What the comment on the scope effect says: drafts are scoped to the      *)
(* conversation.  A submission that fails after the user has left its       *)
(* conversation stores the cards of the other one under its key.            *)
DraftsAlwaysScoped == \A c \in Convs, f \in Files : store[c].cards[f] # "none" => home[f] = c

(* In every state the quota, the previews and the drafts are what the       *)
(* uploads under way make them (_locked_quota, persist, commit).            *)
UploadsSound == TypeOK /\ ReservedExact /\ PreviewsOwned /\ DraftsScoped /\ DraftKept

(* Uploads end, on the page and on the server, and what a message has taken *)
(* stays taken (the polling effect, sweep_uploads, cancel_uploads).         *)
UploadsSettle == BoundStays /\ CardsSettle /\ UploadsEnd
=============================================================================
