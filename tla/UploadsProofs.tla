--------------------------- MODULE UploadsProofs ---------------------------
(***************************************************************************)
(* Proofs about Uploads, for every set of files and conversations and for  *)
(* every limit: the quota is exact, previews are owned, and drafts neither *)
(* mix nor lose files (DraftsAndQuota); what a message has taken stays     *)
(* taken (SentFilesStay).                                                  *)
(*                                                                         *)
(* None of these is inductive.  The quota needs that an upload is created  *)
(* once (StartInv); previews need that one lent to the thread belongs to   *)
(* the submission under way (SendInv); drafts need that every request is   *)
(* about files of the conversation it was made in (CallsScoped) and that a *)
(* file which was never added has left no trace (TraceInv).                *)
(***************************************************************************)
EXTENDS Uploads, FiniteSetTheorems, TLAPS

-----------------------------------------------------------------------------
(* The invariant.                                                           *)

Texts    == {"none", "some", "over"}
Drafts   == [text : Texts, cards : [Files -> CardStatus]]
Statuses == {"none"} \cup Active \cup Terminal

PageTypes ==
  /\ at \in Convs /\ list \in [Files -> CardStatus] /\ text \in Texts
  /\ store \in [Convs -> Drafts]
  /\ fresh \subseteq Images /\ preview \in [Files -> {"none", "hook", "sent", "gone"}]
  /\ pics \in BOOLEAN /\ ask \in {"none", "blocked", "switch"}
  /\ hidden \in BOOLEAN /\ may \in BOOLEAN

Waits == [pc : {"idle", "create", "created", "put", "confirm", "confirmed"},
          live : BOOLEAN, rec : Statuses]
Cancellations == [conv : Convs, expand : BOOLEAN, done : BOOLEAN]
Removals      == [conv : Convs, files : SUBSET Images, ids : SUBSET Images, done : BOOLEAN]
Submissions   == [conv : Convs, to : Convs, files : SUBSET Files, text : {"none", "some"},
                  done : BOOLEAN]

CallTypes ==
  /\ up \in [Files -> Waits] /\ exp \in [Files -> {None} \cup Convs]
  /\ del \in [Files -> {None} \cup Cancellations]
  /\ rem \in {None} \cup Removals /\ snd \in {None} \cup Submissions

ServerTypes ==
  /\ running \in [Files -> SUBSET (1..MaxAttempts)] /\ made \subseteq Convs \ {New}
  /\ srv \in [Files -> Statuses] /\ tries \in [Files -> 0..MaxAttempts]
  /\ asset \in [Files -> {"none", "free", "bound", "deleted"}]
  /\ needs \in [Convs -> BOOLEAN]

GhostTypes ==
  /\ home \in [Files -> {None} \cup Convs]
  /\ fate \in [Files -> {"none", "draft", "removed", "failed", "sent"}]
  /\ crossed \in BOOLEAN /\ asked \in 0..MaxAsked /\ faults \in 0..MaxFaults

(* An attempt that has not been used up is left to an upload that waits for *)
(* one, and what a message may take comes from an upload that has ended.    *)
AttemptsInv == \A f \in Files :
  /\ srv[f] \in {"none", "pending", "queued"} => tries[f] < MaxAttempts
  /\ asset[f] # "none" => srv[f] = "succeeded"

(* A file that was never added has left no trace anywhere.                  *)
TraceInv == \A f \in Files :
  /\ fate[f] = "none" =>
       /\ home[f] = None /\ srv[f] = "none" /\ up[f].pc = "idle"
       /\ list[f] = "none" /\ \A c \in Convs : store[c].cards[f] = "none"
  /\ fate[f] # "none" => home[f] # None

(* What startFile waits for, and what the server has by then.               *)
StartInv == \A f \in Files :
  /\ up[f].pc = "create" => srv[f] = "none"
  /\ up[f].pc \in {"created", "put", "confirm", "confirmed"} => srv[f] # "none"
  /\ up[f].pc = "confirmed" => up[f].rec # "none"

(* The preview of a card goes to the thread only with a submission that is  *)
(* still under way, and what has been sent is no longer of a draft.         *)
SendInv ==
  /\ \A f \in fresh : preview[f] = "sent" => snd # None /\ f \in snd.files
  /\ snd # None => \A f \in snd.files :
                     /\ fate[f] # "none"
                     /\ snd.done => fate[f] # "draft"

(* A request is about files of the conversation it was made in.             *)
CallsScoped == ~crossed =>
  /\ \A f \in Files : /\ del[f] # None => del[f].conv = home[f]
                      /\ exp[f] # None => exp[f] = home[f]
  /\ rem # None => \A f \in rem.files : home[f] = rem.conv

ScopeInv == DraftsScoped /\ DraftKept /\ CallsScoped

UploadsInv == /\ PageTypes /\ CallTypes /\ ServerTypes /\ GhostTypes
              /\ AttemptsInv /\ ReservedExact /\ TraceInv /\ StartInv
              /\ PreviewsOwned /\ SendInv /\ ScopeInv

USE DEF Waits, Cancellations, Removals, Submissions

(* Only the server changes what it has.                                     *)
LEMMA ServerStands ==
  ASSUME User \/ Answers
  PROVE  UNCHANGED server
<1>1. ASSUME NEW f \in Files, AddFile(f) \/ PasteText(f) \/ ConvertPrompt(f) \/
            CancelAttachment(f) \/ Expand(f) \/ CreateAnswered(f) \/
            PutAnswered(f) \/ ConfirmAnswered(f) \/ StartFailed(f) \/
            TextRead(f) \/ CancelAnswered(f) \/ CancelFailed(f) \/
            ReleaseSentImagePreview(f)
      PROVE  UNCHANGED server
  BY <1>1 DEF AddFile, server, Asking, PasteText, ConvertPrompt, CancelAttachment,
    Expand, page, ghosts, CreateAnswered, bounds, PutAnswered, ConfirmAnswered,
    StartFailed, Failing, TextRead, CancelAnswered, CancelFailed,
    ReleaseSentImagePreview, calls
<1>2. CASE CloseDialog \/ RemoveImages \/ Hide \/ Show \/ Reload \/ OnSend \/
            ImagesRemoved \/ RemoveFailed \/ Poll \/ Sent \/ SendFailed
  BY <1>2 DEF CloseDialog, calls, server, ghosts, bounds, RemoveImages, Asking, Hide,
    Show, Reload, OnSend, ImagesRemoved, RemoveFailed, page, Failing, Poll, Sent,
    SendFailed
<1>3. ASSUME NEW t \in {"none", "some", "over"}, TypeText(t) PROVE UNCHANGED server
  BY <1>3 DEF TypeText, calls, server, ghosts, Asking
<1>4. ASSUME NEW p \in BOOLEAN, OnModelChange(p) PROVE UNCHANGED server
  BY <1>4 DEF OnModelChange, calls, server, ghosts, Asking
<1>5. ASSUME NEW c \in Convs, SelectConversation(c) PROVE UNCHANGED server
  BY <1>5 DEF SelectConversation, server, ghosts, Asking
<1> QED BY <1>1, <1>2, <1>3, <1>4, <1>5 DEF Next, User, Answers, Server

(* The server changes nothing on the page.                                  *)
LEMMA PageStands ==
  ASSUME Server
  PROVE  UNCHANGED <<page, store, home, crossed>>
<1>1. ASSUME NEW f \in Files, CreateUpload(f) \/ ConfirmUpload(f) \/
            CancelUpload(f) \/ ClaimUpload(f) \/ SweepUploads(f) \/ ReclaimAssets(f)
      PROVE  UNCHANGED <<page, store, home, crossed>>
  BY <1>1 DEF CreateUpload, page, ghosts, bounds, ConfirmUpload, CancelUpload,
    CancelUploads, ClaimUpload, calls, Work, SweepUploads, ReclaimAssets, Failing
<1>2. ASSUME NEW f \in Files, NEW k \in running[f], CommitSuccess(f, k) \/
            FinishError(f, k)
      PROVE  UNCHANGED <<page, store, home, crossed>>
  BY <1>2 DEF CommitSuccess, page, calls, ghosts, bounds, Work, FinishError, Failing
<1>3. CASE CancelMany \/ CreateMessage
  BY <1>3 DEF CancelMany, page, ghosts, bounds, CancelUploads, CreateMessage
<1> QED BY <1>1, <1>2, <1>3 DEF Next, User, Answers, Server

(* The types of what the server has.                                        *)
LEMMA ServerTypesStep ==
  ASSUME ServerTypes, AttemptsInv, CallTypes, [Next]_vars
  PROVE  ServerTypes'
<1>1. ASSUME NEW f \in Files, CreateUpload(f) PROVE ServerTypes'
  BY <1>1, UploadsAssumption DEF CreateUpload, SetSrv, Step, page, bounds, Active,
    ServerTypes, Statuses, Terminal, Failed
<1>2. ASSUME NEW f \in Files, ConfirmUpload(f) PROVE ServerTypes'
  BY <1>2, UploadsAssumption DEF ConfirmUpload, SetSrv, page, bounds, ServerTypes,
    Statuses, Active, Terminal, Failed
<1>3. ASSUME NEW f \in Files, CancelUpload(f) PROVE ServerTypes'
  BY <1>3, UploadsAssumption DEF CancelUpload, CancelUploads, Cancellable, Active,
    page, bounds, ServerTypes, Statuses, Terminal, Failed
<1>4. ASSUME NEW f \in Files, ClaimUpload(f) PROVE ServerTypes'
  BY <1>4, UploadsAssumption DEF ClaimUpload, SetSrv, bounds, Work, page, calls,
    ServerTypes, Statuses, Active, Terminal, Failed, AttemptsInv
<1>5. ASSUME NEW f \in Files, SweepUploads(f) PROVE ServerTypes'
  BY <1>5, UploadsAssumption DEF SweepUploads, SetSrv, bounds, Work, page, calls,
    ServerTypes, Statuses, Active, Terminal, Failed
<1>6. ASSUME NEW f \in Files, ReclaimAssets(f) PROVE ServerTypes'
  BY <1>6, UploadsAssumption DEF ReclaimAssets, Failing, Work, page, calls,
    ServerTypes, Statuses, Active, Terminal, Failed
<1>7. ASSUME NEW f \in Files, NEW k \in running[f], CommitSuccess(f, k)
      PROVE  ServerTypes'
  BY <1>7, UploadsAssumption DEF CommitSuccess, Ends, OwnsLease, SetSrv, bounds,
    Work, page, calls, ServerTypes, Statuses, Active, Terminal, Failed
<1>8. ASSUME NEW f \in Files, NEW k \in running[f], FinishError(f, k)
      PROVE  ServerTypes'
  BY <1>8, UploadsAssumption DEF FinishError, Ends, OwnsLease, Failing, SetSrv, Work,
    page, calls, ServerTypes, Statuses, Active, Terminal, Failed
<1>9. CASE CancelMany
  BY <1>9, UploadsAssumption DEF CancelMany, CancelUploads, Cancellable, Active,
    page, bounds, ServerTypes, Statuses, Terminal, Failed
<1>10. CASE CreateMessage
  BY <1>10, UploadsAssumption DEF CreateMessage, Sendable, Bind, page, bounds,
    ServerTypes, Statuses, Active, Terminal, Failed, CallTypes
<1>11. CASE User \/ Answers
  BY <1>11, ServerStands DEF server, ServerTypes
<1>12. CASE UNCHANGED vars
  BY <1>12 DEF vars, page, calls, server, ghosts, bounds, ServerTypes, Statuses,
    Active, Terminal, Failed
<1> QED BY <1>1, <1>2, <1>3, <1>4, <1>5, <1>6, <1>7, <1>8, <1>9, <1>10, <1>11,
  <1>12 DEF Next, User, Answers, Server

(* The attempts of an upload, and what comes of it.                         *)
LEMMA AttemptsStep ==
  ASSUME ServerTypes, AttemptsInv, StartInv, CallTypes, [Next]_vars
  PROVE  AttemptsInv'
<1>1. ASSUME NEW f \in Files, CreateUpload(f) PROVE AttemptsInv'
  BY <1>1, UploadsAssumption DEF CreateUpload, SetSrv, Step, page, bounds, Active,
    AttemptsInv, ServerTypes, Statuses, StartInv
<1>2. ASSUME NEW f \in Files, ConfirmUpload(f) PROVE AttemptsInv'
  BY <1>2, UploadsAssumption DEF ConfirmUpload, SetSrv, page, bounds, AttemptsInv,
    ServerTypes, Statuses, Active
<1>3. ASSUME NEW f \in Files, CancelUpload(f) PROVE AttemptsInv'
  BY <1>3, UploadsAssumption DEF CancelUpload, CancelUploads, Cancellable, Active,
    page, bounds, AttemptsInv, ServerTypes, Statuses
<1>4. ASSUME NEW f \in Files, ClaimUpload(f) PROVE AttemptsInv'
  BY <1>4, UploadsAssumption DEF ClaimUpload, SetSrv, bounds, Work, page, calls,
    AttemptsInv, ServerTypes, Statuses, Active
<1>5. ASSUME NEW f \in Files, SweepUploads(f) PROVE AttemptsInv'
  BY <1>5, UploadsAssumption DEF SweepUploads, SetSrv, bounds, Work, page, calls,
    AttemptsInv, ServerTypes, Statuses, Active
<1>6. ASSUME NEW f \in Files, ReclaimAssets(f) PROVE AttemptsInv'
  BY <1>6, UploadsAssumption DEF ReclaimAssets, Failing, Work, page, calls,
    AttemptsInv, ServerTypes, Statuses, Active
<1>7. ASSUME NEW f \in Files, NEW k \in running[f], CommitSuccess(f, k)
      PROVE  AttemptsInv'
  BY <1>7, UploadsAssumption DEF CommitSuccess, Ends, OwnsLease, SetSrv, bounds,
    Work, page, calls, AttemptsInv, ServerTypes, Statuses, Active
<1>8. ASSUME NEW f \in Files, NEW k \in running[f], FinishError(f, k)
      PROVE  AttemptsInv'
  BY <1>8, UploadsAssumption DEF FinishError, Ends, OwnsLease, Failing, SetSrv, Work,
    page, calls, AttemptsInv, ServerTypes, Statuses, Active
<1>9. CASE CancelMany
  BY <1>9, UploadsAssumption DEF CancelMany, CancelUploads, Cancellable, Active,
    page, bounds, AttemptsInv, ServerTypes, Statuses
<1>10. CASE CreateMessage
  BY <1>10, UploadsAssumption DEF CreateMessage, Sendable, Bind, page, bounds,
    AttemptsInv, ServerTypes, Statuses, Active, CallTypes
<1>11. CASE User \/ Answers
  BY <1>11, ServerStands DEF server, AttemptsInv
<1>12. CASE UNCHANGED vars
  BY <1>12 DEF vars, page, calls, server, ghosts, bounds, AttemptsInv, ServerTypes,
    Statuses, Active
<1> QED BY <1>1, <1>2, <1>3, <1>4, <1>5, <1>6, <1>7, <1>8, <1>9, <1>10, <1>11,
  <1>12 DEF Next, User, Answers, Server

-----------------------------------------------------------------------------
(* The quota.  How the uploads in flight change with a status.              *)
LEMMA QuotaChange ==
  ASSUME ServerTypes, ReservedExact, NEW f \in Files, NEW s \in Statuses, SetSrv(f, s),
         \/ srv[f] \notin Active /\ s \in Active /\ reserved' = reserved + 1
         \/ srv[f] \in Active /\ s \notin Active /\ reserved' = reserved - 1
         \/ (srv[f] \in Active <=> s \in Active) /\ reserved' = reserved
  PROVE  ReservedExact'
<1>1. IsFiniteSet(Inflight)
  BY UploadsAssumption, FS_Subset DEF Inflight
<1>2. \A g \in Files : srv'[g] = IF g = f THEN s ELSE srv[g]
  BY DEF SetSrv, ServerTypes
<1>3. CASE srv[f] \notin Active /\ s \in Active /\ reserved' = reserved + 1
  <2>1. Inflight' = Inflight \cup {f} /\ f \notin Inflight
    BY <1>2, <1>3 DEF Inflight
  <2> QED BY <1>1, <1>3, <2>1, FS_AddElement DEF ReservedExact
<1>4. CASE srv[f] \in Active /\ s \notin Active /\ reserved' = reserved - 1
  <2>1. Inflight' = Inflight \ {f} /\ f \in Inflight
    BY <1>2, <1>4 DEF Inflight
  <2> QED BY <1>1, <1>4, <2>1, FS_RemoveElement DEF ReservedExact
<1>5. CASE (srv[f] \in Active <=> s \in Active) /\ reserved' = reserved
  <2>1. Inflight' = Inflight
    BY <1>2, <1>5 DEF Inflight
  <2> QED BY <1>5, <2>1 DEF ReservedExact
<1> QED BY <1>3, <1>4, <1>5

(* cancel_uploads gives back what its uploads in flight had reserved.       *)
LEMMA QuotaCancel ==
  ASSUME ServerTypes, ReservedExact, NEW S \in SUBSET Files, CancelUploads(S)
  PROVE  ReservedExact'
<1>1. IsFiniteSet(Inflight)
  BY UploadsAssumption, FS_Subset DEF Inflight
<1>2. Inflight' = Inflight \ S
  BY DEF CancelUploads, Inflight, Active
<1>3. Cardinality(Inflight \ S) = Cardinality(Inflight) - Cardinality(Inflight \cap S)
  BY <1>1, FS_Difference
<1>4. Inflight \cap S = S \cap Inflight /\ reserved' = reserved - Cardinality(S \cap Inflight)
  BY DEF CancelUploads
<1> QED BY <1>2, <1>3, <1>4 DEF ReservedExact

(* _locked_quota: whoever ends an upload gives back what it has reserved.   *)
LEMMA ReservedStep ==
  ASSUME ServerTypes, ReservedExact, StartInv, CallTypes, [Next]_vars
  PROVE  ReservedExact'
<1>1. ASSUME NEW f \in Files, ReclaimAssets(f) PROVE ReservedExact'
  BY <1>1 DEF ReclaimAssets, page, calls, ghosts, Failing, Work, ReservedExact, Inflight
<1>2. CASE CreateMessage
  BY <1>2 DEF CreateMessage, page, bounds, ReservedExact, Inflight
<1>3. ASSUME NEW f \in Files, CreateUpload(f) PROVE ReservedExact'
  BY <1>3, QuotaChange DEF CreateUpload, Step, page, bounds, Active, ReservedExact,
    ServerTypes, Statuses, Terminal, Failed, StartInv
<1>4. ASSUME NEW f \in Files, ConfirmUpload(f) PROVE ReservedExact'
  <2>1. CASE UNCHANGED <<srv, reserved>>
    BY <2>1 DEF ReservedExact, Inflight
  <2>2. CASE srv[f] = "pending" /\ SetSrv(f, "queued") /\ UNCHANGED reserved
    BY <2>2, QuotaChange DEF Statuses, Active
  <2>3. CASE srv[f] = "pending" /\ SetSrv(f, "expired") /\ reserved' = reserved - 1
    BY <2>3, QuotaChange DEF Statuses, Active, Terminal, Failed
  <2> QED BY <1>4, <2>1, <2>2, <2>3 DEF ConfirmUpload
<1>5. ASSUME NEW f \in Files, CancelUpload(f) PROVE ReservedExact'
  BY <1>5, QuotaCancel DEF CancelUpload
<1>6. ASSUME NEW f \in Files, ClaimUpload(f) PROVE ReservedExact'
  BY <1>6, QuotaChange DEF ClaimUpload, bounds, Work, page, calls, ReservedExact,
    ServerTypes, Statuses, Active, Terminal, Failed
<1>7. ASSUME NEW f \in Files, SweepUploads(f) PROVE ReservedExact'
  BY <1>7, QuotaChange DEF SweepUploads, bounds, Work, page, calls, ReservedExact,
    ServerTypes, Statuses, Active, Terminal, Failed
<1>8. ASSUME NEW f \in Files, NEW k \in running[f], CommitSuccess(f, k)
      PROVE  ReservedExact'
  <2>1. CASE ~OwnsLease(f, k)
    BY <1>8, <2>1 DEF CommitSuccess, ReservedExact, Inflight
  <2>2. CASE OwnsLease(f, k)
    BY <1>8, <2>2, QuotaChange DEF CommitSuccess, OwnsLease, Statuses, Active, Terminal
  <2> QED BY <2>1, <2>2
<1>9. ASSUME NEW f \in Files, NEW k \in running[f], FinishError(f, k)
      PROVE  ReservedExact'
  BY <1>9, QuotaChange DEF FinishError, Ends, OwnsLease, Failing, Work, page, calls,
    ReservedExact, ServerTypes, Statuses, Active, Terminal, Failed
<1>10. CASE CancelMany
  <2>1. rem.ids \in SUBSET Files
    BY <1>10, UploadsAssumption DEF CancelMany, CallTypes
  <2> QED BY <1>10, <2>1, QuotaCancel DEF CancelMany
<1>11. CASE User \/ Answers
  BY <1>11, ServerStands DEF server, ReservedExact, Inflight
<1>12. CASE UNCHANGED vars
  BY <1>12 DEF vars, page, calls, server, ghosts, bounds, ReservedExact, Inflight
<1> QED BY <1>1, <1>2, <1>3, <1>4, <1>5, <1>6, <1>7, <1>8, <1>9, <1>10, <1>11,
  <1>12 DEF Next, User, Answers, Server

-----------------------------------------------------------------------------
(* The operators that several actions share.                                *)

(* Giving up puts leaves an upload as it is or makes it idle.               *)
LEMMA AbortIs ==
  ASSUME CallTypes, NEW S
  PROVE  /\ DOMAIN Abort(S) = Files
         /\ \A f \in Files : Abort(S)[f] \in {up[f], Idle}
BY DEF Abort

(* A text that was expanded goes to the prompt and to a stored draft.       *)
LEMMA ExpandedIs ==
  ASSUME PageTypes, NEW c, NEW l, Expanded(c, l)
  PROVE  text' \in Texts /\ store' = Persist(c, l, text') /\ crossed' = (crossed \/ c # at)
<1>1. CASE text = "none"
  BY <1>1 DEF Expanded, Texts
<1>2. CASE text = "some"
  BY <1>2 DEF Expanded, Texts
<1>3. CASE text = "over"
  BY <1>3 DEF Expanded, Texts
<1> QED BY <1>1, <1>2, <1>3 DEF PageTypes, Texts

(* startFile waits for one thing after the other, so giving up, or going on *)
(* while the server has what it had, keeps StartInv.                        *)
LEMMA StartStays ==
  ASSUME StartInv, srv' = srv,
         \A f \in Files : up'[f].pc = "idle" \/ (up'[f].pc = up[f].pc /\ up'[f].rec = up[f].rec)
  PROVE  StartInv'
BY DEF StartInv

(* A file that is added begins with the request that creates its upload.    *)
LEMMA StartsAt ==
  ASSUME CallTypes, TraceInv, StartInv, NEW f \in Files, fate[f] = "none", srv' = srv,
         StartFile(f)
  PROVE  StartInv'
<1>1. \A g \in Files : g # f => up'[g] = up[g]
  BY DEF StartFile, CallTypes
<1>2. up'[f].pc = "create" /\ srv[f] = "none"
  BY DEF StartFile, CallTypes, TraceInv, Idle
<1> QED BY <1>1, <1>2 DEF StartInv

(* So it is with every step of the page and of the server.                   *)
LEMMA StartStep ==
  ASSUME CallTypes, ServerTypes, TraceInv, StartInv, [Next]_vars
  PROVE  StartInv'
<1>1. ASSUME NEW f \in Files, Expand(f) \/ CancelFailed(f) \/
            ReleaseSentImagePreview(f) \/ ReclaimAssets(f)
      PROVE  StartInv'
  BY <1>1 DEF Expand, page, server, ghosts, Asking, CancelFailed, bounds, Failing,
    ReleaseSentImagePreview, calls, ReclaimAssets, Work, StartInv
<1>2. CASE CloseDialog \/ Hide \/ Show \/ OnSend \/ RemoveFailed \/ Poll \/
            SendFailed \/ CreateMessage
  BY <1>2 DEF CloseDialog, calls, server, ghosts, bounds, Hide, Asking, Show, OnSend,
    RemoveFailed, page, Failing, Poll, SendFailed, CreateMessage, StartInv
<1>3. ASSUME NEW t \in {"none", "some", "over"}, TypeText(t) PROVE StartInv'
  BY <1>3 DEF TypeText, calls, server, ghosts, Asking, StartInv
<1>4. ASSUME NEW p \in BOOLEAN, OnModelChange(p) PROVE StartInv'
  BY <1>4 DEF OnModelChange, calls, server, ghosts, Asking, StartInv
<1>5. ASSUME NEW f \in Files, AddFile(f) PROVE StartInv'
  <2>1. CASE up' = up
    BY <1>5, <2>1, StartStays DEF AddFile, server
  <2>2. CASE up' # up
    BY <1>5, <2>2, StartsAt DEF AddFile, Addable, server
  <2> QED BY <2>1, <2>2
<1>6. ASSUME NEW f \in Files, PasteText(f) PROVE StartInv'
  <2>1. CASE up' = up
    BY <1>6, <2>1, StartStays DEF PasteText, server
  <2>2. CASE up' # up
    BY <1>6, <2>2, StartsAt DEF PasteText, Addable, server
  <2> QED BY <2>1, <2>2
<1>7. ASSUME NEW f \in Files, ConvertPrompt(f) PROVE StartInv'
  <2>1. CASE up' = up
    BY <1>7, <2>1, StartStays DEF ConvertPrompt, server
  <2>2. CASE up' # up
    BY <1>7, <2>2, StartsAt DEF ConvertPrompt, Addable, server
  <2> QED BY <2>1, <2>2
<1>8. ASSUME NEW f \in Files, CancelAttachment(f) PROVE StartInv'
  <2>1. srv' = srv /\ up' \in {up, Abort({f})}
    BY <1>8 DEF CancelAttachment, server
  <2>2. \A g \in Files : up'[g] \in {up[g], Idle}
    BY <2>1, AbortIs
  <2> QED BY <2>1, <2>2, StartStays DEF Idle
<1>9. ASSUME NEW c \in Convs, SelectConversation(c) PROVE StartInv'
  BY <1>9 DEF SelectConversation, Asking, Stale, server, ghosts, IsUploadFailed,
    Abort, Failed, Idle, StartInv, CallTypes, ServerTypes, Statuses, Active, Terminal
<1>10. CASE RemoveImages
  BY <1>10 DEF RemoveImages, Asking, DropImages, server, Abort, Idle, StartInv,
    CallTypes, ServerTypes, Statuses, Active, Terminal, Failed
<1>11. CASE Reload
  BY <1>11 DEF Reload, Asking, Idle, server, ghosts, IsUploadFailed, Failed,
    StartInv, CallTypes, ServerTypes, Statuses, Active, Terminal
<1>12. ASSUME NEW f \in Files, CreateAnswered(f) PROVE StartInv'
  BY <1>12 DEF CreateAnswered, Step, Finish, server, ghosts, bounds, Idle, StartInv,
    CallTypes, ServerTypes, Statuses, Active, Terminal, Failed
<1>13. ASSUME NEW f \in Files, PutAnswered(f) PROVE StartInv'
  BY <1>13 DEF PutAnswered, Step, page, server, ghosts, bounds, StartInv, CallTypes,
    ServerTypes, Statuses, Active, Terminal, Failed
<1>14. ASSUME NEW f \in Files, ConfirmAnswered(f) PROVE StartInv'
  BY <1>14 DEF ConfirmAnswered, Finish, IsUploadFailed, server, bounds, Idle, Failed,
    StartInv, CallTypes, ServerTypes, Statuses, Active, Terminal
<1>15. ASSUME NEW f \in Files, StartFailed(f) PROVE StartInv'
  BY <1>15 DEF StartFailed, Finish, bounds, Failing, server, Idle, Active, StartInv,
    CallTypes, ServerTypes, Statuses, Terminal, Failed
<1>16. ASSUME NEW f \in Files, TextRead(f) PROVE StartInv'
  <2>1. srv' = srv /\ up' \in {up, Abort({f})}
    BY <1>16 DEF TextRead, server, Failing
  <2>2. \A g \in Files : up'[g] \in {up[g], Idle}
    BY <2>1, AbortIs
  <2> QED BY <2>1, <2>2, StartStays DEF Idle
<1>17. ASSUME NEW f \in Files, CancelAnswered(f) PROVE StartInv'
  BY <1>17 DEF CancelAnswered, Abort, server, bounds, Idle, StartInv, CallTypes,
    ServerTypes, Statuses, Active, Terminal, Failed
<1>18. CASE ImagesRemoved
  BY <1>18 DEF ImagesRemoved, DropImages, server, bounds, Abort, Idle, StartInv,
    CallTypes, ServerTypes, Statuses, Active, Terminal, Failed
<1>19. CASE Sent
  BY <1>19 DEF Sent, EmptyDraft, Stale, Clear, server, bounds, NoCards, Abort, Idle,
    StartInv, CallTypes, ServerTypes, Statuses, Active, Terminal, Failed
<1>20. ASSUME NEW f \in Files, CreateUpload(f) PROVE StartInv'
  BY <1>20 DEF CreateUpload, SetSrv, Step, page, ghosts, bounds, Active, StartInv,
    CallTypes, ServerTypes, Statuses, Terminal, Failed
<1>21. ASSUME NEW f \in Files, ConfirmUpload(f) PROVE StartInv'
  BY <1>21 DEF ConfirmUpload, SetSrv, page, ghosts, bounds, StartInv, CallTypes,
    ServerTypes, Statuses, Active, Terminal, Failed
<1>22. ASSUME NEW f \in Files, CancelUpload(f) PROVE StartInv'
  BY <1>22 DEF CancelUpload, CancelUploads, Active, page, ghosts, bounds, StartInv,
    CallTypes, ServerTypes, Statuses, Terminal, Failed
<1>23. ASSUME NEW f \in Files, ClaimUpload(f) PROVE StartInv'
  BY <1>23 DEF ClaimUpload, SetSrv, bounds, Work, page, calls, ghosts, StartInv,
    CallTypes, ServerTypes, Statuses, Active, Terminal, Failed
<1>24. ASSUME NEW f \in Files, SweepUploads(f) PROVE StartInv'
  BY <1>24 DEF SweepUploads, SetSrv, bounds, Work, page, calls, ghosts, StartInv,
    CallTypes, ServerTypes, Statuses, Active, Terminal, Failed
<1>25. ASSUME NEW f \in Files, NEW k \in running[f], CommitSuccess(f, k)
      PROVE  StartInv'
  BY <1>25 DEF CommitSuccess, Ends, OwnsLease, SetSrv, bounds, Work, page, calls,
    ghosts, StartInv, CallTypes, ServerTypes, Statuses, Active, Terminal, Failed
<1>26. ASSUME NEW f \in Files, NEW k \in running[f], FinishError(f, k)
      PROVE  StartInv'
  BY <1>26 DEF FinishError, Ends, OwnsLease, Failing, SetSrv, Work, page, calls,
    ghosts, StartInv, CallTypes, ServerTypes, Statuses, Active, Terminal, Failed
<1>27. CASE CancelMany
  BY <1>27 DEF CancelMany, CancelUploads, Active, page, ghosts, bounds, StartInv,
    CallTypes, ServerTypes, Statuses, Terminal, Failed
<1>28. CASE UNCHANGED vars
  BY <1>28 DEF vars, page, calls, server, ghosts, bounds, StartInv
<1> QED BY <1>1, <1>2, <1>3, <1>4, <1>5, <1>6, <1>7, <1>8, <1>9, <1>10, <1>11, <1>12,
  <1>13, <1>14, <1>15, <1>16, <1>17, <1>18, <1>19, <1>20, <1>21, <1>22, <1>23, <1>24,
  <1>25, <1>26, <1>27, <1>28 DEF Next, User, Answers, Server

(* The types of the history and of the bounds.                               *)
LEMMA GhostTypesStep ==
  ASSUME PageTypes, CallTypes, GhostTypes, [Next]_vars
  PROVE  GhostTypes'
<1>1. ASSUME NEW f \in Files, CreateAnswered(f) \/ PutAnswered(f) \/
            ReleaseSentImagePreview(f) \/ CreateUpload(f) \/ ConfirmUpload(f) \/
            CancelUpload(f) \/ ClaimUpload(f) \/ SweepUploads(f)
      PROVE  GhostTypes'
  BY <1>1 DEF CreateAnswered, server, ghosts, bounds, PutAnswered, page,
    ReleaseSentImagePreview, calls, CreateUpload, ConfirmUpload, CancelUpload,
    CancelUploads, ClaimUpload, Work, SweepUploads, GhostTypes
<1>2. ASSUME NEW f \in Files, NEW k \in running[f], CommitSuccess(f, k)
      PROVE  GhostTypes'
  BY <1>2 DEF CommitSuccess, page, calls, ghosts, bounds, Work, GhostTypes
<1>3. CASE CloseDialog \/ Show \/ CancelMany
  BY <1>3 DEF CloseDialog, calls, server, ghosts, bounds, Show, CancelMany, page,
    CancelUploads, GhostTypes
<1>4. ASSUME NEW t \in {"none", "some", "over"}, TypeText(t) PROVE GhostTypes'
  BY <1>4, UploadsAssumption, ExpandedIs DEF TypeText, Asking, calls, server, ghosts,
    GhostTypes
<1>5. ASSUME NEW f \in Files, AddFile(f) PROVE GhostTypes'
  BY <1>5, UploadsAssumption, ExpandedIs DEF AddFile, Addable, Asking, StartFile,
    server, GhostTypes, PageTypes
<1>6. ASSUME NEW f \in Files, PasteText(f) PROVE GhostTypes'
  BY <1>6, UploadsAssumption, ExpandedIs DEF PasteText, Addable, Asking, StartFile,
    server, GhostTypes, PageTypes
<1>7. ASSUME NEW f \in Files, ConvertPrompt(f) PROVE GhostTypes'
  BY <1>7, UploadsAssumption, ExpandedIs DEF ConvertPrompt, Addable, Asking,
    StartFile, server, GhostTypes, PageTypes
<1>8. ASSUME NEW f \in Files, CancelAttachment(f) PROVE GhostTypes'
  <2>1. home' = home /\ crossed' = crossed /\ fate' \in {fate, Fate({f}, "removed")}
    BY <1>8 DEF CancelAttachment
  <2>2. asked' \in 0..MaxAsked /\ faults' = faults
    BY <1>8, UploadsAssumption DEF CancelAttachment, Asking, GhostTypes
  <2> QED BY <2>1, <2>2 DEF GhostTypes, Fate
<1>9. ASSUME NEW f \in Files, Expand(f) PROVE GhostTypes'
  BY <1>9, UploadsAssumption, ExpandedIs DEF Expand, Asking, page, server, ghosts,
    GhostTypes
<1>10. ASSUME NEW p \in BOOLEAN, OnModelChange(p) PROVE GhostTypes'
  BY <1>10, UploadsAssumption, ExpandedIs DEF OnModelChange, Asking, calls, server,
    ghosts, GhostTypes
<1>11. ASSUME NEW c \in Convs, SelectConversation(c) PROVE GhostTypes'
  BY <1>11, UploadsAssumption, ExpandedIs DEF SelectConversation, Asking, server,
    ghosts, IsUploadFailed, Failed, GhostTypes
<1>12. CASE RemoveImages
  BY <1>12, UploadsAssumption, ExpandedIs DEF RemoveImages, Asking, DropImages,
    server, Fate, GhostTypes
<1>13. CASE Hide
  BY <1>13, UploadsAssumption, ExpandedIs DEF Hide, Asking, calls, server, ghosts,
    GhostTypes
<1>14. CASE Reload
  BY <1>14, UploadsAssumption, ExpandedIs DEF Reload, Asking, server, ghosts,
    IsUploadFailed, Failed, GhostTypes
<1>15. CASE OnSend
  BY <1>15, UploadsAssumption, ExpandedIs DEF OnSend, Asking, server, ghosts,
    HasModelConsumableAttachment, ReadyImagesAllowed, IsUploadReady,
    HasPendingAttachments, HasFailedAttachments, IsUploadInProgress, IsUploadFailed,
    Active, Failed, GhostTypes
<1>16. ASSUME NEW f \in Files, ConfirmAnswered(f) PROVE GhostTypes'
  BY <1>16, UploadsAssumption, ExpandedIs DEF ConfirmAnswered, Finish,
    IsUploadFailed, LoseCards, server, bounds, Failed, Fate, GhostTypes
<1>17. ASSUME NEW f \in Files, StartFailed(f) PROVE GhostTypes'
  BY <1>17, UploadsAssumption, ExpandedIs DEF StartFailed, Finish, LoseCards, bounds,
    Failing, server, Fate, Active, GhostTypes
<1>18. ASSUME NEW f \in Files, TextRead(f) PROVE GhostTypes'
  <2>1. home' = home /\ fate' = fate
    BY <1>18 DEF TextRead
  <2>2. crossed' = crossed \/ crossed' = (crossed \/ exp[f] # at)
    BY <1>18, ExpandedIs DEF TextRead
  <2>3. UNCHANGED bounds \/ Failing
    BY <1>18 DEF TextRead
  <2>4. asked' = asked /\ faults' \in 0..MaxFaults
    BY <2>3, UploadsAssumption DEF Failing, bounds, GhostTypes
  <2> QED BY <2>1, <2>2, <2>4 DEF GhostTypes
<1>19. ASSUME NEW f \in Files, CancelAnswered(f) PROVE GhostTypes'
  BY <1>19, UploadsAssumption, ExpandedIs DEF CancelAnswered, Fate, server, bounds,
    GhostTypes
<1>20. ASSUME NEW f \in Files, CancelFailed(f) PROVE GhostTypes'
  <2>1. home' = home /\ fate' = fate
    BY <1>20 DEF CancelFailed
  <2>2. crossed' = crossed \/ crossed' = (crossed \/ del[f].conv # at)
    BY <1>20, ExpandedIs DEF CancelFailed
  <2>3. asked' = asked /\ faults' \in 0..MaxFaults
    BY <1>20, UploadsAssumption DEF CancelFailed, Failing, bounds, GhostTypes
  <2> QED BY <2>1, <2>2, <2>3 DEF GhostTypes
<1>21. CASE ImagesRemoved
  BY <1>21, UploadsAssumption, ExpandedIs DEF ImagesRemoved, DropImages, server,
    bounds, Fate, GhostTypes
<1>22. CASE RemoveFailed
  BY <1>22, UploadsAssumption, ExpandedIs DEF RemoveFailed, bounds, Failing, page,
    server, ghosts, GhostTypes
<1>23. CASE Poll
  BY <1>23, UploadsAssumption, ExpandedIs DEF Poll, LoseCards, calls, server, bounds,
    IsPollingStatus, IsUploadFailed, Fate, Active, Failed, GhostTypes
<1>24. CASE Sent
  BY <1>24, UploadsAssumption, ExpandedIs DEF Sent, EmptyDraft, Clear, server,
    bounds, NoCards, GhostTypes
<1>25. CASE SendFailed
  BY <1>25, UploadsAssumption, ExpandedIs DEF SendFailed, RestoreDraft, bounds,
    Failing, server, GhostTypes
<1>26. ASSUME NEW f \in Files, ReclaimAssets(f) PROVE GhostTypes'
  BY <1>26, UploadsAssumption, ExpandedIs DEF ReclaimAssets, Failing, Work, page,
    calls, ghosts, GhostTypes
<1>27. ASSUME NEW f \in Files, NEW k \in running[f], FinishError(f, k)
      PROVE  GhostTypes'
  BY <1>27, UploadsAssumption, ExpandedIs DEF FinishError, Ends, Failing, SetSrv,
    Work, page, calls, ghosts, GhostTypes
<1>28. CASE CreateMessage
  BY <1>28, UploadsAssumption, ExpandedIs DEF CreateMessage, Bind, page, bounds,
    Fate, GhostTypes
<1>29. CASE UNCHANGED vars
  BY <1>29 DEF vars, page, calls, server, ghosts, bounds, GhostTypes
<1> QED BY <1>1, <1>2, <1>3, <1>4, <1>5, <1>6, <1>7, <1>8, <1>9, <1>10, <1>11, <1>12,
  <1>13, <1>14, <1>15, <1>16, <1>17, <1>18, <1>19, <1>20, <1>21, <1>22, <1>23, <1>24,
  <1>25, <1>26, <1>27, <1>28, <1>29 DEF Next, User, Answers, Server

-----------------------------------------------------------------------------
(* The drafts.  Cards only go from the list that is shown, or with their    *)
(* fate; what is stored is what is shown, for the conversation it is shown  *)
(* in unless the history says otherwise.                                    *)
Goes(l) == /\ \A f \in Files : l[f] # "none" => list[f] # "none"
           /\ \A f \in Files : fate'[f] = "draft" =>
                fate[f] = "draft" /\ (list[f] # "none" => l[f] # "none")

Stands == at' = at /\ home' = home /\ (crossed => crossed')

Shrinks ==
  /\ Stands /\ list' \in [Files -> CardStatus] /\ store' \in [Convs -> Drafts]
  /\ Goes(list')
  /\ \A d \in Convs : \/ store'[d].cards = store[d].cards
                      \/ store'[d].cards = list' /\ (d = at \/ crossed')

(* The steps that do not: a file is added, or another draft is shown.       *)
Jumps == \/ \E f \in Files : AddFile(f) \/ PasteText(f) \/ ConvertPrompt(f)
         \/ \E c \in Convs : SelectConversation(c)
         \/ Reload \/ Sent

(* What is stored is what is shown: here, or where the history says so.     *)
LEMMA PersistShrinks ==
  ASSUME PageTypes, Stands, NEW l \in [Files -> CardStatus], NEW c \in Convs, NEW t \in Texts,
         c = at \/ crossed', Goes(l), list' = l, store' = Persist(c, l, t)
  PROVE  Shrinks
<1>1. store' \in [Convs -> Drafts]
  BY DEF PageTypes, Persist, Drafts
<1>2. \A d \in Convs : store'[d].cards = IF d = c THEN l ELSE store[d].cards
  BY DEF PageTypes, Persist, Drafts
<1> QED BY <1>1, <1>2 DEF Shrinks

(* commit, which writes nothing for a list that stays as it is.             *)
LEMMA CommitShrinks ==
  ASSUME PageTypes, Stands, NEW l \in [Files -> CardStatus], NEW c \in Convs,
         c = at \/ crossed' \/ l = list, Goes(l), Commit(c, l)
  PROVE  Shrinks
<1>1. list' = l
  BY DEF Commit
<1>2. CASE l = list
  BY <1>1, <1>2 DEF Commit, Shrinks, PageTypes
<1>3. CASE l # list
  BY <1>1, <1>3, PersistShrinks DEF Commit, PageTypes
<1> QED BY <1>2, <1>3

(* Some cards are taken from the list.                                      *)
LEMMA WithoutIs ==
  ASSUME PageTypes, NEW S
  PROVE  /\ Without(list, S) \in [Files -> CardStatus]
         /\ \A f \in Files : Without(list, S)[f] = IF f \in S THEN "none" ELSE list[f]
BY DEF Without, PageTypes, CardStatus

(* A file has its last fate once.                                           *)
LEMMA FateIs ==
  ASSUME GhostTypes, NEW S, NEW x \in {"removed", "failed", "sent"}, fate' = Fate(S, x)
  PROVE  \A f \in Files : fate'[f] = "draft" => fate[f] = "draft" /\ f \notin S
BY DEF Fate, GhostTypes

(* Cards that are taken have a fate.                                        *)
LEMMA TakenGo ==
  ASSUME PageTypes, GhostTypes, NEW S, NEW x \in {"removed", "failed", "sent"},
         fate' = Fate(S, x)
  PROVE  Goes(Without(list, S))
BY WithoutIs, FateIs DEF Goes

(* A list that stays, and one that changes the status of a card.            *)
LEMMA StayGoes ==
  ASSUME \A f \in Files : fate'[f] = "draft" => fate[f] = "draft"
  PROVE  Goes(list)
BY DEF Goes

(* Only a card that is shown gets a new status.                             *)
LEMMA RelinkIs ==
  ASSUME PageTypes, NEW f \in Files, NEW s \in CardStatus
  PROVE  /\ Relink(f, s) \in [Files -> CardStatus]
         /\ \A g \in Files : Relink(f, s)[g] = IF g = f /\ list[f] # "none" THEN s ELSE list[g]
BY DEF Relink, PageTypes

(* All but six actions shrink the drafts or leave them alone.                *)
LEMMA Shrinking ==
  ASSUME PageTypes, CallTypes, ServerTypes, GhostTypes, StartInv, ScopeInv, [Next]_vars
  PROVE  Shrinks \/ Jumps
<1>1. ASSUME NEW f \in Files, Expand(f) \/ PutAnswered(f) \/
            ReleaseSentImagePreview(f) \/ CreateUpload(f) \/ ConfirmUpload(f) \/
            CancelUpload(f) \/ ClaimUpload(f) \/ SweepUploads(f) \/ ReclaimAssets(f)
      PROVE  Shrinks
  BY <1>1 DEF Expand, page, server, ghosts, Asking, PutAnswered, bounds,
    ReleaseSentImagePreview, calls, CreateUpload, ConfirmUpload, CancelUpload,
    CancelUploads, ClaimUpload, Work, SweepUploads, ReclaimAssets, Failing, Shrinks,
    Stands, Goes, PageTypes
<1>2. ASSUME NEW f \in Files, NEW k \in running[f], CommitSuccess(f, k) \/
            FinishError(f, k)
      PROVE  Shrinks
  BY <1>2 DEF CommitSuccess, page, calls, ghosts, bounds, Work, FinishError, Failing,
    Shrinks, Stands, Goes, PageTypes
<1>3. CASE CloseDialog \/ Hide \/ Show \/ RemoveFailed \/ CancelMany
  BY <1>3 DEF CloseDialog, calls, server, ghosts, bounds, Hide, Asking, Show,
    RemoveFailed, page, Failing, CancelMany, CancelUploads, Shrinks, Stands, Goes,
    PageTypes
<1>4. ASSUME NEW p \in BOOLEAN, OnModelChange(p) PROVE Shrinks
  BY <1>4 DEF OnModelChange, calls, server, ghosts, Asking, Shrinks, Stands, Goes,
    PageTypes
<1>5. ASSUME NEW t \in {"none", "some", "over"}, TypeText(t) PROVE Shrinks
  <2>1. Stands /\ fate' = fate
    BY <1>5 DEF TypeText, Stands, ghosts
  <2>2. list' = list /\ store' = Persist(at, list, t)
    BY <1>5 DEF TypeText, OnComposerValueChange
  <2> QED BY <2>1, <2>2, StayGoes, PersistShrinks DEF PageTypes, Texts
<1>6. ASSUME NEW f \in Files, CancelAttachment(f) PROVE Shrinks
  <2>1. Stands
    BY <1>6 DEF CancelAttachment, Stands
  <2>2. CASE list[f] = "creating"
    <3>1. Commit(at, Without(list, {f})) /\ fate' = Fate({f}, "removed")
      BY <1>6, <2>2 DEF CancelAttachment
    <3> QED BY <2>1, <3>1, TakenGo, WithoutIs, CommitShrinks DEF PageTypes
  <2>3. CASE list[f] # "creating"
    BY <1>6, <2>1, <2>3, StayGoes DEF CancelAttachment, Shrinks, PageTypes
  <2> QED BY <2>2, <2>3
<1>7. CASE RemoveImages
  <2> DEFINE images == Cards(list) \cap Images
  <2>1. Stands
    BY <1>7 DEF RemoveImages, Stands
  <2>2. CASE DropImages(at, images)
    <3>1. Commit(at, Without(list, images)) /\ fate' = Fate(images, "removed")
      BY <2>2 DEF DropImages
    <3> HIDE DEF images
    <3> QED BY <2>1, <3>1, TakenGo, WithoutIs, CommitShrinks DEF PageTypes
  <2>3. CASE UNCHANGED <<list, store, fate>>
    BY <2>1, <2>3, StayGoes DEF Shrinks, PageTypes
  <2> QED BY <1>7, <2>2, <2>3 DEF RemoveImages
<1>8. CASE OnSend
  <2>1. Stands /\ fate' = fate
    BY <1>8 DEF OnSend, Stands, ghosts
  <2>2. list' = list /\ store' = Persist(at, list, "none")
    BY <1>8 DEF OnSend
  <2> QED BY <2>1, <2>2, StayGoes, PersistShrinks DEF PageTypes, Texts
<1>9. ASSUME NEW f \in Files, CreateAnswered(f) PROVE Shrinks
  <2>1. Stands /\ fate' = fate
    BY <1>9 DEF CreateAnswered, Stands, ghosts
  <2>2. CASE Commit(at, Relink(f, "uploading"))
    <3>1. "uploading" \in CardStatus /\ "uploading" # "none"
      BY DEF CardStatus
    <3>2. Goes(Relink(f, "uploading"))
      BY <2>1, <3>1, RelinkIs DEF Goes
    <3> QED BY <2>1, <2>2, <3>1, <3>2, RelinkIs, CommitShrinks DEF PageTypes
  <2>3. CASE UNCHANGED <<list, store>>
    BY <2>1, <2>3, StayGoes DEF Shrinks, PageTypes
  <2> QED BY <1>9, <2>2, <2>3 DEF CreateAnswered
<1>10. ASSUME NEW f \in Files, ConfirmAnswered(f) PROVE Shrinks
  <2> DEFINE s == DraftFromUpload(up[f].rec)
  <2>1. Stands
    BY <1>10 DEF ConfirmAnswered, Stands
  <2>2. s \in CardStatus /\ (s = "none" <=> IsUploadFailed(up[f].rec))
    BY <1>10 DEF ConfirmAnswered, StartInv, CallTypes, DraftFromUpload, IsUploadFailed,
      CardStatus, Statuses, Active, Terminal, Failed
  <2>3. CASE up[f].live /\ IsUploadFailed(up[f].rec)
    <3>1. Commit(at, Relink(f, s)) /\ fate' = Fate({f} \cap Cards(list), "failed")
      BY <1>10, <2>3 DEF ConfirmAnswered, LoseCards
    <3> HIDE DEF s
    <3>2. \A g \in Files : fate'[g] = "draft" =>
            fate[g] = "draft" /\ ~(g = f /\ list[f] # "none")
      BY <3>1, FateIs DEF Cards
    <3>3. \A g \in Files :
            Relink(f, s)[g] = IF g = f /\ list[f] # "none" THEN s ELSE list[g]
      BY <2>2, RelinkIs
    <3>4. Goes(Relink(f, s))
      BY <3>2, <3>3 DEF Goes
    <3> QED BY <2>1, <2>2, <3>1, <3>4, RelinkIs, CommitShrinks DEF PageTypes
  <2>4. CASE up[f].live /\ ~IsUploadFailed(up[f].rec)
    <3>1. Commit(at, Relink(f, s)) /\ fate' = fate
      BY <1>10, <2>4 DEF ConfirmAnswered
    <3> HIDE DEF s
    <3>2. Goes(Relink(f, s))
      BY <2>2, <2>4, <3>1, RelinkIs DEF Goes
    <3> QED BY <2>1, <2>2, <3>1, <3>2, RelinkIs, CommitShrinks DEF PageTypes
  <2>5. CASE ~up[f].live
    BY <1>10, <2>1, <2>5, StayGoes DEF ConfirmAnswered, Shrinks, PageTypes
  <2> QED BY <2>3, <2>4, <2>5
<1>11. ASSUME NEW f \in Files, StartFailed(f) PROVE Shrinks
  <2>1. Stands
    BY <1>11 DEF StartFailed, Stands
  <2>2. CASE up[f].live
    <3>1. Commit(at, Without(list, {f})) /\ fate' = Fate({f} \cap Cards(list), "failed")
      BY <1>11, <2>2 DEF StartFailed, LoseCards
    <3>2. Goes(Without(list, {f}))
      BY <3>1, WithoutIs, FateIs DEF Goes, Cards
    <3> QED BY <2>1, <3>1, <3>2, WithoutIs, CommitShrinks DEF PageTypes
  <2>3. CASE ~up[f].live
    BY <1>11, <2>1, <2>3, StayGoes DEF StartFailed, Shrinks, PageTypes
  <2> QED BY <2>2, <2>3
<1>12. ASSUME NEW f \in Files, TextRead(f) PROVE Shrinks
  <2>1. at' = at /\ home' = home /\ fate' = fate /\ list' = list /\ exp[f] \in Convs
    BY <1>12 DEF TextRead, CallTypes
  <2>2. CASE Expanded(exp[f], list)
    <3>1. text' \in Texts /\ store' = Persist(exp[f], list, text')
          /\ crossed' = (crossed \/ exp[f] # at)
      BY <2>2, ExpandedIs
    <3>2. Stands /\ (exp[f] = at \/ crossed')
      BY <2>1, <3>1 DEF Stands
    <3> QED BY <2>1, <3>1, <3>2, StayGoes, PersistShrinks DEF PageTypes
  <2>3. CASE UNCHANGED <<store, crossed>>
    BY <2>1, <2>3, StayGoes DEF Shrinks, PageTypes, Stands
  <2> QED BY <1>12, <2>2, <2>3 DEF TextRead
<1>13. ASSUME NEW f \in Files, CancelAnswered(f) PROVE Shrinks
  <2> DEFINE c == del[f].conv
           l == Without(list, {f})
  <2>1. /\ at' = at /\ home' = home /\ list' = l /\ c \in Convs
        /\ fate' = Fate({f}, "removed")
    BY <1>13 DEF CancelAnswered, CallTypes
  <2>2. l \in [Files -> CardStatus] /\ Goes(l)
    BY <2>1, WithoutIs, TakenGo
  <2>3. CASE Expanded(c, list')
    <3>1. text' \in Texts /\ store' = Persist(c, list', text')
          /\ crossed' = (crossed \/ c # at)
      BY <2>3, ExpandedIs
    <3>2. Stands /\ (c = at \/ crossed')
      BY <2>1, <3>1 DEF Stands
    <3> HIDE DEF c, l
    <3> QED BY <2>1, <2>2, <3>1, <3>2, PersistShrinks DEF PageTypes
  <2>4. CASE Commit(c, l) /\ UNCHANGED crossed
    <3>1. ASSUME ~crossed, c # at PROVE l = list
      <4>1. list[f] = "none"
        BY <1>13, <3>1 DEF CancelAnswered, ScopeInv, CallsScoped, DraftsScoped
      <4> QED BY <4>1 DEF Without, PageTypes
    <3> HIDE DEF c, l
    <3> QED BY <2>1, <2>2, <2>4, <3>1, CommitShrinks DEF Stands, GhostTypes
  <2> QED BY <1>13, <2>3, <2>4 DEF CancelAnswered
<1>14. ASSUME NEW f \in Files, CancelFailed(f) PROVE Shrinks
  <2>1. at' = at /\ home' = home /\ fate' = fate /\ list' = list /\ del[f].conv \in Convs
    BY <1>14 DEF CancelFailed, CallTypes
  <2>2. CASE Expanded(del[f].conv, list)
    <3>1. text' \in Texts /\ store' = Persist(del[f].conv, list, text')
          /\ crossed' = (crossed \/ del[f].conv # at)
      BY <2>2, ExpandedIs
    <3>2. Stands /\ (del[f].conv = at \/ crossed')
      BY <2>1, <3>1 DEF Stands
    <3> QED BY <2>1, <3>1, <3>2, StayGoes, PersistShrinks DEF PageTypes
  <2>3. CASE UNCHANGED <<store, crossed>>
    BY <2>1, <2>3, StayGoes DEF Shrinks, PageTypes, Stands
  <2> QED BY <1>14, <2>2, <2>3 DEF CancelFailed
<1>15. CASE ImagesRemoved
  <2> DEFINE S == rem.files
  <2>1. Stands /\ Commit(rem.conv, Without(list, S)) /\ fate' = Fate(S, "removed")
    BY <1>15 DEF ImagesRemoved, DropImages, Stands
  <2>2. rem.conv \in Convs
    BY <1>15 DEF ImagesRemoved, CallTypes
  <2>3. crossed' = crossed
    BY <1>15 DEF ImagesRemoved
  <2>4. ASSUME ~crossed, rem.conv # at PROVE Without(list, S) = list
    <3>1. \A f \in Files : f \in S => list[f] = "none"
      BY <1>15, <2>4 DEF ImagesRemoved, ScopeInv, CallsScoped, DraftsScoped
    <3> QED BY <3>1 DEF Without, PageTypes
  <2> HIDE DEF S
  <2> QED BY <2>1, <2>2, <2>3, <2>4, TakenGo, WithoutIs, CommitShrinks DEF GhostTypes
<1>16. CASE Poll
  <2> DEFINE l == [g \in Files |-> IF g \in Polled THEN DraftFromUpload(srv[g]) ELSE list[g]]
           gone == Cards(list) \ Cards(l)
  <2>1. Stands /\ Commit(at, l) /\ fate' = Fate(gone \cap Cards(list), "failed")
    BY <1>16 DEF Poll, LoseCards, Stands
  <2>2. \A g \in Files : DraftFromUpload(srv[g]) \in CardStatus
    BY DEF DraftFromUpload, IsUploadFailed, CardStatus, ServerTypes, Statuses,
      Active, Terminal
  <2>3. l \in [Files -> CardStatus]
    BY <2>2 DEF PageTypes
  <2>4. \A g \in Files : l[g] # "none" => list[g] # "none"
    BY DEF Polled, IsPollingStatus, Active
  <2>5. Goes(l)
    BY <2>1, <2>4, FateIs DEF Goes, Cards
  <2> HIDE DEF l
  <2> QED BY <2>1, <2>3, <2>5, CommitShrinks DEF PageTypes
<1>17. CASE SendFailed
  <2>1. at' = at /\ home' = home /\ fate' = fate /\ list' = list /\ snd.conv \in Convs
    BY <1>17 DEF SendFailed, CallTypes
  <2>2. /\ text' \in Texts /\ store' = Persist(snd.conv, list, text')
        /\ crossed' = (crossed \/ snd.conv # at)
    BY <1>17 DEF SendFailed, RestoreDraft, CallTypes, PageTypes, Texts
  <2>3. Stands /\ (snd.conv = at \/ crossed')
    BY <2>1, <2>2 DEF Stands
  <2> QED BY <2>1, <2>2, <2>3, StayGoes, PersistShrinks DEF PageTypes
<1>18. CASE CreateMessage
  <2>1. UNCHANGED <<at, home, crossed, list, store>> /\ fate' = Fate(snd.files, "sent")
    BY <1>18, PageStands DEF CreateMessage, Bind, page
  <2>2. Goes(list)
    BY <2>1, FateIs, StayGoes
  <2> QED BY <2>1, <2>2 DEF Shrinks, Stands, PageTypes
<1>19. CASE UNCHANGED vars
  BY <1>19 DEF vars, page, calls, server, ghosts, bounds, Shrinks, Stands, Goes,
    PageTypes
<1> QED BY <1>1, <1>2, <1>3, <1>4, <1>5, <1>6, <1>7, <1>8, <1>9, <1>10, <1>11, <1>12,
  <1>13, <1>14, <1>15, <1>16, <1>17, <1>18, <1>19 DEF Next, User, Answers, Server, Jumps

-----------------------------------------------------------------------------
(* What is left of a file's history.                                        *)
Remembers == /\ crossed => crossed'
             /\ \A f \in Files : home[f] # None => home'[f] = home[f]

DraftInv == DraftsScoped /\ DraftKept

(* Nothing strays and nothing is lost when cards go.                        *)
LEMMA ShrinkKeeps ==
  ASSUME PageTypes, GhostTypes, TraceInv, ScopeInv, Shrinks
  PROVE  DraftInv' /\ Remembers
<1> USE DEF Shrinks, Stands
<1>1. CASE crossed'
  BY <1>1 DEF DraftInv, DraftsScoped, DraftKept, Remembers
<1>2. CASE ~crossed'
  <2>1. ~crossed /\ DraftsScoped /\ DraftKept
    BY <1>2 DEF ScopeInv
  <2>2. DraftsScoped'
    BY <1>2, <2>1 DEF DraftsScoped, Goes
  <2>3. \A f \in Files : fate[f] = "draft" => home[f] \in Convs
    BY DEF TraceInv, GhostTypes
  <2>4. DraftKept'
    BY <1>2, <2>1, <2>3 DEF DraftKept, Goes
  <2> QED BY <2>2, <2>4 DEF DraftInv, Remembers
<1> QED BY <1>1, <1>2

(* A file is added to the draft that is shown.                              *)
LEMMA GrowKeeps ==
  ASSUME PageTypes, GhostTypes, TraceInv, ScopeInv, NEW f \in Files, fate[f] = "none",
         NEW t \in Texts, StartFile(f), UNCHANGED <<at, crossed>>,
         list' = [list EXCEPT ![f] = "creating"], store' = Persist(at, list', t)
  PROVE  DraftInv' /\ Remembers
<1>1. \A d \in Convs : store'[d].cards = IF d = at THEN list' ELSE store[d].cards
  BY DEF PageTypes, Persist, Drafts
<1>2. \A g \in Files : list'[g] = IF g = f THEN "creating" ELSE list[g]
  BY DEF PageTypes
<1>3. \A g \in Files : /\ home'[g] = (IF g = f THEN at ELSE home[g])
                       /\ fate'[g] = (IF g = f THEN "draft" ELSE fate[g])
  BY DEF StartFile, GhostTypes
<1>4. \A c \in Convs : store[c].cards[f] = "none"
  BY DEF TraceInv
<1>5. \A g \in Files : fate[g] = "draft" => home[g] \in Convs
  BY DEF TraceInv, GhostTypes
<1>6. DraftsScoped'
  <2> SUFFICES ASSUME ~crossed PROVE DraftsScoped'
    BY DEF DraftsScoped
  <2>1. /\ \A c \in Convs, g \in Files : store[c].cards[g] # "none" => home[g] = c
        /\ \A g \in Files : list[g] # "none" => home[g] = at
    BY DEF DraftsScoped, ScopeInv
  <2>2. \A g \in Files : list'[g] # "none" => home'[g] = at
    BY <1>2, <1>3, <2>1
  <2>3. \A c \in Convs, g \in Files : store'[c].cards[g] # "none" => home'[g] = c
    <3> SUFFICES ASSUME NEW c \in Convs, NEW g \in Files, store'[c].cards[g] # "none"
                 PROVE  home'[g] = c
      OBVIOUS
    <3>1. CASE c = at
      BY <1>1, <2>2, <3>1
    <3>2. CASE c # at
      <4>1. store[c].cards[g] # "none"
        BY <1>1, <3>2
      <4>2. g # f
        BY <1>4, <4>1
      <4> QED BY <1>3, <2>1, <4>1, <4>2
    <3> QED BY <3>1, <3>2
  <2> QED BY <2>2, <2>3 DEF DraftsScoped
<1>7. DraftKept'
  <2> SUFFICES ASSUME ~crossed, NEW g \in Files, fate'[g] = "draft"
               PROVE  store'[home'[g]].cards[g] # "none" /\ (home'[g] = at => list'[g] # "none")
    BY DEF DraftKept
  <2>1. CASE g = f
    BY <1>1, <1>2, <1>3, <2>1 DEF PageTypes
  <2>2. CASE g # f
    <3>1. fate[g] = "draft" /\ home'[g] = home[g] /\ home[g] \in Convs /\ list'[g] = list[g]
      BY <1>2, <1>3, <1>5, <2>2
    <3>2. store[home[g]].cards[g] # "none" /\ (home[g] = at => list[g] # "none")
      BY <3>1 DEF DraftKept, ScopeInv
    <3> QED BY <1>1, <3>1, <3>2
  <2> QED BY <2>1, <2>2
<1>8. Remembers
  BY <1>3 DEF Remembers, TraceInv
<1> QED BY <1>6, <1>7, <1>8 DEF DraftInv

(* Another draft is shown, as it was stored.                                *)
LEMMA EnterIs ==
  ASSUME PageTypes, NEW c \in Convs, EnterScope(c)
  PROVE  /\ at' = c /\ text' = store[c].text /\ list' = store[c].cards
         /\ store' \in [Convs -> Drafts] /\ \A d \in Convs : store'[d].cards = store[d].cards
<1>1. store[c].cards \in [Files -> CardStatus]
  BY DEF PageTypes, Drafts
<1>2. \A f \in Files : ~IsUploadFailed(store[c].cards[f])
  BY <1>1 DEF IsUploadFailed, Failed, CardStatus
<1>3. Without(store[c].cards, {f \in Files : IsUploadFailed(store[c].cards[f])})
        = store[c].cards
  BY <1>1, <1>2 DEF Without
<1> QED BY <1>3 DEF EnterScope, PageTypes, Drafts

(* Nor when the conversation changes or the page is reloaded.               *)
LEMMA EnterKeeps ==
  ASSUME PageTypes, GhostTypes, TraceInv, ScopeInv, UNCHANGED ghosts, NEW c \in Convs, EnterScope(c)
  PROVE  DraftInv' /\ Remembers
<1>1. /\ at' = c /\ \A f \in Files : list'[f] = store[c].cards[f]
      /\ \A d \in Convs : store'[d].cards = store[d].cards
  BY EnterIs
<1>2. UNCHANGED <<home, fate, crossed>> /\ \A f \in Files : fate[f] = "draft" => home[f] \in Convs
  BY DEF ghosts, TraceInv, GhostTypes
<1>3. DraftsScoped'
  BY <1>1, <1>2 DEF DraftsScoped, ScopeInv
<1>4. DraftKept'
  BY <1>1, <1>2 DEF DraftKept, ScopeInv
<1> QED BY <1>2, <1>3, <1>4 DEF DraftInv, Remembers

(* Drafts stay what their history says, and what is written of a file in    *)
(* that history stays.                                                      *)
LEMMA DraftStep ==
  ASSUME PageTypes, CallTypes, ServerTypes, GhostTypes, TraceInv, StartInv, SendInv, ScopeInv, [Next]_vars
  PROVE  DraftInv' /\ Remembers
<1>1. CASE Shrinks
  BY <1>1, ShrinkKeeps
<1>2. ASSUME NEW f \in Files, fate[f] = "none", NEW t \in Texts, StartFile(f),
             UNCHANGED <<at, crossed>>, Commit(at, [list EXCEPT ![f] = "creating"])
      PROVE  DraftInv' /\ Remembers
  <2>1. list' = [list EXCEPT ![f] = "creating"] /\ list' # list
    BY <1>2 DEF Commit, TraceInv, PageTypes
  <2>2. store' = Persist(at, list', text) /\ text \in Texts
    BY <1>2, <2>1 DEF Commit, PageTypes
  <2> QED BY <1>2, <2>1, <2>2, GrowKeeps
<1>3. ASSUME NEW f \in Files, AddFile(f) PROVE DraftInv' /\ Remembers
  <2>1. CASE ImageBlocked(f)
    <3>1. Shrinks
      BY <1>3, <2>1, StayGoes DEF AddFile, Shrinks, Stands, PageTypes
    <3> QED BY <3>1, ShrinkKeeps
  <2>2. CASE ~ImageBlocked(f)
    BY <1>2, <1>3, <2>2 DEF AddFile, Addable, Texts
  <2> QED BY <2>1, <2>2
<1>4. ASSUME NEW f \in Files, PasteText(f) PROVE DraftInv' /\ Remembers
  <2>1. CASE HasRoom
    BY <1>2, <1>4, <2>1 DEF PasteText, Addable, Texts
  <2>2. CASE ~HasRoom
    <3>1. Stands /\ list' = list /\ fate' = fate
      BY <1>4, <2>2 DEF PasteText, Stands
    <3>2. CASE store' = store
      BY <3>1, <3>2, StayGoes, ShrinkKeeps DEF Shrinks, PageTypes
    <3>3. CASE store' = Persist(at, list, "some")
      <4>1. Shrinks
        BY <3>1, <3>3, StayGoes, PersistShrinks DEF PageTypes, Texts
      <4> QED BY <4>1, ShrinkKeeps
    <3> QED BY <1>4, <2>2, <3>2, <3>3 DEF PasteText, OnComposerValueChange
  <2> QED BY <2>1, <2>2
<1>5. ASSUME NEW f \in Files, ConvertPrompt(f) PROVE DraftInv' /\ Remembers
  <2>1. /\ fate[f] = "none" /\ StartFile(f) /\ UNCHANGED <<at, crossed>>
        /\ list' = [list EXCEPT ![f] = "creating"] /\ store' = Persist(at, list', "none")
    BY <1>5 DEF ConvertPrompt, Addable
  <2> QED BY <2>1, GrowKeeps DEF Texts
<1>6. ASSUME NEW c \in Convs, SelectConversation(c) PROVE DraftInv' /\ Remembers
  BY <1>6, EnterKeeps DEF SelectConversation
<1>7. CASE Reload
  BY <1>7, EnterKeeps DEF Reload, PageTypes
<1>8. CASE Sent
  <2> DEFINE s == snd
  <2>1. /\ s # None /\ s.done /\ s.conv \in Convs /\ s.to \in Convs
        /\ UNCHANGED <<home, fate>> /\ (crossed => crossed')
    BY <1>8 DEF Sent, CallTypes
  <2>2. ASSUME ~crossed'
        PROVE  /\ ~crossed
               /\ \A f \in Files : store[s.conv].cards[f] # "none" => f \in s.files
               /\ s.conv = at \/ at' # at
    BY <1>8, <2>2 DEF Sent, Cards
  <2>3. \A f \in s.files : fate[f] # "draft"
    BY <2>1 DEF SendInv
  <2>4. \A f \in Files : fate[f] = "draft" => home[f] \in Convs
    BY DEF TraceInv, GhostTypes
  <2>5. \A d \in Convs, f \in Files : store'[d].cards[f] =
            IF d = s.conv THEN "none" ELSE store[d].cards[f]
    BY <1>8, <2>1 DEF Sent, Clear, EmptyDraft, NoCards, PageTypes, Drafts
  <2>6. \/ at' = s.to /\ list' = store[at'].cards
        \/ at' = at /\ list' = NoCards
    BY <1>8 DEF Sent, Clear
  <2>7. CASE ~crossed'
    <3>1. DraftsScoped'
      BY <2>1, <2>2, <2>5, <2>6, <2>7 DEF DraftsScoped, ScopeInv, NoCards
    <3>2. DraftKept'
      BY <2>1, <2>2, <2>3, <2>4, <2>5, <2>6, <2>7 DEF DraftKept, ScopeInv, NoCards
    <3> QED BY <2>1, <3>1, <3>2 DEF DraftInv, Remembers
  <2>8. CASE crossed'
    BY <2>1, <2>8 DEF DraftInv, DraftsScoped, DraftKept, Remembers
  <2> QED BY <2>7, <2>8
<1> QED BY <1>1, <1>3, <1>4, <1>5, <1>6, <1>7, <1>8, Shrinking DEF Jumps

(* A request is about files of the conversation it was made in, and those   *)
(* have a history.                                                          *)
LEMMA CallsStay ==
  ASSUME CallTypes, CallsScoped, Remembers, UNCHANGED <<exp, del, rem>>
  PROVE  CallsScoped'
<1> SUFFICES ASSUME ~crossed' PROVE CallsScoped'
  BY DEF CallsScoped
<1>1. ~crossed
  BY DEF Remembers
<1>2. \A f \in Files : /\ del[f] # None => del[f].conv = home[f] /\ del[f].conv \in Convs
                       /\ exp[f] # None => exp[f] = home[f] /\ exp[f] \in Convs
  BY <1>1 DEF CallsScoped, CallTypes
<1>3. rem # None => rem.conv \in Convs /\ \A f \in rem.files : f \in Files /\ home[f] = rem.conv
  BY <1>1, UploadsAssumption DEF CallsScoped, CallTypes
<1>4. None \notin Convs
  BY UploadsAssumption
<1> QED BY <1>2, <1>3, <1>4 DEF CallsScoped, Remembers

(* So it is with every step.                                                *)
LEMMA CallsScopedStep ==
  ASSUME PageTypes, CallTypes, ScopeInv, Remembers, [Next]_vars
  PROVE  CallsScoped'
<1>1. ASSUME NEW f \in Files, AddFile(f) \/ PasteText(f) \/ ConvertPrompt(f) \/
            CreateAnswered(f) \/ PutAnswered(f) \/ ConfirmAnswered(f) \/
            StartFailed(f) \/ ReleaseSentImagePreview(f) \/ CreateUpload(f) \/
            ConfirmUpload(f) \/ ClaimUpload(f) \/ SweepUploads(f) \/ ReclaimAssets(f)
      PROVE  CallsScoped'
  BY <1>1, CallsStay DEF AddFile, server, Asking, PasteText, ConvertPrompt,
    CreateAnswered, ghosts, bounds, PutAnswered, page, ConfirmAnswered, StartFailed,
    Failing, ReleaseSentImagePreview, calls, CreateUpload, ConfirmUpload,
    ClaimUpload, Work, SweepUploads, ReclaimAssets, ScopeInv
<1>2. ASSUME NEW f \in Files, NEW k \in running[f], CommitSuccess(f, k) \/
            FinishError(f, k)
      PROVE  CallsScoped'
  BY <1>2, CallsStay DEF CommitSuccess, page, calls, ghosts, bounds, Work,
    FinishError, Failing, ScopeInv
<1>3. CASE CloseDialog \/ Hide \/ Show \/ OnSend \/ Poll \/ Sent \/ SendFailed \/
            CreateMessage
  BY <1>3, CallsStay DEF CloseDialog, calls, server, ghosts, bounds, Hide, Asking,
    Show, OnSend, Poll, Sent, SendFailed, Failing, CreateMessage, page, ScopeInv
<1>4. ASSUME NEW t \in {"none", "some", "over"}, TypeText(t) PROVE CallsScoped'
  BY <1>4, CallsStay DEF TypeText, calls, server, ghosts, Asking, ScopeInv
<1>5. ASSUME NEW p \in BOOLEAN, OnModelChange(p) PROVE CallsScoped'
  BY <1>5, CallsStay DEF OnModelChange, calls, server, ghosts, Asking, ScopeInv
<1>6. ASSUME NEW c \in Convs, SelectConversation(c) PROVE CallsScoped'
  BY <1>6, CallsStay DEF SelectConversation, server, ghosts, Asking, ScopeInv
<1>7. ASSUME NEW f \in Files, CancelAttachment(f) PROVE CallsScoped'
  <2>1. UNCHANGED <<exp, rem>> /\ f \in Cards(list)
    BY <1>7 DEF CancelAttachment, AttachmentCards, Shown
  <2>2. ~crossed => home[f] = at
    BY <2>1 DEF Cards, ScopeInv, DraftsScoped
  <2>3. CASE del' = del
    BY <2>1, <2>3, CallsStay DEF ScopeInv
  <2>4. CASE AskCancel(f, at, FALSE)
    <3>1. \A g \in Files : del'[g] = IF g = f THEN [conv |-> at, expand |-> FALSE,
      done |-> FALSE]
                                            ELSE del[g]
      BY <2>4 DEF AskCancel, CallTypes
    <3>2. crossed' = crossed /\ home' = home
      BY <1>7 DEF CancelAttachment
    <3> QED BY <2>1, <2>2, <3>1, <3>2 DEF CallsScoped, ScopeInv
  <2> QED BY <1>7, <2>3, <2>4 DEF CancelAttachment
<1>8. ASSUME NEW f \in Files, Expand(f) PROVE CallsScoped'
  <2>1. UNCHANGED <<del, rem, crossed, home>> /\ exp' = [exp EXCEPT ![f] = at]
    BY <1>8 DEF Expand, ghosts
  <2>2. list[f] = "succeeded"
    BY <1>8 DEF Expand, CanExpand
  <2>3. ~crossed => home[f] = at
    BY <2>2 DEF ScopeInv, DraftsScoped
  <2> QED BY <2>1, <2>3 DEF CallsScoped, ScopeInv, CallTypes
<1>9. CASE RemoveImages
  <2>1. UNCHANGED <<exp, del, crossed, home>>
    BY <1>9 DEF RemoveImages
  <2>2. CASE rem' = rem
    BY <2>1, <2>2, CallsStay DEF ScopeInv
  <2>3. CASE rem' # rem
    <3>1. rem'.conv = at /\ rem'.files = Cards(list) \cap Images
      BY <1>9, <2>3 DEF RemoveImages
    <3>2. ~crossed => \A f \in Cards(list) : home[f] = at
      BY DEF ScopeInv, DraftsScoped, Cards
    <3> QED BY <2>1, <3>1, <3>2 DEF CallsScoped, ScopeInv
  <2> QED BY <2>2, <2>3
<1>10. CASE Reload
  BY <1>10, UploadsAssumption DEF Reload, Asking, server, ghosts, IsUploadFailed,
    Failed, CallsScoped, CallTypes, Remembers, ScopeInv, DraftsScoped
<1>11. ASSUME NEW f \in Files, TextRead(f) PROVE CallsScoped'
  BY <1>11, UploadsAssumption DEF TextRead, AskCancel, bounds, Failing, server,
    CallsScoped, CallTypes, Remembers, ScopeInv, DraftsScoped
<1>12. ASSUME NEW f \in Files, CancelAnswered(f) PROVE CallsScoped'
  BY <1>12, UploadsAssumption DEF CancelAnswered, server, bounds, CallsScoped,
    CallTypes, Remembers, ScopeInv, DraftsScoped
<1>13. ASSUME NEW f \in Files, CancelFailed(f) PROVE CallsScoped'
  BY <1>13, UploadsAssumption DEF CancelFailed, bounds, Failing, server, CallsScoped,
    CallTypes, Remembers, ScopeInv, DraftsScoped
<1>14. CASE ImagesRemoved
  BY <1>14, UploadsAssumption DEF ImagesRemoved, server, bounds, CallsScoped,
    CallTypes, Remembers, ScopeInv, DraftsScoped
<1>15. CASE RemoveFailed
  BY <1>15, UploadsAssumption DEF RemoveFailed, bounds, Failing, page, server,
    ghosts, CallsScoped, CallTypes, Remembers, ScopeInv, DraftsScoped
<1>16. ASSUME NEW f \in Files, CancelUpload(f) PROVE CallsScoped'
  BY <1>16, UploadsAssumption DEF CancelUpload, CancelUploads, Active, page, ghosts,
    bounds, CallsScoped, CallTypes, Remembers, ScopeInv, DraftsScoped
<1>17. CASE CancelMany
  BY <1>17, UploadsAssumption DEF CancelMany, CancelUploads, Active, page, ghosts,
    bounds, CallsScoped, CallTypes, Remembers, ScopeInv, DraftsScoped
<1>18. CASE UNCHANGED vars
  BY <1>18, CallsStay DEF vars, page, calls, server, ghosts, bounds, ScopeInv
<1> QED BY <1>1, <1>2, <1>3, <1>4, <1>5, <1>6, <1>7, <1>8, <1>9, <1>10, <1>11, <1>12,
  <1>13, <1>14, <1>15, <1>16, <1>17, <1>18 DEF Next, User, Answers, Server

-----------------------------------------------------------------------------
(* What leaves a trace.                                                     *)
Begins(g) == fate[g] = "none" /\ fate'[g] = "draft" /\ home'[g] \in Convs

Recorded == \A g \in Files :
  \/ /\ home'[g] = home[g] /\ (fate'[g] = "none" <=> fate[g] = "none")
     /\ fate'[g] = "draft" => fate[g] = "draft"
  \/ Begins(g)

Silent == \A g \in Files : fate[g] = "none" =>
  Begins(g) \/ (up'[g].pc = "idle" /\ srv'[g] = "none")

Hidden == \A g \in Files : fate[g] = "none" =>
  Begins(g) \/ (list'[g] = "none" /\ \A c \in Convs : store'[c].cards[g] = "none")

(* A file whose fate becomes something other than a draft's keeps its home. *)
LEMMA FateStays ==
  ASSUME GhostTypes, home' = home, NEW S, NEW x \in {"removed", "failed", "sent"},
         fate' \in {fate, Fate(S, x)}
  PROVE  Recorded
BY DEF Recorded, Fate, GhostTypes

(* A file that is added gets its home.                                      *)
LEMMA StartBegins ==
  ASSUME GhostTypes, PageTypes, CallTypes, NEW f \in Files, fate[f] = "none", StartFile(f)
  PROVE  /\ Recorded /\ Begins(f)
         /\ \A g \in Files : g # f => up'[g] = up[g]
BY DEF StartFile, Recorded, Begins, GhostTypes, PageTypes, CallTypes

(* A fate never becomes "none" again, and a home is for good.                *)
LEMMA RecordedStep ==
  ASSUME PageTypes, CallTypes, GhostTypes, [Next]_vars
  PROVE  Recorded
<1>1. ASSUME NEW f \in Files, Expand(f) \/ CreateAnswered(f) \/ PutAnswered(f) \/
            TextRead(f) \/ CancelFailed(f) \/ ReleaseSentImagePreview(f) \/
            CreateUpload(f) \/ ConfirmUpload(f) \/ CancelUpload(f) \/
            ClaimUpload(f) \/ SweepUploads(f) \/ ReclaimAssets(f)
      PROVE  Recorded
  BY <1>1 DEF Expand, page, server, ghosts, Asking, CreateAnswered, bounds,
    PutAnswered, TextRead, Failing, CancelFailed, ReleaseSentImagePreview, calls,
    CreateUpload, ConfirmUpload, CancelUpload, CancelUploads, ClaimUpload, Work,
    SweepUploads, ReclaimAssets, Recorded
<1>2. ASSUME NEW f \in Files, NEW k \in running[f], CommitSuccess(f, k) \/
            FinishError(f, k)
      PROVE  Recorded
  BY <1>2 DEF CommitSuccess, page, calls, ghosts, bounds, Work, FinishError, Failing,
    Recorded
<1>3. CASE CloseDialog \/ Hide \/ Show \/ Reload \/ OnSend \/ RemoveFailed \/
            Sent \/ SendFailed \/ CancelMany
  BY <1>3 DEF CloseDialog, calls, server, ghosts, bounds, Hide, Asking, Show, Reload,
    OnSend, RemoveFailed, page, Failing, Sent, SendFailed, CancelMany, CancelUploads,
    Recorded
<1>4. ASSUME NEW t \in {"none", "some", "over"}, TypeText(t) PROVE Recorded
  BY <1>4 DEF TypeText, calls, server, ghosts, Asking, Recorded
<1>5. ASSUME NEW p \in BOOLEAN, OnModelChange(p) PROVE Recorded
  BY <1>5 DEF OnModelChange, calls, server, ghosts, Asking, Recorded
<1>6. ASSUME NEW c \in Convs, SelectConversation(c) PROVE Recorded
  BY <1>6 DEF SelectConversation, server, ghosts, Asking, Recorded
<1>7. ASSUME NEW f \in Files, AddFile(f) PROVE Recorded
  BY <1>7, FateStays, StartBegins DEF AddFile, Addable, Asking, server, Recorded
<1>8. ASSUME NEW f \in Files, PasteText(f) PROVE Recorded
  BY <1>8, FateStays, StartBegins DEF PasteText, Addable, Asking, server, Recorded
<1>9. ASSUME NEW f \in Files, ConvertPrompt(f) PROVE Recorded
  BY <1>9, FateStays, StartBegins DEF ConvertPrompt, Addable, Asking, server, Recorded
<1>10. ASSUME NEW f \in Files, CancelAttachment(f) PROVE Recorded
  BY <1>10, FateStays, StartBegins DEF CancelAttachment, Asking, server, Recorded
<1>11. CASE RemoveImages
  BY <1>11, FateStays, StartBegins DEF RemoveImages, Asking, DropImages, server,
    Recorded
<1>12. ASSUME NEW f \in Files, ConfirmAnswered(f) PROVE Recorded
  BY <1>12, FateStays, StartBegins DEF ConfirmAnswered, Finish, IsUploadFailed,
    LoseCards, server, bounds, Failed, Recorded
<1>13. ASSUME NEW f \in Files, StartFailed(f) PROVE Recorded
  BY <1>13, FateStays, StartBegins DEF StartFailed, Finish, LoseCards, bounds,
    Failing, server, Active, Recorded
<1>14. ASSUME NEW f \in Files, CancelAnswered(f) PROVE Recorded
  BY <1>14, FateStays, StartBegins DEF CancelAnswered, server, bounds, Recorded
<1>15. CASE ImagesRemoved
  BY <1>15, FateStays, StartBegins DEF ImagesRemoved, DropImages, server, bounds,
    Recorded
<1>16. CASE Poll
  BY <1>16, FateStays, StartBegins DEF Poll, LoseCards, calls, server, bounds,
    IsPollingStatus, IsUploadFailed, Active, Failed, Recorded
<1>17. CASE CreateMessage
  BY <1>17, FateStays, StartBegins DEF CreateMessage, Bind, page, bounds, Recorded
<1>18. CASE UNCHANGED vars
  BY <1>18 DEF vars, page, calls, server, ghosts, bounds, Recorded
<1> QED BY <1>1, <1>2, <1>3, <1>4, <1>5, <1>6, <1>7, <1>8, <1>9, <1>10, <1>11, <1>12,
  <1>13, <1>14, <1>15, <1>16, <1>17, <1>18 DEF Next, User, Answers, Server

(* No request is made, and nothing is on the server, for a file that was    *)
(* never added.                                                             *)
LEMMA SilentStep ==
  ASSUME PageTypes, CallTypes, ServerTypes, GhostTypes, TraceInv, [Next]_vars
  PROVE  Silent
<1>1. ASSUME NEW f \in Files, Expand(f) \/ CancelFailed(f) \/
            ReleaseSentImagePreview(f) \/ ReclaimAssets(f)
      PROVE  Silent
  BY <1>1 DEF Expand, page, server, ghosts, Asking, CancelFailed, bounds, Failing,
    ReleaseSentImagePreview, calls, ReclaimAssets, Work, Silent, TraceInv
<1>2. CASE CloseDialog \/ Hide \/ Show \/ OnSend \/ RemoveFailed \/ Poll \/
            SendFailed \/ CreateMessage
  BY <1>2 DEF CloseDialog, calls, server, ghosts, bounds, Hide, Asking, Show, OnSend,
    RemoveFailed, page, Failing, Poll, SendFailed, CreateMessage, Silent, TraceInv
<1>3. ASSUME NEW t \in {"none", "some", "over"}, TypeText(t) PROVE Silent
  BY <1>3 DEF TypeText, calls, server, ghosts, Asking, Silent, TraceInv
<1>4. ASSUME NEW p \in BOOLEAN, OnModelChange(p) PROVE Silent
  BY <1>4 DEF OnModelChange, calls, server, ghosts, Asking, Silent, TraceInv
<1>5. ASSUME NEW f \in Files, AddFile(f) PROVE Silent
  <2>1. UNCHANGED server
    BY <1>5 DEF AddFile, server
  <2>2. CASE up' = up
    BY <2>1, <2>2 DEF Silent, TraceInv, server
  <2>3. CASE StartFile(f) /\ fate[f] = "none"
    BY <2>1, <2>3, StartBegins DEF Silent, TraceInv, server
  <2> QED BY <1>5, <2>2, <2>3 DEF AddFile, Addable
<1>6. ASSUME NEW f \in Files, PasteText(f) PROVE Silent
  <2>1. UNCHANGED server
    BY <1>6 DEF PasteText, server
  <2>2. CASE up' = up
    BY <2>1, <2>2 DEF Silent, TraceInv, server
  <2>3. CASE StartFile(f) /\ fate[f] = "none"
    BY <2>1, <2>3, StartBegins DEF Silent, TraceInv, server
  <2> QED BY <1>6, <2>2, <2>3 DEF PasteText, Addable
<1>7. ASSUME NEW f \in Files, ConvertPrompt(f) PROVE Silent
  <2>1. UNCHANGED server
    BY <1>7 DEF ConvertPrompt, server
  <2>2. CASE up' = up
    BY <2>1, <2>2 DEF Silent, TraceInv, server
  <2>3. CASE StartFile(f) /\ fate[f] = "none"
    BY <2>1, <2>3, StartBegins DEF Silent, TraceInv, server
  <2> QED BY <1>7, <2>2, <2>3 DEF ConvertPrompt, Addable
<1>8. ASSUME NEW f \in Files, CancelAttachment(f) PROVE Silent
  <2>1. UNCHANGED server /\ up' \in {up, Abort({f})}
    BY <1>8 DEF CancelAttachment, server
  <2> QED BY <2>1, AbortIs DEF Silent, TraceInv, server, Idle
<1>9. ASSUME NEW c \in Convs, SelectConversation(c) PROVE Silent
  BY <1>9, AbortIs DEF SelectConversation, Asking, Stale, server, ghosts,
    IsUploadFailed, Idle, Silent, TraceInv, CallTypes, ServerTypes, Active
<1>10. CASE RemoveImages
  BY <1>10, AbortIs DEF RemoveImages, Asking, DropImages, server, Idle, Silent,
    TraceInv, CallTypes, ServerTypes, Active
<1>11. CASE Reload
  BY <1>11, AbortIs DEF Reload, Asking, Idle, server, ghosts, IsUploadFailed, Silent,
    TraceInv, CallTypes, ServerTypes, Active
<1>12. ASSUME NEW f \in Files, CreateAnswered(f) PROVE Silent
  BY <1>12, AbortIs DEF CreateAnswered, Step, Finish, server, ghosts, bounds, Idle,
    Silent, TraceInv, CallTypes, ServerTypes, Active
<1>13. ASSUME NEW f \in Files, PutAnswered(f) PROVE Silent
  BY <1>13, AbortIs DEF PutAnswered, Step, page, server, ghosts, bounds, Silent,
    TraceInv, CallTypes, ServerTypes, Active
<1>14. ASSUME NEW f \in Files, ConfirmAnswered(f) PROVE Silent
  BY <1>14, AbortIs DEF ConfirmAnswered, Finish, IsUploadFailed, server, bounds,
    Idle, Silent, TraceInv, CallTypes, ServerTypes, Active
<1>15. ASSUME NEW f \in Files, StartFailed(f) PROVE Silent
  BY <1>15, AbortIs DEF StartFailed, Finish, bounds, Failing, server, Idle, Silent,
    TraceInv, CallTypes, ServerTypes, Active
<1>16. ASSUME NEW f \in Files, TextRead(f) PROVE Silent
  <2>1. UNCHANGED server /\ up' \in {up, Abort({f})}
    BY <1>16 DEF TextRead, server, Failing
  <2> QED BY <2>1, AbortIs DEF Silent, TraceInv, server, Idle
<1>17. ASSUME NEW f \in Files, CancelAnswered(f) PROVE Silent
  BY <1>17, AbortIs DEF CancelAnswered, server, bounds, Idle, Silent, TraceInv,
    CallTypes, ServerTypes, Active
<1>18. CASE ImagesRemoved
  BY <1>18, AbortIs DEF ImagesRemoved, DropImages, server, bounds, Idle, Silent,
    TraceInv, CallTypes, ServerTypes, Active
<1>19. CASE Sent
  <2>1. UNCHANGED server /\ up' \in {Stale, Abort(Files)}
    BY <1>19 DEF Sent, Clear, server
  <2>2. \A g \in Files : Stale[g].pc = Abort(Files)[g].pc /\ Abort(Files)[g] \in {up[g], Idle}
    BY AbortIs DEF Stale, CallTypes, Idle
  <2> QED BY <2>1, <2>2 DEF Silent, TraceInv, server, Idle
<1>20. ASSUME NEW f \in Files, CreateUpload(f) PROVE Silent
  BY <1>20, AbortIs DEF CreateUpload, SetSrv, Step, page, ghosts, bounds, Silent,
    TraceInv, CallTypes, ServerTypes, Active
<1>21. ASSUME NEW f \in Files, ConfirmUpload(f) PROVE Silent
  BY <1>21, AbortIs DEF ConfirmUpload, SetSrv, page, ghosts, bounds, Silent,
    TraceInv, CallTypes, ServerTypes, Active
<1>22. ASSUME NEW f \in Files, CancelUpload(f) PROVE Silent
  BY <1>22, AbortIs DEF CancelUpload, CancelUploads, page, ghosts, bounds, Silent,
    TraceInv, CallTypes, ServerTypes, Active
<1>23. ASSUME NEW f \in Files, ClaimUpload(f) PROVE Silent
  BY <1>23, AbortIs DEF ClaimUpload, SetSrv, bounds, Work, page, calls, ghosts,
    Silent, TraceInv, CallTypes, ServerTypes, Active
<1>24. ASSUME NEW f \in Files, SweepUploads(f) PROVE Silent
  BY <1>24, AbortIs DEF SweepUploads, SetSrv, bounds, Work, page, calls, ghosts,
    Silent, TraceInv, CallTypes, ServerTypes, Active
<1>25. ASSUME NEW f \in Files, NEW k \in running[f], CommitSuccess(f, k)
      PROVE  Silent
  BY <1>25, AbortIs DEF CommitSuccess, Ends, OwnsLease, SetSrv, bounds, Work, page,
    calls, ghosts, Silent, TraceInv, CallTypes, ServerTypes, Active
<1>26. ASSUME NEW f \in Files, NEW k \in running[f], FinishError(f, k) PROVE Silent
  BY <1>26, AbortIs DEF FinishError, Ends, OwnsLease, Failing, SetSrv, Work, page,
    calls, ghosts, Silent, TraceInv, CallTypes, ServerTypes, Active
<1>27. CASE CancelMany
  BY <1>27, AbortIs DEF CancelMany, CancelUploads, page, ghosts, bounds, Silent,
    TraceInv, CallTypes, ServerTypes, Active
<1>28. CASE UNCHANGED vars
  BY <1>28 DEF vars, page, calls, server, ghosts, bounds, Silent, TraceInv
<1> QED BY <1>1, <1>2, <1>3, <1>4, <1>5, <1>6, <1>7, <1>8, <1>9, <1>10, <1>11, <1>12,
  <1>13, <1>14, <1>15, <1>16, <1>17, <1>18, <1>19, <1>20, <1>21, <1>22, <1>23, <1>24,
  <1>25, <1>26, <1>27, <1>28 DEF Next, User, Answers, Server

(* Such a file has no card.                                                 *)
LEMMA HiddenStep ==
  ASSUME PageTypes, CallTypes, ServerTypes, GhostTypes, TraceInv, StartInv, ScopeInv, [Next]_vars
  PROVE  Hidden
<1>1. CASE Shrinks
  BY <1>1 DEF Shrinks, Goes, Hidden, TraceInv
<1>2. ASSUME NEW f \in Files, AddFile(f) \/ PasteText(f) \/ ConvertPrompt(f) PROVE Hidden
  <2>1. CASE UNCHANGED <<list, store>>
    BY <2>1 DEF Hidden, TraceInv
  <2>2. CASE list' = list /\ \E t \in Texts : store' = Persist(at, list, t)
    <3>1. \A d \in Convs : store'[d].cards \in {store[d].cards, list}
      BY <2>2 DEF Persist, PageTypes, Drafts
    <3> QED BY <2>2, <3>1 DEF Hidden, TraceInv
  <2>3. CASE /\ StartFile(f) /\ fate[f] = "none" /\ list' = [list EXCEPT ![f] = "creating"]
             /\ store' = store \/ \E t \in Texts : store' = Persist(at, list', t)
    <3>1. \A d \in Convs : store'[d].cards \in {store[d].cards, list'}
      BY <2>3 DEF Persist, PageTypes, Drafts
    <3>2. Begins(f) /\ \A g \in Files : g # f => list'[g] = list[g]
      BY <2>3, StartBegins DEF PageTypes
    <3> QED BY <3>1, <3>2 DEF Hidden, TraceInv
  <2> QED BY <1>2, <2>1, <2>2, <2>3 DEF AddFile, PasteText, ConvertPrompt, Addable, Commit,
        OnComposerValueChange, Texts, PageTypes
<1>3. ASSUME NEW c \in Convs, EnterScope(c) PROVE Hidden
  BY <1>3, EnterIs DEF Hidden, TraceInv
<1>4. CASE Sent
  <2>1. \A d \in Convs, f \in Files : store'[d].cards[f] =
            IF d = snd.conv THEN "none" ELSE store[d].cards[f]
    BY <1>4 DEF Sent, Clear, EmptyDraft, NoCards, PageTypes, Drafts
  <2>2. snd.to \in Convs /\ (list' = NoCards \/ list' = store[snd.to].cards)
    BY <1>4 DEF Sent, Clear, CallTypes
  <2> QED BY <2>1, <2>2 DEF Hidden, TraceInv, NoCards
<1> QED BY <1>1, <1>2, <1>3, <1>4, Shrinking DEF Jumps, SelectConversation, Reload, PageTypes

(* So files that were never added leave no trace.                           *)
LEMMA TraceStep ==
  ASSUME PageTypes, CallTypes, ServerTypes, GhostTypes, TraceInv, StartInv, ScopeInv, [Next]_vars
  PROVE  TraceInv'
<1>1. Recorded /\ Silent /\ Hidden
  BY RecordedStep, SilentStep, HiddenStep
<1>2. None \notin Convs
  BY UploadsAssumption
<1> QED BY <1>1, <1>2 DEF Recorded, Silent, Hidden, Begins, TraceInv

-----------------------------------------------------------------------------
(* The page.                                                                *)
CardTypes   == list \in [Files -> CardStatus] /\ store \in [Convs -> Drafts]
ScreenTypes == /\ at \in Convs /\ text \in Texts
               /\ fresh \subseteq Images /\ preview \in [Files -> {"none", "hook", "sent", "gone"}]
               /\ pics \in BOOLEAN /\ ask \in {"none", "blocked", "switch"}
               /\ hidden \in BOOLEAN /\ may \in BOOLEAN

(* The types of the cards that are shown and stored.                        *)
LEMMA CardTypesStep ==
  ASSUME PageTypes, CallTypes, ServerTypes, GhostTypes, StartInv, ScopeInv, [Next]_vars
  PROVE  CardTypes'
<1>1. CASE Shrinks
  BY <1>1 DEF Shrinks, CardTypes
<1>2. ASSUME NEW f \in Files, AddFile(f) \/ PasteText(f) \/ ConvertPrompt(f) PROVE CardTypes'
  <2>1. list' \in {list, [list EXCEPT ![f] = "creating"]}
    BY <1>2 DEF AddFile, PasteText, ConvertPrompt, Commit
  <2>2. list' \in [Files -> CardStatus]
    BY <2>1 DEF PageTypes, CardStatus
  <2>3. store' = store \/ \E t \in Texts : store' = Persist(at, list', t)
    BY <1>2 DEF AddFile, PasteText, ConvertPrompt, Commit, OnComposerValueChange, PageTypes,
      Texts
  <2>4. ASSUME NEW t \in Texts, NEW l \in [Files -> CardStatus]
        PROVE  Persist(at, l, t) \in [Convs -> Drafts]
    BY DEF Persist, PageTypes, Drafts
  <2>5. store' \in [Convs -> Drafts]
    BY <2>2, <2>3, <2>4 DEF PageTypes
  <2> QED BY <2>2, <2>5 DEF CardTypes
<1>3. ASSUME NEW c \in Convs, EnterScope(c) PROVE CardTypes'
  BY <1>3, EnterIs DEF CardTypes, PageTypes, Drafts
<1>4. CASE Sent
  <2>1. EmptyDraft \in Drafts /\ NoCards \in [Files -> CardStatus]
    BY DEF EmptyDraft, NoCards, Drafts, Texts, CardStatus
  <2>2. \E c \in Convs : store' = [store EXCEPT ![c] = EmptyDraft]
    BY <1>4 DEF Sent, Clear, CallTypes
  <2>3. snd.to \in Convs /\ (list' = NoCards \/ list' = store[snd.to].cards)
    BY <1>4 DEF Sent, Clear, CallTypes
  <2> QED BY <2>1, <2>2, <2>3 DEF CardTypes, PageTypes, Drafts
<1> QED BY <1>1, <1>2, <1>3, <1>4, Shrinking DEF Jumps, SelectConversation, Reload, PageTypes

(* The types of the rest of the page.                                       *)
LEMMA ScreenTypesStep ==
  ASSUME PageTypes, CallTypes, ServerTypes, [Next]_vars
  PROVE  ScreenTypes'
<1>1. ASSUME NEW f \in Files, Expand(f) \/ CreateAnswered(f) \/ PutAnswered(f) \/
            CreateUpload(f) \/ ConfirmUpload(f) \/ CancelUpload(f) \/
            ClaimUpload(f) \/ SweepUploads(f) \/ ReclaimAssets(f)
      PROVE  ScreenTypes'
  BY <1>1 DEF Expand, page, server, ghosts, Asking, CreateAnswered, bounds,
    PutAnswered, CreateUpload, ConfirmUpload, CancelUpload, CancelUploads,
    ClaimUpload, calls, Work, SweepUploads, ReclaimAssets, Failing, ScreenTypes,
    PageTypes
<1>2. ASSUME NEW f \in Files, NEW k \in running[f], CommitSuccess(f, k) \/
            FinishError(f, k)
      PROVE  ScreenTypes'
  BY <1>2 DEF CommitSuccess, page, calls, ghosts, bounds, Work, FinishError, Failing,
    ScreenTypes, PageTypes
<1>3. CASE RemoveFailed \/ CancelMany \/ CreateMessage
  BY <1>3 DEF RemoveFailed, page, server, ghosts, bounds, Failing, CancelMany,
    CancelUploads, CreateMessage, ScreenTypes, PageTypes
<1>4. ASSUME NEW t \in {"none", "some", "over"}, TypeText(t) PROVE ScreenTypes'
  BY <1>4, ExpandedIs DEF TypeText, Asking, OnComposerValueChange, calls, server,
    ghosts, ScreenTypes, PageTypes, CallTypes, Texts, Drafts
<1>5. ASSUME NEW f \in Files, AddFile(f) PROVE ScreenTypes'
  BY <1>5, ExpandedIs DEF AddFile, Addable, Asking, StartFile, server, ScreenTypes,
    PageTypes
<1>6. ASSUME NEW f \in Files, PasteText(f) PROVE ScreenTypes'
  BY <1>6, ExpandedIs DEF PasteText, Addable, Asking, StartFile,
    OnComposerValueChange, server, ScreenTypes, PageTypes, CallTypes, Texts, Drafts
<1>7. ASSUME NEW f \in Files, ConvertPrompt(f) PROVE ScreenTypes'
  BY <1>7, ExpandedIs DEF ConvertPrompt, Addable, Asking, StartFile, server,
    ScreenTypes, PageTypes, CallTypes, Texts, Drafts
<1>8. ASSUME NEW f \in Files, CancelAttachment(f) PROVE ScreenTypes'
  BY <1>8, ExpandedIs DEF CancelAttachment, Asking, Discard, server, ScreenTypes,
    PageTypes
<1>9. ASSUME NEW p \in BOOLEAN, OnModelChange(p) PROVE ScreenTypes'
  BY <1>9, ExpandedIs DEF OnModelChange, Asking, calls, server, ghosts, ScreenTypes,
    PageTypes
<1>10. ASSUME NEW c \in Convs, SelectConversation(c) PROVE ScreenTypes'
  BY <1>10, ExpandedIs DEF SelectConversation, Asking, EnterScope, Discard, server,
    ghosts, IsUploadFailed, Failed, ScreenTypes, PageTypes, CallTypes, Texts, Drafts
<1>11. CASE CloseDialog
  BY <1>11, ExpandedIs DEF CloseDialog, calls, server, ghosts, bounds, ScreenTypes,
    PageTypes
<1>12. CASE RemoveImages
  BY <1>12, ExpandedIs DEF RemoveImages, Asking, DropImages, server, Discard,
    ScreenTypes, PageTypes
<1>13. CASE Hide
  BY <1>13, ExpandedIs DEF Hide, Asking, calls, server, ghosts, ScreenTypes, PageTypes
<1>14. CASE Show
  BY <1>14, ExpandedIs DEF Show, calls, server, ghosts, bounds, ScreenTypes, PageTypes
<1>15. CASE Reload
  BY <1>15, ExpandedIs DEF Reload, Asking, EnterScope, server, ghosts,
    IsUploadFailed, Failed, ScreenTypes, PageTypes, CallTypes, Texts, Drafts
<1>16. CASE OnSend
  BY <1>16, ExpandedIs DEF OnSend, Asking, server, ghosts,
    HasModelConsumableAttachment, ReadyImagesAllowed, IsUploadReady,
    HasPendingAttachments, HasFailedAttachments, IsUploadInProgress, IsUploadFailed,
    Active, Failed, ScreenTypes, PageTypes, CallTypes, Texts, Drafts
<1>17. ASSUME NEW f \in Files, ConfirmAnswered(f) PROVE ScreenTypes'
  BY <1>17, ExpandedIs DEF ConfirmAnswered, Finish, IsUploadFailed, LoseCards,
    server, bounds, Failed, Discard, ScreenTypes, PageTypes
<1>18. ASSUME NEW f \in Files, StartFailed(f) PROVE ScreenTypes'
  BY <1>18, ExpandedIs DEF StartFailed, Finish, LoseCards, bounds, Failing, server,
    Discard, Active, ScreenTypes, PageTypes
<1>19. ASSUME NEW f \in Files, TextRead(f) PROVE ScreenTypes'
  BY <1>19, ExpandedIs DEF TextRead, bounds, Failing, server, ScreenTypes, PageTypes
<1>20. ASSUME NEW f \in Files, CancelAnswered(f) PROVE ScreenTypes'
  BY <1>20, ExpandedIs DEF CancelAnswered, Discard, server, bounds, ScreenTypes,
    PageTypes
<1>21. ASSUME NEW f \in Files, CancelFailed(f) PROVE ScreenTypes'
  BY <1>21, ExpandedIs DEF CancelFailed, bounds, Failing, server, ScreenTypes, PageTypes
<1>22. ASSUME NEW f \in Files, ReleaseSentImagePreview(f) PROVE ScreenTypes'
  BY <1>22, ExpandedIs DEF ReleaseSentImagePreview, calls, server, ghosts, bounds,
    ScreenTypes, PageTypes
<1>23. CASE ImagesRemoved
  BY <1>23, ExpandedIs DEF ImagesRemoved, DropImages, server, bounds, Discard,
    ScreenTypes, PageTypes
<1>24. CASE Poll
  BY <1>24, ExpandedIs DEF Poll, LoseCards, calls, server, bounds, IsPollingStatus,
    IsUploadFailed, Discard, Active, Failed, ScreenTypes, PageTypes
<1>25. CASE Sent
  BY <1>25, ExpandedIs DEF Sent, Discard, EmptyDraft, Clear, server, bounds, NoCards,
    ScreenTypes, PageTypes, CallTypes, Texts, Drafts
<1>26. CASE SendFailed
  BY <1>26, ExpandedIs DEF SendFailed, RestoreDraft, RestoreImagePreviews, bounds,
    Failing, server, ScreenTypes, PageTypes, CallTypes, Texts, Drafts
<1>27. CASE UNCHANGED vars
  BY <1>27 DEF vars, page, calls, server, ghosts, bounds, ScreenTypes, PageTypes
<1> QED BY <1>1, <1>2, <1>3, <1>4, <1>5, <1>6, <1>7, <1>8, <1>9, <1>10, <1>11, <1>12,
  <1>13, <1>14, <1>15, <1>16, <1>17, <1>18, <1>19, <1>20, <1>21, <1>22, <1>23, <1>24,
  <1>25, <1>26, <1>27 DEF Next, User, Answers, Server

HIDE DEF Waits, Cancellations, Removals, Submissions

(* The types of the requests under way, one kind after the other.           *)
LEMMA WaitsTyped ==
  ASSUME CallTypes
  PROVE  /\ Idle \in Waits
         /\ \A S : Abort(S) \in [Files -> Waits]
         /\ Stale \in [Files -> Waits]
        /\ \A f \in Files : [up EXCEPT ![f].pc = "put"] \in [Files -> Waits]
<1>1. Idle \in Waits
  BY DEF Idle, Waits, Statuses
<1>2. \A S : Abort(S) \in [Files -> Waits]
  BY <1>1 DEF Abort, CallTypes
<1>3. \A w \in Waits : [w EXCEPT !.live = FALSE] \in Waits
  BY DEF Waits
<1>4. Stale \in [Files -> Waits]
  BY <1>2, <1>3 DEF Stale
<1>5. \A f \in Files : [up EXCEPT ![f].pc = "put"] \in [Files -> Waits]
  BY DEF CallTypes, Waits
<1> QED BY <1>1, <1>2, <1>4, <1>5

(* startFile.                                                               *)
LEMMA UpTypes ==
  ASSUME PageTypes, CallTypes, ServerTypes, GhostTypes, [Next]_vars
  PROVE  up' \in [Files -> Waits]
<1>1. ASSUME NEW f \in Files, Expand(f) \/ CancelFailed(f) \/
            ReleaseSentImagePreview(f) \/ CancelUpload(f) \/ ClaimUpload(f) \/
            SweepUploads(f) \/ ReclaimAssets(f)
      PROVE  up' \in [Files -> Waits]
  BY <1>1 DEF Expand, page, server, ghosts, Asking, CancelFailed, bounds, Failing,
    ReleaseSentImagePreview, calls, CancelUpload, CancelUploads, ClaimUpload, Work,
    SweepUploads, ReclaimAssets, CallTypes
<1>2. ASSUME NEW f \in Files, NEW k \in running[f], CommitSuccess(f, k) \/
            FinishError(f, k)
      PROVE  up' \in [Files -> Waits]
  BY <1>2 DEF CommitSuccess, page, calls, ghosts, bounds, Work, FinishError, Failing,
    CallTypes
<1>3. CASE CloseDialog \/ Hide \/ Show \/ OnSend \/ RemoveFailed \/ Poll \/
            SendFailed \/ CancelMany \/ CreateMessage
  BY <1>3 DEF CloseDialog, calls, server, ghosts, bounds, Hide, Asking, Show, OnSend,
    RemoveFailed, page, Failing, Poll, SendFailed, CancelMany, CancelUploads,
    CreateMessage, CallTypes
<1>4. ASSUME NEW t \in {"none", "some", "over"}, TypeText(t)
      PROVE  up' \in [Files -> Waits]
  BY <1>4 DEF TypeText, calls, server, ghosts, Asking, CallTypes
<1>5. ASSUME NEW p \in BOOLEAN, OnModelChange(p) PROVE up' \in [Files -> Waits]
  BY <1>5 DEF OnModelChange, calls, server, ghosts, Asking, CallTypes
<1>6. ASSUME NEW f \in Files, AddFile(f) PROVE up' \in [Files -> Waits]
  <2>1. [Idle EXCEPT !.pc = "create", !.live = TRUE] \in Waits
    BY WaitsTyped DEF Waits
  <2>2. up' \in {up, [up EXCEPT ![f] = [Idle EXCEPT !.pc = "create", !.live = TRUE]]}
    BY <1>6 DEF AddFile, StartFile
  <2> QED BY <2>1, <2>2 DEF CallTypes
<1>7. ASSUME NEW f \in Files, PasteText(f) PROVE up' \in [Files -> Waits]
  <2>1. [Idle EXCEPT !.pc = "create", !.live = TRUE] \in Waits
    BY WaitsTyped DEF Waits
  <2>2. up' \in {up, [up EXCEPT ![f] = [Idle EXCEPT !.pc = "create", !.live = TRUE]]}
    BY <1>7 DEF PasteText, StartFile
  <2> QED BY <2>1, <2>2 DEF CallTypes
<1>8. ASSUME NEW f \in Files, ConvertPrompt(f) PROVE up' \in [Files -> Waits]
  <2>1. [Idle EXCEPT !.pc = "create", !.live = TRUE] \in Waits
    BY WaitsTyped DEF Waits
  <2>2. up' \in {up, [up EXCEPT ![f] = [Idle EXCEPT !.pc = "create", !.live = TRUE]]}
    BY <1>8 DEF ConvertPrompt, StartFile
  <2> QED BY <2>1, <2>2 DEF CallTypes
<1>9. ASSUME NEW f \in Files, CancelAttachment(f) PROVE up' \in [Files -> Waits]
  BY <1>9, WaitsTyped DEF CancelAttachment, Asking, AskCancel, server, CallTypes
<1>10. ASSUME NEW c \in Convs, SelectConversation(c) PROVE up' \in [Files -> Waits]
  BY <1>10, WaitsTyped DEF SelectConversation, Asking, server, ghosts,
    IsUploadFailed, Failed, CallTypes
<1>11. CASE RemoveImages
  BY <1>11, WaitsTyped DEF RemoveImages, Asking, DropImages, server, CallTypes
<1>12. CASE Reload
  BY <1>12, WaitsTyped DEF Reload, Asking, server, ghosts, IsUploadFailed, Failed,
    CallTypes
<1>13. ASSUME NEW f \in Files, CreateAnswered(f) PROVE up' \in [Files -> Waits]
  <2>1. up' \in {[up EXCEPT ![f].pc = "put"], [up EXCEPT ![f] = Idle]}
    BY <1>13 DEF CreateAnswered, Step, Finish
  <2> QED BY <2>1, WaitsTyped DEF CallTypes
<1>14. ASSUME NEW f \in Files, PutAnswered(f) PROVE up' \in [Files -> Waits]
  BY <1>14, WaitsTyped DEF PutAnswered, Step, page, server, ghosts, bounds,
    CallTypes, Waits
<1>15. ASSUME NEW f \in Files, ConfirmAnswered(f) PROVE up' \in [Files -> Waits]
  BY <1>15, WaitsTyped DEF ConfirmAnswered, Finish, IsUploadFailed, LoseCards,
    server, bounds, Failed, CallTypes
<1>16. ASSUME NEW f \in Files, StartFailed(f) PROVE up' \in [Files -> Waits]
  BY <1>16, WaitsTyped DEF StartFailed, Finish, LoseCards, bounds, Failing, server,
    CallTypes
<1>17. ASSUME NEW f \in Files, TextRead(f) PROVE up' \in [Files -> Waits]
  BY <1>17, WaitsTyped DEF TextRead, AskCancel, bounds, Failing, server, CallTypes
<1>18. ASSUME NEW f \in Files, CancelAnswered(f) PROVE up' \in [Files -> Waits]
  BY <1>18, WaitsTyped DEF CancelAnswered, server, bounds, CallTypes
<1>19. CASE ImagesRemoved
  BY <1>19, WaitsTyped DEF ImagesRemoved, DropImages, server, bounds, CallTypes
<1>20. CASE Sent
  BY <1>20, WaitsTyped DEF Sent, EmptyDraft, Clear, server, bounds, NoCards, CallTypes
<1>21. ASSUME NEW f \in Files, CreateUpload(f) PROVE up' \in [Files -> Waits]
  BY <1>21, WaitsTyped DEF CreateUpload, SetSrv, Step, page, ghosts, bounds,
    CallTypes, Waits
<1>22. ASSUME NEW f \in Files, ConfirmUpload(f) PROVE up' \in [Files -> Waits]
  <2>1. srv'[f] \in Statuses
    BY <1>22 DEF ConfirmUpload, SetSrv, ServerTypes, Statuses, Active, Terminal, Failed
  <2>2. \A w \in Waits, s \in Statuses : [w EXCEPT !.pc = "confirmed",
    !.rec = s] \in Waits
    BY DEF Waits
  <2>3. up' = [up EXCEPT ![f] = [up[f] EXCEPT !.pc = "confirmed", !.rec = srv'[f]]]
    BY <1>22 DEF ConfirmUpload, CallTypes
  <2> QED BY <2>1, <2>2, <2>3 DEF CallTypes
<1>23. CASE UNCHANGED vars
  BY <1>23 DEF vars, page, calls, server, ghosts, bounds, CallTypes
<1> QED BY <1>1, <1>2, <1>3, <1>4, <1>5, <1>6, <1>7, <1>8, <1>9, <1>10, <1>11, <1>12,
  <1>13, <1>14, <1>15, <1>16, <1>17, <1>18, <1>19, <1>20, <1>21, <1>22,
  <1>23 DEF Next, User, Answers, Server

(* expand.                                                                  *)
LEMMA ExpTypes ==
  ASSUME PageTypes, CallTypes, ServerTypes, GhostTypes, [Next]_vars
  PROVE  exp' \in [Files -> {None} \cup Convs]
<1>1. ASSUME NEW f \in Files, AddFile(f) \/ PasteText(f) \/ ConvertPrompt(f) \/
            CancelAttachment(f) \/ CreateAnswered(f) \/ PutAnswered(f) \/
            ConfirmAnswered(f) \/ StartFailed(f) \/ CancelAnswered(f) \/
            CancelFailed(f) \/ ReleaseSentImagePreview(f) \/ CreateUpload(f) \/
            ConfirmUpload(f) \/ CancelUpload(f) \/ ClaimUpload(f) \/
            SweepUploads(f) \/ ReclaimAssets(f)
      PROVE  exp' \in [Files -> {None} \cup Convs]
  BY <1>1 DEF AddFile, server, Asking, PasteText, ConvertPrompt, CancelAttachment,
    CreateAnswered, ghosts, bounds, PutAnswered, page, ConfirmAnswered, StartFailed,
    Failing, CancelAnswered, CancelFailed, ReleaseSentImagePreview, calls,
    CreateUpload, ConfirmUpload, CancelUpload, CancelUploads, ClaimUpload, Work,
    SweepUploads, ReclaimAssets, CallTypes
<1>2. ASSUME NEW f \in Files, NEW k \in running[f], CommitSuccess(f, k) \/
            FinishError(f, k)
      PROVE  exp' \in [Files -> {None} \cup Convs]
  BY <1>2 DEF CommitSuccess, page, calls, ghosts, bounds, Work, FinishError, Failing,
    CallTypes
<1>3. CASE CloseDialog \/ RemoveImages \/ Hide \/ Show \/ OnSend \/
            ImagesRemoved \/ RemoveFailed \/ Poll \/ Sent \/ SendFailed \/
            CancelMany \/ CreateMessage
  BY <1>3 DEF CloseDialog, calls, server, ghosts, bounds, RemoveImages, Asking, Hide,
    Show, OnSend, ImagesRemoved, RemoveFailed, page, Failing, Poll, Sent, SendFailed,
    CancelMany, CancelUploads, CreateMessage, CallTypes
<1>4. ASSUME NEW t \in {"none", "some", "over"}, TypeText(t)
      PROVE  exp' \in [Files -> {None} \cup Convs]
  BY <1>4 DEF TypeText, calls, server, ghosts, Asking, CallTypes
<1>5. ASSUME NEW p \in BOOLEAN, OnModelChange(p)
      PROVE  exp' \in [Files -> {None} \cup Convs]
  BY <1>5 DEF OnModelChange, calls, server, ghosts, Asking, CallTypes
<1>6. ASSUME NEW c \in Convs, SelectConversation(c)
      PROVE  exp' \in [Files -> {None} \cup Convs]
  BY <1>6 DEF SelectConversation, server, ghosts, Asking, CallTypes
<1>7. ASSUME NEW f \in Files, Expand(f) PROVE exp' \in [Files -> {None} \cup Convs]
  BY <1>7 DEF Expand, Asking, page, server, ghosts, CallTypes, PageTypes
<1>8. CASE Reload
  BY <1>8 DEF Reload, Asking, server, ghosts, IsUploadFailed, Failed, CallTypes
<1>9. ASSUME NEW f \in Files, TextRead(f)
      PROVE  exp' \in [Files -> {None} \cup Convs]
  BY <1>9 DEF TextRead, AskCancel, bounds, Failing, server, CallTypes
<1>10. CASE UNCHANGED vars
  BY <1>10 DEF vars, page, calls, server, ghosts, bounds, CallTypes
<1> QED BY <1>1, <1>2, <1>3, <1>4, <1>5, <1>6, <1>7, <1>8, <1>9, <1>10 DEF Next,
  User, Answers, Server

(* cancelAttachment.                                                        *)
LEMMA DelTypes ==
  ASSUME PageTypes, CallTypes, ServerTypes, GhostTypes, [Next]_vars
  PROVE  del' \in [Files -> {None} \cup Cancellations]
<1>1. ASSUME NEW f \in Files, AddFile(f) \/ PasteText(f) \/ ConvertPrompt(f) \/
            Expand(f) \/ CreateAnswered(f) \/ PutAnswered(f) \/
            ConfirmAnswered(f) \/ StartFailed(f) \/ ReleaseSentImagePreview(f) \/
            CreateUpload(f) \/ ConfirmUpload(f) \/ ClaimUpload(f) \/
            SweepUploads(f) \/ ReclaimAssets(f)
      PROVE  del' \in [Files -> {None} \cup Cancellations]
  BY <1>1 DEF AddFile, server, Asking, PasteText, ConvertPrompt, Expand, page,
    ghosts, CreateAnswered, bounds, PutAnswered, ConfirmAnswered, StartFailed,
    Failing, ReleaseSentImagePreview, calls, CreateUpload, ConfirmUpload,
    ClaimUpload, Work, SweepUploads, ReclaimAssets, CallTypes
<1>2. ASSUME NEW f \in Files, NEW k \in running[f], CommitSuccess(f, k) \/
            FinishError(f, k)
      PROVE  del' \in [Files -> {None} \cup Cancellations]
  BY <1>2 DEF CommitSuccess, page, calls, ghosts, bounds, Work, FinishError, Failing,
    CallTypes
<1>3. CASE CloseDialog \/ RemoveImages \/ Hide \/ Show \/ OnSend \/
            ImagesRemoved \/ RemoveFailed \/ Poll \/ Sent \/ SendFailed \/
            CancelMany \/ CreateMessage
  BY <1>3 DEF CloseDialog, calls, server, ghosts, bounds, RemoveImages, Asking, Hide,
    Show, OnSend, ImagesRemoved, RemoveFailed, page, Failing, Poll, Sent, SendFailed,
    CancelMany, CancelUploads, CreateMessage, CallTypes
<1>4. ASSUME NEW t \in {"none", "some", "over"}, TypeText(t)
      PROVE  del' \in [Files -> {None} \cup Cancellations]
  BY <1>4 DEF TypeText, calls, server, ghosts, Asking, CallTypes
<1>5. ASSUME NEW p \in BOOLEAN, OnModelChange(p)
      PROVE  del' \in [Files -> {None} \cup Cancellations]
  BY <1>5 DEF OnModelChange, calls, server, ghosts, Asking, CallTypes
<1>6. ASSUME NEW c \in Convs, SelectConversation(c)
      PROVE  del' \in [Files -> {None} \cup Cancellations]
  BY <1>6 DEF SelectConversation, server, ghosts, Asking, CallTypes
<1>7. ASSUME NEW f \in Files, CancelAttachment(f)
      PROVE  del' \in [Files -> {None} \cup Cancellations]
  <2>1. [conv |-> at, expand |-> FALSE, done |-> FALSE] \in Cancellations
    BY DEF Cancellations, PageTypes
  <2>2. del' = del \/ AskCancel(f, at, FALSE)
    BY <1>7 DEF CancelAttachment
  <2> QED BY <2>1, <2>2 DEF AskCancel, CallTypes
<1>8. CASE Reload
  BY <1>8 DEF Reload, Asking, server, ghosts, IsUploadFailed, Failed, CallTypes,
    Cancellations
<1>9. ASSUME NEW f \in Files, TextRead(f)
      PROVE  del' \in [Files -> {None} \cup Cancellations]
  <2>1. [conv |-> exp[f], expand |-> TRUE, done |-> FALSE] \in Cancellations
    BY <1>9 DEF TextRead, Cancellations, CallTypes
  <2>2. del' = del \/ AskCancel(f, exp[f], TRUE)
    BY <1>9 DEF TextRead
  <2> QED BY <2>1, <2>2 DEF AskCancel, CallTypes
<1>10. ASSUME NEW f \in Files, CancelAnswered(f)
      PROVE  del' \in [Files -> {None} \cup Cancellations]
  BY <1>10 DEF CancelAnswered, server, bounds, CallTypes, Cancellations
<1>11. ASSUME NEW f \in Files, CancelFailed(f)
      PROVE  del' \in [Files -> {None} \cup Cancellations]
  BY <1>11 DEF CancelFailed, bounds, Failing, server, CallTypes, Cancellations
<1>12. ASSUME NEW f \in Files, CancelUpload(f)
      PROVE  del' \in [Files -> {None} \cup Cancellations]
  BY <1>12 DEF CancelUpload, CancelUploads, page, ghosts, bounds, CallTypes,
    Cancellations
<1>13. CASE UNCHANGED vars
  BY <1>13 DEF vars, page, calls, server, ghosts, bounds, CallTypes
<1> QED BY <1>1, <1>2, <1>3, <1>4, <1>5, <1>6, <1>7, <1>8, <1>9, <1>10, <1>11, <1>12,
  <1>13 DEF Next, User, Answers, Server

(* removeImages.                                                            *)
LEMMA RemTypes ==
  ASSUME PageTypes, CallTypes, ServerTypes, GhostTypes, [Next]_vars
  PROVE  rem' \in {None} \cup Removals
<1>1. ASSUME NEW f \in Files, AddFile(f) \/ PasteText(f) \/ ConvertPrompt(f) \/
            CancelAttachment(f) \/ Expand(f) \/ CreateAnswered(f) \/
            PutAnswered(f) \/ ConfirmAnswered(f) \/ StartFailed(f) \/
            TextRead(f) \/ CancelAnswered(f) \/ CancelFailed(f) \/
            ReleaseSentImagePreview(f) \/ CreateUpload(f) \/ ConfirmUpload(f) \/
            CancelUpload(f) \/ ClaimUpload(f) \/ SweepUploads(f) \/ ReclaimAssets(f)
      PROVE  rem' \in {None} \cup Removals
  BY <1>1 DEF AddFile, server, Asking, PasteText, ConvertPrompt, CancelAttachment,
    Expand, page, ghosts, CreateAnswered, bounds, PutAnswered, ConfirmAnswered,
    StartFailed, Failing, TextRead, CancelAnswered, CancelFailed,
    ReleaseSentImagePreview, calls, CreateUpload, ConfirmUpload, CancelUpload,
    CancelUploads, ClaimUpload, Work, SweepUploads, ReclaimAssets, CallTypes
<1>2. ASSUME NEW f \in Files, NEW k \in running[f], CommitSuccess(f, k) \/
            FinishError(f, k)
      PROVE  rem' \in {None} \cup Removals
  BY <1>2 DEF CommitSuccess, page, calls, ghosts, bounds, Work, FinishError, Failing,
    CallTypes
<1>3. CASE CloseDialog \/ Hide \/ Show \/ OnSend \/ Poll \/ Sent \/ SendFailed \/
            CreateMessage
  BY <1>3 DEF CloseDialog, calls, server, ghosts, bounds, Hide, Asking, Show, OnSend,
    Poll, Sent, SendFailed, Failing, CreateMessage, page, CallTypes
<1>4. ASSUME NEW t \in {"none", "some", "over"}, TypeText(t)
      PROVE  rem' \in {None} \cup Removals
  BY <1>4 DEF TypeText, calls, server, ghosts, Asking, CallTypes
<1>5. ASSUME NEW p \in BOOLEAN, OnModelChange(p) PROVE rem' \in {None} \cup Removals
  BY <1>5 DEF OnModelChange, calls, server, ghosts, Asking, CallTypes
<1>6. ASSUME NEW c \in Convs, SelectConversation(c)
      PROVE  rem' \in {None} \cup Removals
  BY <1>6 DEF SelectConversation, server, ghosts, Asking, CallTypes
<1>7. CASE RemoveImages
  <2> DEFINE images == Cards(list) \cap Images
           ids == {g \in images : list[g] # "creating"}
  <2>1. [conv |-> at, files |-> images, ids |-> ids, done |-> FALSE] \in Removals
    BY DEF Removals, PageTypes
  <2>2. rem' \in {rem, [conv |-> at, files |-> images, ids |-> ids, done |-> FALSE]}
    BY <1>7 DEF RemoveImages
  <2> HIDE DEF images, ids
  <2> QED BY <2>1, <2>2 DEF CallTypes
<1>8. CASE Reload
  BY <1>8 DEF Reload, Asking, server, ghosts, IsUploadFailed, Failed, CallTypes,
    Removals
<1>9. CASE ImagesRemoved
  BY <1>9 DEF ImagesRemoved, DropImages, server, bounds, CallTypes, Removals
<1>10. CASE RemoveFailed
  BY <1>10 DEF RemoveFailed, bounds, Failing, page, server, ghosts, CallTypes, Removals
<1>11. CASE CancelMany
  BY <1>11 DEF CancelMany, CancelUploads, page, ghosts, bounds, CallTypes, Removals
<1>12. CASE UNCHANGED vars
  BY <1>12 DEF vars, page, calls, server, ghosts, bounds, CallTypes
<1> QED BY <1>1, <1>2, <1>3, <1>4, <1>5, <1>6, <1>7, <1>8, <1>9, <1>10, <1>11,
  <1>12 DEF Next, User, Answers, Server

(* onSend.                                                                  *)
LEMMA SndTypes ==
  ASSUME PageTypes, CallTypes, ServerTypes, GhostTypes, [Next]_vars
  PROVE  snd' \in {None} \cup Submissions
<1>1. ASSUME NEW f \in Files, AddFile(f) \/ PasteText(f) \/ ConvertPrompt(f) \/
            CancelAttachment(f) \/ Expand(f) \/ CreateAnswered(f) \/
            PutAnswered(f) \/ ConfirmAnswered(f) \/ StartFailed(f) \/
            TextRead(f) \/ CancelAnswered(f) \/ CancelFailed(f) \/
            ReleaseSentImagePreview(f) \/ CreateUpload(f) \/ ConfirmUpload(f) \/
            CancelUpload(f) \/ ClaimUpload(f) \/ SweepUploads(f) \/ ReclaimAssets(f)
      PROVE  snd' \in {None} \cup Submissions
  BY <1>1 DEF AddFile, server, Asking, PasteText, ConvertPrompt, CancelAttachment,
    Expand, page, ghosts, CreateAnswered, bounds, PutAnswered, ConfirmAnswered,
    StartFailed, Failing, TextRead, CancelAnswered, CancelFailed,
    ReleaseSentImagePreview, calls, CreateUpload, ConfirmUpload, CancelUpload,
    CancelUploads, ClaimUpload, Work, SweepUploads, ReclaimAssets, CallTypes
<1>2. ASSUME NEW f \in Files, NEW k \in running[f], CommitSuccess(f, k) \/
            FinishError(f, k)
      PROVE  snd' \in {None} \cup Submissions
  BY <1>2 DEF CommitSuccess, page, calls, ghosts, bounds, Work, FinishError, Failing,
    CallTypes
<1>3. CASE CloseDialog \/ RemoveImages \/ Hide \/ Show \/ ImagesRemoved \/
            RemoveFailed \/ Poll \/ CancelMany
  BY <1>3 DEF CloseDialog, calls, server, ghosts, bounds, RemoveImages, Asking, Hide,
    Show, ImagesRemoved, RemoveFailed, page, Failing, Poll, CancelMany,
    CancelUploads, CallTypes
<1>4. ASSUME NEW t \in {"none", "some", "over"}, TypeText(t)
      PROVE  snd' \in {None} \cup Submissions
  BY <1>4 DEF TypeText, calls, server, ghosts, Asking, CallTypes
<1>5. ASSUME NEW p \in BOOLEAN, OnModelChange(p)
      PROVE  snd' \in {None} \cup Submissions
  BY <1>5 DEF OnModelChange, calls, server, ghosts, Asking, CallTypes
<1>6. ASSUME NEW c \in Convs, SelectConversation(c)
      PROVE  snd' \in {None} \cup Submissions
  BY <1>6 DEF SelectConversation, server, ghosts, Asking, CallTypes
<1>7. CASE Reload
  BY <1>7 DEF Reload, Asking, server, ghosts, IsUploadFailed, Failed, CallTypes,
    Submissions
<1>8. CASE OnSend
  BY <1>8 DEF OnSend, Asking, server, ghosts, HasModelConsumableAttachment,
    ReadyImagesAllowed, IsUploadReady, HasPendingAttachments, HasFailedAttachments,
    IsUploadInProgress, IsUploadFailed, Failed, CallTypes, Submissions, PageTypes,
    Ready, CanSend, SendDisabled, Texts
<1>9. CASE Sent
  BY <1>9 DEF Sent, EmptyDraft, Clear, server, bounds, NoCards, CallTypes, Submissions
<1>10. CASE SendFailed
  BY <1>10 DEF SendFailed, bounds, Failing, server, CallTypes, Submissions
<1>11. CASE CreateMessage
  BY <1>11 DEF CreateMessage, Bind, page, bounds, CallTypes, Submissions
<1>12. CASE UNCHANGED vars
  BY <1>12 DEF vars, page, calls, server, ghosts, bounds, CallTypes
<1> QED BY <1>1, <1>2, <1>3, <1>4, <1>5, <1>6, <1>7, <1>8, <1>9, <1>10, <1>11,
  <1>12 DEF Next, User, Answers, Server

(* All of them.                                                             *)
LEMMA CallTypesStep ==
  ASSUME PageTypes, CallTypes, ServerTypes, GhostTypes, [Next]_vars
  PROVE  CallTypes'
BY UpTypes, ExpTypes, DelTypes, RemTypes, SndTypes DEF CallTypes

-----------------------------------------------------------------------------
(* The previews.                                                            *)

(* Cards that go take their previews with them.                             *)
LEMMA DiscardKeeps ==
  ASSUME PageTypes, PreviewsOwned, NEW S, preview' = Discard(S), fresh' = fresh \ S,
         \A f \in Files : f \notin S /\ list[f] # "none" => list'[f] # "none"
  PROVE  PreviewsOwned'
BY UploadsAssumption DEF PreviewsOwned, Discard, PageTypes

(* And cards that stay keep them.                                           *)
LEMMA OwnersStay ==
  ASSUME PageTypes, PreviewsOwned, UNCHANGED <<fresh, preview>>,
         \A f \in Files : list[f] # "none" => list'[f] # "none"
  PROVE  PreviewsOwned'
BY UploadsAssumption DEF PreviewsOwned, PageTypes

(* A file that is added owns its preview.                                   *)
LEMMA AddedOwns ==
  ASSUME PageTypes, PreviewsOwned, NEW f \in Files, StartFile(f),
         list' = [list EXCEPT ![f] = "creating"]
  PROVE  PreviewsOwned'
BY UploadsAssumption DEF PreviewsOwned, StartFile, PageTypes

(* A preview that is shown is owned, and one that is owned is shown.        *)
LEMMA PreviewsStep ==
  ASSUME PageTypes, CallTypes, StartInv, PreviewsOwned, SendInv, [Next]_vars
  PROVE  PreviewsOwned'
<1>1. ASSUME NEW f \in Files, Expand(f) \/ PutAnswered(f) \/ TextRead(f) \/
            CancelFailed(f) \/ CreateUpload(f) \/ ConfirmUpload(f) \/
            CancelUpload(f) \/ ClaimUpload(f) \/ SweepUploads(f) \/ ReclaimAssets(f)
      PROVE  PreviewsOwned'
  BY <1>1 DEF Expand, page, server, ghosts, Asking, PutAnswered, bounds, TextRead,
    Failing, CancelFailed, CreateUpload, ConfirmUpload, CancelUpload, CancelUploads,
    ClaimUpload, calls, Work, SweepUploads, ReclaimAssets, PreviewsOwned
<1>2. ASSUME NEW f \in Files, NEW k \in running[f], CommitSuccess(f, k) \/
            FinishError(f, k)
      PROVE  PreviewsOwned'
  BY <1>2 DEF CommitSuccess, page, calls, ghosts, bounds, Work, FinishError, Failing,
    PreviewsOwned
<1>3. CASE CloseDialog \/ Hide \/ Show \/ RemoveFailed \/ CancelMany \/ CreateMessage
  BY <1>3 DEF CloseDialog, calls, server, ghosts, bounds, Hide, Asking, Show,
    RemoveFailed, page, Failing, CancelMany, CancelUploads, CreateMessage, PreviewsOwned
<1>4. ASSUME NEW t \in {"none", "some", "over"}, TypeText(t) PROVE PreviewsOwned'
  BY <1>4 DEF TypeText, calls, server, ghosts, Asking, PreviewsOwned
<1>5. ASSUME NEW p \in BOOLEAN, OnModelChange(p) PROVE PreviewsOwned'
  BY <1>5 DEF OnModelChange, calls, server, ghosts, Asking, PreviewsOwned
<1>6. ASSUME NEW f \in Files, AddFile(f) PROVE PreviewsOwned'
  <2>1. CASE StartFile(f) /\ list' = [list EXCEPT ![f] = "creating"]
    BY <2>1, AddedOwns
  <2>2. CASE UNCHANGED <<list, fresh, preview>>
    BY <2>2, OwnersStay
  <2> QED BY <1>6, <2>1, <2>2 DEF AddFile, Commit
<1>7. ASSUME NEW f \in Files, PasteText(f) PROVE PreviewsOwned'
  <2>1. CASE StartFile(f) /\ list' = [list EXCEPT ![f] = "creating"]
    BY <2>1, AddedOwns
  <2>2. CASE UNCHANGED <<list, fresh, preview>>
    BY <2>2, OwnersStay
  <2> QED BY <1>7, <2>1, <2>2 DEF PasteText, Commit
<1>8. ASSUME NEW f \in Files, ConvertPrompt(f) PROVE PreviewsOwned'
  <2>1. CASE StartFile(f) /\ list' = [list EXCEPT ![f] = "creating"]
    BY <2>1, AddedOwns
  <2>2. CASE UNCHANGED <<list, fresh, preview>>
    BY <2>2, OwnersStay
  <2> QED BY <1>8, <2>1, <2>2 DEF ConvertPrompt, Commit
<1>9. ASSUME NEW f \in Files, CancelAttachment(f) PROVE PreviewsOwned'
  <2>1. CASE Commit(at, Without(list,
    {f})) /\ preview' = Discard({f}) /\ fresh' = fresh \ {f}
    BY <2>1, WithoutIs, DiscardKeeps DEF Commit
  <2>2. CASE UNCHANGED <<list, preview, fresh>>
    BY <2>2, OwnersStay
  <2> QED BY <1>9, <2>1, <2>2 DEF CancelAttachment
<1>10. ASSUME NEW c \in Convs, SelectConversation(c) PROVE PreviewsOwned'
  <2>1. fresh' = {} /\ \A f \in Files : preview'[f] # "hook"
    BY <1>10 DEF SelectConversation, EnterScope, Clear, Discard, PageTypes
  <2> QED BY <2>1 DEF PreviewsOwned
<1>11. CASE RemoveImages
  <2> DEFINE images == Cards(list) \cap Images
  <2>1. CASE DropImages(at, images)
    <3> HIDE DEF images
    <3> QED BY <2>1, WithoutIs, DiscardKeeps DEF DropImages, Commit
  <2>2. CASE UNCHANGED <<list, preview, fresh>>
    BY <2>2, OwnersStay
  <2> QED BY <1>11, <2>1, <2>2 DEF RemoveImages
<1>12. CASE Reload
  <2>1. fresh' = {} /\ \A f \in Files : preview'[f] # "hook"
    BY <1>12 DEF Reload, EnterScope, Clear, Discard, PageTypes
  <2> QED BY <2>1 DEF PreviewsOwned
<1>13. CASE OnSend
  <2>1. /\ UNCHANGED <<list, fresh>>
        /\ \A f \in Files : preview'[f] = IF f \in Ready /\ preview[f] = "hook" THEN "sent"
                                         ELSE preview[f]
    BY <1>13 DEF OnSend
  <2> QED BY <2>1, UploadsAssumption DEF PreviewsOwned, PageTypes
<1>14. ASSUME NEW f \in Files, CreateAnswered(f) PROVE PreviewsOwned'
  <2>1. UNCHANGED <<fresh, preview>> /\ list' \in {list, Relink(f, "uploading")}
    BY <1>14 DEF CreateAnswered, Commit
  <2>2. "uploading" \in CardStatus
    BY DEF CardStatus
  <2>3. \A g \in Files : list[g] # "none" => Relink(f, "uploading")[g] # "none"
    BY <2>2, RelinkIs
  <2> QED BY <2>1, <2>3, OwnersStay
<1>15. ASSUME NEW f \in Files, ConfirmAnswered(f) PROVE PreviewsOwned'
  <2> DEFINE s == DraftFromUpload(up[f].rec)
  <2>1. s \in CardStatus /\ (s = "none" <=> IsUploadFailed(up[f].rec))
    BY <1>15 DEF ConfirmAnswered, StartInv, CallTypes, DraftFromUpload, IsUploadFailed,
      CardStatus, Waits, Statuses, Active, Terminal, Failed
  <2>2. \A g \in Files :
          Relink(f, s)[g] = IF g = f /\ list[f] # "none" THEN s ELSE list[g]
    BY <2>1, RelinkIs
  <2>3. CASE up[f].live /\ IsUploadFailed(up[f].rec)
    <3>1. list' = Relink(f, s) /\ preview' = Discard({f}) /\ fresh' = fresh \ {f}
      BY <1>15, <2>3 DEF ConfirmAnswered, LoseCards, Commit
    <3> HIDE DEF s
    <3> QED BY <2>2, <3>1, DiscardKeeps
  <2>4. CASE up[f].live /\ ~IsUploadFailed(up[f].rec)
    <3>1. list' = Relink(f, s) /\ UNCHANGED <<preview, fresh>>
      BY <1>15, <2>4 DEF ConfirmAnswered, Commit
    <3>2. s # "none"
      BY <2>1, <2>4
    <3> HIDE DEF s
    <3> QED BY <2>2, <3>1, <3>2, OwnersStay
  <2>5. CASE ~up[f].live
    BY <1>15, <2>5, OwnersStay DEF ConfirmAnswered
  <2> QED BY <2>3, <2>4, <2>5
<1>16. ASSUME NEW f \in Files, StartFailed(f) PROVE PreviewsOwned'
  <2>1. CASE up[f].live
    BY <1>16, <2>1, WithoutIs, DiscardKeeps DEF StartFailed, LoseCards, Commit
  <2>2. CASE ~up[f].live
    BY <1>16, <2>2, OwnersStay DEF StartFailed
  <2> QED BY <2>1, <2>2
<1>17. ASSUME NEW f \in Files, CancelAnswered(f) PROVE PreviewsOwned'
  BY <1>17, WithoutIs, DiscardKeeps DEF CancelAnswered
<1>18. ASSUME NEW f \in Files, ReleaseSentImagePreview(f) PROVE PreviewsOwned'
  <2>1. UNCHANGED <<list,
    fresh>> /\ f \notin fresh /\ preview' = [preview EXCEPT ![f] = "gone"]
    BY <1>18 DEF ReleaseSentImagePreview, SendInv
  <2> QED BY <2>1, UploadsAssumption DEF PreviewsOwned, PageTypes
<1>19. CASE ImagesRemoved
  BY <1>19, WithoutIs, DiscardKeeps DEF ImagesRemoved, DropImages, Commit
<1>20. CASE Poll
  <2>1. PICK l : /\ list' = l /\ preview' = Discard(Cards(list) \ Cards(l))
                /\ fresh' = fresh \ (Cards(list) \ Cards(l))
    BY <1>20 DEF Poll, LoseCards, Commit
  <2> QED BY <2>1, DiscardKeeps DEF Cards
<1>21. CASE Sent
  <2>1. fresh' = {} /\ \A f \in Files : preview'[f] # "hook"
    BY <1>21 DEF Sent, EnterScope, Clear, Discard, PageTypes
  <2> QED BY <2>1 DEF PreviewsOwned
<1>22. CASE SendFailed
  <2>1. UNCHANGED <<list, fresh>> /\ RestoreImagePreviews(snd)
    BY <1>22 DEF SendFailed
  <2>2. \A f \in Files : preview'[f] = IF f \in snd.files /\ preview[f] = "sent"
                                       THEN IF list[f] # "none" /\ f \in fresh THEN "hook"
                                            ELSE "gone"
                                       ELSE preview[f]
    BY <2>1 DEF RestoreImagePreviews
  <2> QED BY <2>1, <2>2, UploadsAssumption DEF PreviewsOwned, PageTypes
<1>23. CASE UNCHANGED vars
  BY <1>23 DEF vars, page, calls, server, ghosts, bounds, PreviewsOwned
<1> QED BY <1>1, <1>2, <1>3, <1>4, <1>5, <1>6, <1>7, <1>8, <1>9, <1>10, <1>11, <1>12,
  <1>13, <1>14, <1>15, <1>16, <1>17, <1>18, <1>19, <1>20, <1>21, <1>22,
  <1>23 DEF Next, User, Answers, Server

SentPreviews == \A f \in fresh : preview[f] = "sent" => snd # None /\ f \in snd.files
SentFiles == snd # None => \A f \in snd.files : /\ fate[f] # "none"
                                                /\ snd.done => fate[f] # "draft"

(* A preview that is with the thread is of the message under way.           *)
LEMMA SentPreviewsStep ==
  ASSUME PageTypes, CallTypes, PreviewsOwned, SendInv, [Next]_vars
  PROVE  SentPreviews'
<1>1. ASSUME NEW f \in Files, Expand(f) \/ CreateAnswered(f) \/ PutAnswered(f) \/
            TextRead(f) \/ CancelFailed(f) \/ CreateUpload(f) \/
            ConfirmUpload(f) \/ CancelUpload(f) \/ ClaimUpload(f) \/
            SweepUploads(f) \/ ReclaimAssets(f)
      PROVE  SentPreviews'
  BY <1>1 DEF Expand, page, server, ghosts, Asking, CreateAnswered, bounds,
    PutAnswered, TextRead, Failing, CancelFailed, CreateUpload, ConfirmUpload,
    CancelUpload, CancelUploads, ClaimUpload, calls, Work, SweepUploads,
    ReclaimAssets, SentPreviews, SendInv
<1>2. ASSUME NEW f \in Files, NEW k \in running[f], CommitSuccess(f, k) \/
            FinishError(f, k)
      PROVE  SentPreviews'
  BY <1>2 DEF CommitSuccess, page, calls, ghosts, bounds, Work, FinishError, Failing,
    SentPreviews, SendInv
<1>3. CASE CloseDialog \/ Hide \/ Show \/ RemoveFailed \/ CancelMany
  BY <1>3 DEF CloseDialog, calls, server, ghosts, bounds, Hide, Asking, Show,
    RemoveFailed, page, Failing, CancelMany, CancelUploads, SentPreviews, SendInv
<1>4. ASSUME NEW t \in {"none", "some", "over"}, TypeText(t) PROVE SentPreviews'
  BY <1>4 DEF TypeText, calls, server, ghosts, Asking, SentPreviews, SendInv
<1>5. ASSUME NEW p \in BOOLEAN, OnModelChange(p) PROVE SentPreviews'
  BY <1>5 DEF OnModelChange, calls, server, ghosts, Asking, SentPreviews, SendInv
<1>6. ASSUME NEW f \in Files, AddFile(f) PROVE SentPreviews'
  BY <1>6, UploadsAssumption DEF AddFile, Addable, Asking, StartFile, server,
    SentPreviews, SendInv, PageTypes
<1>7. ASSUME NEW f \in Files, PasteText(f) PROVE SentPreviews'
  BY <1>7, UploadsAssumption DEF PasteText, Addable, Asking, StartFile,
    OnComposerValueChange, server, SentPreviews, SendInv, PageTypes
<1>8. ASSUME NEW f \in Files, ConvertPrompt(f) PROVE SentPreviews'
  BY <1>8, UploadsAssumption DEF ConvertPrompt, Addable, Asking, StartFile, server,
    SentPreviews, SendInv, PageTypes
<1>9. ASSUME NEW f \in Files, CancelAttachment(f) PROVE SentPreviews'
  BY <1>9, UploadsAssumption DEF CancelAttachment, Asking, Discard, server,
    SentPreviews, SendInv, PageTypes
<1>10. ASSUME NEW c \in Convs, SelectConversation(c) PROVE SentPreviews'
  BY <1>10, UploadsAssumption DEF SelectConversation, Asking, EnterScope, Discard,
    server, ghosts, IsUploadFailed, Failed, SentPreviews, SendInv, PageTypes
<1>11. CASE RemoveImages
  BY <1>11, UploadsAssumption DEF RemoveImages, Asking, DropImages, server, Discard,
    SentPreviews, SendInv, PageTypes
<1>12. CASE Reload
  BY <1>12, UploadsAssumption DEF Reload, Asking, EnterScope, server, ghosts,
    IsUploadFailed, Failed, SentPreviews, SendInv, PageTypes
<1>13. CASE OnSend
  <2>1. snd = None /\ snd'.files = Ready /\ fresh' = fresh
    BY <1>13 DEF OnSend, CanSend
  <2>3. snd' \in Submissions
    BY <1>13 DEF OnSend, CanSend, SendDisabled, Ready, Submissions, PageTypes, Texts
  <2>4. snd' # None
    BY <2>3, UploadsAssumption DEF Submissions
  <2>2. \A f \in Files : preview'[f] = "sent" => preview[f] = "sent" \/ f \in Ready
    BY <1>13 DEF OnSend
  <2> QED BY <2>1, <2>2, <2>4, UploadsAssumption DEF SentPreviews, SendInv, PageTypes
<1>14. ASSUME NEW f \in Files, ConfirmAnswered(f) PROVE SentPreviews'
  BY <1>14, UploadsAssumption DEF ConfirmAnswered, Finish, IsUploadFailed, LoseCards,
    server, bounds, Failed, Discard, SentPreviews, SendInv, PageTypes
<1>15. ASSUME NEW f \in Files, StartFailed(f) PROVE SentPreviews'
  BY <1>15, UploadsAssumption DEF StartFailed, Finish, LoseCards, bounds, Failing,
    server, Discard, Active, SentPreviews, SendInv, PageTypes
<1>16. ASSUME NEW f \in Files, CancelAnswered(f) PROVE SentPreviews'
  BY <1>16, UploadsAssumption DEF CancelAnswered, Discard, server, bounds,
    SentPreviews, SendInv, PageTypes
<1>17. ASSUME NEW f \in Files, ReleaseSentImagePreview(f) PROVE SentPreviews'
  BY <1>17, UploadsAssumption DEF ReleaseSentImagePreview, calls, server, ghosts,
    bounds, SentPreviews, SendInv, PageTypes
<1>18. CASE ImagesRemoved
  BY <1>18, UploadsAssumption DEF ImagesRemoved, DropImages, server, bounds, Discard,
    SentPreviews, SendInv, PageTypes
<1>19. CASE Poll
  BY <1>19, UploadsAssumption DEF Poll, LoseCards, calls, server, bounds,
    IsPollingStatus, IsUploadFailed, Discard, Active, Failed, SentPreviews, SendInv,
    PageTypes
<1>20. CASE Sent
  BY <1>20, UploadsAssumption DEF Sent, Discard, EmptyDraft, Clear, server, bounds,
    NoCards, SentPreviews, SendInv, PageTypes
<1>21. CASE SendFailed
  BY <1>21, UploadsAssumption DEF SendFailed, RestoreImagePreviews, bounds, Failing,
    server, SentPreviews, SendInv, PageTypes
<1>22. CASE CreateMessage
  <2>1. snd \in Submissions /\ UNCHANGED <<fresh, preview>>
    BY <1>22 DEF CreateMessage, CallTypes, page
  <2>2. snd' \in Submissions /\ snd'.files = snd.files
    BY <1>22, <2>1 DEF CreateMessage, Submissions
  <2>3. snd' # None
    BY <2>2, UploadsAssumption DEF Submissions
  <2> QED BY <2>1, <2>2, <2>3 DEF SentPreviews, SendInv
<1>23. CASE UNCHANGED vars
  BY <1>23 DEF vars, page, calls, server, ghosts, bounds, SentPreviews, SendInv
<1> QED BY <1>1, <1>2, <1>3, <1>4, <1>5, <1>6, <1>7, <1>8, <1>9, <1>10, <1>11, <1>12,
  <1>13, <1>14, <1>15, <1>16, <1>17, <1>18, <1>19, <1>20, <1>21, <1>22,
  <1>23 DEF Next, User, Answers, Server

(* What was sent is no longer of a draft.                                   *)
LEMMA SentFilesStep ==
  ASSUME PageTypes, CallTypes, GhostTypes, TraceInv, SendInv, Recorded, [Next]_vars
  PROVE  SentFiles'
<1>1. ASSUME NEW f \in Files, AddFile(f) \/ PasteText(f) \/ ConvertPrompt(f) \/
            CancelAttachment(f) \/ Expand(f) \/ CreateAnswered(f) \/
            PutAnswered(f) \/ ConfirmAnswered(f) \/ StartFailed(f) \/
            TextRead(f) \/ CancelAnswered(f) \/ CancelFailed(f) \/
            ReleaseSentImagePreview(f) \/ CreateUpload(f) \/ ConfirmUpload(f) \/
            CancelUpload(f) \/ ClaimUpload(f) \/ SweepUploads(f) \/ ReclaimAssets(f)
      PROVE  SentFiles'
  BY <1>1 DEF AddFile, server, Asking, PasteText, ConvertPrompt, CancelAttachment,
    Expand, page, ghosts, CreateAnswered, bounds, PutAnswered, ConfirmAnswered,
    StartFailed, Failing, TextRead, CancelAnswered, CancelFailed,
    ReleaseSentImagePreview, calls, CreateUpload, ConfirmUpload, CancelUpload,
    CancelUploads, ClaimUpload, Work, SweepUploads, ReclaimAssets, SentFiles,
    SendInv, Recorded, CallTypes, Submissions, Begins
<1>2. ASSUME NEW f \in Files, NEW k \in running[f], CommitSuccess(f, k) \/
            FinishError(f, k)
      PROVE  SentFiles'
  BY <1>2 DEF CommitSuccess, page, calls, ghosts, bounds, Work, FinishError, Failing,
    SentFiles, SendInv, Recorded, CallTypes, Submissions, Begins
<1>3. CASE CloseDialog \/ RemoveImages \/ Hide \/ Show \/ ImagesRemoved \/
            RemoveFailed \/ Poll \/ CancelMany
  BY <1>3 DEF CloseDialog, calls, server, ghosts, bounds, RemoveImages, Asking, Hide,
    Show, ImagesRemoved, RemoveFailed, page, Failing, Poll, CancelMany,
    CancelUploads, SentFiles, SendInv, Recorded, CallTypes, Submissions, Begins
<1>4. ASSUME NEW t \in {"none", "some", "over"}, TypeText(t) PROVE SentFiles'
  BY <1>4 DEF TypeText, calls, server, ghosts, Asking, SentFiles, SendInv, Recorded,
    CallTypes, Submissions, Begins
<1>5. ASSUME NEW p \in BOOLEAN, OnModelChange(p) PROVE SentFiles'
  BY <1>5 DEF OnModelChange, calls, server, ghosts, Asking, SentFiles, SendInv,
    Recorded, CallTypes, Submissions, Begins
<1>6. ASSUME NEW c \in Convs, SelectConversation(c) PROVE SentFiles'
  BY <1>6 DEF SelectConversation, server, ghosts, Asking, SentFiles, SendInv,
    Recorded, CallTypes, Submissions, Begins
<1>7. CASE Reload
  BY <1>7 DEF Reload, Asking, EnterScope, server, ghosts, IsUploadFailed, Failed,
    SentFiles, SendInv, Recorded, CallTypes, Submissions
<1>8. CASE OnSend
  BY <1>8 DEF OnSend, Asking, server, ghosts, HasModelConsumableAttachment,
    ReadyImagesAllowed, IsUploadReady, HasPendingAttachments, HasFailedAttachments,
    IsUploadInProgress, IsUploadFailed, Active, Failed, SentFiles, SendInv, Recorded,
    CallTypes, Submissions, Ready, TraceInv
<1>9. CASE Sent
  BY <1>9 DEF Sent, EmptyDraft, Clear, server, bounds, NoCards, SentFiles, SendInv,
    Recorded, CallTypes, Submissions
<1>10. CASE SendFailed
  BY <1>10 DEF SendFailed, bounds, Failing, server, SentFiles, SendInv, Recorded,
    CallTypes, Submissions
<1>11. CASE CreateMessage
  BY <1>11 DEF CreateMessage, Bind, page, bounds, SentFiles, SendInv, Recorded,
    CallTypes, Submissions, Begins, Fate, GhostTypes
<1>12. CASE UNCHANGED vars
  BY <1>12 DEF vars, page, calls, server, ghosts, bounds, SentFiles, SendInv,
    Recorded, CallTypes, Submissions, Begins
<1> QED BY <1>1, <1>2, <1>3, <1>4, <1>5, <1>6, <1>7, <1>8, <1>9, <1>10, <1>11,
  <1>12 DEF Next, User, Answers, Server

(* What a message has taken.                                                *)
LEMMA AssetStep ==
  ASSUME ServerTypes, AttemptsInv, CallTypes, [Next]_vars
  PROVE  \A g \in Files : asset[g] = "bound" => asset'[g] = "bound"
<1>1. ASSUME NEW f \in Files, CreateUpload(f) \/ ConfirmUpload(f) \/
            ClaimUpload(f) \/ SweepUploads(f)
      PROVE  \A g \in Files : asset[g] = "bound" => asset'[g] = "bound"
  BY <1>1 DEF CreateUpload, page, ghosts, bounds, ConfirmUpload, ClaimUpload, calls,
    Work, SweepUploads, ServerTypes
<1>2. ASSUME NEW f \in Files, NEW k \in running[f], FinishError(f, k)
      PROVE  \A g \in Files : asset[g] = "bound" => asset'[g] = "bound"
  BY <1>2 DEF FinishError, page, calls, ghosts, Failing, Work, ServerTypes
<1>3. ASSUME NEW f \in Files, CancelUpload(f)
      PROVE  \A g \in Files : asset[g] = "bound" => asset'[g] = "bound"
  BY <1>3 DEF CancelUpload, CancelUploads, Cancellable, Active, page, bounds,
    ServerTypes
<1>4. ASSUME NEW f \in Files, ReclaimAssets(f)
      PROVE  \A g \in Files : asset[g] = "bound" => asset'[g] = "bound"
  BY <1>4 DEF ReclaimAssets, Failing, Work, page, calls, ServerTypes
<1>5. ASSUME NEW f \in Files, NEW k \in running[f], CommitSuccess(f, k)
      PROVE  \A g \in Files : asset[g] = "bound" => asset'[g] = "bound"
  BY <1>5 DEF CommitSuccess, Ends, OwnsLease, SetSrv, bounds, Work, page, calls,
    ServerTypes, AttemptsInv
<1>6. CASE CancelMany
  BY <1>6 DEF CancelMany, CancelUploads, Cancellable, Active, page, bounds, ServerTypes
<1>7. CASE CreateMessage
  BY <1>7 DEF CreateMessage, Sendable, Bind, page, bounds, ServerTypes
<1>8. CASE User \/ Answers
  BY <1>8, ServerStands DEF server, ServerTypes
<1>9. CASE UNCHANGED vars
  BY <1>9 DEF vars, page, calls, server, ghosts, bounds, ServerTypes
<1> QED BY <1>1, <1>2, <1>3, <1>4, <1>5, <1>6, <1>7, <1>8, <1>9 DEF Next, User,
  Answers, Server

-----------------------------------------------------------------------------
(* The page opens on a stored draft of files that the server has.           *)
LEMMA InitUploads == Init => UploadsInv
<1> SUFFICES ASSUME NEW S \in Restored, NEW c \in Made \cup {New},
                    LET Of(x, y) == [f \in Files |-> IF f \in S THEN x ELSE y] IN
                    /\ at = c /\ list = Of("succeeded", "none") /\ text = "none"
                    /\ store = [d \in Convs |->
                                  IF d = c THEN [EmptyDraft EXCEPT !.cards = list]
                                  ELSE EmptyDraft]
                    /\ fresh = {} /\ preview = [f \in Files |-> "none"]
                    /\ pics = TRUE /\ ask = "none" /\ hidden = FALSE
                    /\ may \in {S # {}, TRUE}
                    /\ up = [f \in Files |-> Idle] /\ exp = [f \in Files |-> None]
                    /\ del = [f \in Files |-> None] /\ rem = None /\ snd = None
                    /\ srv = Of("succeeded", "none") /\ tries = Of(1, 0)
                    /\ asset = Of("free", "none")
                    /\ running = [f \in Files |-> {}] /\ reserved = 0
                    /\ made = Made /\ needs = [d \in Convs |-> FALSE]
                    /\ home = Of(c, None) /\ fate = Of("draft", "none") /\ crossed = FALSE
                    /\ asked = (IF S = {} THEN 1 ELSE 0) /\ faults = 0
             PROVE  UploadsInv
  BY DEF Init
<1>1. c \in Convs /\ S \in SUBSET Files
  BY UploadsAssumption
<1>2. list \in [Files -> CardStatus] /\ EmptyDraft \in Drafts
  BY DEF CardStatus, EmptyDraft, NoCards, Drafts, Texts
<1>3. \A d \in Convs : store[d].cards = IF d = c THEN list ELSE NoCards
  BY DEF EmptyDraft
<1>4. PageTypes
  <2>1. [EmptyDraft EXCEPT !.cards = list] \in Drafts
    BY <1>2 DEF EmptyDraft, Drafts, Texts
  <2>2. store \in [Convs -> Drafts]
    BY <1>2, <2>1
  <2> QED BY <1>1, <1>2, <2>2 DEF PageTypes, Texts
<1>5. CallTypes
  BY DEF CallTypes, Idle, Waits, Statuses
<1>6. ServerTypes /\ AttemptsInv
  BY UploadsAssumption DEF ServerTypes, AttemptsInv, Statuses, Terminal
<1>7. GhostTypes
  <2>1. MaxAsked \in Nat /\ MaxAsked > 0 /\ MaxFaults \in Nat
    BY UploadsAssumption
  <2>2. asked \in 0..MaxAsked /\ faults \in 0..MaxFaults
    BY <2>1
  <2> QED BY <1>1, <2>2 DEF GhostTypes
<1>8. ReservedExact
  <2>1. Inflight = {}
    BY DEF Inflight, Active
  <2> QED BY <2>1, FS_EmptySet DEF ReservedExact
<1>9. TraceInv
  BY <1>1, <1>3, UploadsAssumption DEF TraceInv, NoCards, Idle
<1>10. StartInv /\ PreviewsOwned /\ SendInv
  BY DEF StartInv, PreviewsOwned, SendInv, Idle
<1>11. DraftsScoped
  BY <1>3 DEF DraftsScoped, NoCards
<1>12. DraftKept
  BY <1>1, <1>3 DEF DraftKept
<1>13. CallsScoped
  BY DEF CallsScoped
<1> QED BY <1>4, <1>5, <1>6, <1>7, <1>8, <1>9, <1>10, <1>11, <1>12, <1>13 DEF UploadsInv, ScopeInv

(* The inductive invariant from which the theorems below follow.            *)
LEMMA UploadsInvariant == Init /\ [][Next]_vars => []UploadsInv
<1>1. UploadsInv /\ [Next]_vars => UploadsInv'
  <2> SUFFICES ASSUME UploadsInv, [Next]_vars PROVE UploadsInv'
    OBVIOUS
  <2> USE DEF UploadsInv
  <2>1. PageTypes'
    <3>1. CardTypes' /\ ScreenTypes'
      BY CardTypesStep, ScreenTypesStep
    <3> QED BY <3>1 DEF PageTypes, CardTypes, ScreenTypes
  <2>2. CallTypes'
    BY CallTypesStep
  <2>3. ServerTypes' /\ AttemptsInv'
    BY ServerTypesStep, AttemptsStep
  <2>4. GhostTypes'
    BY GhostTypesStep
  <2>5. ReservedExact'
    BY ReservedStep
  <2>6. TraceInv' /\ StartInv'
    BY TraceStep, StartStep
  <2>7. PreviewsOwned'
    BY PreviewsStep
  <2>8. SendInv'
    <3>1. Recorded
      BY RecordedStep
    <3>2. SentPreviews' /\ SentFiles'
      BY <3>1, SentPreviewsStep, SentFilesStep
    <3> QED BY <3>2 DEF SendInv, SentPreviews, SentFiles
  <2>9. ScopeInv'
    <3>1. DraftInv' /\ Remembers
      BY DraftStep
    <3>2. CallsScoped'
      BY <3>1, CallsScopedStep
    <3> QED BY <3>1, <3>2 DEF DraftInv, ScopeInv
  <2> QED BY <2>1, <2>2, <2>3, <2>4, <2>5, <2>6, <2>7, <2>8, <2>9
<1> QED BY <1>1, InitUploads, PTL

(* What the run checks, for every set of files, pictures, pasted texts and  *)
(* conversations and every limit: the quota is what the uploads in flight   *)
(* have reserved, previews are owned, and no file strays into the draft of  *)
(* another conversation or is lost from its own.                            *)
THEOREM DraftsAndQuota == Spec => []UploadsSound
<1>1. UploadsInv => UploadsSound
  <2> SUFFICES ASSUME UploadsInv PROVE UploadsSound
    OBVIOUS
  <2>1. reserved \in Nat
    <3>1. IsFiniteSet(Inflight)
      BY UploadsAssumption, FS_Subset DEF Inflight
    <3> QED BY <3>1, FS_CardinalityType DEF UploadsInv, ReservedExact
  <2>2. TypeOK
    BY <2>1 DEF UploadsInv, PageTypes, CallTypes, ServerTypes, GhostTypes, TypeOK, Waits,
      Cancellations, Removals, Submissions, Statuses, Texts, Drafts
  <2> QED BY <2>2 DEF UploadsInv, ScopeInv, UploadsSound
<1> QED BY <1>1, UploadsInvariant, PTL DEF Spec

(* cancel_uploads, reclaim_assets and a late worker: a file that a message  *)
(* has taken is never taken from it.                                        *)
THEOREM SentFilesStay == Spec => BoundStays
<1>1. UploadsInv /\ [Next]_vars => [\A f \in Files : asset[f] = "bound" => asset'[f] = "bound"]_vars
  BY AssetStep DEF UploadsInv
<1> QED BY <1>1, UploadsInvariant, PTL DEF Spec, BoundStays
=============================================================================
