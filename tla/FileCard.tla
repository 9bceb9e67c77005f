------------------------------ MODULE FileCard ------------------------------
(***************************************************************************)
(* The card of an attachment (frontend/src/files/AttachmentCard.tsx,       *)
(* PastedTextCard.tsx): signed URLs that are cached for less than they     *)
(* live, one preview request at a time, downloads, the preview dialog, and *)
(* the text of a pasted attachment.                                        *)
(***************************************************************************)
EXTENDS Integers, FiniteSets

CONSTANTS
  CacheTtl,    \* READ_URL_CACHE_TTL_MS
  UrlTtl,      \* files_download_ttl_seconds
  MaxClicks     \* bound on the clicks

ASSUME CardAssumption == {CacheTtl, UrlTtl, MaxClicks} \subseteq Nat /\ CacheTtl < UrlTtl

VARIABLE fc    \* the card

Roles == {"preview", "download"}
NoEntry == [on |-> FALSE, age |-> 0, ready |-> FALSE, url |-> 0]

(* kind: how the card is laid out.  local: a local preview.  cache: an entry of  *)
(* readUrlCache per role, its age and the age of its URL.  preview: there   *)
(* is a previewUrl.  thumbnail: the effect for it is due.  asked: what the  *)
(* preview request under way is for.  downloads: the ones under way.        *)
(* given: age of a URL as it is put to use.  reading: reads of the text of  *)
(* a paste under way; overlapped: two of them were at once.                 *)
CardStart(kind, local) ==
  [kind |-> kind, local |-> local, cache |-> [r \in Roles |-> NoEntry],
   preview |-> FALSE, thumbnail |-> TRUE, asked |-> "no", downloads |-> 0, loading |-> "none",
   error |-> FALSE, open |-> FALSE, given |-> 0, text |-> FALSE, spinner |-> FALSE,
   reading |-> 0, overlapped |-> FALSE, clicks |-> 0]

Unaged == [fc EXCEPT !.given = 0]
ShowsImage == fc.local \/ fc.preview

-----------------------------------------------------------------------------
(* What the card offers                                                     *)

ImageButton == fc.kind = "image"
FileButton == fc.kind = "file"
ImagePreviewDialog == ImageButton /\ fc.open /\ ShowsImage
DialogDownload == ImagePreviewDialog /\ fc.loading # "download"
ListPreview == fc.kind = "list" /\ fc.loading # "preview"
ListDownload == fc.kind = "list" /\ fc.loading # "download"
PastedTextButton == fc.kind = "paste"

(* PastedTextDialog: an error, a spinner, or the text.                      *)
PastedTextDialog == IF ~(PastedTextButton /\ fc.open) THEN "closed" ELSE IF fc.error THEN "error"
                    ELSE IF ~fc.text \/ fc.spinner THEN "spinner" ELSE "text"

Clicked(c) == [c EXCEPT !.clicks = @ + 1, !.given = 0]
CanClick == fc.clicks < MaxClicks

-----------------------------------------------------------------------------
(* cachedReadUrl                                                            *)

Cached(r) == fc.cache[r].on /\ fc.cache[r].age < CacheTtl

(* A new entry, or the one that is fresh enough.                            *)
CachedReadUrl(r) == IF Cached(r) THEN fc.cache
                    ELSE [fc.cache EXCEPT ![r] = [NoEntry EXCEPT !.on = TRUE]]

(* resolvePreviewUrl: a URL that is at hand, the request that is under way, *)
(* or a new one.                                                            *)
ResolvePreviewUrl(why) ==
  IF fc.asked # "no" THEN [fc EXCEPT !.asked = IF why = "open" THEN "open" ELSE @]
  ELSE [fc EXCEPT !.asked = why, !.loading = "preview", !.error = FALSE,
                  !.cache = CachedReadUrl("preview")]

(* The effect that loads the thumbnail of a picture, once.                  *)
LoadThumbnail ==
  /\ fc.kind \in {"image", "list"} /\ fc.thumbnail
  /\ fc' = [IF ShowsImage THEN Unaged ELSE [ResolvePreviewUrl("show") EXCEPT !.given = 0]
              EXCEPT !.thumbnail = FALSE]

(* read("preview"): the dialog opens when there is a URL.                   *)
OpenPreview ==
  /\ CanClick /\ ~fc.open /\ (ImageButton \/ ListPreview)
  /\ fc' = Clicked(IF ShowsImage THEN [fc EXCEPT !.open = TRUE] ELSE ResolvePreviewUrl("open"))

ClosePreview == ImagePreviewDialog /\ fc' = [Unaged EXCEPT !.open = FALSE]

(* read("download"): not while the card is loading anything.                *)
Download ==
  /\ FileButton \/ DialogDownload \/ ListDownload
  /\ CanClick /\ fc.loading = "none"
  /\ fc' = Clicked([fc EXCEPT !.downloads = @ + 1, !.loading = "download", !.error = FALSE,
                              !.cache = CachedReadUrl("download")])

(* The server signs a URL.                                                  *)
Signed(r) ==
  /\ fc.cache[r].on /\ ~fc.cache[r].ready
  /\ fc' = [Unaged EXCEPT !.cache[r].ready = TRUE, !.cache[r].url = 0]

PreviewAnswered ==
  /\ fc.asked # "no" /\ fc.cache["preview"].ready
  /\ fc' = [fc EXCEPT !.preview = TRUE, !.given = fc.cache["preview"].url,
                      !.open = @ \/ fc.asked = "open", !.asked = "no",
                      !.loading = IF @ = "preview" THEN "none" ELSE @]

DownloadAnswered ==
  /\ fc.downloads > 0 /\ fc.cache["download"].ready
  /\ fc' = [fc EXCEPT !.downloads = @ - 1, !.loading = "none",
                      !.given = fc.cache["download"].url]

(* The request fails: its entry goes, so that the next click asks again.    *)
ReadFailed(r) ==
  /\ fc.cache[r].on /\ ~fc.cache[r].ready
  /\ IF r = "preview" THEN fc.asked # "no" ELSE fc.downloads > 0
  /\ fc' = IF r = "preview"
           THEN [Unaged EXCEPT !.asked = "no", !.error = TRUE, !.cache[r] = NoEntry,
                               !.loading = IF @ = "preview" THEN "none" ELSE @]
           ELSE [Unaged EXCEPT !.downloads = 0, !.error = TRUE, !.cache[r] = NoEntry,
                               !.loading = "none"]

(* Time: an entry that is too old is dropped when it is next looked for.    *)
Older(e) == IF e.on /\ e.age < UrlTtl
            THEN [e EXCEPT !.age = @ + 1, !.url = IF e.ready THEN @ + 1 ELSE 0] ELSE e

(* A request takes less than a unit of time.                                *)
Tick ==
  /\ \E r \in Roles : Older(fc.cache[r]) # fc.cache[r]
  /\ \A r \in Roles : fc.cache[r].on => fc.cache[r].ready
  /\ fc.asked = "no" /\ fc.downloads = 0
  /\ fc' = [Unaged EXCEPT !.cache = [r \in Roles |-> Older(fc.cache[r])]]

(* A picture of the composer passes to the thread, and its local URL is     *)
(* given up: the effect runs again.                                         *)
LocalConsumed == fc.local /\ fc' = [Unaged EXCEPT !.local = FALSE, !.thumbnail = TRUE]

-----------------------------------------------------------------------------
(* PastedTextCard: its text is in this tab's memory or is read.             *)

(* openDialog: a text that is not there is asked for, again if need be.     *)
OpenText ==
  /\ PastedTextButton /\ CanClick /\ ~fc.open
  /\ fc' = Clicked(IF fc.text THEN [fc EXCEPT !.open = TRUE]
                   ELSE [fc EXCEPT !.open = TRUE, !.spinner = TRUE, !.error = FALSE,
                                   !.reading = @ + 1, !.overlapped = @ \/ fc.reading > 0])
CloseText == PastedTextButton /\ fc.open /\ fc' = [fc EXCEPT !.open = FALSE]

TextLoaded == /\ fc.reading > 0
              /\ fc' = [fc EXCEPT !.reading = @ - 1, !.text = TRUE, !.spinner = FALSE]
TextFailed == /\ fc.reading > 0
              /\ fc' = [fc EXCEPT !.reading = @ - 1, !.error = TRUE, !.spinner = FALSE]

CardNext ==
  \/ LoadThumbnail \/ OpenPreview \/ ClosePreview \/ Download \/ Tick \/ LocalConsumed
  \/ \E r \in Roles : Signed(r) \/ ReadFailed(r)
  \/ PreviewAnswered \/ DownloadAnswered
  \/ OpenText \/ CloseText \/ TextLoaded \/ TextFailed

CardFairness == /\ \A r \in Roles : WF_fc(Signed(r) \/ ReadFailed(r))
                /\ WF_fc(PreviewAnswered) /\ WF_fc(DownloadAnswered)
                /\ WF_fc(TextLoaded \/ TextFailed)

-----------------------------------------------------------------------------
CardTypeOK ==
  /\ fc.kind \in {"off", "image", "file", "list", "paste"} /\ fc.asked \in {"no", "show", "open"}
  /\ fc.downloads \in 0..MaxClicks /\ fc.loading \in {"none", "preview", "download"}
  /\ fc.reading \in 0..MaxClicks /\ fc.given \in 0..UrlTtl

(* A URL that is put to use is one that the server still honours, however   *)
(* long the card has been on the page.                                      *)
UrlsFresh == fc.given < UrlTtl

(* The card says that it is loading only while something is, so that no     *)
(* button stays disabled: a preview and a download may overlap.             *)
LoadingTrue ==
  /\ fc.loading = "preview" => fc.asked # "no"
  /\ fc.loading = "download" => fc.downloads > 0

(* An error stands over a text that is known only when two reads of it      *)
(* overlapped: then nothing takes it away.                                  *)
ErrorOverText == fc.error /\ fc.text => fc.overlapped

(* The dialog of a pasted text ends with the text or an error.              *)
TextShown == PastedTextDialog = "spinner" ~> PastedTextDialog # "spinner"
=============================================================================
