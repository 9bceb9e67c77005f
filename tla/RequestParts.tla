----------------------------- MODULE RequestParts ----------------------------
(***************************************************************************)
(* Parts of the client that wait for an answer and must get over it: a     *)
(* file sent in parts, the card of a file, the search dialog, the reveal   *)
(* of a hit, and the design workbench, whose page and services answer      *)
(* their own requests.  They share no state: a behaviour is a behaviour of *)
(* one of them.                                                            *)
(***************************************************************************)
EXTENDS MultipartPut, FileCard, SearchDialog, SearchReveal, DesignChat, DesignResults

requestVars == <<mp, fc, cs, rv, dc, dr>>

CardStarts == {CardStart("image", TRUE), CardStart("image", FALSE), CardStart("file", FALSE),
               CardStart("list", FALSE), CardStart("paste", FALSE)}

RequestsInit ==
  \E part \in {"put", "card", "search", "reveal", "design", "results"} :
    /\ mp = PutStart(part = "put")
    /\ fc \in IF part = "card" THEN CardStarts ELSE {CardStart("off", FALSE)}
    /\ cs = SearchStart(part = "search")
    /\ rv = RevealStart(part = "reveal")
    /\ DesignInit(part = "design") /\ ResultsInit(part = "results")

RequestsNext ==
  \/ PutNext /\ UNCHANGED <<fc, cs, rv, dc, dr>>
  \/ CardNext /\ UNCHANGED <<mp, cs, rv, dc, dr>>
  \/ SearchNext /\ UNCHANGED <<mp, fc, rv, dc, dr>>
  \/ RevealNext /\ UNCHANGED <<mp, fc, cs, dc, dr>>
  \/ DesignNext /\ UNCHANGED <<mp, fc, cs, rv, dr>>
  \/ ResultsNext /\ UNCHANGED <<mp, fc, cs, rv, dc>>

RequestsSpec ==
  /\ RequestsInit /\ [][RequestsNext]_requestVars
  /\ PutFairness /\ CardFairness /\ SearchFairness /\ RevealFairness /\ DesignFairness

-----------------------------------------------------------------------------
(* What the parts promise, gathered by subject.                             *)

(* A file in parts is sent and confirmed whole; a card shows what it has    *)
(* and never a link that has run out; rows answer the text that is typed    *)
(* and come once, the row that spins is the one that opens, and the         *)
(* highlight is owned by its reveal (putMultipartFile, FileAttachmentCard,  *)
(* PastedTextCard, ConversationSearch, revealSearchResult).                 *)
RequestsSound == /\ PutTypeOK /\ PartsOnce /\ ConfirmedWhole
                 /\ CardTypeOK /\ UrlsFresh /\ LoadingTrue /\ ErrorOverText
                 /\ SearchTypeOK /\ RowsAnswerQuery /\ RowsOnce /\ OpeningTrue
                 /\ RevealTypeOK /\ PaintOwned

(* On the workbench a run is in one place and answers once, marks, drafts,  *)
(* titles and pins are where they belong, and its services keep the rules   *)
(* of the catalog and of the links (ChatPage, createResults).               *)
WorkbenchSound == /\ DesignTypeOK /\ ScriptsWhole /\ OneAnswerEach /\ OpenedIsClean
                  /\ MarkedOrRunning /\ PinsWithin /\ SubmittingIsSent /\ DraftsAtHome
                  /\ TitleAwaited /\ ResultsTypeOK /\ MirrorKeeps /\ LinksShowTheirOwn

(* A file in parts, the text of a card, a search, a further page and a      *)
(* reveal all end, and a reveal survives the address it sets itself; runs   *)
(* off the screen and messages of the workbench end (putMultipartFile,      *)
(* PastedTextCard, ConversationSearch, revealSearchResult, ChatPage).       *)
RequestsEnd == /\ PutEnds /\ TextShown /\ SearchSettles /\ MoreUnlocks /\ OwnAddressKept
               /\ RevealEnds /\ WorkbenchEnds
=============================================================================
