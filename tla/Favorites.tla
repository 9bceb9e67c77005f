------------------------------ MODULE Favorites ------------------------------
(***************************************************************************)
(* The dialog of favorite conversations (frontend/src/conversations/       *)
(* FavoritesDialog.tsx) over toggleFavorite of useConversationMarkers: the *)
(* star of a row and the one of the sidebar index are set at once, put     *)
(* back when the request fails, and one conversation stands for all.       *)
(***************************************************************************)
EXTENDS Integers, FiniteSets

CONSTANT MaxToggles   \* bound on the stars that are clicked
ASSUME ToggleAssumption == MaxToggles \in Nat

VARIABLE fv

(* server, index: the star as the service and the sidebar have it.  row:    *)
(* the star in the dialog.  listed: the conversation is among its rows.     *)
(* calls: requests in flight, each with the stars to put back.  mount: the  *)
(* dialog that is open, counted.  crossed: two requests, or a request and a *)
(* load, were in flight together.  saved: a request was ever saved.         *)
FavoritesStart(on) ==
  [on |-> on, server |-> TRUE, index |-> TRUE, open |-> FALSE, status |-> "loading", retry |-> FALSE,
   listed |-> FALSE, row |-> FALSE, match |-> TRUE, calls |-> {}, mount |-> 0, n |-> 0, crossed |-> FALSE, saved |-> FALSE]

-----------------------------------------------------------------------------
FavoritesLoading == fv.open /\ fv.status = "loading"
FavoritesError == fv.open /\ fv.status = "error"
FavoritesRows == fv.open /\ fv.status = "ready" /\ fv.listed /\ fv.match

OpenFavorites == /\ fv.on /\ ~fv.open /\ fv.n < MaxToggles
                 /\ fv' = [fv EXCEPT !.open = TRUE, !.status = "loading", !.listed = FALSE, !.match = TRUE,
                                     !.mount = fv.n, !.crossed = @ \/ fv.calls # {}]
RetryFavorites == /\ fv.on /\ FavoritesError
                  /\ fv' = [fv EXCEPT !.status = "loading", !.crossed = @ \/ fv.calls # {}]
CloseFavorites == /\ fv.on /\ fv.open
                  /\ fv' = [fv EXCEPT !.open = FALSE, !.listed = FALSE, !.row = FALSE]

(* The rows are what the service lists; they stay until the dialog closes.  *)
FavoritesLoaded(ok) ==
  /\ fv.on /\ FavoritesLoading
  /\ fv' = IF ok THEN [fv EXCEPT !.status = "ready", !.listed = fv.server, !.row = fv.server]
           ELSE [fv EXCEPT !.status = "error"]

(* The filter over the titles.                                              *)
FilterFavorites == /\ fv.on /\ fv.open
                   /\ fv' = [fv EXCEPT !.match = ~@]

-----------------------------------------------------------------------------
(* toggle: both stars turn at once.  The request asks for the opposite of   *)
(* the index.                                                               *)
Toggle == /\ fv.on /\ FavoritesRows /\ fv.n < MaxToggles
          /\ fv' = [fv EXCEPT !.n = @ + 1, !.row = ~@, !.index = ~@,
                      !.crossed = @ \/ fv.calls # {},
                      !.calls = @ \cup {[id |-> fv.n, to |-> ~fv.index, was |-> fv.row, had |-> fv.index,
                                         mount |-> fv.mount, step |-> "sent"]}]

(* The service saves it or not.                                             *)
FavoriteSaved(c, ok) ==
  /\ fv.on /\ c.step = "sent"
  /\ fv' = [fv EXCEPT !.server = IF ok THEN c.to ELSE @, !.saved = @ \/ ok,
                      !.calls = (@ \ {c}) \cup {[c EXCEPT !.step = IF ok THEN "saved" ELSE "failed"]}]

(* The answer: the index takes what was saved, or both stars go back.       *)
FavoriteSettled(c) ==
  /\ fv.on /\ c.step # "sent"
  /\ fv' = [fv EXCEPT !.calls = @ \ {c},
              !.index = IF c.step = "saved" THEN c.to ELSE c.had,
              !.row = IF c.step = "failed" /\ fv.listed /\ c.mount = fv.mount THEN c.was ELSE @]

FavoritesNext ==
  \/ OpenFavorites \/ RetryFavorites \/ CloseFavorites \/ FilterFavorites \/ Toggle
  \/ \E ok \in BOOLEAN : FavoritesLoaded(ok)
  \/ \E c \in fv.calls : FavoriteSettled(c) \/ \E ok \in BOOLEAN : FavoriteSaved(c, ok)

-----------------------------------------------------------------------------
FavoritesTypeOK == fv.status \in {"loading", "ready", "error"} /\ fv.n \in 0..MaxToggles

(* When nothing is in flight, the star in the dialog and the one in the     *)
(* sidebar are the one the service has, whatever failed and however often   *)
(* the dialog was closed in between - as long as no two of these crossed.   *)
StarsTrueAlone ==
  fv.calls = {} /\ ~fv.crossed =>
    fv.index = fv.server /\ (fv.open /\ fv.listed => fv.row = fv.server)
=============================================================================
