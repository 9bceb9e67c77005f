----------------------------- MODULE AdminParts -----------------------------
(***************************************************************************)
(* The administration of the models: the rows of the catalog under several *)
(* administrators, and the console of one of them.  A behaviour is a       *)
(* behaviour of one of the two.                                            *)
(***************************************************************************)
EXTENDS CatalogRows, ModelAdmin

vars == <<ct, ma>>

Init ==
  \/ ct = CatalogStart(TRUE) /\ ma = AdminStart(FALSE, Fresh)
  \/ ct = CatalogStart(FALSE) /\ \E s \in {Fresh} \cup Imported(Fresh) : ma = AdminStart(TRUE, s)

Next == \/ CatalogNext /\ UNCHANGED ma
        \/ AdminNext /\ UNCHANGED ct

Spec == Init /\ [][Next]_vars

-----------------------------------------------------------------------------
(* The catalog under several administrators and the console of one: keys    *)
(* stay unique, what is restored is what was announced, a run keeps its     *)
(* upstream, one operation is under way at a time and the console shows     *)
(* what the server has (management.py, catalogView, ModelAdminPage).        *)
AdminSound ==
  /\ CatalogTypeOK /\ KeysUnique /\ ParentsAlone /\ PreviewTrue /\ RunsKeepUpstream
  /\ AdminTypeOK /\ OneAtATime /\ ConsoleTrue

(* Steps of both: a route that was archived by itself stays so, a key that  *)
(* was refused is forgotten, a failed save keeps its editor, and a catalog  *)
(* that is switched on has a model to serve (management.py, ModelAdminPage, *)
(* EditorShell).                                                            *)
AdminSteps == SoloStays /\ RefusedKeyGone /\ EditorSurvives /\ SwitchedOnServing
=============================================================================
