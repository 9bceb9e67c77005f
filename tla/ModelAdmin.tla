----------------------------- MODULE ModelAdmin -----------------------------
(***************************************************************************)
(* The console over the model catalog (frontend/src/model-admin): the gate *)
(* with its access key, the lists and details, the editors, confirmations  *)
(* and switches, and the one request that may run at a time, whose answer  *)
(* is the whole catalog.  The service is one model, one upstream and the   *)
(* route between them, changed by another administrator as well; its rows  *)
(* and their archive are CatalogRows.                                      *)
(***************************************************************************)
EXTENDS Integers, FiniteSets

CONSTANTS MaxEdits,   \* bound on the requests and on what others do
          MaxStrays   \* bound on the requests that nobody waits for at one time
ASSUME EditsAssumption == MaxEdits \in Nat \ {0} /\ MaxStrays \in Nat

VARIABLE ma

Kinds == {"model", "upstream", "route"}
Gone == [row |-> "absent", on |-> FALSE]
Fresh == [db |-> FALSE, model |-> Gone, upstream |-> Gone, route |-> Gone, batch |-> FALSE]
NoCatalog == [Fresh EXCEPT !.batch = TRUE]

(* The state of the dashboard, which goes with it.  editor, pending: what   *)
(* is edited, or waits to be confirmed.  shown: the detail of the pane's    *)
(* row is shown, which a query may hide unless the row was selected.  What  *)
(* a narrow screen hides is layout; the controls are those of a wide one.   *)
NoDash == [pane |-> "models", shown |-> TRUE, editor |-> "none", saving |-> FALSE, pending |-> "none"]

(* key, stored: the access key in memory and in sessionStorage.  flights:   *)
(* requests, each with its step and the switch it asks for.  strays: those  *)
(* that nobody waits for any more and that the service will still do.       *)
(* rotated: the service has another key now.  n: requests so far, and what  *)
(* others did.  others: the catalog was changed by another administrator or *)
(* by a stray since the service answered this page.  lost: an answer was    *)
(* lost, so that the catalog on the screen is old.  notice: a failure is    *)
(* told; what a success is told with is wording.                            *)
AdminStart(on, srv) ==
  [on |-> on, srv |-> srv, rotated |-> FALSE, n |-> 0, others |-> FALSE, key |-> "", stored |-> "", catalog |-> NoCatalog,
   gateBusy |-> FALSE, gateError |-> FALSE, busy |-> "none", notice |-> "none", dash |-> NoDash,
   flights |-> {}, strays |-> {}, lost |-> FALSE]

-----------------------------------------------------------------------------
(* The service, one request at a time                                       *)

IsActive(x) == x.row = "active"
(* _database_chat_models: the model is served when all three rows are on.   *)
Available(s) == \A k \in Kinds : IsActive(s[k]) /\ s[k].on

(* upsert: the active row, or a new one; a new model or upstream has no     *)
(* route.                                                                   *)
Saved(s, k, on) ==
  LET new == [s EXCEPT ![k] = [row |-> "active", on |-> on]] IN
  IF k = "route" THEN (IF IsActive(s.model) /\ IsActive(s.upstream) THEN {new} ELSE {})
  ELSE {IF IsActive(s[k]) THEN new ELSE [new EXCEPT !.route = Gone, !.batch = FALSE]}

SetEnabled(s, k, on) ==
  IF IsActive(s[k]) /\ (k = "route" => IsActive(s.model) /\ IsActive(s.upstream))
  THEN {[s EXCEPT ![k].on = on]} ELSE {}

(* set_database_catalog_enabled: what is asked for is set, as it may be     *)
(* already; switching on is refused with nothing to serve.                  *)
SetCatalog(s, on) == IF on => Available(s) THEN {[s EXCEPT !.db = on]} ELSE {}

Imported(s) ==
  LET r == [row |-> "active", on |-> TRUE] IN
  {[s EXCEPT !.model = r, !.upstream = r, !.route = r, !.batch = FALSE]}

Archive(s, k) ==
  IF ~IsActive(s[k]) THEN {}
  ELSE CASE k = "model" -> {[s EXCEPT !.model.row = "archived",
                                      !.route.row = IF @ = "active" THEN "archived" ELSE @,
                                      !.batch = IF IsActive(s.route) THEN TRUE ELSE @]}
         [] k = "upstream" -> IF IsActive(s.route) THEN {} ELSE {[s EXCEPT !.upstream.row = "archived"]}
         [] k = "route" -> {[s EXCEPT !.route.row = "archived", !.batch = FALSE]}

Restore(s, k) ==
  IF s[k].row # "archived" THEN {}
  ELSE CASE k = "model" ->
              {[s EXCEPT !.model.row = "active", !.batch = FALSE,
                         !.route.row = IF @ = "archived" /\ s.batch /\ IsActive(s.upstream)
                                       THEN "active" ELSE @]}
         [] k = "upstream" -> {[s EXCEPT !.upstream.row = "active"]}
         [] k = "route" -> IF IsActive(s.model) /\ IsActive(s.upstream)
                           THEN {[s EXCEPT !.route.row = "active"]} ELSE {}

(* What an operation may make of the catalog; the empty set: refused.       *)
Applied(s, act, k, on) ==
  CASE act = "refresh" -> {s}
    [] act = "save" -> Saved(s, k, on)
    [] act = "toggle" -> SetEnabled(s, k, on)
    [] act = "toggle-catalog" -> SetCatalog(s, on)
    [] act = "import-environment" -> Imported(s)
    [] act = "archive" -> Archive(s, k)
    [] act = "restore" -> Restore(s, k)

(* require_model_admin_access.                                              *)
Refuses(key) == key # "good" \/ ma.rotated

-----------------------------------------------------------------------------
(* What the screens offer                                                   *)

GateShown == ma.catalog = NoCatalog
GateForm == GateShown /\ ma.key # "" /\ ~ma.gateBusy
Dashboard == ~GateShown
NoDialog == ma.dash.editor = "none" /\ ma.dash.pending = "none"

(* The controls of the page, disabled while a request runs and behind a     *)
(* dialog.                                                                  *)
Controls == Dashboard /\ NoDialog /\ ma.busy = "none"

(* The row whose details are shown.                                         *)
SelectedModel == ma.dash.pane = "models" /\ ma.dash.shown /\ IsActive(ma.catalog.model)
SelectedUpstream == ma.dash.pane = "upstreams" /\ ma.dash.shown /\ IsActive(ma.catalog.upstream)
RowButton(k) == Dashboard /\ NoDialog /\ IsActive(ma.catalog[k])
                  /\ (k = "model") = (ma.dash.pane # "upstreams")
ModelDetail == Controls /\ SelectedModel
UpstreamDetail == Controls /\ SelectedUpstream
RouteTrack == ModelDetail /\ IsActive(ma.catalog.route)
AddRoute == ModelDetail /\ IsActive(ma.catalog.upstream)
ArchivedList == Controls /\ ma.dash.pane = "archived"
(* A route that was archived with its model is not listed by itself.        *)
ArchivedEntry(k) == ArchivedList /\ ma.catalog[k].row = "archived"
                      /\ (k = "route" => ~(ma.catalog.batch /\ ma.catalog.model.row = "archived"))
DetailActions(k) == CASE k = "model" -> ModelDetail [] k = "upstream" -> UpstreamDetail [] k = "route" -> RouteTrack
AddButton(k) == IF k = "route" THEN AddRoute
                ELSE Controls /\ (k = "upstream") = (ma.dash.pane = "upstreams")
ModelEditor == ma.dash.editor = "model"
UpstreamEditor == ma.dash.editor = "upstream"
RouteEditor == ma.dash.editor = "route"
EditorShell == ModelEditor \/ UpstreamEditor \/ RouteEditor
ConfirmShown == ma.dash.pending # "none"

-----------------------------------------------------------------------------
(* The gate                                                                 *)

Locked(s) == [s EXCEPT !.stored = "", !.key = "", !.catalog = NoCatalog, !.busy = "none",
                       !.notice = "none", !.dash = NoDash]

(* rejectAccess: a refused key locks; any other failure keeps what is open. *)
RejectAccess(s, refused) == [IF refused THEN Locked(s) ELSE s EXCEPT !.gateError = TRUE]

Sent(s, act, k, on, key) ==
  [s EXCEPT !.flights = @ \cup {[act |-> act, k |-> k, on |-> on, key |-> key, step |-> "sent", got |-> NoCatalog]}]

(* The page waits for these no longer: what was sent to change something is *)
(* still done.  The number of requests so far tells equal ones apart.       *)
Abandoned(s, fs) ==
  [s EXCEPT !.strays = @ \cup {<<s.n, f>> : f \in {g \in fs : /\ g.step = "sent"
                                                              /\ g.act \notin {"open", "reopen", "refresh"}}}]

(* openCatalog.                                                             *)
OpenCatalog(s, key, act) == Sent([s EXCEPT !.gateBusy = TRUE, !.gateError = FALSE], act, "none", FALSE, key)

TypeKey(k) == /\ ma.on /\ GateShown /\ ~ma.gateBusy /\ ma.key # k
              /\ ma' = [ma EXCEPT !.key = k]
SubmitKey == /\ ma.on /\ GateForm
             /\ ma' = OpenCatalog(ma, ma.key, "open")

(* The page is loaded again: only sessionStorage is left, and its key tried.*)
(* What was sent goes on without it.                                        *)
ReloadConsole ==
  /\ ma.on
  /\ LET left == [Abandoned(ma, ma.flights)
                   EXCEPT !.key = ma.stored, !.catalog = NoCatalog, !.gateBusy = FALSE, !.gateError = FALSE,
                          !.busy = "none", !.notice = "none", !.dash = NoDash, !.flights = {},
                          !.lost = FALSE] IN
     ma' = IF ma.stored = "" THEN left ELSE OpenCatalog(left, ma.stored, "reopen")
  /\ Cardinality(ma'.strays) <= MaxStrays

OpenAnswered(f) ==
  /\ ma.on /\ f.act \in {"open", "reopen"} /\ f.step # "sent"
  /\ LET s == [ma EXCEPT !.flights = @ \ {f}, !.gateBusy = FALSE] IN
     ma' = IF f.step = "done"
           THEN [s EXCEPT !.key = f.key, !.catalog = f.got, !.lost = FALSE,
                          !.stored = IF f.act = "open" THEN f.key ELSE @]
           ELSE RejectAccess(s, f.step = "denied")

LockConsole == /\ ma.on /\ Controls
               /\ ma' = Locked(ma)

-----------------------------------------------------------------------------
(* The dashboard                                                            *)

SwitchPane(p) == /\ ma.on /\ Dashboard /\ NoDialog /\ ma.dash.pane # p
                 /\ ma' = [ma EXCEPT !.dash = [@ EXCEPT !.pane = p, !.shown = TRUE]]
SelectRow(k) == /\ ma.on /\ RowButton(k)
                /\ ma' = [ma EXCEPT !.dash = [@ EXCEPT !.shown = TRUE, !.pane = IF k = "model" THEN "models" ELSE ma.dash.pane]]
TypeQuery == /\ ma.on /\ Dashboard /\ NoDialog /\ ma.dash.pane # "archived"
             /\ \E b \in BOOLEAN : ma' = [ma EXCEPT !.dash.shown = b]

(* runMutation.                                                             *)
Run(s, act, k, on) == Sent([s EXCEPT !.busy = act, !.notice = "none", !.n = @ + 1], act, k, on, ma.key)
More == ma.n < MaxEdits

RefreshCatalog == /\ ma.on /\ More /\ Controls /\ ma' = Run(ma, "refresh", "none", FALSE)
(* The other state of the row that is shown, which may be an old one.       *)
ToggleRow(k) == /\ ma.on /\ More /\ DetailActions(k) /\ ma' = Run(ma, "toggle", k, ~ma.catalog[k].on)

(* The editors.                                                             *)
OpenEditor(k) == /\ ma.on /\ (AddButton(k) \/ DetailActions(k))
                 /\ ma' = [ma EXCEPT !.dash.editor = k]
SaveEditor == /\ ma.on /\ More /\ EditorShell /\ ~ma.dash.saving
              /\ \E on \in BOOLEAN : ma' = Run([ma EXCEPT !.dash.saving = TRUE], "save", ma.dash.editor, on)
CloseEditor == /\ ma.on /\ EditorShell /\ ~ma.dash.saving
               /\ ma' = [ma EXCEPT !.dash.editor = "none"]

(* Confirmations: the operation is kept until it is confirmed.              *)
AskArchive(k) == /\ ma.on /\ DetailActions(k) /\ ma' = [ma EXCEPT !.dash.pending = <<"archive", k>>]
AskRestore(k) == /\ ma.on /\ ArchivedEntry(k) /\ ma' = [ma EXCEPT !.dash.pending = <<"restore", k>>]
AskConfirmation(act) == /\ ma.on /\ Controls /\ ma' = [ma EXCEPT !.dash.pending = <<act, "none">>]
ConfirmPending == /\ ma.on /\ More /\ ConfirmShown
                  /\ ma' = Run([ma EXCEPT !.dash.pending = "none"], ma.dash.pending[1], ma.dash.pending[2],
                               ~ma.catalog.db)
CancelPending == /\ ma.on /\ ConfirmShown
                 /\ ma' = [ma EXCEPT !.dash.pending = "none"]

-----------------------------------------------------------------------------
(* Requests                                                                 *)

(* The service answers, or its answer is lost after it was done.            *)
Reply(s, f, step, got) == [s EXCEPT !.flights = (@ \ {f}) \cup {[f EXCEPT !.step = step, !.got = got]}]
ServeAdmin(f) ==
  /\ ma.on /\ f.step = "sent"
  /\ LET act == IF f.act \in {"open", "reopen"} THEN "refresh" ELSE f.act IN
     IF Refuses(f.key) THEN ma' = Reply(ma, f, "denied", NoCatalog)
     ELSE IF Applied(ma.srv, act, f.k, f.on) = {} THEN ma' = Reply(ma, f, "refused", NoCatalog)
     ELSE \E s \in Applied(ma.srv, act, f.k, f.on) :
            \/ ma' = [Reply(ma, f, "done", s) EXCEPT !.srv = s, !.others = FALSE]
            \/ ma' = [Reply(ma, f, "lost", NoCatalog) EXCEPT !.srv = s]
(* The connection fails before the service comes to the request.            *)
LoseRequest(f) ==
  /\ ma.on /\ f.step = "sent"
  /\ ma' = Reply(Abandoned(ma, {f}), f, "lost", NoCatalog)
  /\ Cardinality(ma'.strays) <= MaxStrays
(* The service does what nobody waits for.                                  *)
ServeStray(n, f) ==
  /\ ma.on
  /\ LET after == IF Refuses(f.key) THEN {} ELSE Applied(ma.srv, f.act, f.k, f.on)
         left == [ma EXCEPT !.strays = @ \ {<<n, f>>}] IN
     IF after = {} THEN ma' = left
     ELSE \E s \in after : ma' = [left EXCEPT !.srv = s, !.others = TRUE]

(* runMutation's answer: the catalog is replaced as a whole; a refused key  *)
(* locks the console; any other failure is told, and an editor stays open.  *)
MutationAnswered(f) ==
  /\ ma.on /\ f.act \notin {"open", "reopen"} /\ f.step # "sent"
  /\ LET s == [ma EXCEPT !.flights = @ \ {f}, !.busy = "none", !.dash.saving = FALSE] IN
     ma' = CASE f.step = "done" ->
                  [s EXCEPT !.catalog = f.got, !.notice = "none", !.lost = FALSE,
                            !.dash.editor = IF f.act = "save" THEN "none" ELSE @]
             [] f.step = "denied" -> RejectAccess(s, TRUE)
             [] OTHER -> [s EXCEPT !.notice = "error", !.lost = @ \/ f.step = "lost"]

(* The other administrator, and the key of the service.                     *)
OtherAdmin == /\ ma.on /\ More
              /\ \E act \in {"save", "toggle", "archive", "restore", "toggle-catalog"}, k \in Kinds, on \in BOOLEAN :
                   \E s \in Applied(ma.srv, act, k, on) : ma' = [ma EXCEPT !.srv = s, !.others = TRUE, !.n = @ + 1]
RotateKey == /\ ma.on /\ More /\ ~ma.rotated
             /\ ma' = [ma EXCEPT !.rotated = TRUE, !.n = @ + 1]

AdminNext ==
  \/ \E k \in {"good", "bad", ""} : TypeKey(k)
  \/ SubmitKey \/ ReloadConsole \/ LockConsole
  \/ \E p \in {"models", "upstreams", "archived"} : SwitchPane(p)
  \/ \E k \in {"model", "upstream"} : SelectRow(k)
  \/ TypeQuery \/ RefreshCatalog
  \/ \E k \in Kinds : ToggleRow(k) \/ OpenEditor(k) \/ AskArchive(k) \/ AskRestore(k)
  \/ SaveEditor \/ CloseEditor \/ ConfirmPending \/ CancelPending
  \/ \E act \in {"toggle-catalog", "import-environment"} : AskConfirmation(act)
  \/ \E f \in ma.flights : ServeAdmin(f) \/ LoseRequest(f) \/ OpenAnswered(f) \/ MutationAnswered(f)
  \/ \E x \in ma.strays : ServeStray(x[1], x[2])
  \/ OtherAdmin \/ RotateKey

-----------------------------------------------------------------------------
AdminTypeOK ==
  /\ ma.key \in {"", "good", "bad"} /\ ma.stored \in {"", "good"}
  /\ ma.notice \in {"none", "error"} /\ ma.n \in 0..MaxEdits

(* The page waits for one request at a time, and the spinner is up exactly  *)
(* while it does: no control, editor or confirmation starts a second one.   *)
OneAtATime ==
  /\ Cardinality(ma.flights) <= 1
  /\ (ma.flights # {}) = (ma.gateBusy \/ ma.busy # "none")

(* The console at rest shows the catalog as it is, unless an answer was     *)
(* lost, or another administrator or a stray of an earlier page came in     *)
(* after the service answered: what an operation did beside its own row,    *)
(* such as the routes of an archived model, is seen at once, and what       *)
(* others did before is seen with the next answer.                          *)
ConsoleTrue ==
  Dashboard /\ ma.flights = {} /\ ~ma.others /\ ~ma.lost => ma.catalog = ma.srv

(* A key that the service refused is not kept, on the screen or in storage, *)
(* and nothing of the catalog stays on the screen.                          *)
RefusedKeyGone ==
  [][(\E f \in ma.flights : f.step = "denied" /\ f \notin ma'.flights /\ ma'.flights = {} /\ ma'.gateError)
       => ma'.stored = "" /\ ma'.key = "" /\ ma'.catalog = NoCatalog /\ ma'.dash = NoDash]_ma

(* What was typed into an editor is not lost to a save that failed.         *)
EditorSurvives ==
  [][EditorShell /\ ma'.catalog # NoCatalog /\ ma'.notice = "error" /\ ma.notice # "error"
       => ma'.dash.editor = ma.dash.editor]_ma

(* The database catalog is never switched on with nothing to serve, though  *)
(* the console that asks may show an older catalog.                         *)
SwitchedOnServing == [][~ma.srv.db /\ ma'.srv.db => Available(ma'.srv)]_ma
=============================================================================
