---------------------------- MODULE CatalogRows ----------------------------
(***************************************************************************)
(* The rows of the model catalog (app/services/model_catalog): chat        *)
(* models, upstreams and the routes between them, which are archived and   *)
(* restored but never deleted.  Several administrators write at once; a    *)
(* transaction reads, then writes what it decided, and no lock is taken    *)
(* but by the partial unique indexes of the active rows.  One model key,   *)
(* one upstream key and one remote model stand for all: an archived row    *)
(* gives its key back, so each can have several rows.  Whether a row is    *)
(* enabled is left to ModelAdmin.                                          *)
(***************************************************************************)
EXTENDS Integers, Sequences, FiniteSets

CONSTANTS CatalogAdmins,   \* who may write at the same time
          MaxRows,         \* bound on the rows of a table
          MaxArchives      \* bound on the archive operations
ASSUME CatalogAssumption == MaxRows \in Nat \ {0} /\ MaxArchives \in Nat

VARIABLE ct

Adapters == {"deepseek", "openai"}
Outputs == {"raw", "none"}
NoneAdmitted == [route |-> 0, upstream |-> 0]

(* What a transaction writes: rows to insert and columns to set.  In a new  *)
(* route 0 names the row that the transaction itself inserts.               *)
NoEdit == [op |-> "none", model |-> FALSE, upstream |-> {}, route |-> {}, modelAt |-> {},
           upstreamAt |-> {}, adapter |-> {}, routeAt |-> {}, output |-> {}]

(* models, upstreams, routes: the tables, by id; at: archived_at, or 0.     *)
(* tx: the transaction of each administrator.  solo: routes that were       *)
(* archived by themselves.  run: the route and the upstream of a run.       *)
(* overlap: two transactions were ever open together.                       *)
CatalogStart(on) ==
  [on |-> on, models |-> <<>>, upstreams |-> <<>>, routes |-> <<>>, clock |-> 0,
   tx |-> [a \in CatalogAdmins |-> NoEdit], solo |-> {}, run |-> NoneAdmitted, overlap |-> FALSE]

-----------------------------------------------------------------------------
(* What is read                                                             *)

Live(rows) == {i \in 1..Len(rows) : rows[i].at = 0}
RoutesOf(m) == {r \in Live(ct.routes) : ct.routes[r].m = m}
RoutesTo(u) == {r \in Live(ct.routes) : ct.routes[r].u = u}

(* _validate_reasoning_outputs.                                             *)
Fits(out, adapter) == out = "none" \/ adapter = "deepseek"
FitAll(rs, adapter) == \A r \in rs : Fits(ct.routes[r].out, adapter)

(* The edits an operation may decide on: none when it is refused.           *)
PlanModel == {[NoEdit EXCEPT !.op = "upsert", !.model = Live(ct.models) = {}]}

PlanUpstream(adapter) ==
  IF Live(ct.upstreams) = {} THEN {[NoEdit EXCEPT !.op = "upsert", !.upstream = {adapter}]}
  ELSE {[NoEdit EXCEPT !.op = "upsert", !.adapter = {<<u, adapter>>}] :
          u \in {v \in Live(ct.upstreams) : FitAll(RoutesTo(v), adapter)}}

RouteEdit(m, u, out) ==
  LET same == {r \in RoutesOf(m) : ct.routes[r].u = u} IN
  IF same = {} THEN [NoEdit EXCEPT !.op = "upsert", !.route = {[m |-> m, u |-> u, out |-> out]}]
  ELSE [NoEdit EXCEPT !.op = "upsert", !.output = {<<r, out>> : r \in same}]
PlanRoute(out) ==
  {RouteEdit(m, u, out) : m \in Live(ct.models),
     u \in {v \in Live(ct.upstreams) : Fits(out, ct.upstreams[v].adapter)}}

(* import_environment_catalog: an upstream, a model and a route at once.    *)
PlanImport ==
  {[(IF Live(ct.models) = {} \/ Live(ct.upstreams) = {}
     THEN [NoEdit EXCEPT !.route = {[m |-> IF Live(ct.models) = {} THEN 0 ELSE CHOOSE m \in Live(ct.models) : TRUE,
                                     u |-> IF Live(ct.upstreams) = {} THEN 0 ELSE CHOOSE u \in Live(ct.upstreams) : TRUE,
                                     out |-> "raw"]}]
     ELSE RouteEdit(CHOOSE m \in Live(ct.models) : TRUE, CHOOSE u \in Live(ct.upstreams) : TRUE, "raw"))
    EXCEPT !.op = "import", !.model = Live(ct.models) = {},
           !.upstream = IF Live(ct.upstreams) = {} THEN {"deepseek"} ELSE {},
           !.adapter = {<<u, "deepseek">> : u \in Live(ct.upstreams)}]}

(* Mutant: routes that are archived already get the new time too.           *)
PlanArchiveModelAll ==
  {[NoEdit EXCEPT !.op = "archiveModel", !.modelAt = {<<m, ct.clock + 1>>},
                  !.routeAt = {<<r, ct.clock + 1>> : r \in {s \in 1..Len(ct.routes) : ct.routes[s].m = m}}] :
     m \in Live(ct.models)}

(* archive_chat_model: the model and its active routes, with one time.      *)
PlanArchiveModel ==
  {[NoEdit EXCEPT !.op = "archiveModel", !.modelAt = {<<m, ct.clock + 1>>},
                  !.routeAt = {<<r, ct.clock + 1>> : r \in RoutesOf(m)}] : m \in Live(ct.models)}

(* archive_model_upstream: refused while an active route uses it.           *)
PlanArchiveUpstream ==
  {[NoEdit EXCEPT !.op = "archive", !.upstreamAt = {<<u, ct.clock + 1>>}] :
     u \in {v \in Live(ct.upstreams) : RoutesTo(v) = {}}}

(* archive_model_route: found through its active model and upstream.        *)
PlanArchiveRoute ==
  {[NoEdit EXCEPT !.op = "archiveRoute", !.routeAt = {<<r, ct.clock + 1>>}] :
     r \in {s \in Live(ct.routes) : ct.routes[s].m \in Live(ct.models) /\ ct.routes[s].u \in Live(ct.upstreams)}}

Archived(rows) == 1..Len(rows) \ Live(rows)

(* Mutant: every archived route of the model comes back.                    *)
BatchAll(m) ==
  {r \in Archived(ct.routes) : ct.routes[r].m = m /\ ct.routes[r].u \in Live(ct.upstreams)}

(* The routes that were archived with a model and whose upstream is active. *)
Batch(m) ==
  {r \in Archived(ct.routes) :
     /\ ct.routes[r].m = m /\ ct.routes[r].at = ct.models[m].at
     /\ ct.routes[r].u \in Live(ct.upstreams)}

(* _restore_chat_model: refused beside an active model, or when one of the  *)
(* routes no longer fits its upstream.                                      *)
PlanRestoreModel ==
  {[NoEdit EXCEPT !.op = "restore", !.modelAt = {<<m, 0>>}, !.routeAt = {<<r, 0>> : r \in Batch(m)}] :
     m \in {n \in Archived(ct.models) :
              Live(ct.models) = {} /\ \A r \in Batch(n) : Fits(ct.routes[r].out, ct.upstreams[ct.routes[r].u].adapter)}}
PlanRestoreUpstream ==
  {[NoEdit EXCEPT !.op = "restore", !.upstreamAt = {<<u, 0>>}] :
     u \in {v \in Archived(ct.upstreams) : Live(ct.upstreams) = {}}}
PlanRestoreRoute ==
  {[NoEdit EXCEPT !.op = "restore", !.routeAt = {<<r, 0>>}] :
     r \in {s \in Archived(ct.routes) :
              LET row == ct.routes[s] IN
              /\ row.m \in Live(ct.models) /\ row.u \in Live(ct.upstreams)
              /\ ~\E t \in RoutesOf(row.m) : ct.routes[t].u = row.u
              /\ Fits(row.out, ct.upstreams[row.u].adapter)}}

Archiving == PlanArchiveModel \cup PlanArchiveUpstream \cup PlanArchiveRoute

-----------------------------------------------------------------------------
(* What is written                                                          *)

(* The value an edit gives a row, or the one it has.                        *)
SetBy(pairs, i, old) == IF \E p \in pairs : p[1] = i THEN (CHOOSE p \in pairs : p[1] = i)[2] ELSE old
NewRow(set) == [i \in 1..Cardinality(set) |-> CHOOSE x \in set : TRUE]

Edited(e) ==
  LET models == [m \in 1..Len(ct.models) |-> [at |-> SetBy(e.modelAt, m, ct.models[m].at)]]
                  \o (IF e.model THEN <<[at |-> 0]>> ELSE <<>>)
      upstreams == [u \in 1..Len(ct.upstreams) |->
                      [at |-> SetBy(e.upstreamAt, u, ct.upstreams[u].at),
                       adapter |-> SetBy(e.adapter, u, ct.upstreams[u].adapter)]]
                     \o NewRow({[at |-> 0, adapter |-> x] : x \in e.upstream})
      routes == [r \in 1..Len(ct.routes) |->
                   [ct.routes[r] EXCEPT !.at = SetBy(e.routeAt, r, @), !.out = SetBy(e.output, r, @)]]
                  \o NewRow({[m |-> IF x.m = 0 THEN Len(models) ELSE x.m,
                                         u |-> IF x.u = 0 THEN Len(upstreams) ELSE x.u,
                                         out |-> x.out, at |-> 0] : x \in e.route}) IN
  [ct EXCEPT !.models = models, !.upstreams = upstreams, !.routes = routes]

(* The partial unique indexes.                                              *)
Conflict(s) ==
  \/ Cardinality(Live(s.models)) > 1 \/ Cardinality(Live(s.upstreams)) > 1
  \/ \E r, t \in Live(s.routes) : r # t /\ s.routes[r].m = s.routes[t].m /\ s.routes[r].u = s.routes[t].u

Open == {a \in CatalogAdmins : ct.tx[a] # NoEdit}

Begin(a, plans) ==
  /\ ct.on /\ ct.tx[a] = NoEdit
  /\ \E e \in plans : ct' = [ct EXCEPT !.tx[a] = e, !.overlap = @ \/ Open # {}]

BeginUpsert(a) == Begin(a, PlanModel \cup PlanImport
                             \cup (UNION {PlanUpstream(x) : x \in Adapters})
                             \cup (UNION {PlanRoute(x) : x \in Outputs}))
BeginArchive(a) == /\ ct.clock < MaxArchives /\ ct.on /\ ct.tx[a] = NoEdit
                   /\ \E e \in Archiving :
                        ct' = [ct EXCEPT !.tx[a] = e, !.clock = @ + 1, !.overlap = @ \/ Open # {}]
BeginRestore(a) == Begin(a, PlanRestoreModel \cup PlanRestoreUpstream \cup PlanRestoreRoute)

(* _mutate: the writes, then the commit; a conflict rolls back.             *)
Commit(a) ==
  LET e == ct.tx[a]
      done == Edited(e)
      at == {p[1] : p \in e.routeAt} IN
  /\ ct.on /\ e # NoEdit
  /\ Len(done.models) <= MaxRows /\ Len(done.upstreams) <= MaxRows /\ Len(done.routes) <= MaxRows
  /\ ct' = IF Conflict(done) THEN [ct EXCEPT !.tx[a] = NoEdit]
           ELSE [done EXCEPT !.tx[a] = NoEdit,
                             !.solo = CASE e.op = "archiveRoute" -> @ \cup at
                                         [] e.op = "restore" -> @ \ at [] OTHER -> @]

(* The request fails after its reads: nothing is written.                   *)
Rollback(a) == /\ ct.on /\ ct.tx[a] # NoEdit
               /\ ct' = [ct EXCEPT !.tx[a] = NoEdit]

-----------------------------------------------------------------------------
(* Runs                                                                     *)

(* _database_chat_models: the first route whose rows are all active, unless *)
(* one of them does not fit, which fails the whole catalog.                 *)
Serving == {r \in Live(ct.routes) : ct.routes[r].m \in Live(ct.models) /\ ct.routes[r].u \in Live(ct.upstreams)}
AdmitRun == /\ ct.on /\ ct.run = NoneAdmitted /\ Serving # {}
            /\ \A r \in Serving : Fits(ct.routes[r].out, ct.upstreams[ct.routes[r].u].adapter)
            /\ \E r \in Serving : ct' = [ct EXCEPT !.run = [route |-> r, upstream |-> ct.routes[r].u]]

(* resolve_run_model_runtime: through the route of the snapshot.            *)
ResolveRun(run) == ct.routes[run.route].u

CatalogNext ==
  \/ \E a \in CatalogAdmins : BeginUpsert(a) \/ BeginArchive(a) \/ BeginRestore(a) \/ Commit(a) \/ Rollback(a)
  \/ AdmitRun

-----------------------------------------------------------------------------
(* What the console says before a restore                                   *)

(* modelRestorePreview and dialogCopy, from the rows as listed.             *)
RestorePreview(m) ==
  LET rs == {r \in 1..Len(ct.routes) : ct.routes[r].m = m /\ ct.routes[r].at = ct.models[m].at} IN
  {r \in rs : ct.upstreams[ct.routes[r].u].at = 0}

CatalogTypeOK ==
  /\ ct.clock \in 0..MaxArchives
  /\ Len(ct.models) <= MaxRows /\ Len(ct.upstreams) <= MaxRows /\ Len(ct.routes) <= MaxRows

(* However transactions overlap, a key names one active row: the checks of  *)
(* a restore and of an upsert are made before the write.                    *)
KeysUnique ==
  /\ Cardinality(Live(ct.models)) <= 1 /\ Cardinality(Live(ct.upstreams)) <= 1
  /\ \A r \in Live(ct.routes) : {t \in RoutesOf(ct.routes[r].m) : ct.routes[t].u = ct.routes[r].u} = {r}

(* Archiving and restoring keep the rule of the catalog as long as no two   *)
(* transactions overlap: an active route has an active model and an active  *)
(* upstream, which can do what the route declares.                          *)
ParentsAlone ==
  ~ct.overlap => \A r \in Live(ct.routes) :
    /\ ct.routes[r].m \in Live(ct.models) /\ ct.routes[r].u \in Live(ct.upstreams)
    /\ Fits(ct.routes[r].out, ct.upstreams[ct.routes[r].u].adapter)

(* The restore of a model brings back what its confirmation counted.        *)
PreviewTrue ==
  \A e \in PlanRestoreModel : \A p \in e.modelAt : {q[1] : q \in e.routeAt} = RestorePreview(p[1])

(* It never brings back a route that was archived by itself.                *)
SoloStays ==
  [][~ct.overlap /\ (\E m \in Archived(ct.models) : m \in Live(ct'.models))
       => Live(ct'.routes) \cap ct.solo = {}]_ct

(* A run finds the upstream it was created with, also when that has been    *)
(* archived and its key was given to another.                               *)
RunsKeepUpstream == ct.run # NoneAdmitted => ResolveRun(ct.run) = ct.run.upstream

(* docs/plans/2026-09-12-model-admin-archive-and-layout.md: the parents of  *)
(* an active route are active, which the rules of archiving and restoring   *)
(* ensure together.                                                         *)
ParentsActive ==
  \A r \in Live(ct.routes) : ct.routes[r].m \in Live(ct.models) /\ ct.routes[r].u \in Live(ct.upstreams)
=============================================================================
