----------------------------- MODULE PartsProofs -----------------------------
(***************************************************************************)
(* Proofs about the administration of the models, and about the parts of   *)
(* the client that wait for an answer. The rows of the catalog keep an     *)
(* inductive invariant, CatalogInv: what a transaction has decided names   *)
(* rows that exist, no row is archived in the future, and, as long as no   *)
(* two transactions were ever open together, the rule of the catalog holds *)
(* of the tables and of what the open transaction will make of them. Every *)
(* plan of the service is shown to decide on such an edit. The console     *)
(* keeps AdminInv: one request, the spinner that shows it, a dialog that   *)
(* keeps others away, and a catalog that was the one of the service when   *)
(* it last answered, whatever strays of earlier pages do. A file in parts  *)
(* keeps PutInv: a part below the cursor is complete or has one worker. A  *)
(* card keeps CardInv: what is asked for has a link that is good. The      *)
(* search keeps SearchInv: a request that can still be answered asks for   *)
(* the text in the input. A reveal keeps RevealInv: it runs for the page   *)
(* that is shown.                                                          *)
(***************************************************************************)
EXTENDS AdminParts, RequestParts, FiniteSetTheorems, FunctionTheorems, SequenceTheorems,
        WellFoundedInduction, TLAPS

-----------------------------------------------------------------------------
(* The rows of the catalog.                                                 *)

ModelRows == [at : Nat]
UpstreamRows == [at : Nat, adapter : Adapters]
RouteRows == [m : Nat, u : Nat, out : Outputs, at : Nat]
EditStates ==
  [op : {"none", "upsert", "import", "archiveModel", "archive", "archiveRoute", "restore"},
   model : BOOLEAN, upstream : SUBSET Adapters, route : SUBSET [m : Nat, u : Nat, out : Outputs],
   modelAt : SUBSET (Nat \X Nat), upstreamAt : SUBSET (Nat \X Nat), adapter : SUBSET (Nat \X Adapters),
   routeAt : SUBSET (Nat \X Nat), output : SUBSET (Nat \X Outputs)]
CatalogStates ==
  [on : BOOLEAN, models : Seq(ModelRows), upstreams : Seq(UpstreamRows), routes : Seq(RouteRows),
   clock : Nat, tx : [CatalogAdmins -> EditStates], solo : SUBSET Nat,
   run : [route : Nat, upstream : Nat], overlap : BOOLEAN]

(* A route names a model and an upstream, and no row was archived later     *)
(* than now.                                                                *)
RouteRefs == \A r \in 1..Len(ct.routes) : /\ ct.routes[r].m \in 1..Len(ct.models)
                                          /\ ct.routes[r].u \in 1..Len(ct.upstreams)
AtsPast == /\ \A m \in 1..Len(ct.models) : ct.models[m].at <= ct.clock
           /\ \A u \in 1..Len(ct.upstreams) : ct.upstreams[u].at <= ct.clock
           /\ \A r \in 1..Len(ct.routes) : ct.routes[r].at <= ct.clock

(* What a transaction has decided: at most one row to insert into a table,  *)
(* whose parents exist or are inserted with it, and no time to come.        *)
OneRow(set) == \A x, y \in set : x = y
ParentsOf(e) == \A x \in e.route : /\ x.m <= Len(ct.models) /\ x.u <= Len(ct.upstreams)
                                   /\ x.m = 0 => e.model
                                   /\ x.u = 0 => e.upstream # {}
TimesOf(e, now) == \A p \in e.modelAt \cup e.upstreamAt \cup e.routeAt : p[2] <= now
EditOK(e, now) == OneRow(e.upstream) /\ OneRow(e.route) /\ ParentsOf(e) /\ TimesOf(e, now)
EditsOK == \A a \in CatalogAdmins : EditOK(ct.tx[a], ct.clock)

RunRef == ct.run # NoneAdmitted => ct.run.route \in 1..Len(ct.routes) /\ RunsKeepUpstream
Bounded == /\ Len(ct.models) <= MaxRows /\ Len(ct.upstreams) <= MaxRows /\ Len(ct.routes) <= MaxRows
           /\ ct.clock <= MaxArchives

(* The rule of the catalog: an active route has active parents and fits its *)
(* upstream; a route that was archived by itself is archived, and not with  *)
(* a model.                                                                 *)
RulesKept(models, upstreams, routes, solo) ==
  /\ \A r \in Live(routes) : /\ routes[r].m \in Live(models) /\ routes[r].u \in Live(upstreams)
                             /\ Fits(routes[r].out, upstreams[routes[r].u].adapter)
  /\ \A r \in solo : /\ r \in 1..Len(routes) /\ routes[r].at # 0
                     /\ \A m \in 1..Len(models) : models[m].at # routes[r].at
RulesNow == RulesKept(ct.models, ct.upstreams, ct.routes, ct.solo)

(* The three tables after an edit.                                          *)
ModelsAfter(e) ==
  [m \in 1..Len(ct.models) |-> [at |-> SetBy(e.modelAt, m, ct.models[m].at)]]
    \o (IF e.model THEN <<[at |-> 0]>> ELSE <<>>)
UpstreamsAfter(e) ==
  [u \in 1..Len(ct.upstreams) |-> [at |-> SetBy(e.upstreamAt, u, ct.upstreams[u].at),
                                   adapter |-> SetBy(e.adapter, u, ct.upstreams[u].adapter)]]
    \o NewRow({[at |-> 0, adapter |-> x] : x \in e.upstream})
NewRoute(e, x) == [m |-> IF x.m = 0 THEN Len(ModelsAfter(e)) ELSE x.m,
                   u |-> IF x.u = 0 THEN Len(UpstreamsAfter(e)) ELSE x.u,
                   out |-> x.out, at |-> 0]
RoutesAfter(e) ==
  [r \in 1..Len(ct.routes) |-> [ct.routes[r] EXCEPT !.at = SetBy(e.routeAt, r, @),
                                                    !.out = SetBy(e.output, r, @)]]
    \o NewRow({NewRoute(e, x) : x \in e.route})

(* What a transaction that is alone leaves behind when it commits.          *)
SoloAfter(e) == LET at == {p[1] : p \in e.routeAt} IN
                CASE e.op = "archiveRoute" -> ct.solo \cup at
                  [] e.op = "restore" -> ct.solo \ at [] OTHER -> ct.solo
RulesAfter(e) == RulesKept(ModelsAfter(e), UpstreamsAfter(e), RoutesAfter(e), SoloAfter(e))
SoloSpared(e) == (\E p \in e.modelAt : p[2] = 0) => \A q \in e.routeAt : q[1] \notin ct.solo
AloneInv ==
  ~ct.overlap => /\ RulesNow
                 /\ \A a, b \in CatalogAdmins : ct.tx[a] # NoEdit /\ ct.tx[b] # NoEdit => a = b
                 /\ \A a \in CatalogAdmins :
                      ct.tx[a] # NoEdit => RulesAfter(ct.tx[a]) /\ SoloSpared(ct.tx[a])

CatalogInv == /\ ct \in CatalogStates /\ Bounded /\ RouteRefs /\ AtsPast /\ EditsOK
              /\ ~Conflict(ct) /\ RunRef /\ AloneInv

(* Facts about CHOOSE and concatenation.                                    *)

LEMMA SetByIs ==
  ASSUME NEW pairs, NEW i, NEW old
  PROVE  \/ \E p \in pairs : p[1] = i /\ SetBy(pairs, i, old) = p[2]
         \/ (\A p \in pairs : p[1] # i) /\ SetBy(pairs, i, old) = old
  BY DEF SetBy

LEMMA FunIsSeq ==
  ASSUME NEW R, NEW n \in Nat, NEW f \in [1..n -> R]
  PROVE  f \in Seq(R) /\ Len(f) = n
  OBVIOUS

LEMMA NewRowIs ==
  ASSUME NEW R, NEW set \in SUBSET R, OneRow(set)
  PROVE  /\ NewRow(set) \in Seq(R)
         /\ set = {} => Len(NewRow(set)) = 0
         /\ set # {} => Len(NewRow(set)) = 1
         /\ \A i \in 1..Len(NewRow(set)) : NewRow(set)[i] \in set
<1>1. CASE set = {}
  <2>1. Cardinality(set) = 0
    BY <1>1, FS_EmptySet
  <2>2. NewRow(set) = [i \in 1..0 |-> CHOOSE x \in set : TRUE]
    BY <2>1 DEF NewRow
  <2>3. NewRow(set) \in [1..0 -> R]
    BY <2>2
  <2>4. NewRow(set) \in Seq(R) /\ Len(NewRow(set)) = 0
    BY <2>3, FunIsSeq
  <2> QED BY <1>1, <2>4
<1>2. CASE set # {}
  <2>1. PICK x : set = {x}
    BY <1>2 DEF OneRow
  <2>2. Cardinality(set) = 1
    BY <2>1, FS_Singleton
  <2>3. (CHOOSE y \in set : TRUE) \in set
    BY <1>2
  <2>4. NewRow(set) = [i \in 1..1 |-> CHOOSE y \in set : TRUE]
    BY <2>2 DEF NewRow
  <2> QED BY <1>2, <2>3, <2>4
<1> QED BY <1>1, <1>2

(* all is old with the rows of new behind it.                               *)
Grows(R, n, old, new, all) ==
  /\ all \in Seq(R) /\ Len(all) = n + Len(new)
  /\ \A i \in 1..n : all[i] = old[i]
  /\ \A i \in 1..Len(all) : i > n => \E j \in 1..Len(new) : all[i] = new[j]

LEMMA Grown ==
  ASSUME NEW R, NEW n \in Nat, NEW old \in [1..n -> R], NEW new \in Seq(R)
  PROVE  Grows(R, n, old, new, old \o new)
<1>1. old \in Seq(R) /\ Len(old) = n
  OBVIOUS
<1>2. Len(new) \in Nat
  OBVIOUS
<1>3. /\ old \o new \in Seq(R) /\ Len(old \o new) = Len(old) + Len(new)
      /\ \A i \in 1..(Len(old) + Len(new)) : (old \o new)[i] = IF i <= Len(old) THEN old[i] ELSE new[i - Len(old)]
  BY <1>1, ConcatProperties
<1>4. ASSUME NEW i \in 1..Len(old \o new), i > n
      PROVE  \E j \in 1..Len(new) : (old \o new)[i] = new[j]
  <2>1. i - n \in 1..Len(new) /\ (old \o new)[i] = new[i - n]
    BY <1>1, <1>2, <1>3, <1>4
  <2> QED BY <2>1
<1>5. old \o new \in Seq(R) /\ Len(old \o new) = n + Len(new)
  BY <1>1, <1>3
<1>6. \A i \in 1..n : (old \o new)[i] = old[i]
  BY <1>1, <1>2, <1>3
<1> QED BY <1>4, <1>5, <1>6 DEF Grows

LEMMA RowsTyped ==
  ASSUME ct \in CatalogStates
  PROVE  /\ ct.models \in Seq(ModelRows) /\ Len(ct.models) \in Nat
         /\ ct.upstreams \in Seq(UpstreamRows) /\ Len(ct.upstreams) \in Nat
         /\ ct.routes \in Seq(RouteRows) /\ Len(ct.routes) \in Nat
         /\ \A m \in 1..Len(ct.models) : ct.models[m] \in ModelRows /\ ct.models[m].at \in Nat
         /\ \A u \in 1..Len(ct.upstreams) : /\ ct.upstreams[u].at \in Nat
                                            /\ ct.upstreams[u].adapter \in Adapters
         /\ \A r \in 1..Len(ct.routes) : /\ ct.routes[r] \in RouteRows
                                         /\ ct.routes[r].m \in Nat /\ ct.routes[r].u \in Nat
                                         /\ ct.routes[r].at \in Nat /\ ct.routes[r].out \in Outputs
<1>1. /\ ct.models \in Seq(ModelRows) /\ ct.upstreams \in Seq(UpstreamRows)
      /\ ct.routes \in Seq(RouteRows)
  BY DEF CatalogStates
<1>2. ASSUME NEW m \in 1..Len(ct.models)
      PROVE  ct.models[m] \in ModelRows /\ ct.models[m].at \in Nat
  <2>1. ct.models[m] \in ModelRows
    BY <1>1
  <2> QED BY <2>1 DEF ModelRows
<1>3. ASSUME NEW u \in 1..Len(ct.upstreams)
      PROVE  ct.upstreams[u].at \in Nat /\ ct.upstreams[u].adapter \in Adapters
  <2>1. ct.upstreams[u] \in UpstreamRows
    BY <1>1
  <2> QED BY <2>1 DEF UpstreamRows
<1>4. ASSUME NEW r \in 1..Len(ct.routes)
      PROVE  /\ ct.routes[r] \in RouteRows /\ ct.routes[r].m \in Nat /\ ct.routes[r].u \in Nat
             /\ ct.routes[r].at \in Nat /\ ct.routes[r].out \in Outputs
  <2>1. ct.routes[r] \in RouteRows
    BY <1>1
  <2> QED BY <2>1 DEF RouteRows
<1>5. Len(ct.models) \in Nat /\ Len(ct.upstreams) \in Nat /\ Len(ct.routes) \in Nat
  BY <1>1
<1> QED BY <1>1, <1>2, <1>3, <1>4, <1>5

LEMMA EditedIs ==
  ASSUME NEW e, ct \in CatalogStates
  PROVE  /\ Edited(e).models = ModelsAfter(e) /\ Edited(e).upstreams = UpstreamsAfter(e)
         /\ Edited(e).routes = RoutesAfter(e)
         /\ Edited(e).on = ct.on /\ Edited(e).clock = ct.clock /\ Edited(e).tx = ct.tx
         /\ Edited(e).solo = ct.solo /\ Edited(e).run = ct.run /\ Edited(e).overlap = ct.overlap
<1>1. Edited(e) = [ct EXCEPT !.models = ModelsAfter(e), !.upstreams = UpstreamsAfter(e),
                             !.routes = RoutesAfter(e)]
  BY DEF Edited, ModelsAfter, UpstreamsAfter, RoutesAfter, NewRoute
<1> QED BY <1>1 DEF CatalogStates

LEMMA EditTyped ==
  ASSUME NEW e \in EditStates
  PROVE  /\ e.model \in BOOLEAN /\ e.upstream \subseteq Adapters
         /\ \A p \in e.modelAt \cup e.upstreamAt \cup e.routeAt : p[1] \in Nat /\ p[2] \in Nat
         /\ \A p \in e.adapter : p[2] \in Adapters
         /\ \A p \in e.output : p[2] \in Outputs
         /\ \A x \in e.route : x.m \in Nat /\ x.u \in Nat /\ x.out \in Outputs
  BY DEF EditStates

LEMMA ModelsGrow ==
  ASSUME ct \in CatalogStates, NEW e \in EditStates
  PROVE  /\ ModelsAfter(e) \in Seq(ModelRows)
         /\ Len(ModelsAfter(e)) = IF e.model THEN Len(ct.models) + 1 ELSE Len(ct.models)
         /\ \A m \in 1..Len(ct.models) : ModelsAfter(e)[m].at = SetBy(e.modelAt, m, ct.models[m].at)
         /\ \A m \in 1..Len(ModelsAfter(e)) : m > Len(ct.models) => ModelsAfter(e)[m].at = 0
<1> DEFINE old == [m \in 1..Len(ct.models) |-> [at |-> SetBy(e.modelAt, m, ct.models[m].at)]]
           new == IF e.model THEN <<[at |-> 0]>> ELSE <<>>
<1>1. old \in [1..Len(ct.models) -> ModelRows]
  <2>1. ASSUME NEW m \in 1..Len(ct.models) PROVE SetBy(e.modelAt, m, ct.models[m].at) \in Nat
    <3>1. ct.models[m].at \in Nat
      BY RowsTyped
    <3>2. \A p \in e.modelAt : p[2] \in Nat
      BY EditTyped
    <3> QED BY <3>1, <3>2, SetByIs
  <2> QED BY <2>1 DEF ModelRows
<1>2. /\ new \in Seq(ModelRows) /\ Len(new) = (IF e.model THEN 1 ELSE 0)
      /\ \A i \in 1..Len(new) : new[i].at = 0
  <2>1. CASE e.model
    <3>1. [at |-> 0] \in ModelRows
      BY DEF ModelRows
    <3>2. new = <<[at |-> 0]>>
      BY <2>1
    <3>3. new \in Seq(ModelRows) /\ Len(new) = 1 /\ new[1].at = 0
      BY <3>1, <3>2
    <3> QED BY <2>1, <3>3
  <2>2. CASE ~e.model
    <3>1. new = <<>>
      BY <2>2
    <3> QED BY <2>2, <3>1
  <2> QED BY <2>1, <2>2
<1>4. ModelsAfter(e) = old \o new
  BY DEF ModelsAfter
<1>5. \A m \in 1..Len(ct.models) : old[m].at = SetBy(e.modelAt, m, ct.models[m].at)
  OBVIOUS
<1>6. Len(ct.models) \in Nat
  BY RowsTyped
<1>7. e.model \in BOOLEAN
  BY EditTyped
<1> HIDE DEF old, new
<1>8. Grows(ModelRows, Len(ct.models), old, new, ModelsAfter(e))
  BY <1>1, <1>2, <1>6, <1>4, Grown
<1>9. ASSUME NEW m \in 1..Len(ModelsAfter(e)), m > Len(ct.models)
      PROVE  ModelsAfter(e)[m].at = 0
  <2>1. PICK j \in 1..Len(new) : ModelsAfter(e)[m] = new[j]
    BY <1>8, <1>9 DEF Grows
  <2> QED BY <1>2, <2>1
<1>10. /\ ModelsAfter(e) \in Seq(ModelRows) /\ Len(ModelsAfter(e)) = Len(ct.models) + Len(new)
       /\ \A i \in 1..Len(ct.models) : ModelsAfter(e)[i] = old[i]
  BY <1>8 DEF Grows
<1>11. Len(ModelsAfter(e)) = IF e.model THEN Len(ct.models) + 1 ELSE Len(ct.models)
  <2>1. Len(ModelsAfter(e)) = Len(ct.models) + Len(new)
    BY <1>10
  <2>2. CASE e.model
    <3>1. Len(new) = 1
      BY <1>2, <2>2
    <3> QED BY <1>6, <2>1, <2>2, <3>1
  <2>3. CASE ~(e.model)
    <3>1. Len(new) = 0
      BY <1>2, <2>3
    <3> QED BY <1>6, <2>1, <2>3, <3>1
  <2> QED BY <2>2, <2>3
<1>12. \A m \in 1..Len(ct.models) : ModelsAfter(e)[m].at = SetBy(e.modelAt, m, ct.models[m].at)
  BY <1>5, <1>10
<1> QED BY <1>9, <1>10, <1>11, <1>12

LEMMA UpstreamsGrow ==
  ASSUME ct \in CatalogStates, NEW e \in EditStates, OneRow(e.upstream)
  PROVE  /\ UpstreamsAfter(e) \in Seq(UpstreamRows)
         /\ Len(UpstreamsAfter(e)) = IF e.upstream = {} THEN Len(ct.upstreams) ELSE Len(ct.upstreams) + 1
         /\ \A u \in 1..Len(ct.upstreams) :
              /\ UpstreamsAfter(e)[u].at = SetBy(e.upstreamAt, u, ct.upstreams[u].at)
              /\ UpstreamsAfter(e)[u].adapter = SetBy(e.adapter, u, ct.upstreams[u].adapter)
         /\ \A u \in 1..Len(UpstreamsAfter(e)) : u > Len(ct.upstreams) =>
              UpstreamsAfter(e)[u].at = 0 /\ UpstreamsAfter(e)[u].adapter \in e.upstream
<1> DEFINE old == [u \in 1..Len(ct.upstreams) |->
                     [at |-> SetBy(e.upstreamAt, u, ct.upstreams[u].at),
                      adapter |-> SetBy(e.adapter, u, ct.upstreams[u].adapter)]]
           rows == {[at |-> 0, adapter |-> x] : x \in e.upstream}
           new == NewRow(rows)
<1>1. old \in [1..Len(ct.upstreams) -> UpstreamRows]
  <2>1. ASSUME NEW u \in 1..Len(ct.upstreams)
        PROVE  /\ SetBy(e.upstreamAt, u, ct.upstreams[u].at) \in Nat
               /\ SetBy(e.adapter, u, ct.upstreams[u].adapter) \in Adapters
    <3>1. ct.upstreams[u].at \in Nat /\ ct.upstreams[u].adapter \in Adapters
      BY RowsTyped
    <3>2. (\A p \in e.upstreamAt : p[2] \in Nat) /\ (\A p \in e.adapter : p[2] \in Adapters)
      BY EditTyped
    <3>3. SetBy(e.upstreamAt, u, ct.upstreams[u].at) \in Nat
      BY <3>1, <3>2, SetByIs
    <3>4. SetBy(e.adapter, u, ct.upstreams[u].adapter) \in Adapters
      BY <3>1, <3>2, SetByIs
    <3> QED BY <3>3, <3>4
  <2> QED BY <2>1 DEF UpstreamRows
<1>2. rows \subseteq UpstreamRows /\ OneRow(rows) /\ (rows = {} <=> e.upstream = {})
  <2>1. e.upstream \subseteq Adapters
    BY EditTyped
  <2>2. rows \subseteq UpstreamRows
    BY <2>1 DEF UpstreamRows
  <2>3. OneRow(rows)
    BY DEF OneRow
  <2> QED BY <2>2, <2>3
<1>3. \A x \in rows : x.at = 0 /\ x.adapter \in e.upstream
  OBVIOUS
<1>4. UpstreamsAfter(e) = old \o new
  BY DEF UpstreamsAfter
<1>5. \A u \in 1..Len(ct.upstreams) : /\ old[u].at = SetBy(e.upstreamAt, u, ct.upstreams[u].at)
                                      /\ old[u].adapter = SetBy(e.adapter, u, ct.upstreams[u].adapter)
  OBVIOUS
<1>6. Len(ct.upstreams) \in Nat
  BY RowsTyped
<1> HIDE DEF old, rows
<1>7. new \in Seq(UpstreamRows) /\ Len(new) = (IF rows = {} THEN 0 ELSE 1)
      /\ \A i \in 1..Len(new) : new[i] \in rows
  BY <1>2, NewRowIs
<1> HIDE DEF new
<1>8. Grows(UpstreamRows, Len(ct.upstreams), old, new, UpstreamsAfter(e))
  BY <1>1, <1>6, <1>7, <1>4, Grown
<1>9. ASSUME NEW u \in 1..Len(UpstreamsAfter(e)), u > Len(ct.upstreams)
      PROVE  UpstreamsAfter(e)[u].at = 0 /\ UpstreamsAfter(e)[u].adapter \in e.upstream
  <2>1. PICK j \in 1..Len(new) : UpstreamsAfter(e)[u] = new[j]
    BY <1>8, <1>9 DEF Grows
  <2> QED BY <1>3, <1>7, <2>1
<1>10. /\ UpstreamsAfter(e) \in Seq(UpstreamRows) /\ Len(UpstreamsAfter(e)) = Len(ct.upstreams) + Len(new)
       /\ \A i \in 1..Len(ct.upstreams) : UpstreamsAfter(e)[i] = old[i]
  BY <1>8 DEF Grows
<1>11. Len(UpstreamsAfter(e)) = IF e.upstream = {} THEN Len(ct.upstreams) ELSE Len(ct.upstreams) + 1
  <2>1. Len(UpstreamsAfter(e)) = Len(ct.upstreams) + Len(new)
    BY <1>10
  <2>2. CASE e.upstream = {}
    <3>1. Len(new) = 0
      BY <1>2, <1>7, <2>2
    <3> QED BY <1>6, <2>1, <2>2, <3>1
  <2>3. CASE ~(e.upstream = {})
    <3>1. Len(new) = 1
      BY <1>2, <1>7, <2>3
    <3> QED BY <1>6, <2>1, <2>3, <3>1
  <2> QED BY <2>2, <2>3
<1>12. \A u \in 1..Len(ct.upstreams) :
         /\ UpstreamsAfter(e)[u].at = SetBy(e.upstreamAt, u, ct.upstreams[u].at)
         /\ UpstreamsAfter(e)[u].adapter = SetBy(e.adapter, u, ct.upstreams[u].adapter)
  BY <1>5, <1>10
<1> QED BY <1>9, <1>10, <1>11, <1>12

LEMMA RoutesGrow ==
  ASSUME ct \in CatalogStates, NEW e \in EditStates, OneRow(e.upstream), OneRow(e.route)
  PROVE  /\ RoutesAfter(e) \in Seq(RouteRows)
         /\ Len(ct.routes) <= Len(RoutesAfter(e))
         /\ \A r \in 1..Len(ct.routes) :
              /\ RoutesAfter(e)[r].m = ct.routes[r].m /\ RoutesAfter(e)[r].u = ct.routes[r].u
              /\ RoutesAfter(e)[r].at = SetBy(e.routeAt, r, ct.routes[r].at)
              /\ RoutesAfter(e)[r].out = SetBy(e.output, r, ct.routes[r].out)
         /\ \A r \in 1..Len(RoutesAfter(e)) : r > Len(ct.routes) =>
              \E x \in e.route : RoutesAfter(e)[r] = NewRoute(e, x)
<1> DEFINE old == [r \in 1..Len(ct.routes) |-> [ct.routes[r] EXCEPT !.at = SetBy(e.routeAt, r, @),
                                                                    !.out = SetBy(e.output, r, @)]]
           rows == {NewRoute(e, x) : x \in e.route}
           new == NewRow(rows)
<1>1. ASSUME NEW r \in 1..Len(ct.routes)
      PROVE  /\ old[r] \in RouteRows
             /\ old[r].m = ct.routes[r].m /\ old[r].u = ct.routes[r].u
             /\ old[r].at = SetBy(e.routeAt, r, ct.routes[r].at)
             /\ old[r].out = SetBy(e.output, r, ct.routes[r].out)
  <2>1. /\ SetBy(e.routeAt, r, ct.routes[r].at) \in Nat
        /\ SetBy(e.output, r, ct.routes[r].out) \in Outputs
    <3>1. ct.routes[r].at \in Nat /\ ct.routes[r].out \in Outputs
      BY RowsTyped
    <3>2. (\A p \in e.routeAt : p[2] \in Nat) /\ (\A p \in e.output : p[2] \in Outputs)
      BY EditTyped
    <3>3. SetBy(e.routeAt, r, ct.routes[r].at) \in Nat
      BY <3>1, <3>2, SetByIs
    <3>4. SetBy(e.output, r, ct.routes[r].out) \in Outputs
      BY <3>1, <3>2, SetByIs
    <3> QED BY <3>3, <3>4
  <2>2. old[r] = [ct.routes[r] EXCEPT !.at = SetBy(e.routeAt, r, ct.routes[r].at),
                                      !.out = SetBy(e.output, r, ct.routes[r].out)]
    OBVIOUS
  <2>3. ct.routes[r] \in RouteRows
    BY RowsTyped
  <2> QED BY <2>1, <2>2, <2>3 DEF RouteRows
<1>2. old \in [1..Len(ct.routes) -> RouteRows]
  <2>1. DOMAIN old = 1..Len(ct.routes) /\ old = [r \in DOMAIN old |-> old[r]]
    OBVIOUS
  <2> HIDE DEF old
  <2> QED BY <1>1, <2>1
<1>3. rows \subseteq RouteRows
  <2>1. Len(ModelsAfter(e)) \in Nat /\ Len(UpstreamsAfter(e)) \in Nat
    BY ModelsGrow, UpstreamsGrow, RowsTyped, EditTyped
  <2> QED BY <2>1, EditTyped DEF RouteRows, NewRoute
<1>4. OneRow(rows)
  BY DEF OneRow
<1>5. RoutesAfter(e) = old \o new
  BY DEF RoutesAfter
<1>6. Len(ct.routes) \in Nat
  BY RowsTyped
<1>7. \A x \in rows : \E y \in e.route : x = NewRoute(e, y)
  OBVIOUS
<1> HIDE DEF old, rows
<1>8. new \in Seq(RouteRows) /\ Len(new) \in Nat /\ \A i \in 1..Len(new) : new[i] \in rows
  BY <1>3, <1>4, NewRowIs
<1> HIDE DEF new
<1>9. Grows(RouteRows, Len(ct.routes), old, new, RoutesAfter(e))
  BY <1>2, <1>6, <1>8, <1>5, Grown
<1>10. ASSUME NEW r \in 1..Len(RoutesAfter(e)), r > Len(ct.routes)
       PROVE  \E x \in e.route : RoutesAfter(e)[r] = NewRoute(e, x)
  <2>1. PICK j \in 1..Len(new) : RoutesAfter(e)[r] = new[j]
    BY <1>9, <1>10 DEF Grows
  <2> QED BY <1>7, <1>8, <2>1
<1>11. /\ RoutesAfter(e) \in Seq(RouteRows) /\ Len(RoutesAfter(e)) = Len(ct.routes) + Len(new)
       /\ \A i \in 1..Len(ct.routes) : RoutesAfter(e)[i] = old[i]
  BY <1>9 DEF Grows
<1>12. Len(ct.routes) <= Len(RoutesAfter(e))
  BY <1>6, <1>8, <1>11
<1>13. \A r \in 1..Len(ct.routes) :
         /\ RoutesAfter(e)[r].m = ct.routes[r].m /\ RoutesAfter(e)[r].u = ct.routes[r].u
         /\ RoutesAfter(e)[r].at = SetBy(e.routeAt, r, ct.routes[r].at)
         /\ RoutesAfter(e)[r].out = SetBy(e.output, r, ct.routes[r].out)
  BY <1>1, <1>11
<1> QED BY <1>10, <1>11, <1>12, <1>13

-----------------------------------------------------------------------------
(* What an edit makes of the rows that are there.                           *)
ModelAt(e, m) == SetBy(e.modelAt, m, ct.models[m].at)
UpstreamAt(e, u) == SetBy(e.upstreamAt, u, ct.upstreams[u].at)
AdapterOf(e, u) == SetBy(e.adapter, u, ct.upstreams[u].adapter)
RouteAt(e, r) == SetBy(e.routeAt, r, ct.routes[r].at)
OutOf(e, r) == SetBy(e.output, r, ct.routes[r].out)

OldRoutesFit(e) == \A r \in 1..Len(ct.routes) : RouteAt(e, r) = 0 =>
  /\ ModelAt(e, ct.routes[r].m) = 0 /\ UpstreamAt(e, ct.routes[r].u) = 0
  /\ Fits(OutOf(e, r), AdapterOf(e, ct.routes[r].u))
NewRoutesFit(e) == \A x \in e.route :
  /\ x.m # 0 => ModelAt(e, x.m) = 0
  /\ x.u # 0 => UpstreamAt(e, x.u) = 0 /\ Fits(x.out, AdapterOf(e, x.u))
  /\ x.u = 0 => \A y \in e.upstream : Fits(x.out, y)
SolosApart(e) == \A r \in SoloAfter(e) :
  /\ r \in 1..Len(ct.routes) /\ RouteAt(e, r) # 0
  /\ \A m \in 1..Len(ct.models) : ModelAt(e, m) # RouteAt(e, r)

(* The rule of the catalog after an edit, read off the edit.                *)
LEMMA RulesFrom ==
  ASSUME ct \in CatalogStates, RouteRefs, NEW e \in EditStates, NEW now, EditOK(e, now),
         OldRoutesFit(e), NewRoutesFit(e), SolosApart(e)
  PROVE  RulesAfter(e)
<1> DEFINE M == ModelsAfter(e)
           U == UpstreamsAfter(e)
           R == RoutesAfter(e)
<1>1. OneRow(e.upstream) /\ OneRow(e.route) /\ ParentsOf(e)
  BY DEF EditOK
<1>2. /\ Len(M) \in Nat /\ Len(ct.models) <= Len(M) /\ (e.model => Len(M) = Len(ct.models) + 1)
      /\ \A m \in 1..Len(ct.models) : M[m].at = ModelAt(e, m)
      /\ \A m \in 1..Len(M) : m > Len(ct.models) => M[m].at = 0
  BY ModelsGrow, RowsTyped, EditTyped DEF ModelAt
<1>3. /\ Len(U) \in Nat /\ Len(ct.upstreams) <= Len(U)
      /\ (e.upstream # {} => Len(U) = Len(ct.upstreams) + 1)
      /\ \A u \in 1..Len(ct.upstreams) : U[u].at = UpstreamAt(e, u) /\ U[u].adapter = AdapterOf(e, u)
      /\ \A u \in 1..Len(U) : u > Len(ct.upstreams) => U[u].at = 0 /\ U[u].adapter \in e.upstream
  BY <1>1, UpstreamsGrow, RowsTyped DEF UpstreamAt, AdapterOf
<1>4. /\ Len(R) \in Nat /\ Len(ct.routes) <= Len(R)
      /\ \A r \in 1..Len(ct.routes) : /\ R[r].m = ct.routes[r].m /\ R[r].u = ct.routes[r].u
                                      /\ R[r].at = RouteAt(e, r) /\ R[r].out = OutOf(e, r)
      /\ \A r \in 1..Len(R) : r > Len(ct.routes) => \E x \in e.route : R[r] = NewRoute(e, x)
  <2>1. R \in Seq(RouteRows) /\ Len(ct.routes) <= Len(R)
    BY <1>1, RoutesGrow
  <2>2. \A r \in 1..Len(ct.routes) : /\ R[r].m = ct.routes[r].m /\ R[r].u = ct.routes[r].u
                                      /\ R[r].at = RouteAt(e, r) /\ R[r].out = OutOf(e, r)
    BY <1>1, RoutesGrow DEF RouteAt, OutOf
  <2>3. \A r \in 1..Len(R) : r > Len(ct.routes) => \E x \in e.route : R[r] = NewRoute(e, x)
    BY <1>1, RoutesGrow
  <2> HIDE DEF R
  <2>4. Len(R) \in Nat
    BY <2>1
  <2> QED BY <2>1, <2>2, <2>3, <2>4
<1>5. Len(ct.models) \in Nat /\ Len(ct.upstreams) \in Nat /\ Len(ct.routes) \in Nat
  BY RowsTyped
<1>6. ASSUME NEW x \in e.route
      PROVE  NewRoute(e, x) = [m |-> IF x.m = 0 THEN Len(M) ELSE x.m, u |-> IF x.u = 0 THEN Len(U) ELSE x.u,
                               out |-> x.out, at |-> 0]
  BY DEF NewRoute
<1> HIDE DEF M, U, R
<1>7. ASSUME NEW r \in Live(R)
      PROVE  /\ R[r].m \in Live(M) /\ R[r].u \in Live(U)
             /\ Fits(R[r].out, U[R[r].u].adapter)
  <2>1. r \in 1..Len(R) /\ R[r].at = 0
    BY <1>7 DEF Live
  <2>2. CASE r <= Len(ct.routes)
    <3>1. r \in 1..Len(ct.routes)
      BY <1>4, <1>5, <2>1, <2>2
    <3>2. ct.routes[r].m \in 1..Len(ct.models) /\ ct.routes[r].u \in 1..Len(ct.upstreams)
      BY <3>1 DEF RouteRefs
    <3>3. /\ ModelAt(e, ct.routes[r].m) = 0 /\ UpstreamAt(e, ct.routes[r].u) = 0
          /\ Fits(OutOf(e, r), AdapterOf(e, ct.routes[r].u))
      BY <1>4, <2>1, <3>1 DEF OldRoutesFit
    <3>4. ct.routes[r].m \in 1..Len(M) /\ ct.routes[r].u \in 1..Len(U)
      BY <1>2, <1>3, <1>5, <3>2
    <3>5. R[r].m = ct.routes[r].m /\ R[r].u = ct.routes[r].u /\ R[r].out = OutOf(e, r)
      BY <1>4, <3>1
    <3> QED BY <1>2, <1>3, <3>2, <3>3, <3>4, <3>5 DEF Live
  <2>3. CASE r > Len(ct.routes)
    <3>1. PICK x \in e.route : R[r] = NewRoute(e, x)
      BY <1>4, <2>1, <2>3
    <3>2. /\ R[r].m = (IF x.m = 0 THEN Len(M) ELSE x.m) /\ R[r].u = (IF x.u = 0 THEN Len(U) ELSE x.u)
          /\ R[r].out = x.out
      BY <1>6, <3>1
    <3>3. x.m \in Nat /\ x.u \in Nat
      BY EditTyped
    <3>4. /\ x.m <= Len(ct.models) /\ x.u <= Len(ct.upstreams)
          /\ x.m = 0 => e.model
          /\ x.u = 0 => e.upstream # {}
      BY <1>1 DEF ParentsOf
    <3>5. R[r].m \in Live(M)
      <4>1. CASE x.m = 0
        <5>1. Len(M) \in 1..Len(M) /\ Len(M) > Len(ct.models)
          BY <1>2, <1>5, <3>4, <4>1
        <5> QED BY <1>2, <3>2, <4>1, <5>1 DEF Live
      <4>2. CASE x.m # 0
        <5>1. x.m \in 1..Len(ct.models) /\ x.m \in 1..Len(M)
          BY <1>2, <1>5, <3>3, <3>4, <4>2
        <5> QED BY <1>2, <3>2, <4>2, <5>1 DEF Live, NewRoutesFit
      <4> QED BY <4>1, <4>2
    <3>6. R[r].u \in Live(U) /\ Fits(R[r].out, U[R[r].u].adapter)
      <4>1. CASE x.u = 0
        <5>1. Len(U) \in 1..Len(U) /\ Len(U) > Len(ct.upstreams)
          BY <1>3, <1>5, <3>4, <4>1
        <5> QED BY <1>3, <3>2, <4>1, <5>1 DEF Live, NewRoutesFit
      <4>2. CASE x.u # 0
        <5>1. x.u \in 1..Len(ct.upstreams) /\ x.u \in 1..Len(U)
          BY <1>3, <1>5, <3>3, <3>4, <4>2
        <5> QED BY <1>3, <3>2, <4>2, <5>1 DEF Live, NewRoutesFit
      <4> QED BY <4>1, <4>2
    <3> QED BY <3>5, <3>6
  <2> QED BY <1>4, <1>5, <2>1, <2>2, <2>3
<1>8. ASSUME NEW r \in SoloAfter(e)
      PROVE  /\ r \in 1..Len(R) /\ R[r].at # 0
             /\ \A m \in 1..Len(M) : M[m].at # R[r].at
  <2>1. /\ r \in 1..Len(ct.routes) /\ RouteAt(e, r) # 0
        /\ \A m \in 1..Len(ct.models) : ModelAt(e, m) # RouteAt(e, r)
    BY <1>8 DEF SolosApart
  <2>2. R[r].at = RouteAt(e, r) /\ r \in 1..Len(R)
    BY <1>4, <1>5, <2>1
  <2>3. ASSUME NEW m \in 1..Len(M) PROVE M[m].at # R[r].at
    <3>1. CASE m \in 1..Len(ct.models)
      BY <1>2, <2>1, <2>2, <3>1
    <3>2. CASE m > Len(ct.models)
      BY <1>2, <2>1, <2>2, <3>2
    <3> QED BY <1>2, <1>5, <3>1, <3>2
  <2> QED BY <2>1, <2>2, <2>3
<1> QED BY <1>7, <1>8 DEF RulesAfter, RulesKept, M, U, R

-----------------------------------------------------------------------------
(* The plans.  What a transaction decides from the rows it reads is a good  *)
(* edit of these rows.                                                      *)
CatalogBase == ct \in CatalogStates /\ RouteRefs /\ AtsPast
Planned(e, now) == /\ e \in EditStates /\ EditOK(e, now)
                   /\ RulesNow => RulesAfter(e) /\ SoloSpared(e)

LEMMA SetByNone == ASSUME NEW i, NEW old PROVE SetBy({}, i, old) = old
  BY SetByIs

(* P sets one value, t, of the rows of S.                                   *)
Marks(P, S, t) == /\ \A p \in P : p[1] \in S /\ p[2] = t
                  /\ \A j \in S : \E p \in P : p[1] = j

LEMMA SetByMarks ==
  ASSUME NEW P, NEW S, NEW t, Marks(P, S, t)
  PROVE  \A i, old : SetBy(P, i, old) = IF i \in S THEN t ELSE old
<1> TAKE i, old
<1>1. CASE i \in S
  <2>1. PICK q \in P : q[1] = i
    BY <1>1 DEF Marks
  <2> QED BY <1>1, <2>1, SetByIs DEF Marks
<1>2. CASE i \notin S
  BY <1>2, SetByIs DEF Marks
<1> QED BY <1>1, <1>2

LEMMA MarksOne == ASSUME NEW j, NEW t PROVE Marks({<<j, t>>}, {j}, t)
  BY DEF Marks

LEMMA MarksAll == ASSUME NEW S, NEW t PROVE Marks({<<j, t>> : j \in S}, S, t)
<1>1. ASSUME NEW j \in S PROVE \E p \in {<<k, t>> : k \in S} : p[1] = j
  <2>1. <<j, t>> \in {<<k, t>> : k \in S} /\ <<j, t>>[1] = j
    OBVIOUS
  <2> QED BY <2>1
<1> QED BY <1>1 DEF Marks

(* The rule as it can be used of one row.                                   *)
LEMMA RuleUsed ==
  ASSUME CatalogBase, RulesNow
  PROVE  /\ \A r \in 1..Len(ct.routes) : ct.routes[r].at = 0 =>
              /\ ct.models[ct.routes[r].m].at = 0 /\ ct.upstreams[ct.routes[r].u].at = 0
              /\ Fits(ct.routes[r].out, ct.upstreams[ct.routes[r].u].adapter)
         /\ \A r \in ct.solo : /\ r \in 1..Len(ct.routes) /\ ct.routes[r].at # 0
                               /\ \A m \in 1..Len(ct.models) : ct.models[m].at # ct.routes[r].at
  BY DEF RulesNow, RulesKept, Live

LEMMA PlannedFrom ==
  ASSUME CatalogBase, NEW now \in Nat, NEW e \in EditStates, EditOK(e, now),
         RulesNow => OldRoutesFit(e) /\ NewRoutesFit(e) /\ SolosApart(e) /\ SoloSpared(e)
  PROVE  Planned(e, now)
  BY RulesFrom DEF CatalogBase, Planned

(* An edit that archives and restores nothing.                              *)
LEMMA QuietEdit ==
  ASSUME CatalogBase, NEW e, e.modelAt = {}, e.upstreamAt = {}, e.routeAt = {}, e.op \in {"upsert", "import"}
  PROVE  /\ \A now : TimesOf(e, now)
         /\ \A m : ModelAt(e, m) = ct.models[m].at
         /\ \A u : UpstreamAt(e, u) = ct.upstreams[u].at
         /\ \A r : RouteAt(e, r) = ct.routes[r].at
         /\ RulesNow => SolosApart(e) /\ SoloSpared(e)
<1>1. (\A now : TimesOf(e, now)) /\ SoloSpared(e)
  BY DEF TimesOf, SoloSpared
<1>2. \A m : ModelAt(e, m) = ct.models[m].at
  BY SetByNone DEF ModelAt
<1>3. \A u : UpstreamAt(e, u) = ct.upstreams[u].at
  BY SetByNone DEF UpstreamAt
<1>4. \A r : RouteAt(e, r) = ct.routes[r].at
  BY SetByNone DEF RouteAt
<1>5. SoloAfter(e) = ct.solo
  BY DEF SoloAfter
<1>6. RulesNow => SolosApart(e)
  BY <1>2, <1>4, <1>5, RuleUsed DEF SolosApart
<1> QED BY <1>1, <1>2, <1>3, <1>4, <1>6

(* PlanModel, PlanUpstream.                                                 *)
LEMMA PlanModelGood ==
  ASSUME CatalogBase, NEW now \in Nat, NEW e \in PlanModel
  PROVE  Planned(e, now)
<1>1. PICK b \in BOOLEAN : e = [NoEdit EXCEPT !.op = "upsert", !.model = b]
  BY DEF PlanModel
<1>2. /\ e.op = "upsert" /\ e.modelAt = {} /\ e.upstreamAt = {} /\ e.routeAt = {}
      /\ e.adapter = {} /\ e.output = {} /\ e.route = {} /\ e.upstream = {}
  BY <1>1 DEF NoEdit
<1>3. e \in EditStates
  BY <1>1 DEF NoEdit, EditStates
<1>4. EditOK(e, now)
  BY <1>2, QuietEdit DEF EditOK, OneRow, ParentsOf
<1>5. (\A u : AdapterOf(e, u) = ct.upstreams[u].adapter) /\ \A r : OutOf(e, r) = ct.routes[r].out
  BY <1>2, SetByNone DEF AdapterOf, OutOf
<1>6. RulesNow => OldRoutesFit(e) /\ NewRoutesFit(e)
  BY <1>2, <1>5, QuietEdit, RuleUsed DEF OldRoutesFit, NewRoutesFit
<1> QED BY <1>2, <1>3, <1>4, <1>6, QuietEdit, PlannedFrom

LEMMA PlanUpstreamGood ==
  ASSUME CatalogBase, NEW now \in Nat, NEW x \in Adapters, NEW e \in PlanUpstream(x)
  PROVE  Planned(e, now)
<1>1. CASE e = [NoEdit EXCEPT !.op = "upsert", !.upstream = {x}]
  <2>2. /\ e.op = "upsert" /\ e.modelAt = {} /\ e.upstreamAt = {} /\ e.routeAt = {}
        /\ e.adapter = {} /\ e.output = {} /\ e.route = {} /\ e.upstream = {x}
    BY <1>1 DEF NoEdit
  <2>3. e \in EditStates
    BY <1>1 DEF NoEdit, EditStates
  <2>4. EditOK(e, now)
    BY <2>2, QuietEdit DEF EditOK, OneRow, ParentsOf
  <2>5. (\A u : AdapterOf(e, u) = ct.upstreams[u].adapter) /\ \A r : OutOf(e, r) = ct.routes[r].out
    BY <2>2, SetByNone DEF AdapterOf, OutOf
  <2>6. RulesNow => OldRoutesFit(e) /\ NewRoutesFit(e)
    BY <2>2, <2>5, QuietEdit, RuleUsed DEF OldRoutesFit, NewRoutesFit
  <2> QED BY <2>2, <2>3, <2>4, <2>6, QuietEdit, PlannedFrom
<1>2. CASE \E v \in Live(ct.upstreams) :
             FitAll(RoutesTo(v), x) /\ e = [NoEdit EXCEPT !.op = "upsert", !.adapter = {<<v, x>>}]
  <2>1. PICK v \in Live(ct.upstreams) :
             FitAll(RoutesTo(v), x) /\ e = [NoEdit EXCEPT !.op = "upsert", !.adapter = {<<v, x>>}]
    BY <1>2
  <2>2. /\ e.op = "upsert" /\ e.modelAt = {} /\ e.upstreamAt = {} /\ e.routeAt = {}
        /\ e.adapter = {<<v, x>>} /\ e.output = {} /\ e.route = {} /\ e.upstream = {}
    BY <2>1 DEF NoEdit
  <2>3. e \in EditStates
    <3>1. v \in Nat
      <4>1. v \in 1..Len(ct.upstreams)
        BY DEF Live
      <4>2. Len(ct.upstreams) \in Nat
        BY RowsTyped DEF CatalogBase
      <4> QED BY <4>1, <4>2
    <3>2. {<<v, x>>} \in SUBSET (Nat \X Adapters)
      BY <3>1
    <3> QED BY <2>1, <3>2 DEF NoEdit, EditStates
  <2>4. EditOK(e, now)
    BY <2>2, QuietEdit DEF EditOK, OneRow, ParentsOf
  <2>5. \A u : AdapterOf(e, u) = IF u = v THEN x ELSE ct.upstreams[u].adapter
    <3>1. Marks(e.adapter, {v}, x)
      BY <2>2 DEF Marks
    <3> QED BY <3>1, SetByMarks DEF AdapterOf
  <2>6. \A r : OutOf(e, r) = ct.routes[r].out
    BY <2>2, SetByNone DEF OutOf
  <2>7. \A r \in 1..Len(ct.routes) : ct.routes[r].at = 0 /\ ct.routes[r].u = v => Fits(ct.routes[r].out, x)
    BY <2>1 DEF FitAll, RoutesTo, Live
  <2>8. RulesNow => OldRoutesFit(e) /\ NewRoutesFit(e)
    BY <2>2, <2>5, <2>6, <2>7, QuietEdit, RuleUsed DEF OldRoutesFit, NewRoutesFit
  <2> QED BY <2>2, <2>3, <2>4, <2>8, QuietEdit, PlannedFrom
<1> QED BY <1>1, <1>2 DEF PlanUpstream

(* RouteEdit, with which PlanRoute and PlanImport insert or change a route. *)
InsertsRoute(e, m, u, out) == e = [NoEdit EXCEPT !.op = "upsert", !.route = {[m |-> m, u |-> u, out |-> out]}]
ChangesRoutes(e, u, out) == \E S \in SUBSET (1..Len(ct.routes)) :
  /\ \A r \in S : ct.routes[r].u = u
  /\ e = [NoEdit EXCEPT !.op = "upsert", !.output = {<<r, out>> : r \in S}]

LEMMA RouteEditIs ==
  ASSUME NEW m, NEW u, NEW out
  PROVE  InsertsRoute(RouteEdit(m, u, out), m, u, out) \/ ChangesRoutes(RouteEdit(m, u, out), u, out)
<1> DEFINE same == {r \in RoutesOf(m) : ct.routes[r].u = u}
<1>1. same \in SUBSET (1..Len(ct.routes)) /\ \A r \in same : ct.routes[r].u = u
  BY DEF RoutesOf, Live
<1>2. CASE same = {}
  BY <1>2 DEF RouteEdit, InsertsRoute
<1>3. CASE same # {}
  <2>1. RouteEdit(m, u, out) = [NoEdit EXCEPT !.op = "upsert", !.output = {<<r, out>> : r \in same}]
    BY <1>3 DEF RouteEdit
  <2> HIDE DEF same
  <2> QED BY <1>1, <2>1 DEF ChangesRoutes
<1> QED BY <1>2, <1>3

LEMMA PlanRouteGood ==
  ASSUME CatalogBase, NEW now \in Nat, NEW out \in Outputs, NEW e \in PlanRoute(out)
  PROVE  Planned(e, now)
<1>1. PICK m \in Live(ct.models), u \in Live(ct.upstreams) :
        Fits(out, ct.upstreams[u].adapter) /\ e = RouteEdit(m, u, out)
  BY DEF PlanRoute
<1>2. m \in 1..Len(ct.models) /\ u \in 1..Len(ct.upstreams) /\ ct.models[m].at = 0 /\ ct.upstreams[u].at = 0
  BY DEF Live
<1>3. m \in Nat \ {0} /\ u \in Nat \ {0} /\ m <= Len(ct.models) /\ u <= Len(ct.upstreams)
  BY <1>2
<1>4. CASE InsertsRoute(e, m, u, out)
  <2>2. /\ e.op = "upsert" /\ e.modelAt = {} /\ e.upstreamAt = {} /\ e.routeAt = {}
        /\ e.adapter = {} /\ e.output = {} /\ e.route = {[m |-> m, u |-> u, out |-> out]} /\ e.upstream = {}
    BY <1>4 DEF NoEdit, InsertsRoute
  <2>3. e \in EditStates
    <3>1. {[m |-> m, u |-> u, out |-> out]} \in SUBSET [m : Nat, u : Nat, out : Outputs]
      BY <1>3
    <3> QED BY <1>4, <3>1 DEF NoEdit, EditStates, InsertsRoute
  <2>4. EditOK(e, now)
    BY <1>3, <2>2, QuietEdit DEF EditOK, OneRow, ParentsOf
  <2>5. (\A v : AdapterOf(e, v) = ct.upstreams[v].adapter) /\ \A r : OutOf(e, r) = ct.routes[r].out
    BY <2>2, SetByNone DEF AdapterOf, OutOf
  <2>6. RulesNow => OldRoutesFit(e) /\ NewRoutesFit(e)
    <3>1. RulesNow => OldRoutesFit(e)
      BY <2>2, <2>5, QuietEdit, RuleUsed DEF OldRoutesFit
    <3>2. ASSUME NEW x \in e.route PROVE x.m = m /\ x.u = u /\ x.out = out
      BY <2>2, <3>2
    <3>3. ModelAt(e, m) = 0 /\ UpstreamAt(e, u) = 0
      BY <1>2, <2>2, QuietEdit
    <3>4. NewRoutesFit(e)
      BY <1>1, <1>3, <2>5, <3>2, <3>3 DEF NewRoutesFit
    <3> QED BY <3>1, <3>4
  <2> QED BY <2>2, <2>3, <2>4, <2>6, QuietEdit, PlannedFrom
<1>5. CASE ChangesRoutes(e, u, out)
  <2>1. PICK S \in SUBSET (1..Len(ct.routes)) :
             /\ \A r \in S : ct.routes[r].u = u
             /\ e = [NoEdit EXCEPT !.op = "upsert", !.output = {<<r, out>> : r \in S}]
    BY <1>5 DEF ChangesRoutes
  <2>2. /\ e.op = "upsert" /\ e.modelAt = {} /\ e.upstreamAt = {} /\ e.routeAt = {}
        /\ e.adapter = {} /\ e.output = {<<r, out>> : r \in S} /\ e.route = {} /\ e.upstream = {}
    BY <2>1 DEF NoEdit
  <2>3. e \in EditStates
    <3>1. {<<r, out>> : r \in S} \in SUBSET (Nat \X Outputs)
      BY <2>1
    <3> QED BY <2>1, <3>1 DEF NoEdit, EditStates
  <2>4. EditOK(e, now)
    BY <2>2, QuietEdit DEF EditOK, OneRow, ParentsOf
  <2>5. \A v : AdapterOf(e, v) = ct.upstreams[v].adapter
    BY <2>2, SetByNone DEF AdapterOf
  <2>6. \A r : OutOf(e, r) = IF r \in S THEN out ELSE ct.routes[r].out
    <3>1. Marks(e.output, S, out)
      BY <2>2, MarksAll
    <3> QED BY <3>1, SetByMarks DEF OutOf
  <2>7. ASSUME RulesNow PROVE OldRoutesFit(e) /\ NewRoutesFit(e)
    <3>1. NewRoutesFit(e)
      BY <2>2 DEF NewRoutesFit
    <3>2. ASSUME NEW r \in 1..Len(ct.routes), RouteAt(e, r) = 0
          PROVE  /\ ModelAt(e, ct.routes[r].m) = 0 /\ UpstreamAt(e, ct.routes[r].u) = 0
                 /\ Fits(OutOf(e, r), AdapterOf(e, ct.routes[r].u))
      <4>1. ct.routes[r].at = 0
        BY <2>2, <3>2, QuietEdit
      <4>2. /\ ct.models[ct.routes[r].m].at = 0 /\ ct.upstreams[ct.routes[r].u].at = 0
            /\ Fits(ct.routes[r].out, ct.upstreams[ct.routes[r].u].adapter)
        BY <2>7, <4>1, RuleUsed
      <4>3. ModelAt(e, ct.routes[r].m) = 0 /\ UpstreamAt(e, ct.routes[r].u) = 0
        BY <2>2, <4>2, QuietEdit
      <4>4. Fits(OutOf(e, r), AdapterOf(e, ct.routes[r].u))
        BY <1>1, <2>1, <2>5, <2>6, <4>2
      <4> QED BY <4>3, <4>4
    <3> QED BY <3>1, <3>2 DEF OldRoutesFit
  <2> QED BY <2>2, <2>3, <2>4, <2>7, QuietEdit, PlannedFrom
<1> QED BY <1>1, <1>4, <1>5, RouteEditIs

(* import_environment_catalog.                                              *)
RouteOnly(op, route, output) ==
  [op |-> op, model |-> FALSE, upstream |-> {}, route |-> route, modelAt |-> {},
   upstreamAt |-> {}, adapter |-> {}, routeAt |-> {}, output |-> output]

LEMMA PlanImportGood ==
  ASSUME CatalogBase, NEW now \in Nat, NEW e \in PlanImport
  PROVE  Planned(e, now)
<1> DEFINE M == Live(ct.models)
           U == Live(ct.upstreams)
           row == [m |-> IF M = {} THEN 0 ELSE CHOOSE m \in M : TRUE,
                   u |-> IF U = {} THEN 0 ELSE CHOOSE u \in U : TRUE, out |-> "raw"]
           base == IF M = {} \/ U = {} THEN [NoEdit EXCEPT !.route = {row}]
                   ELSE RouteEdit(CHOOSE m \in M : TRUE, CHOOSE u \in U : TRUE, "raw")
           marks == {<<u, "deepseek">> : u \in U}
<1> DEFINE Imports(x) == /\ x \in [m : Nat, u : Nat, out : Outputs] /\ x.out = "raw"
                         /\ x.m \in M \/ (x.m = 0 /\ M = {})
                         /\ x.u \in U \/ (x.u = 0 /\ U = {})
<1>1. e = [base EXCEPT !.op = "import", !.model = (M = {}),
                       !.upstream = IF U = {} THEN {"deepseek"} ELSE {}, !.adapter = marks]
  BY DEF PlanImport
<1>2. /\ \A m \in M : m \in 1..Len(ct.models) /\ m \in Nat \ {0} /\ m <= Len(ct.models) /\ ct.models[m].at = 0
      /\ \A u \in U : /\ u \in 1..Len(ct.upstreams) /\ u \in Nat \ {0} /\ u <= Len(ct.upstreams)
                      /\ ct.upstreams[u].at = 0
  <2>1. Len(ct.models) \in Nat /\ Len(ct.upstreams) \in Nat
    BY RowsTyped DEF CatalogBase
  <2> QED BY <2>1 DEF Live
<1>3. \E op, route, output :
         /\ base = RouteOnly(op, route, output) /\ output \in SUBSET (Nat \X Outputs)
         /\ OneRow(route) /\ \A x \in route : Imports(x)
  <2>1. CASE M = {} \/ U = {}
    <3>1. base = [NoEdit EXCEPT !.route = {row}]
      BY <2>1
    <3>2. PICK a \in Nat, b \in Nat : /\ row = [m |-> a, u |-> b, out |-> "raw"]
                                      /\ a \in M \/ (a = 0 /\ M = {})
                                      /\ b \in U \/ (b = 0 /\ U = {})
      BY <1>2
    <3> HIDE DEF row, base
    <3>3. base = RouteOnly("none", {row}, {})
      BY <3>1 DEF NoEdit, RouteOnly
    <3>4. Imports(row)
      BY <3>2 DEF Outputs
    <3>5. OneRow({row})
      BY DEF OneRow
    <3> HIDE DEF Imports
    <3>6. \A x \in {row} : Imports(x)
      BY <3>4
    <3> QED BY <3>3, <3>5, <3>6
  <2>2. CASE ~(M = {} \/ U = {})
    <3>1. PICK m \in M, u \in U : base = RouteEdit(m, u, "raw")
      BY <2>2
    <3> HIDE DEF base
    <3>2. CASE InsertsRoute(base, m, u, "raw")
      <4> DEFINE new == [m |-> m, u |-> u, out |-> "raw"]
      <4>1. base = RouteOnly("upsert", {new}, {})
        BY <3>2 DEF InsertsRoute, NoEdit, RouteOnly
      <4>2. Imports(new)
        BY <1>2 DEF Outputs
      <4> HIDE DEF new, Imports
      <4>3. OneRow({new}) /\ \A x \in {new} : Imports(x)
        BY <4>2 DEF OneRow
      <4> QED BY <4>1, <4>3
    <3>3. CASE ChangesRoutes(base, u, "raw")
      <4>1. PICK S \in SUBSET (1..Len(ct.routes)) :
              base = [NoEdit EXCEPT !.op = "upsert", !.output = {<<r, "raw">> : r \in S}]
        BY <3>3 DEF ChangesRoutes
      <4> DEFINE set == {<<r, "raw">> : r \in S}
      <4>2. set \in SUBSET (Nat \X Outputs)
        BY <4>1 DEF Outputs
      <4> HIDE DEF set, Imports
      <4>3. base = RouteOnly("upsert", {}, set)
        BY <4>1 DEF NoEdit, RouteOnly, set
      <4>4. OneRow({})
        BY DEF OneRow
      <4> QED BY <4>2, <4>3, <4>4
    <3> QED BY <3>1, <3>2, <3>3, RouteEditIs
  <2> QED BY <2>1, <2>2
<1> HIDE DEF base
<1>4. PICK op, route, output :
         /\ base = RouteOnly(op, route, output) /\ output \in SUBSET (Nat \X Outputs)
         /\ OneRow(route) /\ \A x \in route : Imports(x)
  BY <1>3
<1> DEFINE ups == IF U = {} THEN {"deepseek"} ELSE {}
           new == M = {}
<1>6. e = [op |-> "import", model |-> new, upstream |-> ups, route |-> route, modelAt |-> {},
           upstreamAt |-> {}, adapter |-> marks, routeAt |-> {}, output |-> output]
  <2> HIDE DEF M, U, marks
  <2> QED BY <1>1, <1>4 DEF RouteOnly
<1>5. /\ e.op = "import" /\ e.modelAt = {} /\ e.upstreamAt = {} /\ e.routeAt = {}
      /\ e.model = (M = {}) /\ e.upstream = (IF U = {} THEN {"deepseek"} ELSE {})
      /\ e.adapter = marks /\ e.output = output /\ e.route = route
  <2> HIDE DEF M, U, marks
  <2> QED BY <1>6
<1>7. OneRow(e.route) /\ \A x \in e.route : Imports(x)
  BY <1>4, <1>5
<1>8. e \in EditStates
  <2>1. e.route \in SUBSET [m : Nat, u : Nat, out : Outputs]
    BY <1>7
  <2>2. e.adapter \in SUBSET (Nat \X Adapters)
    BY <1>2, <1>5 DEF Adapters
  <2>3. e.upstream \in SUBSET Adapters /\ new \in BOOLEAN
    BY <1>5 DEF Adapters
  <2>4. e.output \in SUBSET (Nat \X Outputs)
    BY <1>4, <1>5
  <2>5. /\ ups \in SUBSET Adapters /\ route \in SUBSET [m : Nat, u : Nat, out : Outputs]
        /\ marks \in SUBSET (Nat \X Adapters) /\ output \in SUBSET (Nat \X Outputs)
    BY <1>5, <2>1, <2>2, <2>3, <2>4
  <2> HIDE DEF M, U, marks, ups, new
  <2> QED BY <1>6, <2>3, <2>5 DEF EditStates
<1>9. EditOK(e, now)
  <2>1. OneRow(e.upstream)
    BY <1>5 DEF OneRow
  <2>2. ParentsOf(e)
    <3>1. Len(ct.models) \in Nat /\ Len(ct.upstreams) \in Nat
      BY RowsTyped DEF CatalogBase
    <3>2. ASSUME NEW x \in e.route
          PROVE  /\ x.m <= Len(ct.models) /\ x.u <= Len(ct.upstreams)
                 /\ x.m = 0 => e.model
                 /\ x.u = 0 => e.upstream # {}
      <4>1. (x.m \in M \/ (x.m = 0 /\ M = {})) /\ (x.u \in U \/ (x.u = 0 /\ U = {}))
        BY <1>7
      <4>2. \A m \in M : m # 0 /\ m <= Len(ct.models)
        BY <1>2
      <4>3. \A u \in U : u # 0 /\ u <= Len(ct.upstreams)
        BY <1>2
      <4>4. (M = {} => e.model) /\ (U = {} => e.upstream # {})
        BY <1>5
      <4> HIDE DEF M, U
      <4>5. x.m <= Len(ct.models) /\ (x.m = 0 => M = {})
        BY <3>1, <4>1, <4>2
      <4>6. x.u <= Len(ct.upstreams) /\ (x.u = 0 => U = {})
        BY <3>1, <4>1, <4>3
      <4> QED BY <4>4, <4>5, <4>6
    <3> QED BY <3>2 DEF ParentsOf
  <2>3. TimesOf(e, now)
    BY <1>5, QuietEdit
  <2> QED BY <1>7, <2>1, <2>2, <2>3 DEF EditOK
<1>10. \A u \in U : AdapterOf(e, u) = "deepseek"
  <2>1. Marks(e.adapter, U, "deepseek")
    BY <1>5, MarksAll
  <2> QED BY <2>1, SetByMarks DEF AdapterOf
<1>11. \A out : Fits(out, "deepseek")
  BY DEF Fits
<1>12. ASSUME RulesNow PROVE OldRoutesFit(e)
  <2>1. ASSUME NEW r \in 1..Len(ct.routes), RouteAt(e, r) = 0
        PROVE  /\ ModelAt(e, ct.routes[r].m) = 0 /\ UpstreamAt(e, ct.routes[r].u) = 0
               /\ Fits(OutOf(e, r), AdapterOf(e, ct.routes[r].u))
    <3>1. ct.routes[r].at = 0
      BY <1>5, <2>1, QuietEdit
    <3>2. ct.models[ct.routes[r].m].at = 0 /\ ct.upstreams[ct.routes[r].u].at = 0
      BY <1>12, <3>1, RuleUsed
    <3>3. ct.routes[r].u \in U
      BY <3>2 DEF Live, RouteRefs, CatalogBase
    <3>4. ModelAt(e, ct.routes[r].m) = 0 /\ UpstreamAt(e, ct.routes[r].u) = 0
      BY <1>5, <3>2, QuietEdit
    <3> QED BY <1>10, <1>11, <3>3, <3>4
  <2> QED BY <2>1 DEF OldRoutesFit
<1>13. NewRoutesFit(e)
  <2>1. ASSUME NEW x \in e.route
        PROVE  /\ x.m # 0 => ModelAt(e, x.m) = 0
               /\ x.u # 0 => UpstreamAt(e, x.u) = 0 /\ Fits(x.out, AdapterOf(e, x.u))
               /\ x.u = 0 => \A y \in e.upstream : Fits(x.out, y)
    <3>1. x.m # 0 => ct.models[x.m].at = 0
      BY <1>2, <1>7
    <3>2. x.u # 0 => x.u \in U /\ ct.upstreams[x.u].at = 0
      BY <1>2, <1>7
    <3>3. \A y \in e.upstream : y = "deepseek"
      BY <1>5
    <3>4. (\A m : ModelAt(e, m) = ct.models[m].at) /\ \A u : UpstreamAt(e, u) = ct.upstreams[u].at
      BY <1>5, QuietEdit
    <3> HIDE DEF U
    <3> QED BY <1>10, <1>11, <3>1, <3>2, <3>3, <3>4
  <2> QED BY <2>1 DEF NewRoutesFit
<1>14. RulesNow => SolosApart(e) /\ SoloSpared(e)
  BY <1>5, QuietEdit
<1> QED BY <1>8, <1>9, <1>12, <1>13, <1>14, PlannedFrom

(* The archives, with a time of their own.                                  *)
LEMMA NoStamps ==
  ASSUME NEW e, e.adapter = {}, e.output = {}
  PROVE  (\A u : AdapterOf(e, u) = ct.upstreams[u].adapter) /\ \A r : OutOf(e, r) = ct.routes[r].out
  BY SetByNone DEF AdapterOf, OutOf

LEMMA PlanArchiveModelGood ==
  ASSUME CatalogBase, NEW e \in PlanArchiveModel
  PROVE  Planned(e, ct.clock + 1)
<1>0. PICK t \in Nat : t = ct.clock + 1
  BY DEF CatalogBase, CatalogStates
<1>1. PICK m \in Live(ct.models) :
        e = [NoEdit EXCEPT !.op = "archiveModel", !.modelAt = {<<m, t>>},
                           !.routeAt = {<<r, t>> : r \in RoutesOf(m)}]
  <2>1. PICK m \in Live(ct.models) :
        e = [NoEdit EXCEPT !.op = "archiveModel", !.modelAt = {<<m, ct.clock + 1>>},
                           !.routeAt = {<<r, ct.clock + 1>> : r \in RoutesOf(m)}]
    BY DEF PlanArchiveModel
  <2>2. {<<m, ct.clock + 1>>} = {<<m, t>>}
    BY <1>0
  <2>3. {<<r, ct.clock + 1>> : r \in RoutesOf(m)} = {<<r, t>> : r \in RoutesOf(m)}
    BY <1>0
  <2> QED BY <2>1, <2>2, <2>3, Zenon
<1> DEFINE S == RoutesOf(m)
           one == {<<m, t>>}
           all == {<<r, t>> : r \in S}
<1>2. /\ e.op = "archiveModel" /\ e.modelAt = one /\ e.upstreamAt = {} /\ e.routeAt = all
      /\ e.adapter = {} /\ e.output = {} /\ e.route = {} /\ e.upstream = {}
  BY <1>1 DEF NoEdit
<1>3. /\ m \in Nat /\ S \subseteq Nat
      /\ S = {r \in 1..Len(ct.routes) : ct.routes[r].at = 0 /\ ct.routes[r].m = m}
  <2>1. Len(ct.models) \in Nat /\ Len(ct.routes) \in Nat
    BY RowsTyped DEF CatalogBase
  <2> QED BY <2>1 DEF Live, RoutesOf
<1>4. e \in EditStates
  <2>1. one \in SUBSET (Nat \X Nat) /\ all \in SUBSET (Nat \X Nat)
    BY <1>3
  <2>2. e = [NoEdit EXCEPT !.op = "archiveModel", !.modelAt = one, !.routeAt = all]
    BY <1>1
  <2> HIDE DEF one, all
  <2> QED BY <2>1, <2>2 DEF NoEdit, EditStates
<1>5. Marks(e.modelAt, {m}, t) /\ Marks(e.routeAt, S, t)
  BY <1>2, MarksOne, MarksAll
<1>6. \A i : ModelAt(e, i) = IF i = m THEN t ELSE ct.models[i].at
  BY <1>5, SetByMarks DEF ModelAt
<1>7. \A r : RouteAt(e, r) = IF r \in S THEN t ELSE ct.routes[r].at
  BY <1>5, SetByMarks DEF RouteAt
<1>8. \A u : UpstreamAt(e, u) = ct.upstreams[u].at
  BY <1>2, SetByNone DEF UpstreamAt
<1>9. t > 0 /\ t > ct.clock
  BY <1>0 DEF CatalogBase, CatalogStates
<1>10. EditOK(e, t)
  <2>1. TimesOf(e, t)
    BY <1>0, <1>2, <1>5 DEF TimesOf, Marks
  <2> QED BY <1>2, <2>1 DEF EditOK, OneRow, ParentsOf
<1> HIDE DEF S, one, all
<1>11. ASSUME RulesNow PROVE OldRoutesFit(e)
  <2>1. ASSUME NEW r \in 1..Len(ct.routes), RouteAt(e, r) = 0
        PROVE  /\ ModelAt(e, ct.routes[r].m) = 0 /\ UpstreamAt(e, ct.routes[r].u) = 0
               /\ Fits(OutOf(e, r), AdapterOf(e, ct.routes[r].u))
    <3>1. r \notin S /\ ct.routes[r].at = 0
      BY <1>7, <1>9, <2>1
    <3>2. ct.routes[r].m # m
      BY <1>3, <3>1
    <3> QED BY <1>2, <1>6, <1>8, <1>11, <3>1, <3>2, NoStamps, RuleUsed
  <2> QED BY <2>1 DEF OldRoutesFit
<1>12. NewRoutesFit(e)
  BY <1>2 DEF NewRoutesFit
<1>13. ASSUME RulesNow PROVE SolosApart(e)
  <2>1. SoloAfter(e) = ct.solo
    BY <1>2 DEF SoloAfter
  <2>2. ASSUME NEW r \in ct.solo
        PROVE  /\ r \in 1..Len(ct.routes) /\ RouteAt(e, r) # 0
               /\ \A i \in 1..Len(ct.models) : ModelAt(e, i) # RouteAt(e, r)
    <3>1. /\ r \in 1..Len(ct.routes) /\ ct.routes[r].at # 0
          /\ \A i \in 1..Len(ct.models) : ct.models[i].at # ct.routes[r].at
      BY <1>13, RuleUsed
    <3>2. RouteAt(e, r) = ct.routes[r].at
      BY <1>3, <1>7, <3>1
    <3>3. ct.routes[r].at <= ct.clock /\ ct.routes[r].at \in Nat /\ ct.clock \in Nat
      BY <3>1, RowsTyped DEF CatalogBase, AtsPast, CatalogStates
    <3>4. ct.routes[r].at # t
      BY <1>9, <3>3
    <3> QED BY <1>6, <3>1, <3>2, <3>4
  <2> QED BY <2>1, <2>2 DEF SolosApart
<1>14. SoloSpared(e)
  BY <1>5, <1>9 DEF SoloSpared, Marks
<1> QED BY <1>0, <1>4, <1>10, <1>11, <1>12, <1>13, <1>14, PlannedFrom

LEMMA PlanArchiveUpstreamGood ==
  ASSUME CatalogBase, NEW e \in PlanArchiveUpstream
  PROVE  Planned(e, ct.clock + 1)
<1>0. PICK t \in Nat : t = ct.clock + 1
  BY DEF CatalogBase, CatalogStates
<1>1. PICK u \in Live(ct.upstreams) :
        RoutesTo(u) = {} /\ e = [NoEdit EXCEPT !.op = "archive", !.upstreamAt = {<<u, t>>}]
  BY <1>0 DEF PlanArchiveUpstream
<1> DEFINE one == {<<u, t>>}
<1>2. /\ e.op = "archive" /\ e.modelAt = {} /\ e.upstreamAt = one /\ e.routeAt = {}
      /\ e.adapter = {} /\ e.output = {} /\ e.route = {} /\ e.upstream = {}
  BY <1>1 DEF NoEdit
<1>3. u \in Nat
  <2>1. Len(ct.upstreams) \in Nat
    BY RowsTyped DEF CatalogBase
  <2> QED BY <2>1 DEF Live
<1>4. e \in EditStates
  <2>1. one \in SUBSET (Nat \X Nat)
    BY <1>3
  <2>2. e = [NoEdit EXCEPT !.op = "archive", !.upstreamAt = one]
    BY <1>1
  <2> HIDE DEF one
  <2> QED BY <2>1, <2>2 DEF NoEdit, EditStates
<1>5. Marks(e.upstreamAt, {u}, t)
  BY <1>2, MarksOne
<1>6. \A v : UpstreamAt(e, v) = IF v = u THEN t ELSE ct.upstreams[v].at
  BY <1>5, SetByMarks DEF UpstreamAt
<1>7. (\A m : ModelAt(e, m) = ct.models[m].at) /\ \A r : RouteAt(e, r) = ct.routes[r].at
  BY <1>2, SetByNone DEF ModelAt, RouteAt
<1>8. EditOK(e, t)
  <2>1. TimesOf(e, t)
    BY <1>0, <1>2, <1>5 DEF TimesOf, Marks
  <2> QED BY <1>2, <2>1 DEF EditOK, OneRow, ParentsOf
<1> HIDE DEF one
<1>9. \A r \in 1..Len(ct.routes) : ct.routes[r].at = 0 => ct.routes[r].u # u
  BY <1>1 DEF RoutesTo, Live
<1>10. RulesNow => OldRoutesFit(e)
  BY <1>2, <1>6, <1>7, <1>9, NoStamps, RuleUsed DEF OldRoutesFit
<1>11. NewRoutesFit(e)
  BY <1>2 DEF NewRoutesFit
<1>12. SoloAfter(e) = ct.solo
  BY <1>2 DEF SoloAfter
<1>13. RulesNow => SolosApart(e)
  BY <1>7, <1>12, RuleUsed DEF SolosApart
<1>14. SoloSpared(e)
  BY <1>2 DEF SoloSpared
<1> QED BY <1>0, <1>4, <1>8, <1>10, <1>11, <1>13, <1>14, PlannedFrom

LEMMA PlanArchiveRouteGood ==
  ASSUME CatalogBase, NEW e \in PlanArchiveRoute
  PROVE  Planned(e, ct.clock + 1)
<1>0. PICK t \in Nat : t = ct.clock + 1
  BY DEF CatalogBase, CatalogStates
<1>1. PICK s \in Live(ct.routes) : e = [NoEdit EXCEPT !.op = "archiveRoute", !.routeAt = {<<s, t>>}]
  BY <1>0 DEF PlanArchiveRoute
<1> DEFINE one == {<<s, t>>}
<1>2. /\ e.op = "archiveRoute" /\ e.modelAt = {} /\ e.upstreamAt = {} /\ e.routeAt = one
      /\ e.adapter = {} /\ e.output = {} /\ e.route = {} /\ e.upstream = {}
  BY <1>1 DEF NoEdit
<1>3. s \in Nat /\ s \in 1..Len(ct.routes)
  <2>1. Len(ct.routes) \in Nat
    BY RowsTyped DEF CatalogBase
  <2> QED BY <2>1 DEF Live
<1>4. e \in EditStates
  <2>1. one \in SUBSET (Nat \X Nat)
    BY <1>3
  <2>2. e = [NoEdit EXCEPT !.op = "archiveRoute", !.routeAt = one]
    BY <1>1
  <2> HIDE DEF one
  <2> QED BY <2>1, <2>2 DEF NoEdit, EditStates
<1>5. Marks(e.routeAt, {s}, t)
  BY <1>2, MarksOne
<1>6. \A r : RouteAt(e, r) = IF r = s THEN t ELSE ct.routes[r].at
  BY <1>5, SetByMarks DEF RouteAt
<1>7. (\A m : ModelAt(e, m) = ct.models[m].at) /\ \A u : UpstreamAt(e, u) = ct.upstreams[u].at
  BY <1>2, SetByNone DEF ModelAt, UpstreamAt
<1>8. EditOK(e, t)
  <2>1. TimesOf(e, t)
    BY <1>0, <1>2, <1>5 DEF TimesOf, Marks
  <2> QED BY <1>2, <2>1 DEF EditOK, OneRow, ParentsOf
<1>9. SoloAfter(e) = ct.solo \cup {s}
  <2>1. {p[1] : p \in e.routeAt} = {s}
    BY <1>2
  <2> QED BY <1>2, <2>1 DEF SoloAfter
<1> HIDE DEF one
<1>10. RulesNow => OldRoutesFit(e)
  <2>1. t # 0
    BY <1>0 DEF CatalogBase, CatalogStates
  <2> QED BY <1>2, <1>6, <1>7, <2>1, NoStamps, RuleUsed DEF OldRoutesFit
<1>11. NewRoutesFit(e)
  BY <1>2 DEF NewRoutesFit
<1>12. ASSUME RulesNow PROVE SolosApart(e)
  <2>1. ASSUME NEW r \in ct.solo \cup {s}
        PROVE  /\ r \in 1..Len(ct.routes) /\ RouteAt(e, r) # 0
               /\ \A m \in 1..Len(ct.models) : ModelAt(e, m) # RouteAt(e, r)
    <3>1. CASE r = s
      <4>1. RouteAt(e, r) = t /\ t # 0 /\ t > ct.clock /\ ct.clock \in Nat
        BY <1>0, <1>6, <3>1 DEF CatalogBase, CatalogStates
      <4>2. \A m \in 1..Len(ct.models) : ct.models[m].at \in Nat /\ ct.models[m].at <= ct.clock
        BY RowsTyped DEF CatalogBase, AtsPast
      <4> QED BY <1>3, <1>7, <3>1, <4>1, <4>2
    <3>2. CASE r # s
      BY <1>6, <1>7, <1>12, <2>1, <3>2, RuleUsed
    <3> QED BY <3>1, <3>2
  <2> QED BY <1>9, <2>1 DEF SolosApart
<1>13. SoloSpared(e)
  BY <1>2 DEF SoloSpared
<1> QED BY <1>0, <1>4, <1>8, <1>10, <1>11, <1>12, <1>13, PlannedFrom

(* The restores.                                                            *)
LEMMA PlanRestoreModelGood ==
  ASSUME CatalogBase, NEW now \in Nat, NEW e \in PlanRestoreModel
  PROVE  Planned(e, now)
<1>1. PICK m \in Archived(ct.models) :
        /\ \A r \in Batch(m) : Fits(ct.routes[r].out, ct.upstreams[ct.routes[r].u].adapter)
        /\ e = [NoEdit EXCEPT !.op = "restore", !.modelAt = {<<m, 0>>}, !.routeAt = {<<r, 0>> : r \in Batch(m)}]
  BY DEF PlanRestoreModel
<1> DEFINE S == Batch(m)
           one == {<<m, 0>>}
           all == {<<r, 0>> : r \in S}
<1>2. /\ e.op = "restore" /\ e.modelAt = one /\ e.upstreamAt = {} /\ e.routeAt = all
      /\ e.adapter = {} /\ e.output = {} /\ e.route = {} /\ e.upstream = {}
  BY <1>1 DEF NoEdit
<1>3. /\ m \in Nat /\ S \subseteq Nat /\ m \in 1..Len(ct.models) /\ ct.models[m].at # 0
      /\ \A r \in S : /\ r \in 1..Len(ct.routes) /\ ct.routes[r].m = m
                      /\ ct.routes[r].at = ct.models[m].at /\ ct.upstreams[ct.routes[r].u].at = 0
  <2>1. Len(ct.models) \in Nat /\ Len(ct.routes) \in Nat
    BY RowsTyped DEF CatalogBase
  <2> QED BY <2>1 DEF Live, Archived, Batch
<1>4. e \in EditStates
  <2>1. one \in SUBSET (Nat \X Nat) /\ all \in SUBSET (Nat \X Nat)
    BY <1>3
  <2>2. e = [NoEdit EXCEPT !.op = "restore", !.modelAt = one, !.routeAt = all]
    BY <1>1
  <2> HIDE DEF one, all
  <2> QED BY <2>1, <2>2 DEF NoEdit, EditStates
<1>5. Marks(e.modelAt, {m}, 0) /\ Marks(e.routeAt, S, 0)
  BY <1>2, MarksOne, MarksAll
<1>6. \A i : ModelAt(e, i) = IF i = m THEN 0 ELSE ct.models[i].at
  BY <1>5, SetByMarks DEF ModelAt
<1>7. \A r : RouteAt(e, r) = IF r \in S THEN 0 ELSE ct.routes[r].at
  BY <1>5, SetByMarks DEF RouteAt
<1>8. \A u : UpstreamAt(e, u) = ct.upstreams[u].at
  BY <1>2, SetByNone DEF UpstreamAt
<1>9. EditOK(e, now)
  <2>1. TimesOf(e, now)
    BY <1>2, <1>5 DEF TimesOf, Marks
  <2> QED BY <1>2, <2>1 DEF EditOK, OneRow, ParentsOf
<1>10. SoloAfter(e) = ct.solo \ S
  <2>1. {p[1] : p \in e.routeAt} = S
    BY <1>5 DEF Marks
  <2> QED BY <1>2, <2>1 DEF SoloAfter
<1> HIDE DEF S, one, all
<1>11. ASSUME RulesNow PROVE OldRoutesFit(e)
  <2>1. ASSUME NEW r \in 1..Len(ct.routes), RouteAt(e, r) = 0
        PROVE  /\ ModelAt(e, ct.routes[r].m) = 0 /\ UpstreamAt(e, ct.routes[r].u) = 0
               /\ Fits(OutOf(e, r), AdapterOf(e, ct.routes[r].u))
    <3>1. CASE r \in S
      <4>1. Fits(ct.routes[r].out, ct.upstreams[ct.routes[r].u].adapter)
        BY <1>1, <3>1 DEF S
      <4> QED BY <1>2, <1>3, <1>6, <1>8, <3>1, <4>1, NoStamps
    <3>2. CASE r \notin S
      BY <1>2, <1>6, <1>7, <1>8, <1>11, <2>1, <3>2, NoStamps, RuleUsed
    <3> QED BY <3>1, <3>2
  <2> QED BY <2>1 DEF OldRoutesFit
<1>12. NewRoutesFit(e)
  BY <1>2 DEF NewRoutesFit
<1>13. ASSUME RulesNow PROVE SolosApart(e)
  BY <1>6, <1>7, <1>10, <1>13, RuleUsed DEF SolosApart
<1>14. ASSUME RulesNow PROVE SoloSpared(e)
  <2>1. \A r \in S : r \notin ct.solo
    BY <1>3, <1>14, RuleUsed
  <2> QED BY <1>5, <2>1 DEF SoloSpared, Marks
<1> QED BY <1>4, <1>9, <1>11, <1>12, <1>13, <1>14, PlannedFrom

LEMMA PlanRestoreUpstreamGood ==
  ASSUME CatalogBase, NEW now \in Nat, NEW e \in PlanRestoreUpstream
  PROVE  Planned(e, now)
<1>1. PICK u \in Archived(ct.upstreams) : e = [NoEdit EXCEPT !.op = "restore", !.upstreamAt = {<<u, 0>>}]
  BY DEF PlanRestoreUpstream
<1> DEFINE one == {<<u, 0>>}
<1>2. /\ e.op = "restore" /\ e.modelAt = {} /\ e.upstreamAt = one /\ e.routeAt = {}
      /\ e.adapter = {} /\ e.output = {} /\ e.route = {} /\ e.upstream = {}
  BY <1>1 DEF NoEdit
<1>3. u \in Nat
  <2>1. Len(ct.upstreams) \in Nat
    BY RowsTyped DEF CatalogBase
  <2> QED BY <2>1 DEF Archived
<1>4. e \in EditStates
  <2>1. one \in SUBSET (Nat \X Nat)
    BY <1>3
  <2>2. e = [NoEdit EXCEPT !.op = "restore", !.upstreamAt = one]
    BY <1>1
  <2> HIDE DEF one
  <2> QED BY <2>1, <2>2 DEF NoEdit, EditStates
<1>5. Marks(e.upstreamAt, {u}, 0)
  BY <1>2, MarksOne
<1>6. \A v : UpstreamAt(e, v) = IF v = u THEN 0 ELSE ct.upstreams[v].at
  BY <1>5, SetByMarks DEF UpstreamAt
<1>7. (\A m : ModelAt(e, m) = ct.models[m].at) /\ \A r : RouteAt(e, r) = ct.routes[r].at
  BY <1>2, SetByNone DEF ModelAt, RouteAt
<1>8. EditOK(e, now)
  <2>1. TimesOf(e, now)
    BY <1>2, <1>5 DEF TimesOf, Marks
  <2> QED BY <1>2, <2>1 DEF EditOK, OneRow, ParentsOf
<1> HIDE DEF one
<1>9. RulesNow => OldRoutesFit(e)
  BY <1>2, <1>6, <1>7, NoStamps, RuleUsed DEF OldRoutesFit
<1>10. NewRoutesFit(e)
  BY <1>2 DEF NewRoutesFit
<1>11. SoloAfter(e) = ct.solo
  <2>1. {p[1] : p \in e.routeAt} = {}
    BY <1>2
  <2> QED BY <1>2, <2>1 DEF SoloAfter
<1>12. RulesNow => SolosApart(e)
  BY <1>7, <1>11, RuleUsed DEF SolosApart
<1>13. SoloSpared(e)
  BY <1>2 DEF SoloSpared
<1> QED BY <1>4, <1>8, <1>9, <1>10, <1>12, <1>13, PlannedFrom

LEMMA PlanRestoreRouteGood ==
  ASSUME CatalogBase, NEW now \in Nat, NEW e \in PlanRestoreRoute
  PROVE  Planned(e, now)
<1>1. PICK s \in Archived(ct.routes) :
        /\ ct.routes[s].m \in Live(ct.models) /\ ct.routes[s].u \in Live(ct.upstreams)
        /\ Fits(ct.routes[s].out, ct.upstreams[ct.routes[s].u].adapter)
        /\ e = [NoEdit EXCEPT !.op = "restore", !.routeAt = {<<s, 0>>}]
  BY DEF PlanRestoreRoute
<1> DEFINE one == {<<s, 0>>}
<1>2. /\ e.op = "restore" /\ e.modelAt = {} /\ e.upstreamAt = {} /\ e.routeAt = one
      /\ e.adapter = {} /\ e.output = {} /\ e.route = {} /\ e.upstream = {}
  BY <1>1 DEF NoEdit
<1>3. s \in Nat /\ s \in 1..Len(ct.routes)
  <2>1. Len(ct.routes) \in Nat
    BY RowsTyped DEF CatalogBase
  <2> QED BY <2>1 DEF Archived
<1>4. e \in EditStates
  <2>1. one \in SUBSET (Nat \X Nat)
    BY <1>3
  <2>2. e = [NoEdit EXCEPT !.op = "restore", !.routeAt = one]
    BY <1>1
  <2> HIDE DEF one
  <2> QED BY <2>1, <2>2 DEF NoEdit, EditStates
<1>5. Marks(e.routeAt, {s}, 0)
  BY <1>2, MarksOne
<1>6. \A r : RouteAt(e, r) = IF r = s THEN 0 ELSE ct.routes[r].at
  BY <1>5, SetByMarks DEF RouteAt
<1>7. (\A m : ModelAt(e, m) = ct.models[m].at) /\ \A u : UpstreamAt(e, u) = ct.upstreams[u].at
  BY <1>2, SetByNone DEF ModelAt, UpstreamAt
<1>8. EditOK(e, now)
  <2>1. TimesOf(e, now)
    BY <1>2, <1>5 DEF TimesOf, Marks
  <2> QED BY <1>2, <2>1 DEF EditOK, OneRow, ParentsOf
<1>9. SoloAfter(e) = ct.solo \ {s}
  <2>1. {p[1] : p \in e.routeAt} = {s}
    BY <1>2
  <2> QED BY <1>2, <2>1 DEF SoloAfter
<1> HIDE DEF one
<1>10. ASSUME RulesNow PROVE OldRoutesFit(e)
  <2>1. ASSUME NEW r \in 1..Len(ct.routes), RouteAt(e, r) = 0
        PROVE  /\ ModelAt(e, ct.routes[r].m) = 0 /\ UpstreamAt(e, ct.routes[r].u) = 0
               /\ Fits(OutOf(e, r), AdapterOf(e, ct.routes[r].u))
    <3>1. CASE r = s
      BY <1>1, <1>2, <1>7, <3>1, NoStamps DEF Live
    <3>2. CASE r # s
      BY <1>2, <1>6, <1>7, <1>10, <2>1, <3>2, NoStamps, RuleUsed
    <3> QED BY <3>1, <3>2
  <2> QED BY <2>1 DEF OldRoutesFit
<1>11. NewRoutesFit(e)
  BY <1>2 DEF NewRoutesFit
<1>12. RulesNow => SolosApart(e)
  BY <1>6, <1>7, <1>9, RuleUsed DEF SolosApart
<1>13. SoloSpared(e)
  BY <1>2 DEF SoloSpared
<1> QED BY <1>4, <1>8, <1>10, <1>11, <1>12, <1>13, PlannedFrom

(* Steps that leave the tables alone.                                       *)

KeepsRows == /\ ct'.models = ct.models /\ ct'.upstreams = ct.upstreams /\ ct'.routes = ct.routes
             /\ ct'.solo = ct.solo

LEMMA SameRows ==
  ASSUME KeepsRows
  PROVE  /\ RulesNow' <=> RulesNow
         /\ RouteRefs' <=> RouteRefs
         /\ Conflict(ct)' <=> Conflict(ct)
         /\ \A e : RulesAfter(e)' <=> RulesAfter(e)
         /\ \A e : SoloSpared(e)' <=> SoloSpared(e)
         /\ \A e : ParentsOf(e)' <=> ParentsOf(e)
<1>1. RulesNow' <=> RulesNow
  BY DEF KeepsRows, RulesNow
<1>2. RouteRefs' <=> RouteRefs
  BY DEF KeepsRows, RouteRefs
<1>3. Conflict(ct)' <=> Conflict(ct)
  BY DEF KeepsRows, Conflict
<1>4. ASSUME NEW e PROVE RulesAfter(e)' <=> RulesAfter(e)
  <2>1. ModelsAfter(e)' = ModelsAfter(e)
    BY DEF KeepsRows, ModelsAfter
  <2>2. UpstreamsAfter(e)' = UpstreamsAfter(e)
    BY DEF KeepsRows, UpstreamsAfter
  <2>3. RoutesAfter(e)' = RoutesAfter(e)
    BY <2>1, <2>2 DEF KeepsRows, RoutesAfter, NewRoute
  <2>4. SoloAfter(e)' = SoloAfter(e)
    BY DEF KeepsRows, SoloAfter
  <2> QED BY <2>1, <2>2, <2>3, <2>4 DEF RulesAfter
<1>5. ASSUME NEW e PROVE SoloSpared(e)' <=> SoloSpared(e)
  BY DEF KeepsRows, SoloSpared
<1>6. ASSUME NEW e PROVE ParentsOf(e)' <=> ParentsOf(e)
  BY DEF KeepsRows, ParentsOf
<1> QED BY <1>1, <1>2, <1>3, <1>4, <1>5, <1>6

LEMMA NoEditOK == NoEdit \in EditStates /\ \A now : EditOK(NoEdit, now)
<1>1. NoEdit \in EditStates
  BY DEF NoEdit, EditStates
<1>2. ASSUME NEW now PROVE EditOK(NoEdit, now)
  BY DEF NoEdit, EditOK, OneRow, ParentsOf, TimesOf
<1> QED BY <1>1, <1>2

LEMMA EditsKept ==
  ASSUME CatalogInv, KeepsRows, NEW now \in Nat, ct.clock <= now,
         NEW b \in CatalogAdmins
  PROVE  EditOK(ct.tx[b], now)
<1>1. ct.clock \in Nat /\ ct.tx[b] \in EditStates /\ EditOK(ct.tx[b], ct.clock)
  BY DEF CatalogInv, CatalogStates, EditsOK
<1>2. \A p \in ct.tx[b].modelAt \cup ct.tx[b].upstreamAt \cup ct.tx[b].routeAt : p[2] \in Nat
  BY <1>1, EditTyped
<1>3. TimesOf(ct.tx[b], now)
  BY <1>1, <1>2 DEF EditOK, TimesOf
<1> QED BY <1>1, <1>3 DEF EditOK

(* A transaction of a is e from now on; the clock may have moved.           *)
Becomes(a, e) == /\ ct' \in CatalogStates /\ KeepsRows
                 /\ ct'.tx = [ct.tx EXCEPT ![a] = e]
                 /\ ct'.run = ct.run /\ ct.clock <= ct'.clock /\ ct'.clock <= MaxArchives

LEMMA BecomesKeeps ==
  ASSUME CatalogInv, NEW a \in CatalogAdmins, NEW e \in EditStates, Becomes(a, e),
         EditOK(e, ct'.clock)
  PROVE  /\ ct' \in CatalogStates /\ Bounded' /\ RouteRefs' /\ AtsPast'
         /\ EditsOK' /\ ~Conflict(ct)' /\ RunRef'
         /\ \A b \in CatalogAdmins : ct'.tx[b] = IF b = a THEN e ELSE ct.tx[b]
<1>1. ct' \in CatalogStates /\ KeepsRows
  BY DEF Becomes
<1>2. ct.tx \in [CatalogAdmins -> EditStates] /\ ct.clock \in Nat
  BY DEF CatalogInv, CatalogStates
<1>3. ct'.clock \in Nat
  BY <1>1 DEF CatalogStates
<1>4. Bounded'
  BY DEF CatalogInv, Bounded, Becomes, KeepsRows
<1>5. RouteRefs' /\ ~Conflict(ct)'
  BY <1>1, SameRows DEF CatalogInv
<1>6. AtsPast'
  <2>1. ct.clock <= ct'.clock
    BY DEF Becomes
  <2>2. AtsPast
    BY DEF CatalogInv
  <2>3. /\ \A m \in 1..Len(ct.models) : ct.models[m].at \in Nat
        /\ \A u \in 1..Len(ct.upstreams) : ct.upstreams[u].at \in Nat
        /\ \A r \in 1..Len(ct.routes) : ct.routes[r].at \in Nat
    BY RowsTyped DEF CatalogInv
  <2>4. /\ \A m \in 1..Len(ct.models) : ct.models[m].at <= ct'.clock
        /\ \A u \in 1..Len(ct.upstreams) : ct.upstreams[u].at <= ct'.clock
        /\ \A r \in 1..Len(ct.routes) : ct.routes[r].at <= ct'.clock
    <3>1. ASSUME NEW m \in 1..Len(ct.models) PROVE ct.models[m].at <= ct'.clock
      BY <1>2, <1>3, <2>1, <2>2, <2>3 DEF AtsPast
    <3>2. ASSUME NEW u \in 1..Len(ct.upstreams) PROVE ct.upstreams[u].at <= ct'.clock
      BY <1>2, <1>3, <2>1, <2>2, <2>3 DEF AtsPast
    <3>3. ASSUME NEW r \in 1..Len(ct.routes) PROVE ct.routes[r].at <= ct'.clock
      BY <1>2, <1>3, <2>1, <2>2, <2>3 DEF AtsPast
    <3> QED BY <3>1, <3>2, <3>3
  <2> QED BY <1>1, <2>4 DEF AtsPast, KeepsRows
<1>7. RunRef'
  BY <1>1 DEF CatalogInv, RunRef, RunsKeepUpstream, ResolveRun, Becomes, KeepsRows
<1>8. \A b \in CatalogAdmins : ct'.tx[b] = IF b = a THEN e ELSE ct.tx[b]
  BY <1>2 DEF Becomes
<1>9. EditsOK'
  <2>1. ASSUME NEW b \in CatalogAdmins PROVE EditOK(ct.tx[b], ct.clock)'
    <3>1. EditOK(ct'.tx[b], ct'.clock)
      <4>1. CASE b = a
        BY <1>8, <4>1
      <4>2. CASE b # a
        <5>1. EditOK(ct.tx[b], ct'.clock)
          BY <1>1, <1>3, EditsKept DEF Becomes
        <5> QED BY <1>8, <4>2, <5>1
      <4> QED BY <4>1, <4>2
    <3> QED BY <1>1, <3>1, SameRows DEF EditOK, TimesOf, OneRow, ParentsOf, KeepsRows
  <2> QED BY <2>1 DEF EditsOK
<1> QED BY <1>1, <1>4, <1>5, <1>6, <1>7, <1>8, <1>9

(* The beginning of a transaction.                                          *)

LEMMA SameEdit ==
  ASSUME NEW b, NEW e, ct'.tx[b] = e
  PROVE  (RulesAfter(ct.tx[b]) /\ SoloSpared(ct.tx[b]))' <=> (RulesAfter(e) /\ SoloSpared(e))'
<1>1. ModelsAfter(ct.tx[b])' = ModelsAfter(e)' /\ UpstreamsAfter(ct.tx[b])' = UpstreamsAfter(e)'
  BY DEF ModelsAfter, UpstreamsAfter
<1>2. RoutesAfter(ct.tx[b])' = RoutesAfter(e)'
  BY <1>1 DEF RoutesAfter, NewRoute
<1>3. SoloAfter(ct.tx[b])' = SoloAfter(e)'
  BY DEF SoloAfter
<1>4. SoloSpared(ct.tx[b])' <=> SoloSpared(e)'
  BY DEF SoloSpared
<1> QED BY <1>1, <1>2, <1>3, <1>4 DEF RulesAfter

LEMMA BeginKeeps ==
  ASSUME CatalogInv, NEW a \in CatalogAdmins, NEW e, NEW now \in Nat, Planned(e, now), ct.tx[a] = NoEdit,
         ct.clock <= now, now <= MaxArchives,
         ct' = [ct EXCEPT !.tx[a] = e, !.clock = now, !.overlap = @ \/ Open # {}]
  PROVE  CatalogInv'
<1>1. e \in EditStates /\ EditOK(e, now) /\ ct \in CatalogStates
  BY DEF Planned, CatalogInv
<1>2. /\ ct'.models = ct.models /\ ct'.upstreams = ct.upstreams /\ ct'.routes = ct.routes
      /\ ct'.solo = ct.solo /\ ct'.run = ct.run /\ ct'.clock = now
  BY <1>1 DEF CatalogStates
<1>3. ct'.tx = [ct.tx EXCEPT ![a] = e] /\ ct'.overlap = (ct.overlap \/ Open # {})
  BY <1>1 DEF CatalogStates
<1>4. ct' \in CatalogStates
  <2>1. [ct.tx EXCEPT ![a] = e] \in [CatalogAdmins -> EditStates]
    BY <1>1 DEF CatalogStates
  <2> QED BY <1>1, <2>1 DEF CatalogStates
<1>5. Becomes(a, e) /\ KeepsRows
  BY <1>2, <1>3, <1>4 DEF Becomes, KeepsRows
<1>6. /\ ct' \in CatalogStates /\ Bounded' /\ RouteRefs' /\ AtsPast'
      /\ EditsOK' /\ ~Conflict(ct)' /\ RunRef'
      /\ \A b \in CatalogAdmins : ct'.tx[b] = IF b = a THEN e ELSE ct.tx[b]
  BY <1>1, <1>2, <1>5, BecomesKeeps
<1>7. AloneInv'
  <2> SUFFICES ASSUME ~ct'.overlap PROVE AloneInv'
    BY DEF AloneInv
  <2>1. ~ct.overlap /\ Open = {}
    BY <1>1, <1>3 DEF CatalogStates
  <2>2. RulesNow
    BY <2>1 DEF CatalogInv, AloneInv
  <2>3. RulesAfter(e) /\ SoloSpared(e)
    BY <2>2 DEF Planned
  <2>4. RulesNow' /\ RulesAfter(e)' /\ SoloSpared(e)'
    BY <1>5, <2>2, <2>3, SameRows
  <2>5. \A b \in CatalogAdmins : ct'.tx[b] # NoEdit => b = a /\ ct'.tx[b] = e
    BY <1>6, <2>1 DEF Open
  <2>6. ASSUME NEW b \in CatalogAdmins, ct'.tx[b] # NoEdit
        PROVE  (RulesAfter(ct.tx[b]) /\ SoloSpared(ct.tx[b]))'
    BY <2>4, <2>5, <2>6, SameEdit
  <2> QED BY <2>4, <2>5, <2>6 DEF AloneInv
<1> QED BY <1>6, <1>7 DEF CatalogInv

LEMMA BeginUpsertKeeps ==
  ASSUME CatalogInv, NEW a \in CatalogAdmins, BeginUpsert(a)
  PROVE  CatalogInv'
<1>1. PICK e \in PlanModel \cup PlanImport \cup (UNION {PlanUpstream(x) : x \in Adapters})
                 \cup (UNION {PlanRoute(x) : x \in Outputs}) :
        ct.tx[a] = NoEdit /\ ct' = [ct EXCEPT !.tx[a] = e, !.overlap = @ \/ Open # {}]
  BY DEF BeginUpsert, Begin
<1>2. ct \in CatalogStates /\ ct.clock \in Nat /\ ct.clock <= MaxArchives /\ CatalogBase
  BY DEF CatalogInv, CatalogBase, CatalogStates, Bounded
<1>3. Planned(e, ct.clock)
  <2>1. \/ e \in PlanModel \/ e \in PlanImport
        \/ e \in UNION {PlanUpstream(x) : x \in Adapters} \/ e \in UNION {PlanRoute(x) : x \in Outputs}
    OBVIOUS
  <2>2. CASE e \in PlanModel
    BY <1>2, <2>2, PlanModelGood
  <2>3. CASE e \in PlanImport
    BY <1>2, <2>3, PlanImportGood
  <2>4. CASE e \in UNION {PlanUpstream(x) : x \in Adapters}
    <3>1. PICK x \in Adapters : e \in PlanUpstream(x)
      BY <2>4
    <3> QED BY <1>2, <3>1, PlanUpstreamGood
  <2>5. CASE e \in UNION {PlanRoute(x) : x \in Outputs}
    <3>1. PICK x \in Outputs : e \in PlanRoute(x)
      BY <2>5
    <3> QED BY <1>2, <3>1, PlanRouteGood
  <2> QED BY <2>1, <2>2, <2>3, <2>4, <2>5
<1>4. ct' = [ct EXCEPT !.tx[a] = e, !.clock = ct.clock, !.overlap = @ \/ Open # {}]
  BY <1>1, <1>2 DEF CatalogStates
<1>5. ct.clock <= ct.clock
  BY <1>2
<1> QED BY <1>1, <1>2, <1>3, <1>4, <1>5, BeginKeeps

LEMMA BeginRestoreKeeps ==
  ASSUME CatalogInv, NEW a \in CatalogAdmins, BeginRestore(a)
  PROVE  CatalogInv'
<1>1. PICK e \in PlanRestoreModel \cup PlanRestoreUpstream \cup PlanRestoreRoute :
        ct.tx[a] = NoEdit /\ ct' = [ct EXCEPT !.tx[a] = e, !.overlap = @ \/ Open # {}]
  BY DEF BeginRestore, Begin
<1>2. ct \in CatalogStates /\ ct.clock \in Nat /\ ct.clock <= MaxArchives /\ CatalogBase
  BY DEF CatalogInv, CatalogBase, CatalogStates, Bounded
<1>3. Planned(e, ct.clock)
  BY <1>1, <1>2, PlanRestoreModelGood, PlanRestoreUpstreamGood, PlanRestoreRouteGood
<1>4. ct' = [ct EXCEPT !.tx[a] = e, !.clock = ct.clock, !.overlap = @ \/ Open # {}]
  BY <1>1, <1>2 DEF CatalogStates
<1>5. ct.clock <= ct.clock
  BY <1>2
<1> QED BY <1>1, <1>2, <1>3, <1>4, <1>5, BeginKeeps

LEMMA BeginArchiveKeeps ==
  ASSUME CatalogInv, NEW a \in CatalogAdmins, BeginArchive(a)
  PROVE  CatalogInv'
<1>1. PICK e \in Archiving :
        /\ ct.clock < MaxArchives /\ ct.tx[a] = NoEdit
        /\ ct' = [ct EXCEPT !.tx[a] = e, !.clock = @ + 1, !.overlap = @ \/ Open # {}]
  BY DEF BeginArchive
<1>2. ct \in CatalogStates /\ ct.clock \in Nat /\ CatalogBase
  BY DEF CatalogInv, CatalogBase, CatalogStates
<1>3. Planned(e, ct.clock + 1)
  BY <1>1, <1>2, PlanArchiveModelGood, PlanArchiveUpstreamGood, PlanArchiveRouteGood DEF Archiving
<1>4. ct.clock + 1 \in Nat /\ ct.clock <= ct.clock + 1 /\ ct.clock + 1 <= MaxArchives
  BY <1>1, <1>2, CatalogAssumption
<1>5. ct' = [ct EXCEPT !.tx[a] = e, !.clock = ct.clock + 1, !.overlap = @ \/ Open # {}]
  BY <1>1
<1> QED BY <1>1, <1>2, <1>3, <1>4, <1>5, BeginKeeps

(* The end of a transaction, and runs.                                      *)

LEMMA RollbackKeeps ==
  ASSUME CatalogInv, NEW a \in CatalogAdmins, ct' = [ct EXCEPT !.tx[a] = NoEdit]
  PROVE  CatalogInv'
<1>1. ct \in CatalogStates /\ ct.clock \in Nat /\ ct.clock <= MaxArchives
  BY DEF CatalogInv, CatalogStates, Bounded
<1>2. /\ ct'.models = ct.models /\ ct'.upstreams = ct.upstreams /\ ct'.routes = ct.routes
      /\ ct'.solo = ct.solo /\ ct'.run = ct.run /\ ct'.clock = ct.clock
  BY <1>1 DEF CatalogStates
<1>3. ct'.tx = [ct.tx EXCEPT ![a] = NoEdit] /\ ct'.overlap = ct.overlap
  BY <1>1 DEF CatalogStates
<1>4. ct' \in CatalogStates
  <2>1. [ct.tx EXCEPT ![a] = NoEdit] \in [CatalogAdmins -> EditStates]
    BY <1>1, NoEditOK DEF CatalogStates
  <2> QED BY <1>1, <2>1 DEF CatalogStates
<1>5. Becomes(a, NoEdit) /\ KeepsRows
  BY <1>1, <1>2, <1>3, <1>4 DEF Becomes, KeepsRows
<1>6. /\ ct' \in CatalogStates /\ Bounded' /\ RouteRefs' /\ AtsPast'
      /\ EditsOK' /\ ~Conflict(ct)' /\ RunRef'
      /\ \A b \in CatalogAdmins : ct'.tx[b] = IF b = a THEN NoEdit ELSE ct.tx[b]
  BY <1>5, BecomesKeeps, NoEditOK
<1>7. AloneInv'
  <2> SUFFICES ASSUME ~ct'.overlap PROVE AloneInv'
    BY DEF AloneInv
  <2>1. ~ct.overlap
    BY <1>3
  <2>2. /\ RulesNow
        /\ \A b, c \in CatalogAdmins : ct.tx[b] # NoEdit /\ ct.tx[c] # NoEdit => b = c
        /\ \A b \in CatalogAdmins : ct.tx[b] # NoEdit => RulesAfter(ct.tx[b]) /\ SoloSpared(ct.tx[b])
    BY <2>1 DEF CatalogInv, AloneInv
  <2>3. RulesNow'
    BY <1>5, <2>2, SameRows
  <2>4. ASSUME NEW b \in CatalogAdmins, ct'.tx[b] # NoEdit
        PROVE  (RulesAfter(ct.tx[b]) /\ SoloSpared(ct.tx[b]))'
    <3>1. ct'.tx[b] = ct.tx[b] /\ ct.tx[b] # NoEdit
      BY <1>6, <2>4
    <3>2. PICK e : e = ct.tx[b]
      OBVIOUS
    <3>3. RulesAfter(e) /\ SoloSpared(e)
      BY <2>2, <3>1, <3>2
    <3>4. RulesAfter(e)' /\ SoloSpared(e)'
      BY <1>5, <3>3, SameRows
    <3> QED BY <3>1, <3>2, <3>4, SameEdit
  <2>5. \A b, c \in CatalogAdmins : ct'.tx[b] # NoEdit /\ ct'.tx[c] # NoEdit => b = c
    BY <1>6, <2>2
  <2> QED BY <2>3, <2>4, <2>5 DEF AloneInv
<1> QED BY <1>6, <1>7 DEF CatalogInv

LEMMA CatalogRecord ==
  ASSUME NEW on \in BOOLEAN, NEW M \in Seq(ModelRows), NEW U \in Seq(UpstreamRows), NEW R \in Seq(RouteRows),
         NEW clock \in Nat, NEW tx \in [CatalogAdmins -> EditStates], NEW solo \in SUBSET Nat,
         NEW run \in [route : Nat, upstream : Nat], NEW overlap \in BOOLEAN
  PROVE  [on |-> on, models |-> M, upstreams |-> U, routes |-> R, clock |-> clock, tx |-> tx,
          solo |-> solo, run |-> run, overlap |-> overlap] \in CatalogStates
  BY DEF CatalogStates

(* A commit that no index refuses.                                          *)
Writes(a, e) ==
  /\ ct'.models = ModelsAfter(e) /\ ct'.upstreams = UpstreamsAfter(e) /\ ct'.routes = RoutesAfter(e)
  /\ ct'.solo = SoloAfter(e) /\ ct'.tx = [ct.tx EXCEPT ![a] = NoEdit]
  /\ ct'.on = ct.on /\ ct'.clock = ct.clock /\ ct'.run = ct.run /\ ct'.overlap = ct.overlap

LEMMA WritesOf ==
  ASSUME CatalogInv, NEW a \in CatalogAdmins, NEW e \in EditStates, e = ct.tx[a],
         ct' = [Edited(e) EXCEPT !.tx[a] = NoEdit,
                                 !.solo = CASE e.op = "archiveRoute" -> @ \cup {p[1] : p \in e.routeAt}
                                            [] e.op = "restore" -> @ \ {p[1] : p \in e.routeAt} [] OTHER -> @]
  PROVE  Writes(a, e) /\ ct' \in CatalogStates
<1>1. ct \in CatalogStates /\ EditOK(e, ct.clock)
  BY DEF CatalogInv, EditsOK
<1>2. PICK solo : solo = SoloAfter(e)
  OBVIOUS
<1>3. solo \subseteq Nat
  <2>1. \A p \in e.routeAt : p[1] \in Nat
    BY EditTyped
  <2>2. ct.solo \subseteq Nat
    BY <1>1 DEF CatalogStates
  <2> QED BY <1>2, <2>1, <2>2 DEF SoloAfter
<1>4. Edited(e) = [ct EXCEPT !.models = ModelsAfter(e), !.upstreams = UpstreamsAfter(e), !.routes = RoutesAfter(e)]
  BY DEF Edited, ModelsAfter, UpstreamsAfter, RoutesAfter, NewRoute
<1>5. PICK M, U, R : M = ModelsAfter(e) /\ U = UpstreamsAfter(e) /\ R = RoutesAfter(e)
  OBVIOUS
<1>6. M \in Seq(ModelRows) /\ U \in Seq(UpstreamRows) /\ R \in Seq(RouteRows)
  BY <1>1, <1>5, ModelsGrow, UpstreamsGrow, RoutesGrow DEF EditOK
<1>7. Edited(e).solo = ct.solo /\ Edited(e).tx = ct.tx
  BY <1>1, EditedIs
<1>8. ct' = [Edited(e) EXCEPT !.tx = [ct.tx EXCEPT ![a] = NoEdit], !.solo = solo]
  BY <1>2, <1>7 DEF SoloAfter
<1>9. PICK tx : tx = [ct.tx EXCEPT ![a] = NoEdit]
  OBVIOUS
<1>10. tx \in [CatalogAdmins -> EditStates]
  BY <1>1, <1>9, NoEditOK DEF CatalogStates
<1>11. ct' = [ct EXCEPT !.models = M, !.upstreams = U, !.routes = R, !.tx = tx, !.solo = solo]
  <2>1. Edited(e) = [ct EXCEPT !.models = M, !.upstreams = U, !.routes = R]
    BY <1>4, <1>5
  <2> QED BY <1>1, <1>8, <1>9, <2>1 DEF CatalogStates
<1>12. ct' \in CatalogStates
  <2>1. solo \in SUBSET Nat
    BY <1>3
  <2>2. ct' = [on |-> ct.on, models |-> M, upstreams |-> U, routes |-> R, clock |-> ct.clock, tx |-> tx,
               solo |-> solo, run |-> ct.run, overlap |-> ct.overlap]
    BY <1>1, <1>11 DEF CatalogStates
  <2>3. ct.on \in BOOLEAN /\ ct.clock \in Nat /\ ct.run \in [route : Nat, upstream : Nat] /\ ct.overlap \in BOOLEAN
    BY <1>1 DEF CatalogStates
  <2>4. [on |-> ct.on, models |-> M, upstreams |-> U, routes |-> R, clock |-> ct.clock, tx |-> tx,
         solo |-> solo, run |-> ct.run, overlap |-> ct.overlap] \in CatalogStates
    BY <1>6, <1>10, <2>1, <2>3, CatalogRecord, Zenon
  <2> QED BY <2>2, <2>4, Zenon
<1>13. ct'.models = M /\ ct'.upstreams = U /\ ct'.routes = R /\ ct'.solo = solo
  BY <1>1, <1>11 DEF CatalogStates
<1>14. ct'.tx = tx /\ ct'.on = ct.on /\ ct'.clock = ct.clock
  BY <1>1, <1>11 DEF CatalogStates
<1>15. ct'.run = ct.run /\ ct'.overlap = ct.overlap
  BY <1>1, <1>11 DEF CatalogStates
<1> QED BY <1>2, <1>5, <1>9, <1>12, <1>13, <1>14, <1>15 DEF Writes

LEMMA CommitKeeps ==
  ASSUME CatalogInv, NEW a \in CatalogAdmins, NEW e \in EditStates, e = ct.tx[a], e # NoEdit,
         Writes(a, e), ct' \in CatalogStates, ~Conflict(Edited(e)),
         Len(Edited(e).models) <= MaxRows, Len(Edited(e).upstreams) <= MaxRows, Len(Edited(e).routes) <= MaxRows
  PROVE  CatalogInv'
<1>1. ct \in CatalogStates /\ RouteRefs /\ AtsPast /\ EditOK(e, ct.clock) /\ ct.clock \in Nat
  BY DEF CatalogInv, EditsOK, CatalogStates
<1>2. /\ Edited(e).models = ct'.models /\ Edited(e).upstreams = ct'.upstreams
      /\ Edited(e).routes = ct'.routes
  BY <1>1, EditedIs DEF Writes
<1>3. /\ Len(ct.models) \in Nat /\ Len(ct.upstreams) \in Nat /\ Len(ct.routes) \in Nat
      /\ Len(ct'.models) \in Nat /\ Len(ct'.upstreams) \in Nat /\ Len(ct'.routes) \in Nat
  BY <1>1 DEF CatalogStates
<1>4. /\ Len(ct'.models) = IF e.model THEN Len(ct.models) + 1 ELSE Len(ct.models)
      /\ \A m \in 1..Len(ct.models) : ct'.models[m].at = SetBy(e.modelAt, m, ct.models[m].at)
      /\ \A m \in 1..Len(ct'.models) : m > Len(ct.models) => ct'.models[m].at = 0
  BY <1>1, ModelsGrow DEF Writes
<1>5. /\ Len(ct'.upstreams) = IF e.upstream = {} THEN Len(ct.upstreams) ELSE Len(ct.upstreams) + 1
      /\ \A u \in 1..Len(ct.upstreams) : ct'.upstreams[u].at = SetBy(e.upstreamAt, u, ct.upstreams[u].at)
      /\ \A u \in 1..Len(ct'.upstreams) : u > Len(ct.upstreams) => ct'.upstreams[u].at = 0
  BY <1>1, UpstreamsGrow DEF Writes, EditOK
<1>6. /\ Len(ct.routes) <= Len(ct'.routes)
      /\ \A r \in 1..Len(ct.routes) : /\ ct'.routes[r].m = ct.routes[r].m /\ ct'.routes[r].u = ct.routes[r].u
                                      /\ ct'.routes[r].at = SetBy(e.routeAt, r, ct.routes[r].at)
      /\ \A r \in 1..Len(ct'.routes) : r > Len(ct.routes) => \E x \in e.route : ct'.routes[r] = NewRoute(e, x)
  BY <1>1, RoutesGrow DEF Writes, EditOK
<1>7. Len(ct.models) <= Len(ct'.models) /\ Len(ct.upstreams) <= Len(ct'.upstreams)
  BY <1>3, <1>4, <1>5
<1>8. Bounded'
  BY <1>2 DEF CatalogInv, Bounded, Writes
<1>9. RouteRefs'
  <2>1. ASSUME NEW r \in 1..Len(ct'.routes)
        PROVE  ct'.routes[r].m \in 1..Len(ct'.models) /\ ct'.routes[r].u \in 1..Len(ct'.upstreams)
    <3>1. CASE r <= Len(ct.routes)
      <4>1. r \in 1..Len(ct.routes)
        BY <1>3, <3>1
      <4>2. ct.routes[r].m \in 1..Len(ct.models) /\ ct.routes[r].u \in 1..Len(ct.upstreams)
        BY <1>1, <4>1 DEF RouteRefs
      <4>3. ct'.routes[r].m = ct.routes[r].m /\ ct'.routes[r].u = ct.routes[r].u
        BY <1>6, <4>1
      <4>4. 1..Len(ct.models) \subseteq 1..Len(ct'.models) /\ 1..Len(ct.upstreams) \subseteq 1..Len(ct'.upstreams)
        BY <1>3, <1>7
      <4> QED BY <4>2, <4>3, <4>4
    <3>2. CASE r > Len(ct.routes)
      <4>1. PICK x \in e.route : ct'.routes[r] = NewRoute(e, x)
        BY <1>6, <3>2
      <4>2. /\ ct'.routes[r].m = IF x.m = 0 THEN Len(ct'.models) ELSE x.m
            /\ ct'.routes[r].u = IF x.u = 0 THEN Len(ct'.upstreams) ELSE x.u
        BY <4>1 DEF NewRoute, Writes
      <4>3. x.m \in Nat /\ x.u \in Nat
        BY EditTyped
      <4>4. /\ x.m <= Len(ct.models) /\ x.u <= Len(ct.upstreams)
            /\ x.m = 0 => e.model
            /\ x.u = 0 => e.upstream # {}
        BY <1>1 DEF EditOK, ParentsOf
      <4>5. ct'.routes[r].m \in 1..Len(ct'.models)
        BY <1>3, <1>4, <4>2, <4>3, <4>4
      <4>6. ct'.routes[r].u \in 1..Len(ct'.upstreams)
        BY <1>3, <1>5, <4>2, <4>3, <4>4
      <4> QED BY <4>5, <4>6
    <3> QED BY <1>3, <3>1, <3>2
  <2> QED BY <2>1 DEF RouteRefs
<1>10. AtsPast'
  <2>1. TimesOf(e, ct.clock)
    BY <1>1 DEF EditOK
  <2>2. ASSUME NEW m \in 1..Len(ct'.models) PROVE ct'.models[m].at <= ct.clock
    <3>1. CASE m > Len(ct.models)
      BY <1>1, <1>4, <3>1
    <3>2. CASE m <= Len(ct.models)
      <4>1. m \in 1..Len(ct.models)
        BY <1>3, <3>2
      <4>2. ct'.models[m].at = SetBy(e.modelAt, m, ct.models[m].at)
        BY <1>4, <4>1
      <4>3. ct.models[m].at <= ct.clock
        BY <1>1, <4>1 DEF AtsPast
      <4>4. \A p \in e.modelAt : p[2] <= ct.clock
        BY <2>1 DEF TimesOf
      <4> QED BY <4>2, <4>3, <4>4, SetByIs
    <3> QED BY <1>3, <3>1, <3>2
  <2>3. ASSUME NEW u \in 1..Len(ct'.upstreams) PROVE ct'.upstreams[u].at <= ct.clock
    <3>1. CASE u > Len(ct.upstreams)
      BY <1>1, <1>5, <3>1
    <3>2. CASE u <= Len(ct.upstreams)
      <4>1. u \in 1..Len(ct.upstreams)
        BY <1>3, <3>2
      <4>2. ct'.upstreams[u].at = SetBy(e.upstreamAt, u, ct.upstreams[u].at)
        BY <1>5, <4>1
      <4>3. ct.upstreams[u].at <= ct.clock
        BY <1>1, <4>1 DEF AtsPast
      <4>4. \A p \in e.upstreamAt : p[2] <= ct.clock
        BY <2>1 DEF TimesOf
      <4> QED BY <4>2, <4>3, <4>4, SetByIs
    <3> QED BY <1>3, <3>1, <3>2
  <2>4. ASSUME NEW r \in 1..Len(ct'.routes) PROVE ct'.routes[r].at <= ct.clock
    <3>1. CASE r > Len(ct.routes)
      <4>1. PICK x \in e.route : ct'.routes[r] = NewRoute(e, x)
        BY <1>6, <3>1
      <4>2. ct'.routes[r].at = 0
        BY <4>1 DEF NewRoute
      <4> QED BY <1>1, <4>2
    <3>2. CASE r <= Len(ct.routes)
      <4>1. r \in 1..Len(ct.routes)
        BY <1>3, <3>2
      <4>2. ct'.routes[r].at = SetBy(e.routeAt, r, ct.routes[r].at)
        BY <1>6, <4>1
      <4>3. ct.routes[r].at <= ct.clock
        BY <1>1, <4>1 DEF AtsPast
      <4>4. \A p \in e.routeAt : p[2] <= ct.clock
        BY <2>1 DEF TimesOf
      <4> QED BY <4>2, <4>3, <4>4, SetByIs
    <3> QED BY <1>3, <3>1, <3>2
  <2>5. ct'.clock = ct.clock
    BY DEF Writes
  <2> QED BY <2>2, <2>3, <2>4, <2>5 DEF AtsPast
<1>11. \A b \in CatalogAdmins : ct'.tx[b] = IF b = a THEN NoEdit ELSE ct.tx[b]
  BY <1>1 DEF Writes, CatalogStates
<1>12. EditsOK'
  <2>1. ASSUME NEW b \in CatalogAdmins, NEW d, d = ct'.tx[b] PROVE EditOK(d, ct.clock)'
    <3>1. d \in EditStates /\ EditOK(d, ct.clock)
      BY <1>1, <1>11, <2>1, NoEditOK DEF CatalogInv, EditsOK, CatalogStates
    <3>2. \A x \in d.route : x.m \in Nat /\ x.u \in Nat
      BY <3>1, EditTyped
    <3>3. ASSUME NEW x \in d.route PROVE x.m <= Len(ct'.models) /\ x.u <= Len(ct'.upstreams)
      <4>1. x.m <= Len(ct.models) /\ x.u <= Len(ct.upstreams)
        BY <3>1 DEF EditOK, ParentsOf
      <4> QED BY <1>3, <1>7, <3>2, <4>1
    <3>4. ParentsOf(d)'
      BY <3>1, <3>3 DEF EditOK, ParentsOf
    <3> QED BY <3>1, <3>4 DEF EditOK, OneRow, TimesOf, Writes
  <2>2. ASSUME NEW b \in CatalogAdmins PROVE EditOK(ct.tx[b], ct.clock)'
    <3>1. PICK d : d = ct'.tx[b]
      OBVIOUS
    <3>2. EditOK(d, ct.clock)'
      BY <2>1, <3>1
    <3> QED BY <3>1, <3>2 DEF EditOK, ParentsOf, OneRow, TimesOf
  <2> QED BY <2>2 DEF EditsOK
<1>13. ~Conflict(ct)'
  BY <1>2 DEF Conflict
<1>14. RunRef'
  <2>1. ct'.run = ct.run
    BY DEF Writes
  <2> SUFFICES ASSUME ct.run # NoneAdmitted
               PROVE  ct.run.route \in 1..Len(ct'.routes) /\ ct'.routes[ct.run.route].u = ct.run.upstream
    BY <2>1 DEF RunRef, RunsKeepUpstream, ResolveRun
  <2>2. ct.run.route \in 1..Len(ct.routes) /\ ct.routes[ct.run.route].u = ct.run.upstream
    BY DEF CatalogInv, RunRef, RunsKeepUpstream, ResolveRun
  <2> QED BY <1>3, <1>6, <2>2
<1>15. AloneInv'
  <2> SUFFICES ASSUME ~ct'.overlap PROVE AloneInv'
    BY DEF AloneInv
  <2>1. ~ct.overlap
    BY DEF Writes
  <2>2. RulesAfter(e) /\ \A b, c \in CatalogAdmins : ct.tx[b] # NoEdit /\ ct.tx[c] # NoEdit => b = c
    BY <2>1 DEF CatalogInv, AloneInv
  <2>3. RulesNow'
    BY <2>2 DEF RulesNow, RulesAfter, Writes
  <2>4. \A b \in CatalogAdmins : ct'.tx[b] = NoEdit
    BY <1>11, <2>2
  <2> QED BY <2>3, <2>4 DEF AloneInv
<1> QED BY <1>8, <1>9, <1>10, <1>12, <1>13, <1>14, <1>15 DEF CatalogInv

LEMMA StartRunKeeps ==
  ASSUME CatalogInv, AdmitRun
  PROVE  CatalogInv'
<1>1. PICK r \in Serving : ct' = [ct EXCEPT !.run = [route |-> r, upstream |-> ct.routes[r].u]]
  BY DEF AdmitRun
<1>2. ct \in CatalogStates /\ r \in 1..Len(ct.routes)
  BY DEF CatalogInv, Serving, Live
<1>3. PICK run : run = [route |-> r, upstream |-> ct.routes[r].u]
  OBVIOUS
<1>4. run \in [route : Nat, upstream : Nat] /\ run.route = r /\ run.upstream = ct.routes[r].u
  BY <1>2, <1>3, RowsTyped
<1>5. ct' = [ct EXCEPT !.run = run]
  BY <1>1, <1>3
<1>6. ct' \in CatalogStates
  BY <1>2, <1>4, <1>5 DEF CatalogStates
<1>7. /\ ct'.models = ct.models /\ ct'.upstreams = ct.upstreams /\ ct'.routes = ct.routes
      /\ ct'.solo = ct.solo
  BY <1>2, <1>5 DEF CatalogStates
<1>8. ct'.tx = ct.tx /\ ct'.clock = ct.clock /\ ct'.overlap = ct.overlap /\ ct'.run = run
  BY <1>2, <1>5 DEF CatalogStates
<1>9. Bounded' /\ AtsPast'
  BY <1>7, <1>8 DEF CatalogInv, Bounded, AtsPast
<1>10. KeepsRows
  BY <1>7 DEF KeepsRows
<1>11. RouteRefs' /\ ~Conflict(ct)'
  BY <1>10, SameRows DEF CatalogInv
<1>12. EditsOK'
  BY <1>7, <1>8 DEF CatalogInv, EditsOK, EditOK, ParentsOf, TimesOf, OneRow
<1>13. RunRef'
  BY <1>2, <1>4, <1>7, <1>8 DEF RunRef, RunsKeepUpstream, ResolveRun
<1>14. AloneInv'
  <2> SUFFICES ASSUME ~ct.overlap PROVE AloneInv'
    BY <1>8 DEF AloneInv
  <2>1. /\ RulesNow
        /\ \A b, c \in CatalogAdmins : ct.tx[b] # NoEdit /\ ct.tx[c] # NoEdit => b = c
        /\ \A b \in CatalogAdmins : ct.tx[b] # NoEdit => RulesAfter(ct.tx[b]) /\ SoloSpared(ct.tx[b])
    BY DEF CatalogInv, AloneInv
  <2>2. RulesNow'
    BY <1>10, <2>1, SameRows
  <2>3. ASSUME NEW b \in CatalogAdmins, ct'.tx[b] # NoEdit
        PROVE  (RulesAfter(ct.tx[b]) /\ SoloSpared(ct.tx[b]))'
    <3>1. PICK e : e = ct.tx[b]
      OBVIOUS
    <3>2. RulesAfter(e) /\ SoloSpared(e)
      BY <1>8, <2>1, <2>3, <3>1
    <3>3. RulesAfter(e)' /\ SoloSpared(e)'
      BY <1>10, <3>2, SameRows
    <3> QED BY <1>8, <3>1, <3>3, SameEdit
  <2>4. \A b, c \in CatalogAdmins : ct'.tx[b] # NoEdit /\ ct'.tx[c] # NoEdit => b = c
    BY <1>8, <2>1
  <2> QED BY <2>2, <2>3, <2>4 DEF AloneInv
<1> QED BY <1>6, <1>9, <1>11, <1>12, <1>13, <1>14 DEF CatalogInv

LEMMA CommitOrNot ==
  ASSUME CatalogInv, NEW a \in CatalogAdmins, Commit(a)
  PROVE  CatalogInv'
<1>1. PICK e : e = ct.tx[a]
  OBVIOUS
<1>2. e \in EditStates /\ e # NoEdit
  BY <1>1 DEF CatalogInv, CatalogStates, Commit
<1>3. CASE Conflict(Edited(e))
  <2>1. ct' = [ct EXCEPT !.tx[a] = NoEdit]
    BY <1>1, <1>3 DEF Commit
  <2> QED BY <2>1, RollbackKeeps
<1>4. CASE ~Conflict(Edited(e))
  <2>1. ct' = [Edited(e) EXCEPT !.tx[a] = NoEdit,
                 !.solo = CASE e.op = "archiveRoute" -> @ \cup {p[1] : p \in e.routeAt}
                            [] e.op = "restore" -> @ \ {p[1] : p \in e.routeAt} [] OTHER -> @]
    BY <1>1, <1>4 DEF Commit
  <2>2. /\ Len(Edited(e).models) <= MaxRows /\ Len(Edited(e).upstreams) <= MaxRows
        /\ Len(Edited(e).routes) <= MaxRows
    BY <1>1 DEF Commit
  <2>3. Writes(a, e) /\ ct' \in CatalogStates
    BY <1>1, <1>2, <2>1, WritesOf
  <2> QED BY <1>1, <1>2, <1>4, <2>2, <2>3, CommitKeeps
<1> QED BY <1>3, <1>4

LEMMA CatalogStays ==
  ASSUME CatalogInv, ct' = ct
  PROVE  CatalogInv'
<1>1. \A e : RulesAfter(e)' <=> RulesAfter(e)
  BY SameRows DEF KeepsRows
<1>2. AloneInv'
  <2>1. KeepsRows
    BY DEF KeepsRows
  <2> SUFFICES ASSUME ~ct.overlap PROVE AloneInv'
    BY DEF AloneInv
  <2>2. RulesNow' /\ \A b, c \in CatalogAdmins : ct.tx[b] # NoEdit /\ ct.tx[c] # NoEdit => b = c
    BY <2>1, SameRows DEF CatalogInv, AloneInv
  <2>3. ASSUME NEW b \in CatalogAdmins, ct'.tx[b] # NoEdit
        PROVE  (RulesAfter(ct.tx[b]) /\ SoloSpared(ct.tx[b]))'
    <3>1. PICK e : e = ct.tx[b]
      OBVIOUS
    <3>2. RulesAfter(e) /\ SoloSpared(e)
      BY <2>3, <3>1 DEF CatalogInv, AloneInv
    <3>3. RulesAfter(e)' /\ SoloSpared(e)'
      BY <2>1, <3>2, SameRows
    <3> QED BY <3>1, <3>3, SameEdit
  <2> QED BY <2>2, <2>3 DEF AloneInv
<1>3. CatalogStates' = CatalogStates
  BY DEF CatalogStates
<1> QED BY <1>2 DEF CatalogInv, Bounded, RouteRefs, AtsPast, EditsOK, EditOK, ParentsOf, TimesOf, OneRow,
                    Conflict, RunRef, RunsKeepUpstream, ResolveRun

LEMMA CatalogBegins ==
  ASSUME NEW on \in BOOLEAN, ct = CatalogStart(on)
  PROVE  CatalogInv
<1>1. PICK tx : tx = [a \in CatalogAdmins |-> NoEdit]
  OBVIOUS
<1>2. tx \in [CatalogAdmins -> EditStates] /\ \A a \in CatalogAdmins : tx[a] = NoEdit
  BY <1>1, NoEditOK
<1>3. ct = [on |-> on, models |-> <<>>, upstreams |-> <<>>, routes |-> <<>>, clock |-> 0,
            tx |-> tx, solo |-> {}, run |-> NoneAdmitted, overlap |-> FALSE]
  BY <1>1 DEF CatalogStart
<1>4. NoneAdmitted \in [route : Nat, upstream : Nat]
  BY DEF NoneAdmitted
<1>5. ct \in CatalogStates
  <2>1. <<>> \in Seq(ModelRows) /\ <<>> \in Seq(UpstreamRows) /\ <<>> \in Seq(RouteRows)
    OBVIOUS
  <2> QED BY <1>2, <1>3, <1>4, <2>1 DEF CatalogStates
<1>6. /\ ct.models = <<>> /\ ct.upstreams = <<>> /\ ct.routes = <<>> /\ ct.clock = 0
      /\ ct.tx = tx /\ ct.solo = {} /\ ct.run = NoneAdmitted
  BY <1>3
<1>7. Len(ct.models) = 0 /\ Len(ct.upstreams) = 0 /\ Len(ct.routes) = 0
  BY <1>6
<1>8. Bounded
  BY <1>6, <1>7, CatalogAssumption DEF Bounded
<1>9. RouteRefs /\ AtsPast
  BY <1>7 DEF RouteRefs, AtsPast
<1>10. EditsOK
  BY <1>2, <1>6, NoEditOK DEF EditsOK
<1>11. Live(ct.models) = {} /\ Live(ct.upstreams) = {} /\ Live(ct.routes) = {}
  BY <1>7 DEF Live
<1>12. ~Conflict(ct)
  <2>1. Cardinality({}) = 0
    BY FS_EmptySet
  <2> QED BY <1>11, <2>1 DEF Conflict
<1>13. RunRef /\ AloneInv
  BY <1>2, <1>6, <1>11 DEF RunRef, AloneInv, RulesNow, RulesKept
<1> QED BY <1>5, <1>8, <1>9, <1>10, <1>12, <1>13 DEF CatalogInv

LEMMA CatalogStepKeeps ==
  ASSUME CatalogInv, [CatalogNext]_ct
  PROVE  CatalogInv'
<1>1. CASE ct' = ct
  BY <1>1, CatalogStays
<1>2. CASE AdmitRun
  BY <1>2, StartRunKeeps
<1>3. ASSUME NEW a \in CatalogAdmins, BeginUpsert(a) PROVE CatalogInv'
  BY <1>3, BeginUpsertKeeps
<1>4. ASSUME NEW a \in CatalogAdmins, BeginArchive(a) PROVE CatalogInv'
  BY <1>4, BeginArchiveKeeps
<1>5. ASSUME NEW a \in CatalogAdmins, BeginRestore(a) PROVE CatalogInv'
  BY <1>5, BeginRestoreKeeps
<1>6. ASSUME NEW a \in CatalogAdmins, Commit(a) PROVE CatalogInv'
  BY <1>6, CommitOrNot
<1>7. ASSUME NEW a \in CatalogAdmins, Rollback(a) PROVE CatalogInv'
  BY <1>7, RollbackKeeps DEF Rollback
<1> QED BY <1>1, <1>2, <1>3, <1>4, <1>5, <1>6, <1>7 DEF CatalogNext

(* What the invariant says of the catalog.                                  *)

LEMMA KeysFollow == ASSUME CatalogInv PROVE KeysUnique
<1>1. ~Conflict(ct) /\ ct \in CatalogStates
  BY DEF CatalogInv
<1>2. /\ Len(ct.models) \in Nat /\ Len(ct.upstreams) \in Nat
  BY <1>1 DEF CatalogStates
<1>3. /\ IsFiniteSet(Live(ct.models)) /\ IsFiniteSet(Live(ct.upstreams))
  <2>1. \A n \in Nat : IsFiniteSet(1..n)
    BY FS_Interval
  <2>2. Live(ct.models) \subseteq 1..Len(ct.models) /\ Live(ct.upstreams) \subseteq 1..Len(ct.upstreams)
    BY DEF Live
  <2> QED BY <1>2, <2>1, <2>2, FS_Subset
<1>4. Cardinality(Live(ct.models)) \in Nat /\ Cardinality(Live(ct.upstreams)) \in Nat
  BY <1>3, FS_CardinalityType
<1>5. Cardinality(Live(ct.models)) <= 1 /\ Cardinality(Live(ct.upstreams)) <= 1
  BY <1>1, <1>4 DEF Conflict
<1>6. \A r, t \in Live(ct.routes) : ct.routes[r].m = ct.routes[t].m /\ ct.routes[r].u = ct.routes[t].u => r = t
  BY <1>1 DEF Conflict
<1>7. ASSUME NEW r \in Live(ct.routes)
      PROVE  {t \in RoutesOf(ct.routes[r].m) : ct.routes[t].u = ct.routes[r].u} = {r}
  BY <1>6 DEF RoutesOf
<1> QED BY <1>5, <1>7 DEF KeysUnique

LEMMA PreviewFollows == ASSUME CatalogInv PROVE PreviewTrue
<1> SUFFICES ASSUME NEW e \in PlanRestoreModel, NEW p \in e.modelAt
             PROVE  {q[1] : q \in e.routeAt} = RestorePreview(p[1])
  BY DEF PreviewTrue
<1>1. PICK m \in Archived(ct.models) :
        e = [NoEdit EXCEPT !.op = "restore", !.modelAt = {<<m, 0>>}, !.routeAt = {<<r, 0>> : r \in Batch(m)}]
  BY DEF PlanRestoreModel
<1>2. e.modelAt = {<<m, 0>>} /\ e.routeAt = {<<r, 0>> : r \in Batch(m)}
  BY <1>1 DEF NoEdit
<1>3. p[1] = m
  BY <1>2
<1>4. {q[1] : q \in e.routeAt} = Batch(m)
  <2>1. Marks(e.routeAt, Batch(m), 0)
    BY <1>2, MarksAll
  <2> QED BY <2>1 DEF Marks
<1>5. m \in 1..Len(ct.models) /\ ct.models[m].at # 0
  BY DEF Archived, Live
<1>6. RouteRefs
  BY DEF CatalogInv
<1>7. Batch(m) = RestorePreview(m)
  <2>1. ASSUME NEW r
        PROVE  r \in Batch(m) <=> r \in RestorePreview(m)
    <3>1. r \in 1..Len(ct.routes) => ct.routes[r].u \in 1..Len(ct.upstreams)
      BY <1>6 DEF RouteRefs
    <3> QED BY <1>5, <3>1 DEF Batch, RestorePreview, Archived, Live
  <2> QED BY <2>1
<1> QED BY <1>3, <1>4, <1>7

LEMMA CatalogFollows ==
  ASSUME CatalogInv
  PROVE  CatalogTypeOK /\ KeysUnique /\ ParentsAlone /\ PreviewTrue /\ RunsKeepUpstream
<1>1. CatalogTypeOK
  <2>1. ct.clock \in Nat
    BY DEF CatalogInv, CatalogStates
  <2> QED BY <2>1, CatalogAssumption DEF CatalogInv, Bounded, CatalogTypeOK
<1>2. ParentsAlone
  BY DEF CatalogInv, AloneInv, RulesNow, RulesKept, ParentsAlone
<1>3. RunsKeepUpstream
  BY DEF CatalogInv, RunRef, RunsKeepUpstream
<1> QED BY <1>1, <1>2, <1>3, KeysFollow, PreviewFollows

(* A model that comes back was restored by a commit, of a transaction that  *)
(* sets no route of ct.solo; the rule then keeps these apart.               *)
LEMMA SoloStep ==
  ASSUME CatalogInv, CatalogNext, ~ct.overlap,
         NEW m \in Archived(ct.models), m \in Live(ct'.models)
  PROVE  Live(ct'.routes) \cap ct.solo = {}
<1>0. ct \in CatalogStates /\ m \in 1..Len(ct.models) /\ ct.models[m].at # 0 /\ ct'.models[m].at = 0
  BY DEF CatalogInv, Archived, Live
<1>1. ct'.models # ct.models
  BY <1>0
<1>2. PICK a \in CatalogAdmins : Commit(a)
  <2>1. ASSUME AdmitRun PROVE FALSE
    BY <1>0, <1>1, <2>1 DEF AdmitRun, CatalogStates
  <2>2. ASSUME NEW b \in CatalogAdmins, BeginUpsert(b) \/ BeginRestore(b) PROVE FALSE
    BY <1>0, <1>1, <2>2 DEF BeginUpsert, BeginRestore, Begin, CatalogStates
  <2>3. ASSUME NEW b \in CatalogAdmins, BeginArchive(b) \/ Rollback(b) PROVE FALSE
    BY <1>0, <1>1, <2>3 DEF BeginArchive, Rollback, CatalogStates
  <2> QED BY <2>1, <2>2, <2>3 DEF CatalogNext
<1>3. PICK e : e = ct.tx[a]
  OBVIOUS
<1>4. e \in EditStates /\ e # NoEdit /\ EditOK(e, ct.clock)
  BY <1>2, <1>3 DEF CatalogInv, CatalogStates, EditsOK, Commit
<1>5. ~Conflict(Edited(e))
  <2> SUFFICES ASSUME Conflict(Edited(e)) PROVE FALSE
    OBVIOUS
  <2>1. ct' = [ct EXCEPT !.tx[a] = NoEdit]
    BY <1>2, <1>3 DEF Commit
  <2> QED BY <1>0, <1>1, <2>1 DEF CatalogStates
<1>6. ct' = [Edited(e) EXCEPT !.tx[a] = NoEdit,
               !.solo = CASE e.op = "archiveRoute" -> @ \cup {p[1] : p \in e.routeAt}
                          [] e.op = "restore" -> @ \ {p[1] : p \in e.routeAt} [] OTHER -> @]
  BY <1>2, <1>3, <1>5 DEF Commit
<1>7. Writes(a, e) /\ ct' \in CatalogStates
  BY <1>3, <1>4, <1>6, WritesOf
<1>8. ct'.models[m].at = SetBy(e.modelAt, m, ct.models[m].at)
  BY <1>0, <1>4, <1>7, ModelsGrow DEF Writes
<1>9. \E p \in e.modelAt : p[2] = 0
  BY <1>0, <1>8, SetByIs
<1>10. RulesAfter(e) /\ SoloSpared(e) /\ RulesNow
  BY <1>3, <1>4 DEF CatalogInv, AloneInv
<1>11. \A q \in e.routeAt : q[1] \notin ct.solo
  BY <1>9, <1>10 DEF SoloSpared
<1> SUFFICES ASSUME NEW r \in ct.solo, r \in Live(ct'.routes) PROVE FALSE
  OBVIOUS
<1>12. r \in 1..Len(ct.routes) /\ ct.routes[r].at # 0
  BY <1>10 DEF RulesNow, RulesKept
<1>13. ct'.routes[r].at = SetBy(e.routeAt, r, ct.routes[r].at)
  BY <1>0, <1>4, <1>7, <1>12, RoutesGrow DEF Writes, EditOK
<1>14. ct'.routes[r].at = ct.routes[r].at
  BY <1>11, <1>13, SetByIs
<1> QED BY <1>12, <1>14 DEF Live

-----------------------------------------------------------------------------
(* The console.                                                             *)

Keys == {"", "good", "bad"}
GateActs == {"open", "reopen"}
RowActs == {"save", "toggle", "archive", "restore"}
Acts == GateActs \cup RowActs \cup {"refresh", "toggle-catalog", "import-environment"}
Rows == [row : {"absent", "active", "archived"}, on : BOOLEAN]
Servers == [db : BOOLEAN, model : Rows, upstream : Rows, route : Rows, batch : BOOLEAN]
Flights == [act : Acts, k : Kinds \cup {"none"}, on : BOOLEAN, key : Keys,
            step : {"sent", "denied", "refused", "done", "lost"}, got : Servers]
(* What may be left behind: an operation that changes something.            *)
Strays == {f \in Flights : f.act \notin GateActs /\ (f.act \in RowActs => f.k \in Kinds)}
StraySets == SUBSET (Nat \X Strays)
Pendings == ({"archive", "restore"} \X Kinds) \cup ({"toggle-catalog", "import-environment"} \X {"none"})
Dashes == [pane : {"models", "upstreams", "archived"}, shown : BOOLEAN,
           editor : Kinds \cup {"none"}, saving : BOOLEAN, pending : Pendings \cup {"none"}]
AdminStates ==
  [on : BOOLEAN, srv : Servers, rotated : BOOLEAN, n : Nat, others : BOOLEAN, key : Keys,
   stored : {"", "good"}, catalog : Servers, gateBusy : BOOLEAN, gateError : BOOLEAN,
   busy : (Acts \ GateActs) \cup {"none"}, notice : {"none", "error"}, dash : Dashes,
   flights : SUBSET Flights, strays : StraySets, lost : BOOLEAN]

(* A route that was archived with its model is archived, as the model is:   *)
(* no catalog of the service is NoCatalog.                                  *)
Batched(s) == s.batch => s.model.row = "archived" /\ s.route.row = "archived"

(* One request is under way, from the gate or from the dashboard, and what  *)
(* shows it is up exactly then.                                             *)
BusyInv ==
  /\ \A f, g \in ma.flights : f = g
  /\ ma.flights = {} => ~ma.gateBusy /\ ma.busy = "none"
  /\ \A f \in ma.flights : IF f.act \in GateActs THEN GateShown /\ ma.gateBusy /\ ma.busy = "none"
                           ELSE Dashboard /\ ~ma.gateBusy /\ ma.busy = f.act

(* An answer was given to the right key; an operation on a row names it.    *)
AnswerInv == \A f \in ma.flights : /\ f.step = "done" => f.key = "good" /\ Batched(f.got)
                                   /\ f.act \in RowActs => f.k \in Kinds

(* A dialog on d stands in front of everything that starts a request.       *)
DialogOK(d, flights) ==
  /\ d.saving => \E f \in flights : f.act = "save"
  /\ d.editor # "none" /\ ~d.saving => flights = {}
  /\ d.pending # "none" => flights = {} /\ d.editor = "none"
DialogInv == /\ DialogOK(ma.dash, ma.flights)
             /\ GateShown => ma.dash = NoDash

(* With every answer received, and nothing done elsewhere since, the console*)
(* has seen everything.                                                     *)
SeenInv ==
  ~ma.others =>
    /\ \A f \in ma.flights : f.step = "done" => f.got = ma.srv
    /\ Dashboard /\ ~ma.lost /\ (\A f \in ma.flights : f.step \notin {"done", "lost"}) => ma.catalog = ma.srv

AdminInv == /\ ma \in AdminStates /\ ma.n <= MaxEdits /\ Batched(ma.srv)
            /\ BusyInv /\ AnswerInv /\ DialogInv /\ SeenInv

(* What an operation makes of the catalog of the service.                   *)

(* t is a catalog again, and s was not switched on without a model.         *)
Follows(s, t) == /\ t \in Servers /\ Batched(t)
                 /\ ~s.db /\ t.db => Available(t)

LEMMA SavedOK ==
  ASSUME NEW s \in Servers, Batched(s), NEW k \in Kinds, NEW on \in BOOLEAN, NEW t \in Saved(s, k, on)
  PROVE  Follows(s, t)
<1>1. Gone \in Rows /\ [row |-> "active", on |-> on] \in Rows
  BY DEF Rows, Gone
<1>2. PICK row : row = [row |-> "active", on |-> on] /\ row \in Rows
  BY <1>1
<1>3. CASE k = "model"
  <2>1. t = IF IsActive(s.model) THEN [s EXCEPT !.model = row] ELSE [s EXCEPT !.model = row, !.route = Gone, !.batch = FALSE]
    BY <1>2, <1>3 DEF Saved, Servers
  <2>2. t \in Servers /\ t.db = s.db
    BY <1>1, <1>2, <2>1 DEF Servers
  <2>3. Batched(t)
    BY <2>1 DEF Servers, Batched, IsActive
  <2> QED BY <2>2, <2>3 DEF Follows
<1>4. CASE k = "upstream"
  <2>1. t = IF IsActive(s.upstream) THEN [s EXCEPT !.upstream = row] ELSE [s EXCEPT !.upstream = row, !.route = Gone, !.batch = FALSE]
    BY <1>2, <1>4 DEF Saved, Servers
  <2>2. t \in Servers /\ t.db = s.db
    BY <1>1, <1>2, <2>1 DEF Servers
  <2>3. Batched(t)
    BY <2>1 DEF Servers, Batched
  <2> QED BY <2>2, <2>3 DEF Follows
<1>5. CASE k = "route"
  <2>1. t = [s EXCEPT !.route = row] /\ IsActive(s.model)
    BY <1>2, <1>5 DEF Saved, Servers
  <2>2. t \in Servers /\ t.db = s.db
    BY <1>1, <1>2, <2>1 DEF Servers
  <2>3. Batched(t)
    BY <2>1 DEF Servers, Batched, IsActive
  <2> QED BY <2>2, <2>3 DEF Follows
<1> QED BY <1>3, <1>4, <1>5 DEF Kinds

LEMMA ToggledOK ==
  ASSUME NEW s \in Servers, Batched(s), NEW k \in Kinds, NEW on \in BOOLEAN, NEW t \in SetEnabled(s, k, on)
  PROVE  Follows(s, t)
<1>1. t = [s EXCEPT ![k].on = on]
  BY DEF SetEnabled
<1>2. t \in Servers /\ t.db = s.db /\ Batched(t)
  <2>1. CASE k = "model"
    BY <1>1, <2>1 DEF Servers, Rows, Batched
  <2>2. CASE k = "upstream"
    BY <1>1, <2>2 DEF Servers, Rows, Batched
  <2>3. CASE k = "route"
    BY <1>1, <2>3 DEF Servers, Rows, Batched
  <2> QED BY <2>1, <2>2, <2>3 DEF Kinds
<1> QED BY <1>2 DEF Follows

LEMMA SwitchedOK ==
  ASSUME NEW s \in Servers, Batched(s), NEW on \in BOOLEAN, NEW t \in SetCatalog(s, on)
  PROVE  Follows(s, t)
<1>1. t = [s EXCEPT !.db = on] /\ (on => Available(s))
  BY DEF SetCatalog
<1>2. t \in Servers /\ Batched(t) /\ t.db = on
  BY <1>1 DEF Servers, Batched
<1>3. t.model = s.model /\ t.upstream = s.upstream /\ t.route = s.route
  BY <1>1 DEF Servers
<1>4. Available(s) => Available(t)
  BY <1>3 DEF Available, Kinds, IsActive
<1> QED BY <1>1, <1>2, <1>4 DEF Follows

LEMMA ImportedOK ==
  ASSUME NEW s \in Servers, NEW t \in Imported(s)
  PROVE  Follows(s, t)
<1>0. [row |-> "active", on |-> TRUE] \in Rows
  BY DEF Rows
<1>1. PICK r : r = [row |-> "active", on |-> TRUE] /\ r \in Rows
  BY <1>0
<1>2. t = [s EXCEPT !.model = r, !.upstream = r, !.route = r, !.batch = FALSE]
  BY <1>1 DEF Imported
<1>3. t \in Servers /\ t.db = s.db /\ Batched(t)
  BY <1>1, <1>2 DEF Servers, Batched
<1> QED BY <1>3 DEF Follows

LEMMA ArchivedOK ==
  ASSUME NEW s \in Servers, Batched(s), NEW k \in Kinds, NEW t \in Archive(s, k)
  PROVE  Follows(s, t)
<1>1. /\ s.model.row \in {"absent", "active", "archived"} /\ s.route.row \in {"absent", "active", "archived"}
      /\ s.batch \in BOOLEAN
  BY DEF Servers, Rows
<1>2. CASE k = "model"
  <2>1. PICK r, b : /\ r = (IF s.route.row = "active" THEN "archived" ELSE s.route.row)
                    /\ b = (IF IsActive(s.route) THEN TRUE ELSE s.batch)
    OBVIOUS
  <2>2. t = [s EXCEPT !.model.row = "archived", !.route.row = r, !.batch = b] /\ IsActive(s.model)
    BY <1>2, <2>1 DEF Archive, Servers
  <2>3. r \in {"absent", "active", "archived"} /\ b \in BOOLEAN
    BY <1>1, <2>1
  <2>4. t \in Servers /\ t.db = s.db
    BY <2>2, <2>3 DEF Servers, Rows
  <2>5. t.model.row = "archived" /\ t.route.row = r /\ t.batch = b
    BY <2>2 DEF Servers, Rows
  <2>6. b => r = "archived"
    BY <2>1, <2>2 DEF IsActive, Batched
  <2> QED BY <2>4, <2>5, <2>6 DEF Follows, Batched
<1>3. CASE k = "upstream"
  <2>1. t = [s EXCEPT !.upstream.row = "archived"]
    BY <1>3 DEF Archive
  <2>2. t \in Servers /\ t.db = s.db /\ Batched(t)
    BY <2>1 DEF Servers, Rows, Batched
  <2> QED BY <2>2 DEF Follows
<1>4. CASE k = "route"
  <2>1. t = [s EXCEPT !.route.row = "archived", !.batch = FALSE]
    BY <1>4 DEF Archive
  <2>2. t \in Servers /\ t.db = s.db /\ Batched(t)
    BY <2>1 DEF Servers, Rows, Batched
  <2> QED BY <2>2 DEF Follows
<1> QED BY <1>2, <1>3, <1>4 DEF Kinds

LEMMA RestoredOK ==
  ASSUME NEW s \in Servers, Batched(s), NEW k \in Kinds, NEW t \in Restore(s, k)
  PROVE  Follows(s, t)
<1>1. s.route.row \in {"absent", "active", "archived"}
  BY DEF Servers, Rows
<1>2. CASE k = "model"
  <2>1. PICK r : r = (IF s.route.row = "archived" /\ s.batch /\ IsActive(s.upstream) THEN "active" ELSE s.route.row)
    OBVIOUS
  <2>2. t = [s EXCEPT !.model.row = "active", !.batch = FALSE, !.route.row = r]
    BY <1>2, <2>1 DEF Restore, Servers
  <2>3. r \in {"absent", "active", "archived"}
    BY <1>1, <2>1
  <2>4. t \in Servers /\ t.db = s.db /\ Batched(t)
    BY <2>2, <2>3 DEF Servers, Rows, Batched
  <2> QED BY <2>4 DEF Follows
<1>3. CASE k = "upstream"
  <2>1. t = [s EXCEPT !.upstream.row = "active"]
    BY <1>3 DEF Restore
  <2>2. t \in Servers /\ t.db = s.db /\ Batched(t)
    BY <2>1 DEF Servers, Rows, Batched
  <2> QED BY <2>2 DEF Follows
<1>4. CASE k = "route"
  <2>1. t = [s EXCEPT !.route.row = "active"] /\ IsActive(s.model)
    BY <1>4 DEF Restore
  <2>2. t \in Servers /\ t.db = s.db
    BY <2>1 DEF Servers, Rows
  <2>3. t.batch = s.batch /\ s.model.row # "archived"
    BY <2>1 DEF Servers, Rows, IsActive
  <2>4. Batched(t)
    BY <2>3 DEF Batched
  <2> QED BY <2>2, <2>4 DEF Follows
<1> QED BY <1>2, <1>3, <1>4 DEF Kinds

LEMMA AppliedOK ==
  ASSUME NEW s \in Servers, Batched(s), NEW act \in Acts \ GateActs, NEW k, act \in RowActs => k \in Kinds,
         NEW on \in BOOLEAN, NEW t \in Applied(s, act, k, on)
  PROVE  Follows(s, t)
<1>1. CASE act = "refresh"
  <2>1. t = s
    BY <1>1 DEF Applied
  <2> QED BY <2>1 DEF Follows
<1>2. CASE act = "save"
  <2>1. t \in Saved(s, k, on)
    BY <1>2 DEF Applied
  <2> QED BY <1>2, <2>1, SavedOK DEF RowActs
<1>3. CASE act = "toggle"
  <2>1. t \in SetEnabled(s, k, on)
    BY <1>3 DEF Applied
  <2> QED BY <1>3, <2>1, ToggledOK DEF RowActs
<1>4. CASE act = "toggle-catalog"
  <2>1. t \in SetCatalog(s, on)
    BY <1>4 DEF Applied
  <2> QED BY <2>1, SwitchedOK
<1>5. CASE act = "import-environment"
  <2>1. t \in Imported(s)
    BY <1>5 DEF Applied
  <2> QED BY <2>1, ImportedOK
<1>6. CASE act = "archive"
  <2>1. t \in Archive(s, k)
    BY <1>6 DEF Applied
  <2> QED BY <1>6, <2>1, ArchivedOK DEF RowActs
<1>7. CASE act = "restore"
  <2>1. t \in Restore(s, k)
    BY <1>7 DEF Applied
  <2> QED BY <1>7, <2>1, RestoredOK DEF RowActs
<1> QED BY <1>1, <1>2, <1>3, <1>4, <1>5, <1>6, <1>7 DEF Acts, RowActs, GateActs

(* The three action properties, as what one step must satisfy.              *)
RefusedStep == (\E f \in ma.flights : f.step = "denied" /\ f \notin ma'.flights /\ ma'.flights = {} /\ ma'.gateError)
                 => ma'.stored = "" /\ ma'.key = "" /\ ma'.catalog = NoCatalog /\ ma'.dash = NoDash
SurvivalStep == EditorShell /\ ma'.catalog # NoCatalog /\ ma'.notice = "error" /\ ma.notice # "error"
                  => ma'.dash.editor = ma.dash.editor
SwitchStep == ~ma.srv.db /\ ma'.srv.db => Available(ma'.srv)
AdminStepOK == AdminInv' /\ RefusedStep /\ SurvivalStep /\ SwitchStep

LEMMA AdminTyped ==
  ASSUME AdminInv
  PROVE  /\ ma \in AdminStates /\ ma.dash \in Dashes /\ ma.flights \subseteq Flights /\ ma.n \in Nat
         /\ ma.key \in Keys /\ ma.stored \in {"", "good"} /\ ma.srv \in Servers /\ ma.catalog \in Servers
         /\ ma.busy \in (Acts \ GateActs) \cup {"none"} /\ ma.notice \in {"none", "error"}
         /\ NoCatalog \in Servers /\ NoDash \in Dashes /\ ~Batched(NoCatalog)
<1>1. ma \in AdminStates
  BY DEF AdminInv
<1>2. Gone \in Rows
  BY DEF Gone, Rows
<1>3. NoCatalog \in Servers
  BY <1>2 DEF NoCatalog, Fresh, Servers
<1>4. NoDash \in Dashes
  BY DEF NoDash, Dashes
<1>5. ~Batched(NoCatalog)
  BY DEF NoCatalog, Fresh, Gone, Batched
<1>6. ma.dash \in Dashes /\ ma.flights \subseteq Flights /\ ma.n \in Nat
  BY <1>1 DEF AdminStates
<1>7. ma.key \in Keys /\ ma.stored \in {"", "good"} /\ ma.srv \in Servers /\ ma.catalog \in Servers
  BY <1>1 DEF AdminStates
<1>8. ma.busy \in (Acts \ GateActs) \cup {"none"} /\ ma.notice \in {"none", "error"}
  BY <1>1 DEF AdminStates
<1> QED BY <1>1, <1>3, <1>4, <1>5, <1>6, <1>7, <1>8

(* A step on the screen: the key in the form, or what the dashboard shows.  *)
LEMMA ScreenStep ==
  ASSUME AdminInv, NEW key \in Keys, NEW dash \in Dashes, ma' = [ma EXCEPT !.key = key, !.dash = dash],
         DialogOK(dash, ma.flights), GateShown => dash = NoDash
  PROVE  AdminStepOK
<1>1. ma \in AdminStates
  BY AdminTyped
<1>2. ma' \in AdminStates
  BY <1>1 DEF AdminStates
<1>3. ma'.flights = ma.flights /\ ma'.gateBusy = ma.gateBusy /\ ma'.busy = ma.busy /\ ma'.dash = dash
  BY <1>1 DEF AdminStates
<1>4. ma'.catalog = ma.catalog /\ ma'.srv = ma.srv /\ ma'.others = ma.others /\ ma'.lost = ma.lost
  BY <1>1 DEF AdminStates
<1>5. ma'.notice = ma.notice /\ ma'.n = ma.n
  BY <1>1 DEF AdminStates
<1>6. BusyInv'
  BY <1>3, <1>4 DEF AdminInv, BusyInv, GateShown, Dashboard
<1>7. AnswerInv'
  BY <1>3 DEF AdminInv, AnswerInv
<1>8. DialogInv'
  BY <1>3, <1>4 DEF DialogInv, GateShown, DialogOK
<1>9. SeenInv'
  BY <1>3, <1>4 DEF AdminInv, SeenInv, GateShown, Dashboard
<1>10. RefusedStep /\ SurvivalStep /\ SwitchStep
  BY <1>3, <1>4, <1>5 DEF RefusedStep, SurvivalStep, SwitchStep
<1> QED BY <1>2, <1>4, <1>5, <1>6, <1>7, <1>8, <1>9, <1>10 DEF AdminInv, AdminStepOK, Batched

(* Where a control may be used, nothing is under way.                       *)
LEMMA AtRest ==
  ASSUME AdminInv, Controls \/ ConfirmShown \/ (EditorShell /\ ~ma.dash.saving)
  PROVE  ma.flights = {} /\ Dashboard /\ ~ma.gateBusy /\ ma.busy = "none"
<1>1. CASE Controls
  <2>1. Dashboard /\ ma.busy = "none"
    BY <1>1 DEF Controls
  <2>2. \A f \in ma.flights : FALSE
    <3> SUFFICES ASSUME NEW f \in ma.flights PROVE FALSE
      OBVIOUS
    <3>1. ma.busy = f.act /\ f.act \in Acts
      BY <2>1, AdminTyped DEF AdminInv, BusyInv, Dashboard, Flights
    <3> QED BY <2>1, <3>1 DEF Acts, GateActs, RowActs
  <2> QED BY <2>1, <2>2 DEF AdminInv, BusyInv
<1>2. CASE ConfirmShown \/ (EditorShell /\ ~ma.dash.saving)
  <2>1. ma.flights = {}
    BY <1>2 DEF AdminInv, DialogInv, DialogOK, ConfirmShown, EditorShell, ModelEditor, UpstreamEditor, RouteEditor
  <2>2. Dashboard
    BY <1>2 DEF AdminInv, DialogInv, Dashboard, NoDash, ConfirmShown, EditorShell, ModelEditor, UpstreamEditor, RouteEditor
  <2> QED BY <2>1, <2>2 DEF AdminInv, BusyInv
<1> QED BY <1>1, <1>2

(* A request of the dashboard: runMutation.                                 *)
LEMMA RunStep ==
  ASSUME AdminInv, ma.flights = {}, Dashboard, More, NEW act \in Acts \ GateActs, NEW k \in Kinds \cup {"none"},
         act \in RowActs => k \in Kinds, NEW on \in BOOLEAN, NEW dash \in Dashes,
         NEW one, one = [act |-> act, k |-> k, on |-> on, key |-> ma.key, step |-> "sent", got |-> NoCatalog],
         DialogOK(dash, {one}),
         ma' = [ma EXCEPT !.dash = dash, !.busy = act, !.notice = "none", !.n = ma.n + 1, !.flights = {one}]
  PROVE  AdminStepOK
<1>1. ma \in AdminStates /\ ma.n \in Nat /\ ma.key \in Keys /\ NoCatalog \in Servers
  BY AdminTyped
<1>2. one \in Flights
  BY <1>1 DEF Flights
<1>3. one.act = act /\ one.k = k /\ one.step = "sent"
  OBVIOUS
<1>4. PICK m : m = ma.n + 1 /\ m \in Nat /\ m <= MaxEdits
  <2>1. ma.n < MaxEdits
    BY DEF More
  <2>2. ma.n + 1 \in Nat /\ ma.n + 1 <= MaxEdits
    BY <1>1, <2>1, EditsAssumption
  <2> QED BY <2>2
<1>5. ma' = [ma EXCEPT !.dash = dash, !.busy = act, !.notice = "none", !.n = m, !.flights = {one}]
  BY <1>4
<1>6. ma' \in AdminStates
  <2>1. PICK fl : fl = {one} /\ fl \in SUBSET Flights
    BY <1>2
  <2>2. ma' = [ma EXCEPT !.dash = dash, !.busy = act, !.notice = "none", !.n = m, !.flights = fl]
    BY <1>5, <2>1
  <2> QED BY <1>1, <1>4, <2>1, <2>2 DEF AdminStates
<1>7. ma'.flights = {one} /\ ma'.gateBusy = ma.gateBusy /\ ma'.busy = act /\ ma'.dash = dash
  BY <1>1, <1>5 DEF AdminStates
<1>8. ma'.catalog = ma.catalog /\ ma'.srv = ma.srv /\ ma'.others = ma.others /\ ma'.lost = ma.lost
  BY <1>1, <1>5 DEF AdminStates
<1>9. ma'.notice = "none" /\ ma'.n = m
  BY <1>1, <1>5 DEF AdminStates
<1>10. Dashboard'
  BY <1>8 DEF Dashboard, GateShown
<1>11. BusyInv'
  BY <1>3, <1>7, <1>10 DEF AdminInv, BusyInv
<1>12. AnswerInv'
  BY <1>3, <1>7 DEF AnswerInv
<1>13. DialogInv'
  BY <1>7, <1>10 DEF DialogInv, Dashboard
<1>14. SeenInv'
  BY <1>3, <1>7, <1>8 DEF AdminInv, SeenInv, Dashboard, GateShown
<1>15. RefusedStep /\ SurvivalStep /\ SwitchStep
  BY <1>7, <1>8, <1>9 DEF RefusedStep, SurvivalStep, SwitchStep
<1> QED BY <1>4, <1>6, <1>8, <1>9, <1>11, <1>12, <1>13, <1>14, <1>15 DEF AdminInv, AdminStepOK, Batched

(* The steps of the screen, one by one.                                     *)

LEMMA SelectedOnPane ==
  ASSUME AdminInv, NEW k \in Kinds, DetailActions(k) \/ ArchivedEntry(k) \/ AddButton(k)
  PROVE  Controls
  BY DEF Kinds, DetailActions, ModelDetail, UpstreamDetail, RouteTrack, ArchivedEntry, ArchivedList, AddButton, AddRoute

LEMMA ScreenSteps1 ==
  ASSUME AdminInv,
         \/ \E k \in Keys : TypeKey(k)
         \/ \E p \in {"models", "upstreams", "archived"} : SwitchPane(p)
         \/ \E k \in {"model", "upstream"} : SelectRow(k)
         \/ TypeQuery
  PROVE  AdminStepOK
<1>1. ma \in AdminStates /\ ma.dash \in Dashes /\ ma.key \in Keys
  BY AdminTyped
<1>2. DialogOK(ma.dash, ma.flights) /\ (GateShown => ma.dash = NoDash)
  BY DEF AdminInv, DialogInv
<1>3. ASSUME NEW k \in Keys, TypeKey(k) PROVE AdminStepOK
  <2>1. ma' = [ma EXCEPT !.key = k, !.dash = ma.dash]
    BY <1>1, <1>3 DEF TypeKey, AdminStates
  <2> QED BY <1>1, <1>2, <2>1, ScreenStep
<1>4. ASSUME NEW dash \in Dashes, Dashboard, ma' = [ma EXCEPT !.dash = dash],
             dash.editor = ma.dash.editor, dash.saving = ma.dash.saving, dash.pending = ma.dash.pending
      PROVE  AdminStepOK
  <2>1. ma' = [ma EXCEPT !.key = ma.key, !.dash = dash]
    BY <1>1, <1>4 DEF AdminStates
  <2>2. DialogOK(dash, ma.flights)
    BY <1>2, <1>4 DEF DialogOK
  <2> QED BY <1>1, <1>4, <2>1, <2>2, ScreenStep DEF Dashboard
<1>5. ASSUME NEW p \in {"models", "upstreams", "archived"}, SwitchPane(p) PROVE AdminStepOK
  <2>1. PICK dash : dash = [ma.dash EXCEPT !.pane = p, !.shown = TRUE]
    OBVIOUS
  <2>2. ma' = [ma EXCEPT !.dash = dash] /\ Dashboard
    BY <1>5, <2>1 DEF SwitchPane
  <2>3. dash \in Dashes
    BY <1>1, <2>1 DEF Dashes
  <2>4. dash.editor = ma.dash.editor /\ dash.saving = ma.dash.saving /\ dash.pending = ma.dash.pending
    BY <1>1, <2>1 DEF Dashes
  <2> QED BY <1>4, <2>2, <2>3, <2>4
<1>6. ASSUME NEW k \in {"model", "upstream"}, SelectRow(k) PROVE AdminStepOK
  <2>1. PICK p : p = (IF k = "model" THEN "models" ELSE ma.dash.pane)
    OBVIOUS
  <2>2. PICK dash : dash = [ma.dash EXCEPT !.shown = TRUE, !.pane = p]
    OBVIOUS
  <2>3. ma' = [ma EXCEPT !.dash = dash] /\ Dashboard
    <3>1. Dashboard
      BY <1>6 DEF SelectRow, RowButton
    <3>2. ma' = [ma EXCEPT !.dash = [ma.dash EXCEPT !.shown = TRUE, !.pane = IF k = "model" THEN "models" ELSE ma.dash.pane]]
      BY <1>6 DEF SelectRow
    <3> QED BY <2>1, <2>2, <3>1, <3>2
  <2>4. dash \in Dashes
    BY <1>1, <2>1, <2>2 DEF Dashes, Kinds
  <2>5. dash.editor = ma.dash.editor /\ dash.saving = ma.dash.saving /\ dash.pending = ma.dash.pending
    BY <1>1, <2>2 DEF Dashes
  <2> QED BY <1>4, <2>3, <2>4, <2>5
<1>7. ASSUME TypeQuery PROVE AdminStepOK
  <2>1. PICK b \in BOOLEAN : ma' = [ma EXCEPT !.dash.shown = b]
    BY <1>7 DEF TypeQuery
  <2>2. PICK dash : dash = [ma.dash EXCEPT !.shown = b]
    OBVIOUS
  <2>3. ma' = [ma EXCEPT !.dash = dash] /\ Dashboard
    BY <1>1, <1>7, <2>1, <2>2 DEF TypeQuery, AdminStates
  <2>4. dash \in Dashes
    BY <1>1, <2>1, <2>2 DEF Dashes
  <2>5. dash.editor = ma.dash.editor /\ dash.saving = ma.dash.saving /\ dash.pending = ma.dash.pending
    BY <1>1, <2>2 DEF Dashes
  <2> QED BY <1>4, <2>3, <2>4, <2>5
<1> QED BY <1>3, <1>5, <1>6, <1>7

LEMMA DialogSteps ==
  ASSUME AdminInv,
         \/ \E k \in Kinds : OpenEditor(k) \/ AskArchive(k) \/ AskRestore(k)
         \/ \E act \in {"toggle-catalog", "import-environment"} : AskConfirmation(act)
         \/ CloseEditor \/ CancelPending
  PROVE  AdminStepOK
<1>1. ma \in AdminStates /\ ma.dash \in Dashes /\ ma.key \in Keys
  BY AdminTyped
<1>2. ASSUME NEW dash \in Dashes, Dashboard, ma.flights = {}, ma' = [ma EXCEPT !.dash = dash],
             ~dash.saving, dash.pending # "none" => dash.editor = "none"
      PROVE  AdminStepOK
  <2>1. ma' = [ma EXCEPT !.key = ma.key, !.dash = dash]
    BY <1>1, <1>2 DEF AdminStates
  <2>2. DialogOK(dash, ma.flights)
    BY <1>2 DEF DialogOK
  <2> QED BY <1>1, <1>2, <2>1, <2>2, ScreenStep DEF Dashboard
<1>3. ma.flights = {} => ~ma.dash.saving
  BY DEF AdminInv, DialogInv, DialogOK
<1>4. Controls => ma.flights = {} /\ Dashboard /\ ma.dash.editor = "none" /\ ma.dash.pending = "none"
  BY AtRest DEF Controls, NoDialog
<1>5. ASSUME NEW k \in Kinds, OpenEditor(k) PROVE AdminStepOK
  <2>1. Controls
    BY <1>5, SelectedOnPane DEF OpenEditor
  <2>2. PICK dash : dash = [ma.dash EXCEPT !.editor = k]
    OBVIOUS
  <2>3. ma' = [ma EXCEPT !.dash = dash]
    BY <1>1, <1>5, <2>2 DEF OpenEditor, AdminStates
  <2>4. dash \in Dashes /\ dash.saving = ma.dash.saving /\ dash.pending = ma.dash.pending
    BY <1>1, <2>2 DEF Dashes
  <2> QED BY <1>2, <1>3, <1>4, <2>1, <2>3, <2>4
<1>6. ASSUME NEW p \in Pendings, Controls, ma' = [ma EXCEPT !.dash.pending = p] PROVE AdminStepOK
  <2>1. PICK dash : dash = [ma.dash EXCEPT !.pending = p]
    OBVIOUS
  <2>2. ma' = [ma EXCEPT !.dash = dash]
    BY <1>1, <1>6, <2>1 DEF AdminStates
  <2>3. dash \in Dashes /\ dash.saving = ma.dash.saving /\ dash.editor = ma.dash.editor
    BY <1>1, <2>1 DEF Dashes
  <2> QED BY <1>2, <1>3, <1>4, <1>6, <2>2, <2>3
<1>7. ASSUME NEW k \in Kinds, AskArchive(k) PROVE AdminStepOK
  <2>1. Controls /\ ma' = [ma EXCEPT !.dash.pending = <<"archive", k>>]
    BY <1>7, SelectedOnPane DEF AskArchive
  <2>2. <<"archive", k>> \in Pendings
    BY DEF Pendings
  <2>3. PICK p : p = <<"archive", k>>
    OBVIOUS
  <2>4. ma' = [ma EXCEPT !.dash.pending = p]
    BY <2>1, <2>3
  <2> QED BY <1>6, <2>1, <2>2, <2>3, <2>4
<1>8. ASSUME NEW k \in Kinds, AskRestore(k) PROVE AdminStepOK
  <2>1. Controls /\ ma' = [ma EXCEPT !.dash.pending = <<"restore", k>>]
    BY <1>8, SelectedOnPane DEF AskRestore
  <2>2. <<"restore", k>> \in Pendings
    BY DEF Pendings
  <2>3. PICK p : p = <<"restore", k>>
    OBVIOUS
  <2>4. ma' = [ma EXCEPT !.dash.pending = p]
    BY <2>1, <2>3
  <2> QED BY <1>6, <2>1, <2>2, <2>3, <2>4
<1>9. ASSUME NEW act \in {"toggle-catalog", "import-environment"}, AskConfirmation(act) PROVE AdminStepOK
  <2>1. Controls /\ ma' = [ma EXCEPT !.dash.pending = <<act, "none">>]
    BY <1>9 DEF AskConfirmation
  <2>2. <<act, "none">> \in Pendings
    BY DEF Pendings
  <2>3. PICK p : p = <<act, "none">>
    OBVIOUS
  <2>4. ma' = [ma EXCEPT !.dash.pending = p]
    BY <2>1, <2>3
  <2> QED BY <1>6, <2>1, <2>2, <2>3, <2>4
<1>10. ASSUME CloseEditor PROVE AdminStepOK
  <2>1. PICK dash : dash = [ma.dash EXCEPT !.editor = "none"]
    OBVIOUS
  <2>2. ma' = [ma EXCEPT !.dash = dash]
    BY <1>1, <1>10, <2>1 DEF CloseEditor, AdminStates
  <2>3. dash \in Dashes /\ dash.saving = ma.dash.saving /\ dash.editor = "none"
    BY <1>1, <2>1 DEF Dashes
  <2>4. ma.flights = {} /\ Dashboard
    BY <1>10, AtRest DEF CloseEditor
  <2> QED BY <1>2, <1>3, <2>2, <2>3, <2>4
<1>11. ASSUME CancelPending PROVE AdminStepOK
  <2>1. PICK dash : dash = [ma.dash EXCEPT !.pending = "none"]
    OBVIOUS
  <2>2. ma' = [ma EXCEPT !.dash = dash]
    BY <1>1, <1>11, <2>1 DEF CancelPending, AdminStates
  <2>3. dash \in Dashes /\ dash.saving = ma.dash.saving /\ dash.pending = "none"
    BY <1>1, <2>1 DEF Dashes
  <2>4. ma.flights = {} /\ Dashboard
    BY <1>11, AtRest DEF CancelPending
  <2> QED BY <1>2, <1>3, <2>2, <2>3, <2>4
<1> QED BY <1>5, <1>7, <1>8, <1>9, <1>10, <1>11

(* The requests of the dashboard.                                           *)
LEMMA RequestSteps ==
  ASSUME AdminInv, RefreshCatalog \/ (\E k \in Kinds : ToggleRow(k)) \/ SaveEditor \/ ConfirmPending
  PROVE  AdminStepOK
<1>1. ma \in AdminStates /\ ma.dash \in Dashes /\ ma.n \in Nat
  BY AdminTyped
<1>2. DialogOK(ma.dash, ma.flights)
  BY DEF AdminInv, DialogInv
<1>3. ASSUME NEW act \in Acts \ GateActs, NEW k \in Kinds \cup {"none"}, act \in RowActs => k \in Kinds,
             More, ma.flights = {}, Dashboard, NEW on \in BOOLEAN, NEW dash \in Dashes, dash.pending = "none",
             dash.saving => act = "save", dash.editor # "none" => dash.saving,
             ma' = Run([ma EXCEPT !.dash = dash], act, k, on)
      PROVE  AdminStepOK
  <2>1. PICK one : one = [act |-> act, k |-> k, on |-> on, key |-> ma.key, step |-> "sent", got |-> NoCatalog]
    OBVIOUS
  <2>2. ma' = [ma EXCEPT !.dash = dash, !.busy = act, !.notice = "none", !.n = ma.n + 1, !.flights = {one}]
    <3>1. ma' = [ma EXCEPT !.dash = dash, !.busy = act, !.notice = "none", !.n = ma.n + 1, !.flights = {} \cup {one}]
      BY <1>1, <1>3, <2>1 DEF Run, Sent, AdminStates
    <3> QED BY <3>1
  <2>3. DialogOK(dash, {one})
    BY <1>3, <2>1 DEF DialogOK
  <2> QED BY <1>3, <2>1, <2>2, <2>3, RunStep
<1>4. ASSUME RefreshCatalog PROVE AdminStepOK
  <2>1. Controls /\ More /\ ma' = Run(ma, "refresh", "none", FALSE)
    BY <1>4 DEF RefreshCatalog
  <2>2. ma.flights = {} /\ Dashboard /\ ma.dash.editor = "none" /\ ma.dash.pending = "none"
    BY <2>1, AtRest DEF Controls, NoDialog
  <2>3. ma' = Run([ma EXCEPT !.dash = ma.dash], "refresh", "none", FALSE)
    <3>1. ma = [ma EXCEPT !.dash = ma.dash]
      BY <1>1 DEF AdminStates
    <3> QED BY <2>1, <3>1
  <2>4. ~ma.dash.saving
    BY <1>2, <2>2 DEF DialogOK
  <2>5. "refresh" \in Acts \ GateActs /\ "refresh" \notin RowActs
    BY DEF Acts, GateActs, RowActs
  <2> QED BY <1>1, <1>3, <2>1, <2>2, <2>3, <2>4, <2>5
<1>5. ASSUME NEW k \in Kinds, ToggleRow(k) PROVE AdminStepOK
  <2>0. PICK on \in BOOLEAN : on = ~ma.catalog[k].on
    OBVIOUS
  <2>1. Controls /\ More /\ ma' = Run(ma, "toggle", k, on)
    BY <1>5, <2>0, SelectedOnPane DEF ToggleRow
  <2>2. ma.flights = {} /\ Dashboard /\ ma.dash.editor = "none" /\ ma.dash.pending = "none"
    BY <2>1, AtRest DEF Controls, NoDialog
  <2>3. ma' = Run([ma EXCEPT !.dash = ma.dash], "toggle", k, on)
    <3>1. ma = [ma EXCEPT !.dash = ma.dash]
      BY <1>1 DEF AdminStates
    <3> QED BY <2>1, <3>1
  <2>4. ~ma.dash.saving
    BY <1>2, <2>2 DEF DialogOK
  <2>5. "toggle" \in Acts \ GateActs
    BY DEF Acts, GateActs, RowActs
  <2> QED BY <1>1, <1>3, <2>1, <2>2, <2>3, <2>4, <2>5
<1>6. ASSUME SaveEditor PROVE AdminStepOK
  <2>1. ma.flights = {} /\ Dashboard
    BY <1>6, AtRest DEF SaveEditor
  <2>2. ma.dash.editor \in Kinds /\ More
    BY <1>6 DEF SaveEditor, EditorShell, ModelEditor, UpstreamEditor, RouteEditor, Kinds
  <2>3. PICK dash : dash = [ma.dash EXCEPT !.saving = TRUE]
    OBVIOUS
  <2>4. dash \in Dashes /\ dash.saving /\ dash.editor = ma.dash.editor /\ dash.pending = ma.dash.pending
    BY <1>1, <2>3 DEF Dashes
  <2>5. PICK on \in BOOLEAN : ma' = Run([ma EXCEPT !.dash = dash], "save", ma.dash.editor, on)
    <3>1. [ma EXCEPT !.dash.saving = TRUE] = [ma EXCEPT !.dash = dash]
      BY <1>1, <2>3 DEF AdminStates
    <3> QED BY <1>6, <3>1 DEF SaveEditor
  <2>6. ma.dash.pending = "none"
    BY <1>2, <2>2 DEF DialogOK, Kinds
  <2>7. "save" \in Acts \ GateActs
    BY DEF Acts, GateActs, RowActs
  <2> QED BY <1>3, <2>1, <2>2, <2>4, <2>5, <2>6, <2>7
<1>7. ASSUME ConfirmPending PROVE AdminStepOK
  <2>1. ma.flights = {} /\ Dashboard /\ ma.dash.editor = "none" /\ ~ma.dash.saving
    BY <1>2, <1>7, AtRest DEF ConfirmPending, ConfirmShown, DialogOK
  <2>2. ma.dash.pending \in Pendings /\ More
    BY <1>1, <1>7 DEF ConfirmPending, ConfirmShown, Dashes
  <2>3. PICK act, k : act = ma.dash.pending[1] /\ k = ma.dash.pending[2]
    OBVIOUS
  <2>4. \/ act \in {"archive", "restore"} /\ k \in Kinds
        \/ act \in {"toggle-catalog", "import-environment"} /\ k = "none"
    BY <2>2, <2>3 DEF Pendings
  <2>5. act \in Acts \ GateActs /\ k \in Kinds \cup {"none"} /\ (act \in RowActs => k \in Kinds)
    BY <2>4 DEF Acts, GateActs, RowActs
  <2>6. PICK dash : dash = [ma.dash EXCEPT !.pending = "none"]
    OBVIOUS
  <2>7. dash \in Dashes /\ dash.saving = ma.dash.saving /\ dash.editor = ma.dash.editor /\ dash.pending = "none"
    BY <1>1, <2>6 DEF Dashes
  <2>8. PICK on \in BOOLEAN : ma' = Run([ma EXCEPT !.dash = dash], act, k, on)
    <3>0. PICK on \in BOOLEAN : on = ~ma.catalog.db
      OBVIOUS
    <3>1. [ma EXCEPT !.dash.pending = "none"] = [ma EXCEPT !.dash = dash]
      BY <1>1, <2>6 DEF AdminStates
    <3> QED BY <1>7, <2>3, <3>0, <3>1 DEF ConfirmPending
  <2> QED BY <1>3, <2>1, <2>2, <2>5, <2>7, <2>8
<1> QED BY <1>4, <1>5, <1>6, <1>7

(* The gate.                                                                *)

(* A console that is locked, or loaded again, with nothing under way.       *)
LEMMA ShutStep ==
  ASSUME AdminInv, ma' \in AdminStates, ma'.n = ma.n, ma'.srv = ma.srv, ma'.flights = {}, ~ma'.gateBusy,
         ma'.busy = "none", ma'.catalog = NoCatalog, ma'.dash = NoDash,
         ma'.gateError /\ (\E f \in ma.flights : f.step = "denied") => ma'.key = "" /\ ma'.stored = ""
  PROVE  AdminStepOK
<1>1. GateShown' /\ ~Dashboard'
  BY DEF GateShown, Dashboard
<1>2. BusyInv' /\ AnswerInv'
  BY DEF BusyInv, AnswerInv
<1>3. DialogInv'
  <2>1. NoDash.saving = FALSE /\ NoDash.editor = "none" /\ NoDash.pending = "none"
    BY DEF NoDash
  <2>2. DialogOK(ma.dash, ma.flights)'
    BY <2>1 DEF DialogOK
  <2> QED BY <2>2 DEF DialogInv
<1>4. SeenInv'
  BY <1>1 DEF SeenInv
<1>5. RefusedStep /\ SurvivalStep /\ SwitchStep
  BY DEF RefusedStep, SurvivalStep, SwitchStep
<1> QED BY <1>2, <1>3, <1>4, <1>5 DEF AdminInv, AdminStepOK, Batched

(* A request of the gate: openCatalog.                                      *)
LEMMA OpenStep ==
  ASSUME AdminInv, NEW act \in GateActs, NEW one, NEW key \in Keys,
         one = [act |-> act, k |-> "none", on |-> FALSE, key |-> key, step |-> "sent", got |-> NoCatalog],
         ma' \in AdminStates, ma'.n = ma.n, ma'.srv = ma.srv, ma'.flights = {one}, ma'.gateBusy,
         ma'.busy = "none", ma'.catalog = NoCatalog, ma'.dash = NoDash
  PROVE  AdminStepOK
<1>1. GateShown' /\ ~Dashboard'
  BY DEF GateShown, Dashboard
<1>2. one.act = act /\ one.step = "sent" /\ act \notin RowActs
  BY DEF GateActs, RowActs
<1>3. BusyInv' /\ AnswerInv'
  BY <1>1, <1>2 DEF BusyInv, AnswerInv
<1>4. DialogInv'
  <2>1. NoDash.saving = FALSE /\ NoDash.editor = "none" /\ NoDash.pending = "none"
    BY DEF NoDash
  <2>2. DialogOK(ma.dash, ma.flights)'
    BY <2>1 DEF DialogOK
  <2> QED BY <2>2 DEF DialogInv
<1>5. SeenInv'
  BY <1>1, <1>2 DEF SeenInv
<1>6. RefusedStep /\ SurvivalStep /\ SwitchStep
  BY DEF RefusedStep, SurvivalStep, SwitchStep
<1> QED BY <1>3, <1>4, <1>5, <1>6 DEF AdminInv, AdminStepOK, Batched

LEMMA OneTyped ==
  ASSUME NEW act \in GateActs, NEW key \in Keys, NoCatalog \in Servers
  PROVE  {[act |-> act, k |-> "none", on |-> FALSE, key |-> key, step |-> "sent", got |-> NoCatalog]} \in SUBSET Flights
  BY DEF Flights, Acts

LEMMA SubmitStep == ASSUME AdminInv, SubmitKey PROVE AdminStepOK
<1>1. ma \in AdminStates /\ ma.key \in Keys /\ NoCatalog \in Servers
  BY AdminTyped
<1>2. GateShown /\ ~ma.gateBusy
  BY DEF SubmitKey, GateForm
<1>3. ma.flights = {} /\ ma.busy = "none" /\ ma.catalog = NoCatalog /\ ma.dash = NoDash
  BY <1>2 DEF AdminInv, BusyInv, DialogInv, Dashboard, GateShown
<1>4. PICK one : one = [act |-> "open", k |-> "none", on |-> FALSE, key |-> ma.key, step |-> "sent", got |-> NoCatalog]
  OBVIOUS
<1>5. "open" \in GateActs
  BY DEF GateActs
<1>6. PICK fl : fl = {one} /\ fl \in SUBSET Flights
  BY <1>1, <1>4, <1>5, OneTyped
<1>7. ma' = [ma EXCEPT !.gateBusy = TRUE, !.gateError = FALSE, !.flights = fl]
  <2>1. ma' = [ma EXCEPT !.gateBusy = TRUE, !.gateError = FALSE, !.flights = {} \cup {one}]
    BY <1>1, <1>3, <1>4 DEF SubmitKey, OpenCatalog, Sent, AdminStates
  <2> QED BY <1>6, <2>1
<1>8. ma' \in AdminStates
  BY <1>1, <1>6, <1>7 DEF AdminStates
<1>9. ma'.n = ma.n /\ ma'.srv = ma.srv /\ ma'.flights = fl /\ ma'.gateBusy
  BY <1>1, <1>7 DEF AdminStates
<1>10. ma'.busy = ma.busy /\ ma'.catalog = ma.catalog /\ ma'.dash = ma.dash
  BY <1>1, <1>7 DEF AdminStates
<1> QED BY <1>1, <1>3, <1>4, <1>5, <1>6, <1>8, <1>9, <1>10, OpenStep

(* What a page leaves behind is typed.                                      *)
LEMMA LeftTyped == ASSUME AdminInv, NEW fs \in SUBSET ma.flights PROVE Abandoned(ma, fs).strays \in StraySets
<1>1. ma \in AdminStates /\ ma.n \in Nat /\ ma.strays \in StraySets
  BY AdminTyped DEF AdminStates
<1>2. ASSUME NEW f \in fs, f.act \notin {"open", "reopen", "refresh"} PROVE f \in Strays
  BY <1>2, AdminTyped DEF AdminInv, AnswerInv, Strays, GateActs
<1>3. PICK left : left = {<<ma.n, f>> : f \in {g \in fs : g.step = "sent" /\ g.act \notin {"open", "reopen", "refresh"}}}
  OBVIOUS
<1>4. left \subseteq Nat \X Strays
  BY <1>1, <1>2, <1>3
<1>5. Abandoned(ma, fs).strays = ma.strays \cup left
  BY <1>1, <1>3 DEF Abandoned, AdminStates
<1> QED BY <1>1, <1>4, <1>5 DEF StraySets

LEMMA ReloadStep == ASSUME AdminInv, ReloadConsole PROVE AdminStepOK
<1>1. ma \in AdminStates /\ ma.stored \in {"", "good"} /\ NoCatalog \in Servers /\ NoDash \in Dashes
  BY AdminTyped
<1>a. PICK st : st \in StraySets /\ st = Abandoned(ma, ma.flights).strays
  BY LeftTyped
<1>2. PICK left : left = [ma EXCEPT !.key = ma.stored, !.catalog = NoCatalog, !.gateBusy = FALSE, !.gateError = FALSE,
                                    !.busy = "none", !.notice = "none", !.dash = NoDash, !.flights = {},
                                    !.strays = st, !.lost = FALSE]
  OBVIOUS
<1>3. ma' = IF ma.stored = "" THEN left ELSE OpenCatalog(left, ma.stored, "reopen")
  <2>1. Abandoned(ma, ma.flights) = [ma EXCEPT !.strays = st]
    BY <1>1, <1>a DEF Abandoned, AdminStates
  <2>2. left = [[ma EXCEPT !.strays = st]
                  EXCEPT !.key = ma.stored, !.catalog = NoCatalog, !.gateBusy = FALSE, !.gateError = FALSE,
                         !.busy = "none", !.notice = "none", !.dash = NoDash, !.flights = {}, !.lost = FALSE]
    BY <1>1, <1>2 DEF AdminStates
  <2> QED BY <2>1, <2>2 DEF ReloadConsole
<1>4. ma.stored \in Keys
  BY <1>1 DEF Keys
<1>5. left \in AdminStates
  BY <1>1, <1>a, <1>2, <1>4 DEF AdminStates
<1>6. left.n = ma.n /\ left.srv = ma.srv /\ left.flights = {} /\ left.gateBusy = FALSE
  BY <1>1, <1>2 DEF AdminStates
<1>7. left.busy = "none" /\ left.catalog = NoCatalog /\ left.dash = NoDash
  BY <1>1, <1>2 DEF AdminStates
<1>8. left.notice = "none" /\ left.gateError = FALSE
  BY <1>1, <1>2 DEF AdminStates
<1>9. CASE ma.stored = ""
  <2>1. ma' = left
    BY <1>3, <1>9
  <2> QED BY <1>5, <1>6, <1>7, <1>8, <2>1, ShutStep
<1>10. CASE ma.stored # ""
  <2>1. PICK one : one = [act |-> "reopen", k |-> "none", on |-> FALSE, key |-> ma.stored, step |-> "sent", got |-> NoCatalog]
    OBVIOUS
  <2>2. "reopen" \in GateActs
    BY DEF GateActs
  <2>3. PICK fl : fl = {one} /\ fl \in SUBSET Flights
    BY <1>1, <1>4, <2>1, <2>2, OneTyped
  <2>4. ma' = [left EXCEPT !.gateBusy = TRUE, !.gateError = FALSE, !.flights = fl]
    <3>1. ma' = [left EXCEPT !.gateBusy = TRUE, !.gateError = FALSE, !.flights = {} \cup {one}]
      BY <1>3, <1>5, <1>6, <1>10, <2>1 DEF OpenCatalog, Sent, AdminStates
    <3> QED BY <2>3, <3>1
  <2>5. ma' \in AdminStates
    BY <1>5, <2>3, <2>4 DEF AdminStates
  <2>6. ma'.n = left.n /\ ma'.srv = left.srv /\ ma'.flights = fl /\ ma'.gateBusy
    BY <1>5, <2>4 DEF AdminStates
  <2>7. ma'.busy = left.busy /\ ma'.catalog = left.catalog /\ ma'.dash = left.dash
    BY <1>5, <2>4 DEF AdminStates
  <2> QED BY <1>4, <1>6, <1>7, <2>1, <2>2, <2>3, <2>5, <2>6, <2>7, OpenStep
<1> QED BY <1>9, <1>10

LEMMA LockStep == ASSUME AdminInv, LockConsole PROVE AdminStepOK
<1>1. ma \in AdminStates /\ NoCatalog \in Servers /\ NoDash \in Dashes
  BY AdminTyped
<1>2. ma.flights = {} /\ ~ma.gateBusy
  BY AtRest DEF LockConsole
<1>3. ma' = [ma EXCEPT !.stored = "", !.key = "", !.catalog = NoCatalog, !.busy = "none",
                       !.notice = "none", !.dash = NoDash]
  BY DEF LockConsole, Locked
<1>4. "" \in Keys
  BY DEF Keys
<1>5. ma' \in AdminStates
  BY <1>1, <1>3, <1>4 DEF AdminStates
<1>6. ma'.n = ma.n /\ ma'.srv = ma.srv /\ ma'.flights = ma.flights /\ ma'.gateBusy = ma.gateBusy
  BY <1>1, <1>3 DEF AdminStates
<1>7. ma'.busy = "none" /\ ma'.catalog = NoCatalog /\ ma'.dash = NoDash /\ ma'.notice = "none"
  BY <1>1, <1>3 DEF AdminStates
<1>8. ma'.key = "" /\ ma'.stored = ""
  BY <1>1, <1>3 DEF AdminStates
<1> QED BY <1>2, <1>5, <1>6, <1>7, <1>8, ShutStep

(* Answers.                                                                 *)

LEMMA ReplyStep ==
  ASSUME AdminInv, NEW f \in ma.flights, f.step = "sent", NEW got \in Servers, NEW srv \in Servers, Batched(srv),
         NEW step \in {"denied", "refused", "done", "lost"}, NEW g, g = [f EXCEPT !.step = step, !.got = got],
         step \in {"denied", "refused"} => srv = ma.srv, step = "done" => got = srv /\ f.key = "good",
         ~ma.srv.db /\ srv.db => Available(srv), NEW others \in BOOLEAN, step # "done" => others = ma.others,
         NEW strays \in StraySets,
         ma' = [ma EXCEPT !.flights = {g}, !.srv = srv, !.others = others, !.strays = strays]
  PROVE  AdminStepOK
<1>1. ma \in AdminStates /\ f \in Flights
  BY AdminTyped
<1>2. /\ g \in Flights /\ g.act = f.act /\ g.k = f.k /\ g.key = f.key
      /\ g.step = step /\ g.got = got
  BY <1>1 DEF Flights
<1>3. PICK fl : fl = {g} /\ fl \in SUBSET Flights
  BY <1>2
<1>4. ma' = [ma EXCEPT !.flights = fl, !.srv = srv, !.others = others, !.strays = strays]
  BY <1>3
<1>5. ma' \in AdminStates
  BY <1>1, <1>3, <1>4 DEF AdminStates
<1>6. ma'.flights = {g} /\ ma'.gateBusy = ma.gateBusy /\ ma'.busy = ma.busy /\ ma'.dash = ma.dash
  BY <1>1, <1>3, <1>4 DEF AdminStates
<1>7. ma'.catalog = ma.catalog /\ ma'.srv = srv /\ ma'.others = others /\ ma'.lost = ma.lost
  BY <1>1, <1>4 DEF AdminStates
<1>8. ma'.notice = ma.notice /\ ma'.n = ma.n
  BY <1>1, <1>4 DEF AdminStates
<1>9. ma.flights = {f}
  BY DEF AdminInv, BusyInv
<1>10. GateShown' <=> GateShown
  BY <1>7 DEF GateShown
<1>11. BusyInv'
  <2>1. IF f.act \in GateActs THEN GateShown /\ ma.gateBusy /\ ma.busy = "none"
        ELSE Dashboard /\ ~ma.gateBusy /\ ma.busy = f.act
    BY DEF AdminInv, BusyInv
  <2>2. Dashboard' <=> Dashboard
    BY <1>10 DEF Dashboard
  <2>3. IF g.act \in GateActs THEN GateShown' /\ ma'.gateBusy /\ ma'.busy = "none"
        ELSE Dashboard' /\ ~ma'.gateBusy /\ ma'.busy = g.act
    BY <1>2, <1>6, <1>10, <2>1, <2>2
  <2> QED BY <1>6, <2>3 DEF BusyInv
<1>12. AnswerInv'
  BY <1>2, <1>6, <1>9 DEF AdminInv, AnswerInv
<1>13. DialogInv'
  <2>1. DialogOK(ma.dash, {f})
    BY <1>9 DEF AdminInv, DialogInv
  <2>2. DialogOK(ma.dash, {g})
    BY <1>2, <2>1 DEF DialogOK
  <2>3. DialogOK(ma.dash, ma.flights)'
    BY <1>6, <2>2 DEF DialogOK
  <2> QED BY <1>6, <1>10, <2>3 DEF AdminInv, DialogInv
<1>14. SeenInv'
  <2>1. CASE step = "done"
    BY <1>2, <1>6, <1>7, <2>1 DEF SeenInv
  <2>2. CASE step # "done"
    <3>1. Dashboard /\ ~ma.others /\ ~ma.lost => ma.catalog = ma.srv
      BY <1>9 DEF AdminInv, SeenInv
    <3>2. step # "lost" => srv = ma.srv
      BY <2>2
    <3> QED BY <1>2, <1>6, <1>7, <1>10, <2>2, <3>1, <3>2 DEF SeenInv, Dashboard
  <2> QED BY <2>1, <2>2
<1>15. RefusedStep /\ SurvivalStep /\ SwitchStep
  BY <1>6, <1>7, <1>8 DEF RefusedStep, SurvivalStep, SwitchStep
<1> QED BY <1>5, <1>7, <1>8, <1>11, <1>12, <1>13, <1>14, <1>15 DEF AdminInv, AdminStepOK, Batched

LEMMA ServeStep == ASSUME AdminInv, NEW f \in ma.flights, ServeAdmin(f) PROVE AdminStepOK
<1>1. ma \in AdminStates /\ f \in Flights /\ ma.srv \in Servers /\ NoCatalog \in Servers
  BY AdminTyped
<1>o. ma.others \in BOOLEAN /\ ma.strays \in StraySets /\ f.on \in BOOLEAN
  BY <1>1 DEF AdminStates, Flights
<1>2. f.step = "sent" /\ ma.flights = {f} /\ Batched(ma.srv)
  BY DEF ServeAdmin, AdminInv, BusyInv
<1>3. \A step, got : Reply(ma, f, step, got) = [ma EXCEPT !.flights = {[f EXCEPT !.step = step, !.got = got]}]
  <2>1. ASSUME NEW step, NEW got
        PROVE  Reply(ma, f, step, got) = [ma EXCEPT !.flights = {[f EXCEPT !.step = step, !.got = got]}]
    <3>1. PICK g : g = [f EXCEPT !.step = step, !.got = got]
      OBVIOUS
    <3>2. (ma.flights \ {f}) \cup {g} = {g}
      BY <1>2
    <3> QED BY <3>1, <3>2 DEF Reply
  <2> QED BY <2>1
<1>4. PICK act : act = IF f.act \in {"open", "reopen"} THEN "refresh" ELSE f.act
  OBVIOUS
<1>5. act \in Acts \ GateActs /\ (act \in RowActs => f.k \in Kinds)
  BY <1>1, <1>4 DEF Flights, Acts, GateActs, RowActs, AdminInv, AnswerInv
<1>6. ASSUME NEW step \in {"denied", "refused"}, ma' = Reply(ma, f, step, NoCatalog) PROVE AdminStepOK
  <2>1. PICK g : g = [f EXCEPT !.step = step, !.got = NoCatalog]
    OBVIOUS
  <2>2. ma' = [ma EXCEPT !.flights = {g}]
    BY <1>3, <1>6, <2>1
  <2>3. ma' = [ma EXCEPT !.flights = {g}, !.srv = ma.srv, !.others = ma.others, !.strays = ma.strays]
    BY <1>1, <2>2 DEF AdminStates
  <2> QED BY <1>1, <1>2, <1>o, <2>1, <2>3, ReplyStep
<1>7. ASSUME ~Refuses(f.key), NEW s \in Applied(ma.srv, act, f.k, f.on), NEW step \in {"done", "lost"}, NEW got,
             got = (IF step = "done" THEN s ELSE NoCatalog), NEW others \in BOOLEAN, step # "done" => others = ma.others,
             ma' = [Reply(ma, f, step, got) EXCEPT !.srv = s, !.others = others]
      PROVE  AdminStepOK
  <2>1. PICK g : g = [f EXCEPT !.step = step, !.got = got]
    OBVIOUS
  <2>2. ma' = [ma EXCEPT !.flights = {g}, !.srv = s, !.others = others, !.strays = ma.strays]
    <3>1. Reply(ma, f, step, got) = [ma EXCEPT !.flights = {g}]
      BY <1>3, <2>1
    <3>2. ma' = [[ma EXCEPT !.flights = {g}] EXCEPT !.srv = s, !.others = others]
      BY <1>7, <3>1
    <3> QED BY <1>1, <3>2 DEF AdminStates
  <2>3. Follows(ma.srv, s)
    BY <1>1, <1>2, <1>5, <1>o, AppliedOK
  <2>4. f.key = "good"
    BY <1>7 DEF Refuses
  <2>5. s \in Servers /\ Batched(s) /\ (~ma.srv.db /\ s.db => Available(s))
    BY <2>3 DEF Follows
  <2>6. got \in Servers
    BY <1>1, <1>7, <2>5
  <2>7. /\ step \in {"denied", "refused", "done", "lost"} /\ step \notin {"denied", "refused"}
        /\ step = "done" => got = s /\ f.key = "good"
    BY <1>7, <2>4
  <2>8. PICK st \in StraySets : st = ma.strays
    BY <1>o
  <2>9. /\ f.step = "sent" /\ others \in BOOLEAN /\ (step # "done" => others = ma.others)
        /\ (step \in {"denied", "refused"} => s = ma.srv)
        /\ ma' = [ma EXCEPT !.flights = {g}, !.srv = s, !.others = others, !.strays = st]
    BY <1>2, <1>7, <2>2, <2>7, <2>8
  <2>10. f \in ma.flights /\ step \in {"denied", "refused", "done", "lost"} /\ s \in Servers /\ Batched(s)
    BY <2>5, <2>7
  <2>11. step = "done" => got = s /\ f.key = "good"
    BY <2>7
  <2>12. ~ma.srv.db /\ s.db => Available(s)
    BY <2>5
  <2>13. f.step = "sent" /\ others \in BOOLEAN
    BY <2>9
  <2>14. step # "done" => others = ma.others
    BY <2>9
  <2>15. ma' = [ma EXCEPT !.flights = {g}, !.srv = s, !.others = others, !.strays = st]
    BY <2>9
  <2>16. CASE step = "done"
    BY ZenonT(60), <2>16, <2>1, <2>6, <2>8, <2>10, <2>11, <2>12, <2>13, <2>15, ReplyStep
  <2>17. CASE step = "lost"
    BY ZenonT(60), <2>17, <2>1, <2>6, <2>8, <2>10, <2>12, <2>13, <2>14, <2>15, ReplyStep
  <2> QED BY <2>7, <2>16, <2>17
<1>8. CASE Refuses(f.key)
  <2>1. ma' = Reply(ma, f, "denied", NoCatalog)
    BY <1>8 DEF ServeAdmin
  <2> QED BY <1>6, <2>1
<1>9. CASE ~Refuses(f.key) /\ Applied(ma.srv, act, f.k, f.on) = {}
  <2>1. ma' = Reply(ma, f, "refused", NoCatalog)
    BY <1>4, <1>9 DEF ServeAdmin
  <2> QED BY <1>6, <2>1
<1>10. CASE ~Refuses(f.key) /\ Applied(ma.srv, act, f.k, f.on) # {}
  <2>1. \E s \in Applied(ma.srv, act, f.k, f.on) :
          \/ ma' = [Reply(ma, f, "done", s) EXCEPT !.srv = s, !.others = FALSE]
          \/ ma' = [Reply(ma, f, "lost", NoCatalog) EXCEPT !.srv = s]
    BY <1>4, <1>10 DEF ServeAdmin
  <2>2. PICK s \in Applied(ma.srv, act, f.k, f.on) :
          \/ ma' = [Reply(ma, f, "done", s) EXCEPT !.srv = s, !.others = FALSE]
          \/ ma' = [Reply(ma, f, "lost", NoCatalog) EXCEPT !.srv = s]
    BY <2>1
  <2>3. CASE ma' = [Reply(ma, f, "done", s) EXCEPT !.srv = s, !.others = FALSE]
    BY <1>7, <1>10, <2>3
  <2>4. CASE ma' = [Reply(ma, f, "lost", NoCatalog) EXCEPT !.srv = s]
    <3>1. PICK g : g = [f EXCEPT !.step = "lost", !.got = NoCatalog]
      OBVIOUS
    <3>2. Reply(ma, f, "lost", NoCatalog) = [ma EXCEPT !.flights = {g}]
      BY <1>3, <3>1
    <3>3. [ma EXCEPT !.flights = {g}, !.srv = s] = [ma EXCEPT !.flights = {g}, !.srv = s, !.others = ma.others]
      BY <1>1 DEF AdminStates
    <3>4. ma' = [Reply(ma, f, "lost", NoCatalog) EXCEPT !.srv = s, !.others = ma.others]
      BY <1>1, <2>4, <3>2, <3>3 DEF AdminStates
    <3> QED BY <1>7, <1>10, <1>o, <3>4
  <2> QED BY <2>2, <2>3, <2>4
<1> QED BY <1>8, <1>9, <1>10

LEMMA LoseStep == ASSUME AdminInv, NEW f \in ma.flights, LoseRequest(f) PROVE AdminStepOK
<1>1. ma \in AdminStates /\ ma.srv \in Servers /\ NoCatalog \in Servers /\ ma.others \in BOOLEAN
  BY AdminTyped DEF AdminStates
<1>2. f.step = "sent" /\ ma.flights = {f} /\ Batched(ma.srv)
  BY DEF LoseRequest, AdminInv, BusyInv
<1>3. PICK st : st \in StraySets /\ st = Abandoned(ma, {f}).strays
  BY LeftTyped
<1>4. PICK g : g = [f EXCEPT !.step = "lost", !.got = NoCatalog]
  OBVIOUS
<1>5. ma' = [ma EXCEPT !.flights = {g}, !.srv = ma.srv, !.others = ma.others, !.strays = st]
  <2>1. Abandoned(ma, {f}) = [ma EXCEPT !.strays = st]
    BY <1>1, <1>3 DEF Abandoned, AdminStates
  <2>2. (ma.flights \ {f}) \cup {g} = {g}
    BY <1>2
  <2>3. ma' = [[ma EXCEPT !.strays = st] EXCEPT !.flights = {g}]
    <3>1. [ma EXCEPT !.strays = st].flights = ma.flights
      BY <1>1 DEF AdminStates
    <3> QED BY <1>4, <2>1, <2>2, <3>1 DEF LoseRequest, Reply
  <2> QED BY <1>1, <2>3 DEF AdminStates
<1> QED BY <1>1, <1>2, <1>3, <1>4, <1>5, ReplyStep

LEMMA OpenAnsweredStep == ASSUME AdminInv, NEW f \in ma.flights, OpenAnswered(f) PROVE AdminStepOK
<1>1. ma \in AdminStates /\ f \in Flights /\ NoCatalog \in Servers /\ NoDash \in Dashes /\ ~Batched(NoCatalog)
  BY AdminTyped
<1>2. f.act \in GateActs /\ ma.flights = {f} /\ f.step # "sent"
  BY DEF OpenAnswered, AdminInv, BusyInv, GateActs
<1>3. GateShown /\ ma.busy = "none" /\ ma.catalog = NoCatalog /\ ma.dash = NoDash
  BY <1>2 DEF AdminInv, BusyInv, DialogInv, GateShown
<1>4. PICK s : s = [ma EXCEPT !.flights = {}, !.gateBusy = FALSE]
  OBVIOUS
<1>5. ma' = IF f.step = "done"
            THEN [s EXCEPT !.key = f.key, !.catalog = f.got, !.lost = FALSE,
                           !.stored = IF f.act = "open" THEN f.key ELSE @]
            ELSE RejectAccess(s, f.step = "denied")
  <2>1. ma.flights \ {f} = {}
    BY <1>2
  <2> QED BY <1>4, <2>1 DEF OpenAnswered
<1>6. s \in AdminStates
  BY <1>1, <1>4 DEF AdminStates
<1>7. s.flights = {} /\ s.gateBusy = FALSE /\ s.busy = "none" /\ s.dash = NoDash
  BY <1>1, <1>3, <1>4 DEF AdminStates
<1>8. s.n = ma.n /\ s.srv = ma.srv /\ s.catalog = NoCatalog /\ s.stored = ma.stored
  BY <1>1, <1>3, <1>4 DEF AdminStates
<1>9. s.notice = ma.notice /\ s.others = ma.others
  BY <1>1, <1>4 DEF AdminStates
<1>10. CASE f.step = "done"
  <2>1. f.key = "good" /\ Batched(f.got) /\ f.got \in Servers
    BY <1>1, <1>10 DEF AdminInv, AnswerInv, Flights
  <2>2. PICK st : st = (IF f.act = "open" THEN f.key ELSE s.stored)
    OBVIOUS
  <2>3. st \in {"", "good"} /\ f.key \in Keys
    BY <1>6, <2>1, <2>2 DEF AdminStates, Keys
  <2>4. ma' = [s EXCEPT !.key = f.key, !.catalog = f.got, !.lost = FALSE, !.stored = st]
    BY <1>5, <1>10, <2>2
  <2>5. ma' \in AdminStates
    BY <1>6, <2>1, <2>3, <2>4 DEF AdminStates
  <2>6. ma'.flights = {} /\ ma'.gateBusy = FALSE /\ ma'.busy = "none" /\ ma'.dash = NoDash
    BY <1>6, <1>7, <2>4 DEF AdminStates
  <2>7. ma'.n = ma.n /\ ma'.srv = ma.srv /\ ma'.catalog = f.got /\ ma'.notice = ma.notice
    BY <1>6, <1>8, <1>9, <2>4 DEF AdminStates
  <2>8. ma'.others = ma.others
    BY <1>6, <1>9, <2>4 DEF AdminStates
  <2>9. f.got # NoCatalog
    BY <1>1, <2>1
  <2>10. BusyInv' /\ AnswerInv'
    BY <2>6 DEF BusyInv, AnswerInv
  <2>11. DialogInv'
    <3>1. NoDash.saving = FALSE /\ NoDash.editor = "none" /\ NoDash.pending = "none"
      BY DEF NoDash
    <3>2. DialogOK(ma.dash, ma.flights)'
      BY <2>6, <3>1 DEF DialogOK
    <3> QED BY <2>6, <3>2 DEF DialogInv
  <2>12. SeenInv'
    BY <1>10, <2>6, <2>7, <2>8 DEF AdminInv, SeenInv
  <2>13. RefusedStep /\ SurvivalStep /\ SwitchStep
    BY <1>2, <1>10, <2>7 DEF RefusedStep, SurvivalStep, SwitchStep
  <2> QED BY <2>5, <2>7, <2>10, <2>11, <2>12, <2>13 DEF AdminInv, AdminStepOK, Batched
<1>11. CASE f.step = "denied"
  <2>1. ma' = [s EXCEPT !.stored = "", !.key = "", !.catalog = NoCatalog, !.busy = "none",
                        !.notice = "none", !.dash = NoDash, !.gateError = TRUE]
    BY <1>5, <1>6, <1>11 DEF RejectAccess, Locked, AdminStates
  <2>2. "" \in Keys
    BY DEF Keys
  <2>3. ma' \in AdminStates
    BY <1>1, <1>6, <2>1, <2>2 DEF AdminStates
  <2>4. ma'.flights = {} /\ ma'.gateBusy = FALSE /\ ma'.busy = "none" /\ ma'.dash = NoDash
    BY <1>6, <1>7, <2>1 DEF AdminStates
  <2>5. ma'.n = ma.n /\ ma'.srv = ma.srv /\ ma'.catalog = NoCatalog
    BY <1>6, <1>8, <2>1 DEF AdminStates
  <2>6. ma'.key = "" /\ ma'.stored = ""
    BY <1>6, <2>1 DEF AdminStates
  <2> QED BY <2>3, <2>4, <2>5, <2>6, ShutStep
<1>12. CASE f.step \notin {"done", "denied"}
  <2>1. ma' = [s EXCEPT !.gateError = TRUE]
    BY <1>5, <1>12 DEF RejectAccess
  <2>2. ma' \in AdminStates
    BY <1>6, <2>1 DEF AdminStates
  <2>3. ma'.flights = {} /\ ma'.gateBusy = FALSE /\ ma'.busy = "none" /\ ma'.dash = NoDash
    BY <1>6, <1>7, <2>1 DEF AdminStates
  <2>4. ma'.n = ma.n /\ ma'.srv = ma.srv /\ ma'.catalog = NoCatalog
    BY <1>6, <1>8, <2>1 DEF AdminStates
  <2> QED BY <1>2, <1>12, <2>2, <2>3, <2>4, ShutStep
<1> QED BY <1>10, <1>11, <1>12

LEMMA MutationStep ==
  ASSUME AdminInv, NEW f \in ma.flights, f.act \notin GateActs, NEW dash \in Dashes,
         dash.saving = FALSE, dash.pending = ma.dash.pending,
         f.step \notin {"done", "denied"} => dash.editor = ma.dash.editor,
         ma' \in AdminStates, ma'.flights = {}, ma'.busy = "none", ma'.dash = dash, ma'.gateBusy = ma.gateBusy,
         ma'.srv = ma.srv, ma'.others = ma.others, ma'.n = ma.n,
         ma'.catalog = (IF f.step = "done" THEN f.got ELSE ma.catalog),
         ma'.notice = (IF f.step = "done" THEN "none" ELSE "error"),
         ma'.lost = (IF f.step = "done" THEN FALSE ELSE ma.lost \/ f.step = "lost"),
         f.step \in {"done", "refused", "lost"}
  PROVE  AdminStepOK
<1>1. ma \in AdminStates /\ f \in Flights /\ ~Batched(NoCatalog)
  BY AdminTyped
<1>2. ma.flights = {f} /\ Dashboard /\ ~ma.gateBusy
  BY DEF AdminInv, BusyInv
<1>3. ma.dash.pending = "none"
  BY <1>2 DEF AdminInv, DialogInv, DialogOK
<1>4. f.step = "done" => Batched(f.got)
  BY DEF AdminInv, AnswerInv
<1>5. Dashboard'
  BY <1>1, <1>2, <1>4 DEF Dashboard, GateShown
<1>6. BusyInv' /\ AnswerInv'
  BY <1>2 DEF BusyInv, AnswerInv
<1>7. DialogInv'
  <2>1. DialogOK(ma.dash, ma.flights)'
    BY <1>3 DEF DialogOK
  <2> QED BY <1>5, <2>1 DEF DialogInv, Dashboard
<1>8. SeenInv'
  <2> SUFFICES ASSUME ~ma.others, ~ma'.lost PROVE ma'.catalog = ma'.srv
    BY DEF SeenInv
  <2>1. CASE f.step = "done"
    <3>1. f.got = ma.srv
      BY <2>1 DEF AdminInv, SeenInv
    <3> QED BY <2>1, <3>1
  <2>2. CASE f.step # "done"
    <3>1. ~ma.lost /\ f.step \notin {"done", "lost"}
      BY <2>2
    <3>2. ma.catalog = ma.srv
      BY <1>2, <3>1 DEF AdminInv, SeenInv
    <3> QED BY <2>2, <3>2
  <2> QED BY <2>1, <2>2
<1>9. RefusedStep
  BY <1>2 DEF RefusedStep
<1>10. SurvivalStep /\ SwitchStep
  BY DEF SurvivalStep, SwitchStep
<1> QED BY <1>6, <1>7, <1>8, <1>9, <1>10 DEF AdminInv, AdminStepOK, Batched

LEMMA MutationAnsweredStep == ASSUME AdminInv, NEW f \in ma.flights, MutationAnswered(f) PROVE AdminStepOK
<1>1. ma \in AdminStates /\ ma.dash \in Dashes /\ f \in Flights /\ NoCatalog \in Servers /\ NoDash \in Dashes
  BY AdminTyped
<1>2. f.act \notin GateActs /\ ma.flights = {f} /\ f.step # "sent" /\ ~ma.gateBusy
  BY DEF MutationAnswered, AdminInv, BusyInv, GateActs
<1>3. f.step \in {"denied", "refused", "done", "lost"} /\ f.got \in Servers
  BY <1>1, <1>2 DEF Flights
<1>4. PICK idle : idle = [ma.dash EXCEPT !.saving = FALSE]
  OBVIOUS
<1>5. idle \in Dashes /\ idle.saving = FALSE /\ idle.pending = ma.dash.pending /\ idle.editor = ma.dash.editor
  BY <1>1, <1>4 DEF Dashes
<1>6. PICK s : s = [ma EXCEPT !.flights = {}, !.busy = "none", !.dash = idle]
  OBVIOUS
<1>7. s = [ma EXCEPT !.flights = @ \ {f}, !.busy = "none", !.dash.saving = FALSE]
  <2>1. ma.flights \ {f} = {}
    BY <1>2
  <2> QED BY <1>1, <1>4, <1>6, <2>1 DEF AdminStates
<1>8. ma' = CASE f.step = "done" ->
                   [s EXCEPT !.catalog = f.got, !.notice = "none", !.lost = FALSE,
                             !.dash.editor = IF f.act = "save" THEN "none" ELSE @]
              [] f.step = "denied" -> RejectAccess(s, TRUE)
              [] OTHER -> [s EXCEPT !.notice = "error", !.lost = @ \/ f.step = "lost"]
  BY <1>7 DEF MutationAnswered
<1>9. s \in AdminStates
  BY <1>1, <1>5, <1>6 DEF AdminStates
<1>10. s.flights = {} /\ s.gateBusy = ma.gateBusy /\ s.busy = "none" /\ s.dash = idle
  BY <1>1, <1>6 DEF AdminStates
<1>11. s.n = ma.n /\ s.srv = ma.srv /\ s.catalog = ma.catalog /\ s.others = ma.others
  BY <1>1, <1>6 DEF AdminStates
<1>12. s.lost = ma.lost
  BY <1>1, <1>6 DEF AdminStates
<1>13. CASE f.step = "done"
  <2>1. PICK editor : editor = (IF f.act = "save" THEN "none" ELSE idle.editor)
    OBVIOUS
  <2>2. PICK dash : dash = [idle EXCEPT !.editor = editor]
    OBVIOUS
  <2>3. dash \in Dashes /\ dash.saving = FALSE /\ dash.pending = ma.dash.pending
    <3>1. editor \in Kinds \cup {"none"}
      BY <1>5, <2>1 DEF Dashes
    <3> QED BY <1>5, <2>2, <3>1 DEF Dashes
  <2>4. ma' = [s EXCEPT !.catalog = f.got, !.notice = "none", !.lost = FALSE, !.dash = dash]
    BY <1>8, <1>9, <1>10, <1>13, <2>1, <2>2 DEF AdminStates
  <2>5. ma' \in AdminStates
    BY <1>3, <1>9, <2>3, <2>4 DEF AdminStates
  <2>6. ma'.flights = {} /\ ma'.gateBusy = ma.gateBusy /\ ma'.busy = "none" /\ ma'.dash = dash
    BY <1>9, <1>10, <2>4 DEF AdminStates
  <2>7. ma'.n = ma.n /\ ma'.srv = ma.srv /\ ma'.catalog = f.got /\ ma'.others = ma.others
    BY <1>9, <1>11, <2>4 DEF AdminStates
  <2>8. ma'.lost = FALSE /\ ma'.notice = "none"
    BY <1>9, <2>4 DEF AdminStates
  <2> QED BY <1>2, <1>13, <2>3, <2>5, <2>6, <2>7, <2>8, MutationStep
<1>14. CASE f.step = "denied"
  <2>1. ma' = [s EXCEPT !.stored = "", !.key = "", !.catalog = NoCatalog, !.busy = "none",
                        !.notice = "none", !.dash = NoDash, !.gateError = TRUE]
    BY <1>8, <1>9, <1>14 DEF RejectAccess, Locked, AdminStates
  <2>2. "" \in Keys
    BY DEF Keys
  <2>3. ma' \in AdminStates
    BY <1>1, <1>9, <2>1, <2>2 DEF AdminStates
  <2>4. ma'.flights = {} /\ ma'.gateBusy = ma.gateBusy /\ ma'.busy = "none" /\ ma'.dash = NoDash
    BY <1>9, <1>10, <2>1 DEF AdminStates
  <2>5. ma'.n = ma.n /\ ma'.srv = ma.srv /\ ma'.catalog = NoCatalog
    BY <1>9, <1>11, <2>1 DEF AdminStates
  <2>6. ma'.key = "" /\ ma'.stored = ""
    BY <1>9, <2>1 DEF AdminStates
  <2> QED BY <1>2, <2>3, <2>4, <2>5, <2>6, ShutStep
<1>15. CASE f.step \in {"refused", "lost"}
  <2>1. PICK l : l = (s.lost \/ f.step = "lost") /\ l \in BOOLEAN
    OBVIOUS
  <2>2. ma' = [s EXCEPT !.notice = "error", !.lost = l]
    BY <1>8, <1>15, <2>1
  <2>3. ma' \in AdminStates
    BY <1>9, <2>1, <2>2 DEF AdminStates
  <2>4. ma'.flights = {} /\ ma'.gateBusy = ma.gateBusy /\ ma'.busy = "none" /\ ma'.dash = idle
    BY <1>9, <1>10, <2>2 DEF AdminStates
  <2>5. ma'.n = ma.n /\ ma'.srv = ma.srv /\ ma'.catalog = ma.catalog /\ ma'.others = ma.others
    BY <1>9, <1>11, <2>2 DEF AdminStates
  <2>6. ma'.lost = l /\ ma'.notice = "error"
    BY <1>9, <2>2 DEF AdminStates
  <2>7. ma'.lost = (ma.lost \/ f.step = "lost")
    BY <1>12, <2>1, <2>6
  <2> QED BY <1>2, <1>5, <1>15, <2>3, <2>4, <2>5, <2>6, <2>7, MutationStep
<1> QED BY <1>3, <1>13, <1>14, <1>15

(* What happens elsewhere.                                                  *)

(* The catalog or its key is changed, and what was left behind is done.     *)
LEMMA ElsewhereStep ==
  ASSUME AdminInv, NEW s \in Servers, Batched(s), ~ma.srv.db /\ s.db => Available(s), NEW o \in BOOLEAN,
         NEW r \in BOOLEAN, ~o => ~ma.others /\ s = ma.srv, NEW m \in Nat, m <= MaxEdits,
         NEW st \in StraySets,
         ma' = [ma EXCEPT !.srv = s, !.others = o, !.rotated = r, !.n = m, !.strays = st]
  PROVE  AdminStepOK
<1>1. ma \in AdminStates
  BY AdminTyped
<1>2. ma' \in AdminStates
  BY <1>1 DEF AdminStates
<1>3. ma'.flights = ma.flights /\ ma'.gateBusy = ma.gateBusy /\ ma'.busy = ma.busy /\ ma'.dash = ma.dash
  BY <1>1 DEF AdminStates
<1>4. ma'.catalog = ma.catalog /\ ma'.srv = s /\ ma'.others = o /\ ma'.lost = ma.lost
  BY <1>1 DEF AdminStates
<1>5. ma'.notice = ma.notice /\ ma'.n = m
  BY <1>1 DEF AdminStates
<1>6. GateShown' <=> GateShown
  BY <1>4 DEF GateShown
<1>7. BusyInv' /\ AnswerInv'
  BY <1>3, <1>6 DEF AdminInv, BusyInv, AnswerInv, Dashboard
<1>8. DialogInv'
  BY <1>3, <1>6 DEF AdminInv, DialogInv, DialogOK
<1>9. SeenInv'
  BY <1>3, <1>4, <1>6 DEF AdminInv, SeenInv, Dashboard
<1>10. RefusedStep /\ SurvivalStep /\ SwitchStep
  BY <1>3, <1>4, <1>5 DEF RefusedStep, SurvivalStep, SwitchStep
<1> QED BY <1>2, <1>4, <1>5, <1>7, <1>8, <1>9, <1>10 DEF AdminInv, AdminStepOK, Batched

LEMMA OthersStep ==
  ASSUME AdminInv, OtherAdmin \/ RotateKey
  PROVE  AdminStepOK
<1>1. /\ ma \in AdminStates /\ ma.n \in Nat /\ ma.srv \in Servers /\ ma.others \in BOOLEAN
      /\ ma.rotated \in BOOLEAN /\ ma.strays \in StraySets
  BY AdminTyped DEF AdminStates
<1>2. PICK m : m = ma.n + 1 /\ m \in Nat /\ m <= MaxEdits
  <2>1. ma.n < MaxEdits
    BY DEF More, OtherAdmin, RotateKey
  <2>2. ma.n + 1 \in Nat /\ ma.n + 1 <= MaxEdits
    BY <1>1, <2>1, EditsAssumption
  <2> QED BY <2>2
<1>3. CASE OtherAdmin
  <2>1. PICK act \in {"save", "toggle", "archive", "restore", "toggle-catalog"}, k \in Kinds, on \in BOOLEAN :
          \E s \in Applied(ma.srv, act, k, on) : ma' = [ma EXCEPT !.srv = s, !.others = TRUE, !.n = @ + 1]
    BY <1>3 DEF OtherAdmin
  <2>2. PICK s \in Applied(ma.srv, act, k, on) : ma' = [ma EXCEPT !.srv = s, !.others = TRUE, !.n = ma.n + 1]
    BY <2>1
  <2>3. act \in Acts \ GateActs /\ Batched(ma.srv)
    BY DEF Acts, GateActs, RowActs, AdminInv
  <2>4. Follows(ma.srv, s)
    BY <1>1, <2>3, AppliedOK
  <2>5. ma' = [ma EXCEPT !.srv = s, !.others = TRUE, !.rotated = ma.rotated, !.n = m, !.strays = ma.strays]
    BY <1>1, <1>2, <2>2 DEF AdminStates
  <2> QED BY <1>1, <1>2, <2>4, <2>5, ElsewhereStep DEF Follows
<1>4. CASE RotateKey
  <2>1. ma' = [ma EXCEPT !.srv = ma.srv, !.others = ma.others, !.rotated = TRUE, !.n = m, !.strays = ma.strays]
    BY <1>1, <1>2, <1>4 DEF RotateKey, AdminStates
  <2> QED BY <1>1, <1>2, <2>1, ElsewhereStep DEF AdminInv
<1> QED BY <1>3, <1>4

LEMMA StrayStep == ASSUME AdminInv, NEW x \in ma.strays, ServeStray(x[1], x[2]) PROVE AdminStepOK
<1>1. /\ ma \in AdminStates /\ ma.n \in Nat /\ ma.n <= MaxEdits /\ ma.srv \in Servers /\ ma.others \in BOOLEAN
      /\ ma.rotated \in BOOLEAN /\ ma.strays \in StraySets
  BY AdminTyped DEF AdminInv, AdminStates
<1>2. PICK f \in Strays : f = x[2]
  BY <1>1 DEF StraySets
<1>3. f.act \in Acts \ GateActs /\ (f.act \in RowActs => f.k \in Kinds) /\ f.on \in BOOLEAN
  BY DEF Strays, Flights
<1>4. PICK st : st \in StraySets /\ st = ma.strays \ {<<x[1], f>>}
  BY <1>1 DEF StraySets
<1>5. \/ ma' = [ma EXCEPT !.strays = st]
      \/ \E s \in Applied(ma.srv, f.act, f.k, f.on) : ma' = [[ma EXCEPT !.strays = st] EXCEPT !.srv = s, !.others = TRUE]
  BY <1>2, <1>4 DEF ServeStray
<1>6. CASE ma' = [ma EXCEPT !.strays = st]
  <2>1. ma' = [ma EXCEPT !.srv = ma.srv, !.others = ma.others, !.rotated = ma.rotated, !.n = ma.n, !.strays = st]
    BY <1>1, <1>6 DEF AdminStates
  <2> QED BY <1>1, <1>4, <2>1, ElsewhereStep DEF AdminInv
<1>7. ASSUME NEW s \in Applied(ma.srv, f.act, f.k, f.on), ma' = [[ma EXCEPT !.strays = st] EXCEPT !.srv = s, !.others = TRUE]
      PROVE  AdminStepOK
  <2>1. Follows(ma.srv, s)
    BY <1>1, <1>3, AppliedOK DEF AdminInv
  <2>2. ma' = [ma EXCEPT !.srv = s, !.others = TRUE, !.rotated = ma.rotated, !.n = ma.n, !.strays = st]
    BY <1>1, <1>7 DEF AdminStates
  <2> QED BY <1>1, <1>4, <2>1, <2>2, ElsewhereStep DEF Follows
<1> QED BY <1>5, <1>6, <1>7

LEMMA AdminStays == ASSUME AdminInv, ma' = ma PROVE AdminStepOK
<1>1. AdminInv'
  BY DEF AdminInv, BusyInv, AnswerInv, DialogInv, DialogOK, SeenInv, GateShown, Dashboard, Batched
<1> QED BY <1>1 DEF AdminStepOK, RefusedStep, SurvivalStep, SwitchStep

LEMMA StartIs ==
  ASSUME NEW on, NEW s, ma = AdminStart(on, s)
  PROVE  /\ ma.n = 0 /\ ma.srv = s /\ ma.flights = {} /\ ma.catalog = NoCatalog
         /\ ma.gateBusy = FALSE /\ ma.busy = "none" /\ ma.dash = NoDash
<1>1. ma.n = 0 /\ ma.srv = s /\ ma.flights = {} /\ ma.catalog = NoCatalog
  BY DEF AdminStart
<1>2. ma.gateBusy = FALSE /\ ma.busy = "none" /\ ma.dash = NoDash
  BY DEF AdminStart
<1> QED BY <1>1, <1>2

LEMMA StartTyped ==
  ASSUME NEW on, on \in BOOLEAN, NEW s \in Servers, NEW none \in Servers, NEW dash \in Dashes
  PROVE  [on |-> on, srv |-> s, rotated |-> FALSE, n |-> 0, others |-> FALSE, key |-> "", stored |-> "",
          catalog |-> none, gateBusy |-> FALSE, gateError |-> FALSE, busy |-> "none", notice |-> "none",
          dash |-> dash, flights |-> {}, strays |-> {}, lost |-> FALSE] \in AdminStates
<1>1. "" \in Keys /\ {} \in StraySets
  BY DEF Keys, StraySets
<1> QED BY <1>1 DEF AdminStates

LEMMA AdminBegins ==
  ASSUME NEW on \in BOOLEAN, NEW s \in {Fresh} \cup Imported(Fresh), ma = AdminStart(on, s)
  PROVE  AdminInv
<1>1. Fresh \in Servers /\ ~Fresh.batch /\ NoCatalog \in Servers /\ NoDash \in Dashes
  <2>1. Gone \in Rows
    BY DEF Gone, Rows
  <2> QED BY <2>1 DEF Fresh, Servers, NoCatalog, NoDash, Dashes
<1>2. s \in Servers /\ Batched(s)
  BY <1>1, ImportedOK DEF Follows, Batched
<1>4. ma \in AdminStates
  BY <1>1, <1>2, StartTyped DEF AdminStart
<1>5. ma.n = 0 /\ ma.srv = s /\ ma.flights = {} /\ ma.catalog = NoCatalog
  BY StartIs
<1>6. ma.gateBusy = FALSE /\ ma.busy = "none" /\ ma.dash = NoDash
  BY StartIs
<1>7. BusyInv /\ AnswerInv /\ SeenInv
  BY <1>5, <1>6 DEF BusyInv, AnswerInv, SeenInv, Dashboard, GateShown
<1>8. DialogInv
  <2>1. NoDash.saving = FALSE /\ NoDash.editor = "none" /\ NoDash.pending = "none"
    BY DEF NoDash
  <2> QED BY <1>6, <2>1 DEF DialogInv, DialogOK
<1>9. ma.n <= MaxEdits
  BY <1>5, EditsAssumption
<1> QED BY <1>2, <1>4, <1>5, <1>7, <1>8, <1>9 DEF AdminInv

LEMMA AdminStepKeeps ==
  ASSUME AdminInv, [AdminNext]_ma
  PROVE  AdminStepOK
<1>1. CASE ma' = ma
  BY <1>1, AdminStays
<1>2. ASSUME NEW k \in {"good", "bad", ""}, TypeKey(k) PROVE AdminStepOK
  <2>1. k \in Keys
    BY DEF Keys
  <2> QED BY <1>2, <2>1, ScreenSteps1
<1>3. CASE SubmitKey \/ ReloadConsole \/ LockConsole
  BY <1>3, SubmitStep, ReloadStep, LockStep
<1>4. ASSUME NEW p \in {"models", "upstreams", "archived"}, SwitchPane(p) PROVE AdminStepOK
  BY <1>4, ScreenSteps1
<1>5. ASSUME NEW k \in {"model", "upstream"}, SelectRow(k) PROVE AdminStepOK
  BY <1>5, ScreenSteps1
<1>6. CASE TypeQuery
  BY <1>6, ScreenSteps1
<1>7. CASE RefreshCatalog \/ SaveEditor \/ ConfirmPending
  BY <1>7, RequestSteps
<1>8. ASSUME NEW k \in Kinds, ToggleRow(k) PROVE AdminStepOK
  BY <1>8, RequestSteps
<1>9. ASSUME NEW k \in Kinds, OpenEditor(k) \/ AskArchive(k) \/ AskRestore(k) PROVE AdminStepOK
  BY <1>9, DialogSteps
<1>10. CASE CloseEditor \/ CancelPending
  BY <1>10, DialogSteps
<1>11. ASSUME NEW act \in {"toggle-catalog", "import-environment"}, AskConfirmation(act) PROVE AdminStepOK
  BY <1>11, DialogSteps
<1>12. ASSUME NEW f \in ma.flights, ServeAdmin(f) \/ LoseRequest(f) \/ OpenAnswered(f) \/ MutationAnswered(f)
       PROVE  AdminStepOK
  BY <1>12, ServeStep, LoseStep, OpenAnsweredStep, MutationAnsweredStep
<1>s. ASSUME NEW x \in ma.strays, ServeStray(x[1], x[2]) PROVE AdminStepOK
  BY <1>s, StrayStep
<1>13. CASE OtherAdmin \/ RotateKey
  BY <1>13, OthersStep
<1> QED BY <1>1, <1>2, <1>3, <1>4, <1>5, <1>6, <1>7, <1>8, <1>9, <1>10, <1>11, <1>12, <1>13, <1>s DEF AdminNext

LEMMA AdminFollows == ASSUME AdminInv PROVE AdminTypeOK /\ OneAtATime /\ ConsoleTrue
<1>1. AdminTypeOK
  <2>1. /\ ma.n \in Nat /\ ma.n <= MaxEdits /\ ma.key \in Keys /\ ma.stored \in {"", "good"}
        /\ ma.notice \in {"none", "error"}
    BY AdminTyped DEF AdminInv
  <2>2. ma.n \in 0..MaxEdits
    <3>1. MaxEdits \in Nat
      BY EditsAssumption
    <3>2. ma.n \in Nat /\ ma.n <= MaxEdits
      BY <2>1
    <3> QED BY <3>1, <3>2
  <2>3. ma.key \in {"", "good", "bad"}
    BY <2>1 DEF Keys
  <2> QED BY <2>1, <2>2, <2>3 DEF AdminTypeOK
<1>2. OneAtATime
  <2>1. CASE ma.flights = {}
    <3>1. Cardinality(ma.flights) = 0
      BY <2>1, FS_EmptySet
    <3>2. ~(ma.gateBusy \/ ma.busy # "none")
      BY <2>1 DEF AdminInv, BusyInv
    <3> QED BY <2>1, <3>1, <3>2 DEF OneAtATime
  <2>2. CASE ma.flights # {}
    <3>1. PICK f : ma.flights = {f}
      BY <2>2 DEF AdminInv, BusyInv
    <3>2. Cardinality(ma.flights) = 1
      BY <3>1, FS_Singleton
    <3>3. f \in Flights /\ f \in ma.flights
      BY <3>1, AdminTyped
    <3>4. f.act # "none"
      BY <3>3 DEF Flights, Acts, GateActs, RowActs
    <3>5. ma.gateBusy \/ ma.busy # "none"
      BY <3>3, <3>4 DEF AdminInv, BusyInv
    <3> QED BY <2>2, <3>2, <3>5 DEF OneAtATime
  <2> QED BY <2>1, <2>2
<1>3. ConsoleTrue
  BY DEF AdminInv, SeenInv, ConsoleTrue
<1> QED BY <1>1, <1>2, <1>3

-----------------------------------------------------------------------------

AdminPartsInv == CatalogInv /\ AdminInv

LEMMA PartsBegin == Init => AdminPartsInv
<1> SUFFICES ASSUME Init PROVE AdminPartsInv
  OBVIOUS
<1>1. (\E on \in BOOLEAN : ct = CatalogStart(on))
        /\ \E on \in BOOLEAN, s \in {Fresh} \cup Imported(Fresh) : ma = AdminStart(on, s)
  BY DEF Init
<1> QED BY <1>1, CatalogBegins, AdminBegins DEF AdminPartsInv

LEMMA PartsStep == AdminPartsInv /\ [Next]_vars => AdminPartsInv'
<1> SUFFICES ASSUME AdminPartsInv, [Next]_vars PROVE AdminPartsInv'
  OBVIOUS
<1>1. [CatalogNext]_ct /\ [AdminNext]_ma
  BY DEF Next, vars
<1>2. CatalogInv'
  BY <1>1, CatalogStepKeeps DEF AdminPartsInv
<1>3. AdminInv'
  BY <1>1, AdminStepKeeps DEF AdminPartsInv, AdminStepOK
<1> QED BY <1>2, <1>3 DEF AdminPartsInv

LEMMA PartsAlways == Spec => []AdminPartsInv
<1>1. Init => AdminPartsInv
  BY PartsBegin
<1>2. AdminPartsInv /\ [Next]_vars => AdminPartsInv'
  BY PartsStep
<1> QED BY <1>1, <1>2, PTL DEF Spec

(* A key names one active row; alone, an administrator keeps the rule of    *)
(* the catalog and restores what the confirmation counted; a run keeps its  *)
(* upstream (management.py).  In the console one request runs at a time and *)
(* what is shown is what the service has (ModelAdminPage.runMutation).      *)
THEOREM CatalogAndConsole == Spec => []AdminSound
<1>1. AdminPartsInv => AdminSound
  BY CatalogFollows, AdminFollows DEF AdminPartsInv, AdminSound
<1> QED BY <1>1, PartsAlways, PTL

(* A restored model brings back no route that was archived by itself        *)
(* (_restore_chat_model); a refused key and what it opened are forgotten    *)
(* (rejectAccess), a failed save keeps its editor (runMutation), and a      *)
(* catalog is switched on with a model to serve                             *)
(* (set_database_catalog_enabled).                                          *)
THEOREM CatalogAndConsoleSteps == Spec => AdminSteps
<1>1. AdminPartsInv /\ [Next]_vars =>
        [~ct.overlap /\ (\E m \in Archived(ct.models) : m \in Live(ct'.models)) => Live(ct'.routes) \cap ct.solo = {}]_ct
  <2> SUFFICES ASSUME AdminPartsInv, [Next]_vars, ct' # ct, ~ct.overlap,
                      NEW m \in Archived(ct.models), m \in Live(ct'.models)
               PROVE  Live(ct'.routes) \cap ct.solo = {}
    OBVIOUS
  <2>1. CatalogNext
    BY DEF Next, vars
  <2> QED BY <2>1, SoloStep DEF AdminPartsInv
<1>2. AdminPartsInv /\ [Next]_vars => RefusedStep /\ SurvivalStep /\ SwitchStep
  <2>1. [Next]_vars => [AdminNext]_ma
    BY DEF Next, vars
  <2> QED BY <2>1, AdminStepKeeps DEF AdminPartsInv, AdminStepOK
<1>3. Spec => SoloStays
  BY <1>1, PartsAlways, PTL DEF Spec, SoloStays
<1>4. Spec => RefusedKeyGone /\ EditorSurvives /\ SwitchedOnServing
  <2>1. AdminPartsInv /\ [Next]_vars =>
          [(\E f \in ma.flights : f.step = "denied" /\ f \notin ma'.flights /\ ma'.flights = {} /\ ma'.gateError)
             => ma'.stored = "" /\ ma'.key = "" /\ ma'.catalog = NoCatalog /\ ma'.dash = NoDash]_ma
    BY <1>2 DEF RefusedStep
  <2>2. AdminPartsInv /\ [Next]_vars =>
          [EditorShell /\ ma'.catalog # NoCatalog /\ ma'.notice = "error" /\ ma.notice # "error"
             => ma'.dash.editor = ma.dash.editor]_ma
    BY <1>2 DEF SurvivalStep
  <2>3. AdminPartsInv /\ [Next]_vars => [~ma.srv.db /\ ma'.srv.db => Available(ma'.srv)]_ma
    BY <1>2 DEF SwitchStep
  <2> QED BY <2>1, <2>2, <2>3, PartsAlways, PTL DEF Spec, RefusedKeyGone, EditorSurvives, SwitchedOnServing
<1> QED BY <1>3, <1>4 DEF AdminSteps

-----------------------------------------------------------------------------
(* A file in parts.                                                         *)

(* MultipartPut.  A part below the cursor is put or complete, so that       *)
(* nothing is left when the workers are done.                               *)
WorkerStates == [pc : {"next", "put", "wait", "done", "dead"}, part : 0..Parts,
                 attempt : 0..(Attempts - 1)]
PutStates ==
  [on : BOOLEAN, cursor : 0..Parts, worker : [W -> WorkerStates],
   loaded : [1..Parts -> 0..2], completed : Seq(1..Parts), signal : BOOLEAN,
   outcome : {"none", "ok", "failed", "aborted"}]
Holds(m, w, p) == m.worker[w].pc \in {"put", "wait"} /\ m.worker[w].part = p
Complete(m, p) == \E i \in 1..Len(m.completed) : m.completed[i] = p

PutOnce(m) ==
  /\ \A w \in W : m.worker[w].pc \in {"put", "wait"} =>
       m.worker[w].part \in 1..m.cursor /\ ~Complete(m, m.worker[w].part)
  /\ \A v, w \in W : \A p \in 1..Parts : Holds(m, v, p) /\ Holds(m, w, p) => v = w
  /\ \A i, j \in 1..Len(m.completed) : m.completed[i] = m.completed[j] => i = j
PutCounted(m) ==
  \A i \in 1..Len(m.completed) : m.completed[i] <= m.cursor /\ m.loaded[m.completed[i]] = 2
PutLeft(m) ==
  /\ \A w \in W : /\ m.worker[w].pc = "dead" => m.outcome \in {"failed", "aborted"}
                  /\ m.worker[w].pc = "done" => m.cursor = Parts
  /\ m.outcome \notin {"failed", "aborted"} =>
       \A p \in 1..m.cursor : Complete(m, p) \/ \E w \in W : Holds(m, w, p)
  /\ m.outcome = "ok" => /\ \A w \in W : m.worker[w].pc = "done"
                         /\ m.completed = [i \in 1..Parts |-> i]
PutGood(m) == m \in PutStates /\ PutOnce(m) /\ PutCounted(m) /\ PutLeft(m)
PutInv == PutGood(mp)

(* Ascending numbers that leave none out are the numbers themselves.        *)
LEMMA Ascending ==
  ASSUME NEW n \in Nat, NEW t \in [1..n -> 1..n],
         \A i, j \in 1..n : i < j => t[i] < t[j], \A k \in 1..n : \E i \in 1..n : t[i] = k
  PROVE  t = [i \in 1..n |-> i]
<1> DEFINE Bad == {i \in 1..n : t[i] # i}
<1>1. Bad = {}
  <2> SUFFICES ASSUME Bad # {} PROVE FALSE
    OBVIOUS
  <2>1. PICK i \in Bad : \A j \in Bad : i <= j
    <3>1. Bad \subseteq Nat OBVIOUS
    <3>2. \E x \in Bad : \A y \in Bad : ~(<<y, x>> \in OpToRel(<, Nat))
      <4> HIDE DEF Bad
      <4> QED BY <3>1, NatLessThanWellFounded, WFMin
    <3>3. PICK x \in Bad : \A y \in Bad : ~(<<y, x>> \in OpToRel(<, Nat))
      BY <3>2
    <3>4. ASSUME NEW y \in Bad PROVE x <= y
      <4>1. x \in Nat /\ y \in Nat BY <3>1
      <4>2. ~(y < x) BY <3>3, <4>1 DEF OpToRel
      <4> QED BY <4>1, <4>2
    <3> QED BY <3>4
  <2>2. \A j \in 1..n : j < i => t[j] = j BY <2>1
  <2>3. i \in 1..n /\ t[i] # i /\ t[i] \in 1..n BY <2>1
  <2>4. PICK k \in 1..n : t[k] = i BY <2>3
  <2>5. k # i /\ ~(k < i) BY <2>2, <2>3, <2>4
  <2>6. t[i] < i BY <2>3, <2>4, <2>5
  <2>7. t[t[i]] = t[i] BY <2>2, <2>3, <2>6
  <2> QED BY <2>3, <2>6, <2>7
<1> QED BY <1>1

(* Sorting numbers 1..n that come once each gives 1..n.                     *)
LEMMA InOrderGives ==
  ASSUME NEW n \in Nat, NEW s \in Seq(1..n),
         \A i, j \in 1..Len(s) : s[i] = s[j] => i = j,
         \A k \in 1..n : \E i \in 1..Len(s) : s[i] = k
  PROVE  InOrder(s) = [i \in 1..n |-> i]
<1>1. Len(s) = n /\ DOMAIN s = 1..n /\ s \in [1..n -> 1..n]
  <2>1. s \in Bijection(1..Len(s), 1..n)
    <3>1. s \in [1..Len(s) -> 1..n] /\ DOMAIN s = 1..Len(s) BY LenProperties
    <3>2. IsInjective(s) BY <3>1 DEF IsInjective
    <3> QED BY <3>1, <3>2 DEF Bijection, Injection, Surjection
  <2>2. Len(s) \in Nat /\ Len(s) \in Int /\ n \in Int /\ 1 \in Int OBVIOUS
  <2>3. IsFiniteSet(1..Len(s)) /\ Cardinality(1..Len(s)) = Len(s) /\ Cardinality(1..n) = n
    <3>1. /\ IsFiniteSet(1..Len(s)) /\ Cardinality(1..Len(s)) = IF 1 > Len(s) THEN 0 ELSE Len(s) - 1 + 1
          /\ Cardinality(1..n) = IF 1 > n THEN 0 ELSE n - 1 + 1
      BY <2>2, FS_Interval
    <3> QED BY <2>2, <3>1
  <2>4. ExistsBijection(1..Len(s), 1..n) BY <2>1 DEF ExistsBijection
  <2>5. Len(s) = n BY <2>3, <2>4, FS_Bijection
  <2> QED BY <2>5, LenProperties
<1> DEFINE Good(t) == \A i, j \in 1..n : i < j => t[i] <= t[j]
           All == {[i \in 1..n |-> s[p[i]]] : p \in Bijection(1..n, 1..n)}
           q == [k \in 1..n |-> CHOOSE i \in 1..n : s[i] = k]
<1>2. \A k \in 1..n : q[k] \in 1..n /\ s[q[k]] = k BY <1>1
<1>3. q \in Bijection(1..n, 1..n)
  <2>1. q \in [1..n -> 1..n] BY <1>2
  <2>2. \A i, j \in 1..n : q[i] = q[j] => i = j BY <1>2
  <2>3. \A i \in 1..n : q[s[i]] = i
    <3> SUFFICES ASSUME NEW i \in 1..n PROVE q[s[i]] = i OBVIOUS
    <3>1. s[i] \in 1..n BY <1>1
    <3>2. s[q[s[i]]] = s[i] /\ q[s[i]] \in 1..n BY <1>2, <3>1
    <3> HIDE DEF q
    <3> QED BY <1>1, <3>2
  <2>4. \A i \in 1..n : \E k \in 1..n : q[k] = i
    <3> HIDE DEF q
    <3> QED BY <1>1, <2>3
  <2> HIDE DEF q
  <2> QED BY <2>1, <2>2, <2>4 DEF Bijection, Injection, Surjection, IsInjective
<1>4. [i \in 1..n |-> s[q[i]]] \in All /\ Good([i \in 1..n |-> s[q[i]]])
  <2>1. \A k \in 1..n : [i \in 1..n |-> s[q[i]]][k] = k
    <3> HIDE DEF q
    <3> QED BY <1>2
  <2>2. [i \in 1..n |-> s[q[i]]] \in All
    <3> HIDE DEF q
    <3> QED BY <1>3
  <2> DEFINE u == [i \in 1..n |-> s[q[i]]]
  <2>3. Good(u)
    <3> SUFFICES ASSUME NEW i \in 1..n, NEW j \in 1..n, i < j PROVE u[i] <= u[j] OBVIOUS
    <3>1. u[i] = i /\ u[j] = j BY <2>1
    <3> HIDE DEF u
    <3> QED BY <3>1
  <2> QED BY <2>2, <2>3
<1>5. InOrder(s) \in All /\ Good(InOrder(s))
  <2>1. InOrder(s) = CHOOSE t \in All : Good(t) BY <1>1 DEF InOrder
  <2> HIDE DEF All, Good, q
  <2> QED BY <1>4, <2>1
<1>6. PICK p \in Bijection(1..n, 1..n) : InOrder(s) = [i \in 1..n |-> s[p[i]]] BY <1>5
<1>7. p \in [1..n -> 1..n] /\ (\A i, j \in 1..n : p[i] = p[j] => i = j)
      /\ \A k \in 1..n : \E i \in 1..n : p[i] = k
  BY DEF Bijection, Injection, Surjection, IsInjective
<1> DEFINE t == [i \in 1..n |-> s[p[i]]]
<1>8. t \in [1..n -> 1..n] BY <1>1, <1>7
<1>9. \A i, j \in 1..n : i < j => t[i] < t[j]
  <2> SUFFICES ASSUME NEW i \in 1..n, NEW j \in 1..n, i < j PROVE t[i] < t[j] OBVIOUS
  <2>1. p[i] \in 1..n /\ p[j] \in 1..n /\ p[i] # p[j] BY <1>7
  <2>2. s[p[i]] # s[p[j]] /\ s[p[i]] \in 1..n /\ s[p[j]] \in 1..n BY <1>1, <2>1
  <2>3. s[p[i]] <= s[p[j]]
    <3>1. InOrder(s)[i] <= InOrder(s)[j] BY <1>5
    <3> QED BY <1>6, <3>1
  <2>4. s[p[i]] < s[p[j]]
    <3>1. \A a, b \in 1..n : a # b /\ a <= b => a < b OBVIOUS
    <3> QED BY <2>2, <2>3, <3>1
  <2> QED BY <2>4
<1>10. \A k \in 1..n : \E i \in 1..n : t[i] = k
  <2> SUFFICES ASSUME NEW k \in 1..n PROVE \E i \in 1..n : t[i] = k OBVIOUS
  <2>1. PICK i \in 1..n : s[i] = k BY <1>1
  <2>2. PICK j \in 1..n : p[j] = i BY <1>7
  <2> QED BY <2>1, <2>2
<1>11. InOrder(s) = t BY <1>6
<1> HIDE DEF t
<1> QED BY <1>8, <1>9, <1>10, <1>11, Ascending

(* A file that is not begun keeps the invariant.                            *)
LEMMA PutBegins == ASSUME NEW on \in BOOLEAN, mp = PutStart(on) PROVE PutInv
<1> USE PutAssumption
<1>1. Parts \in Nat \ {0} /\ Workers \in Nat \ {0} /\ Attempts \in Nat \ {0} OBVIOUS
<1>2. mp \in PutStates BY <1>1 DEF PutStart, PutStates, WorkerStates
<1>3. mp.cursor = 0 /\ mp.completed = <<>> /\ Len(mp.completed) = 0 /\ mp.outcome = "none"
      /\ \A w \in W : mp.worker[w].pc = "next"
  BY DEF PutStart
<1>4. PutOnce(mp) /\ PutCounted(mp) /\ PutLeft(mp)
  BY <1>3 DEF PutOnce, PutCounted, PutLeft, Complete, Holds
<1> QED BY <1>2, <1>4 DEF PutInv, PutGood

(* What the put promises follows.                                           *)
LEMMA PutHolds == PutInv => PutTypeOK /\ PartsOnce /\ ConfirmedWhole
<1> SUFFICES ASSUME PutInv PROVE PutTypeOK /\ PartsOnce /\ ConfirmedWhole OBVIOUS
<1> USE PutAssumption
<1>1. mp \in PutStates /\ PutOnce(mp) /\ PutCounted(mp) /\ PutLeft(mp) BY DEF PutInv, PutGood
<1>2. Parts \in Nat /\ mp.cursor \in 0..Parts /\ mp.completed \in Seq(1..Parts)
  BY <1>1 DEF PutStates
<1>3. PutTypeOK BY <1>1 DEF PutStates, WorkerStates, PutTypeOK
<1>4. PartsOnce
  <2>1. \A p : p \in Range(mp.completed) => Complete(mp, p)
    <3>1. DOMAIN mp.completed = 1..Len(mp.completed) BY <1>2
    <3> QED BY <3>1 DEF Range, Complete
  <2>2. \A w \in W : mp.worker[w].pc \in {"put", "wait"} => mp.worker[w].part \in 1..Parts
    BY <1>1, <1>2 DEF PutOnce
  <2> QED BY <1>1, <2>1, <2>2 DEF PutOnce, PartsOnce, Holds
<1>5. ConfirmedWhole
  <2> SUFFICES ASSUME mp.outcome = "ok"
               PROVE mp.completed = [i \in 1..Parts |-> i] /\ \A p \in 1..Parts : mp.loaded[p] = 2
    BY DEF ConfirmedWhole
  <2>1. mp.completed = [i \in 1..Parts |-> i] BY <1>1 DEF PutLeft
  <2>2. Len(mp.completed) = Parts
    <3>1. DOMAIN mp.completed = 1..Parts BY <2>1
    <3>2. DOMAIN mp.completed = 1..Len(mp.completed) /\ Len(mp.completed) \in Nat BY <1>2
    <3> QED BY <3>1, <3>2, <1>2
  <2> QED BY <1>1, <2>1, <2>2 DEF PutCounted
<1> QED BY <1>3, <1>4, <1>5

(* One worker moves and the parts that are complete stay.                   *)
LEMMA WorkerMoves ==
  ASSUME PutInv, NEW w \in W, NEW x, NEW m, m \in PutStates,
         m.worker = [mp.worker EXCEPT ![w] = x], m.completed = mp.completed,
         m.cursor = mp.cursor \/ (m.cursor = mp.cursor + 1 /\ x.pc = "put" /\ x.part = m.cursor),
         m.cursor = mp.cursor =>
           /\ x.pc \in {"put", "wait"} => mp.worker[w].pc \in {"put", "wait"} /\ x.part = mp.worker[w].part
           /\ x.pc \notin {"put", "wait", "dead"} => mp.worker[w].pc \notin {"put", "wait"}
           /\ x.pc = "done" => mp.cursor = Parts,
         m.cursor # mp.cursor => mp.worker[w].pc \notin {"put", "wait"},
         x.pc = "dead" => m.outcome # "none",
         mp.worker[w].pc # "done",
         m.outcome = mp.outcome \/ (mp.outcome = "none" /\ m.outcome \in {"failed", "aborted"}),
         \A p \in 1..Parts : m.loaded[p] = mp.loaded[p] \/ Holds(mp, w, p)
  PROVE  PutGood(m)
<1> USE PutAssumption
<1>1. mp \in PutStates /\ PutOnce(mp) /\ PutCounted(mp) /\ PutLeft(mp) BY DEF PutInv, PutGood
<1>2. /\ Parts \in Nat /\ mp.cursor \in 0..Parts /\ m.cursor \in 0..Parts
      /\ mp.completed \in Seq(1..Parts) /\ Len(mp.completed) \in Nat
      /\ mp.outcome \in {"none", "ok", "failed", "aborted"}
  BY <1>1 DEF PutStates
<1>3. m.worker[w] = x /\ \A v \in W \ {w} : m.worker[v] = mp.worker[v]
  <2>1. DOMAIN mp.worker = W BY <1>1 DEF PutStates
  <2> QED BY <2>1
<1>4. mp.outcome # "ok" BY <1>1 DEF PutLeft
<1>5. \A p : Complete(m, p) <=> Complete(mp, p) BY DEF Complete
<1>6. \A p : Complete(mp, p) => p <= mp.cursor BY <1>1 DEF Complete, PutCounted
<1>7. \A v \in W : \A p : v # w => (Holds(m, v, p) <=> Holds(mp, v, p)) BY <1>3 DEF Holds
<1>8. \A p : Holds(mp, w, p) => ~Complete(mp, p) /\ p \in 1..mp.cursor BY <1>1 DEF PutOnce, Holds
<1>9. \A p : Holds(m, w, p) => Holds(mp, w, p) \/ (p = m.cursor /\ m.cursor = mp.cursor + 1)
  BY <1>3 DEF Holds
<1>10. PutOnce(m)
  <2>1. \A v \in W : m.worker[v].pc \in {"put", "wait"} =>
          m.worker[v].part \in 1..m.cursor /\ ~Complete(m, m.worker[v].part)
    <3> SUFFICES ASSUME NEW v \in W, m.worker[v].pc \in {"put", "wait"}
                 PROVE m.worker[v].part \in 1..m.cursor /\ ~Complete(m, m.worker[v].part)
      OBVIOUS
    <3>1. CASE v # w BY <1>1, <1>2, <1>3, <1>5, <3>1 DEF PutOnce
    <3>2. CASE v = w
      <4>1. Holds(m, w, m.worker[w].part) BY <3>2 DEF Holds
      <4>2. CASE Holds(mp, w, m.worker[w].part) BY <1>2, <1>5, <1>8, <3>2, <4>2
      <4>3. CASE m.worker[w].part = m.cursor /\ m.cursor = mp.cursor + 1
        <5>1. ~(m.cursor <= mp.cursor) BY <1>2, <4>3
        <5> QED BY <1>2, <1>5, <1>6, <3>2, <4>3, <5>1
      <4> QED BY <1>9, <4>1, <4>2, <4>3
    <3> QED BY <3>1, <3>2
  <2>2. ASSUME NEW v \in W, NEW u \in W, NEW p \in 1..Parts, Holds(m, v, p), Holds(m, u, p) PROVE v = u
    <3>1. \A z \in W : Holds(mp, z, p) => p <= mp.cursor BY <1>1, <1>2 DEF PutOnce, Holds
    <3>2. CASE p = m.cursor /\ m.cursor = mp.cursor + 1
      <4>1. ~(p <= mp.cursor) BY <1>2, <3>2
      <4> QED BY <1>7, <2>2, <3>1, <4>1
    <3>3. CASE ~(p = m.cursor /\ m.cursor = mp.cursor + 1)
      <4>1. Holds(mp, v, p) /\ Holds(mp, u, p) BY <1>7, <1>9, <2>2, <3>3
      <4> QED BY <1>1, <4>1 DEF PutOnce
    <3> QED BY <3>2, <3>3
  <2>3. \A i, j \in 1..Len(m.completed) : m.completed[i] = m.completed[j] => i = j
    BY <1>1 DEF PutOnce
  <2> QED BY <2>1, <2>2, <2>3 DEF PutOnce
<1>11. PutCounted(m)
  <2> SUFFICES ASSUME NEW i \in 1..Len(m.completed)
               PROVE m.completed[i] <= m.cursor /\ m.loaded[m.completed[i]] = 2
    BY DEF PutCounted
  <2>1. mp.completed[i] \in 1..Parts /\ mp.completed[i] <= mp.cursor /\ mp.loaded[mp.completed[i]] = 2
    BY <1>1, <1>2 DEF PutCounted
  <2>2. Complete(mp, mp.completed[i]) BY DEF Complete
  <2>3. m.loaded[mp.completed[i]] = mp.loaded[mp.completed[i]] BY <1>8, <2>1, <2>2
  <2> QED BY <1>2, <2>1, <2>3
<1>12. PutLeft(m)
  <2>1. \A v \in W : /\ m.worker[v].pc = "dead" => m.outcome \in {"failed", "aborted"}
                     /\ m.worker[v].pc = "done" => m.cursor = Parts
    <3> SUFFICES ASSUME NEW v \in W
                 PROVE /\ m.worker[v].pc = "dead" => m.outcome \in {"failed", "aborted"}
                       /\ m.worker[v].pc = "done" => m.cursor = Parts
      OBVIOUS
    <3>1. CASE v # w BY <1>1, <1>2, <1>3, <3>1 DEF PutLeft
    <3>2. CASE v = w BY <1>2, <1>3, <1>4, <3>2
    <3> QED BY <3>1, <3>2
  <2>2. ASSUME m.outcome \notin {"failed", "aborted"}, NEW p \in 1..m.cursor
        PROVE  Complete(m, p) \/ \E v \in W : Holds(m, v, p)
    <3>1. x.pc # "dead" BY <1>2, <1>4, <2>2
    <3>2. CASE p \in 1..mp.cursor
      <4>1. Complete(mp, p) \/ \E v \in W : Holds(mp, v, p) BY <1>1, <2>2, <3>2 DEF PutLeft
      <4>2. Holds(mp, w, p) => Holds(m, w, p) BY <1>3, <3>1 DEF Holds
      <4> QED BY <1>5, <1>7, <4>1, <4>2
    <3>3. CASE p \notin 1..mp.cursor
      <4>1. p = m.cursor /\ m.cursor = mp.cursor + 1 BY <1>2, <3>3
      <4>2. m.cursor # mp.cursor BY <1>2, <4>1
      <4> QED BY <1>3, <4>1, <4>2 DEF Holds
    <3> QED BY <3>2, <3>3
  <2>3. m.outcome # "ok" BY <1>4
  <2> QED BY <2>1, <2>2, <2>3 DEF PutLeft
<1> QED BY <1>10, <1>11, <1>12 DEF PutGood

(* The workers, the removal and the confirmation keep it.                   *)
LEMMA PutStepKeeps == ASSUME PutInv, PutNext PROVE PutInv'
<1> USE PutAssumption
<1>1. mp \in PutStates /\ PutOnce(mp) /\ PutCounted(mp) /\ PutLeft(mp) BY DEF PutInv, PutGood
<1>2. /\ Parts \in Nat \ {0} /\ Attempts \in Nat \ {0} /\ mp.cursor \in 0..Parts
      /\ mp.completed \in Seq(1..Parts) /\ Len(mp.completed) \in Nat
      /\ mp.outcome \in {"none", "ok", "failed", "aborted"} /\ mp.signal \in BOOLEAN
      /\ mp.worker \in [W -> WorkerStates] /\ mp.loaded \in [1..Parts -> 0..2] /\ DOMAIN mp.worker = W
  BY <1>1 DEF PutStates
<1>w. \A w \in W : \A pc \in {"next", "put", "wait", "done", "dead"} :
        [mp.worker EXCEPT ![w].pc = pc] \in [W -> WorkerStates]
  BY <1>2 DEF WorkerStates
<1>l. \A p \in 1..Parts : \A b \in 0..2 : [mp.loaded EXCEPT ![p] = b] \in [1..Parts -> 0..2]
  BY <1>2
<1>3. \A w \in W : mp.worker[w].pc \in {"put", "wait"} => mp.worker[w].part \in 1..Parts
  BY <1>1, <1>2 DEF PutOnce
<1>4. ASSUME NEW w \in W, UploadNext(w) PROVE PutInv'
  <2>1. CASE mp.cursor < Parts
    <3> DEFINE x == [pc |-> "put", part |-> mp.cursor + 1, attempt |-> 0]
    <3>1. mp' = [[mp EXCEPT !.worker[w] = x] EXCEPT !.cursor = @ + 1]
      BY <1>4, <2>1 DEF UploadNext, Set
    <3>a. x \in WorkerStates /\ mp.cursor + 1 \in 0..Parts BY <1>2, <2>1 DEF WorkerStates
    <3>b. [mp.worker EXCEPT ![w] = x] \in [W -> WorkerStates] BY <1>2, <3>a
    <3> HIDE DEF x
    <3>2. mp' \in PutStates BY <1>1, <3>1, <3>a, <3>b DEF PutStates
    <3>3. /\ mp'.worker = [mp.worker EXCEPT ![w] = x] /\ mp'.completed = mp.completed
          /\ mp'.cursor = mp.cursor + 1 /\ mp'.loaded = mp.loaded /\ mp'.outcome = mp.outcome
      BY <1>1, <3>1 DEF PutStates
    <3>4. mp.worker[w].pc = "next" BY <1>4 DEF UploadNext
    <3>5. mp.cursor + 1 # mp.cursor /\ x.pc = "put" /\ x.part = mp.cursor + 1 BY <1>2 DEF x
    <3> QED BY <3>2, <3>3, <3>4, <3>5, WorkerMoves DEF PutInv
  <2>2. CASE ~(mp.cursor < Parts)
    <3> DEFINE x == [mp.worker[w] EXCEPT !.pc = "done"]
    <3>1. mp' = [mp EXCEPT !.worker[w] = x]
      BY <1>4, <2>2 DEF UploadNext, Set
    <3>a. x \in WorkerStates BY <1>2 DEF WorkerStates
    <3>b. [mp.worker EXCEPT ![w] = x] \in [W -> WorkerStates] BY <1>2, <3>a
    <3>2. mp' \in PutStates BY <1>1, <3>1, <3>b DEF PutStates
    <3>3. /\ mp'.worker = [mp.worker EXCEPT ![w] = x] /\ mp'.completed = mp.completed
          /\ mp'.cursor = mp.cursor /\ mp'.loaded = mp.loaded /\ mp'.outcome = mp.outcome
      BY <1>1, <3>1 DEF PutStates
    <3>4. mp.worker[w].pc = "next" /\ mp.cursor = Parts /\ x.pc = "done"
      BY <1>2, <1>4, <2>2 DEF UploadNext, WorkerStates
    <3> QED BY <3>2, <3>3, <3>4, WorkerMoves DEF PutInv
  <2> QED BY <2>1, <2>2
<1>5. ASSUME NEW w \in W, PutProgress(w) PROVE PutInv'
  <2> DEFINE x == mp.worker[w]  p == x.part
  <2>1. mp' = [mp EXCEPT !.loaded[p] = 1] /\ x.pc = "put" BY <1>5 DEF PutProgress
  <2>2. p \in 1..Parts BY <1>3, <2>1
  <2>3. mp' \in PutStates
    <3>1. [mp.loaded EXCEPT ![p] = 1] \in [1..Parts -> 0..2] BY <1>l, <2>2
    <3> QED BY <1>1, <2>1, <3>1 DEF PutStates
  <2>4. /\ mp'.worker = [mp.worker EXCEPT ![w] = x] /\ mp'.completed = mp.completed
        /\ mp'.cursor = mp.cursor /\ mp'.loaded = [mp.loaded EXCEPT ![p] = 1] /\ mp'.outcome = mp.outcome
    BY <1>1, <1>2, <2>1 DEF PutStates
  <2>5. \A q \in 1..Parts : mp'.loaded[q] = mp.loaded[q] \/ Holds(mp, w, q)
    BY <1>2, <2>1, <2>4 DEF Holds
  <2> QED BY <2>1, <2>3, <2>4, <2>5, WorkerMoves DEF PutInv
<1>6. ASSUME NEW w \in W, PutDone(w) PROVE PutInv'
  <2> DEFINE p == mp.worker[w].part
  <2>1. mp.worker[w].pc = "put"
        /\ mp' = [mp EXCEPT !.worker[w].pc = "next", !.loaded[p] = 2, !.completed = Append(@, p)]
    BY <1>6 DEF PutDone
  <2>2. p \in 1..Parts /\ p <= mp.cursor /\ ~Complete(mp, p) /\ Holds(mp, w, p)
    BY <1>1, <1>2, <2>1 DEF PutOnce, Holds
  <2>3. mp' \in PutStates
    <3>1. [mp.loaded EXCEPT ![p] = 2] \in [1..Parts -> 0..2] BY <1>l, <2>2
    <3>2. [mp.worker EXCEPT ![w].pc = "next"] \in [W -> WorkerStates] BY <1>w
    <3>3. Append(mp.completed, p) \in Seq(1..Parts) BY <1>2, <2>2
    <3> HIDE DEF p
    <3> QED BY <1>1, <2>1, <3>1, <3>2, <3>3 DEF PutStates
  <2>4. /\ mp'.worker = [mp.worker EXCEPT ![w].pc = "next"] /\ mp'.completed = Append(mp.completed, p)
        /\ mp'.cursor = mp.cursor /\ mp'.loaded = [mp.loaded EXCEPT ![p] = 2] /\ mp'.outcome = mp.outcome
    BY <1>1, <2>1 DEF PutStates
  <2>5. /\ Len(mp'.completed) = Len(mp.completed) + 1 /\ mp'.completed[Len(mp.completed) + 1] = p
        /\ \A i \in 1..Len(mp.completed) : mp'.completed[i] = mp.completed[i]
    BY <1>2, <2>2, <2>4
  <2>6. \A i \in 1..Len(mp'.completed) : i \in 1..Len(mp.completed) \/ i = Len(mp.completed) + 1
    BY <1>2, <2>5
  <2>7. \A q : Complete(mp', q) <=> Complete(mp, q) \/ q = p
    <3>1. Len(mp.completed) + 1 \in 1..Len(mp'.completed)
          /\ \A i \in 1..Len(mp.completed) : i \in 1..Len(mp'.completed)
      BY <1>2, <2>5
    <3> QED BY <2>5, <2>6, <3>1 DEF Complete
  <2>8. mp'.worker[w].pc = "next" /\ \A v \in W \ {w} : mp'.worker[v] = mp.worker[v]
    BY <1>2, <2>4
  <2>9. \A v \in W : \A q : Holds(mp', v, q) <=> v # w /\ Holds(mp, v, q) BY <2>8 DEF Holds
  <2>10. \A v \in W : Holds(mp, v, p) => v = w BY <1>1, <2>2 DEF PutOnce
  <2>11. PutOnce(mp')
    <3>1. ASSUME NEW v \in W, mp'.worker[v].pc \in {"put", "wait"}
          PROVE mp'.worker[v].part \in 1..mp'.cursor /\ ~Complete(mp', mp'.worker[v].part)
      <4>1. v # w /\ mp'.worker[v] = mp.worker[v] BY <2>8, <3>1
      <4>2. Holds(mp, v, mp.worker[v].part) BY <3>1, <4>1 DEF Holds
      <4>3. mp.worker[v].part # p BY <2>10, <4>1, <4>2
      <4> QED BY <1>1, <2>4, <2>7, <3>1, <4>1, <4>3 DEF PutOnce
    <3>2. \A v, u \in W : \A q \in 1..Parts : Holds(mp', v, q) /\ Holds(mp', u, q) => v = u
      BY <1>1, <2>9 DEF PutOnce
    <3>3. ASSUME NEW i \in 1..Len(mp'.completed), NEW j \in 1..Len(mp'.completed),
                 mp'.completed[i] = mp'.completed[j]
          PROVE i = j
      <4>1. \A k \in 1..Len(mp.completed) : mp.completed[k] # p BY <2>2 DEF Complete
      <4> QED BY <1>1, <2>5, <2>6, <3>3, <4>1 DEF PutOnce
    <3> QED BY <3>1, <3>2, <3>3 DEF PutOnce
  <2>12. PutCounted(mp')
    <3> SUFFICES ASSUME NEW i \in 1..Len(mp'.completed)
                 PROVE mp'.completed[i] <= mp'.cursor /\ mp'.loaded[mp'.completed[i]] = 2
      BY DEF PutCounted
    <3>1. CASE i \in 1..Len(mp.completed)
      <4>1. mp.completed[i] \in 1..Parts /\ mp.completed[i] <= mp.cursor /\ mp.loaded[mp.completed[i]] = 2
        BY <1>1, <1>2, <3>1 DEF PutCounted
      <4> QED BY <1>2, <2>2, <2>4, <2>5, <3>1, <4>1
    <3>2. CASE i = Len(mp.completed) + 1 BY <1>2, <2>2, <2>4, <2>5, <3>2
    <3> QED BY <2>6, <3>1, <3>2
  <2>13. PutLeft(mp')
    <3>1. \A v \in W : /\ mp'.worker[v].pc = "dead" => mp'.outcome \in {"failed", "aborted"}
                       /\ mp'.worker[v].pc = "done" => mp'.cursor = Parts
      BY <1>1, <2>4, <2>8 DEF PutLeft
    <3>2. ASSUME mp'.outcome \notin {"failed", "aborted"}, NEW q \in 1..mp'.cursor
          PROVE Complete(mp', q) \/ \E v \in W : Holds(mp', v, q)
      <4>1. Complete(mp, q) \/ \E v \in W : Holds(mp, v, q) BY <1>1, <2>4, <3>2 DEF PutLeft
      <4>2. Holds(mp, w, q) => q = p BY DEF Holds
      <4> QED BY <2>7, <2>9, <4>1, <4>2
    <3>3. mp'.outcome # "ok" BY <1>1, <2>1, <2>4 DEF PutLeft
    <3> QED BY <3>1, <3>2, <3>3 DEF PutLeft
  <2> QED BY <2>3, <2>11, <2>12, <2>13 DEF PutInv, PutGood
<1>7. ASSUME NEW w \in W, mp.worker[w].pc \in {"put", "wait"}, NEW o \in {"failed", "aborted"},
             mp' = Dead(mp, w, o)
      PROVE PutInv'
  <2> DEFINE x == [mp.worker[w] EXCEPT !.pc = "dead"]
  <2>1. mp' = [mp EXCEPT !.worker[w].pc = "dead", !.outcome = IF @ = "none" THEN o ELSE @]
    BY <1>7 DEF Dead
  <2>2. mp' \in PutStates
    <3>1. [mp.worker EXCEPT ![w].pc = "dead"] \in [W -> WorkerStates] BY <1>w
    <3> QED BY <1>1, <2>1, <3>1 DEF PutStates
  <2>3. /\ mp'.worker = [mp.worker EXCEPT ![w] = x] /\ mp'.completed = mp.completed
        /\ mp'.cursor = mp.cursor /\ mp'.loaded = mp.loaded
        /\ mp'.outcome = IF mp.outcome = "none" THEN o ELSE mp.outcome
    BY <1>1, <1>2, <2>1 DEF PutStates
  <2>4. x.pc = "dead" BY <1>2 DEF WorkerStates
  <2>5. mp'.outcome # "none" /\ (mp'.outcome = mp.outcome \/ (mp.outcome = "none" /\ mp'.outcome \in {"failed", "aborted"}))
    BY <2>3
  <2> HIDE DEF x
  <2> QED BY <1>7, <2>2, <2>3, <2>4, <2>5, WorkerMoves DEF PutInv
<1>8. ASSUME NEW w \in W, PutFailed(w) PROVE PutInv'
  <2> DEFINE y == mp.worker[w]
             x == [mp.worker[w] EXCEPT !.pc = "wait", !.attempt = @ + 1]
  <2>1. y.pc = "put" BY <1>8 DEF PutFailed
  <2>2. CASE ~(y.attempt + 1 < Attempts) BY <1>7, <1>8, <2>1, <2>2 DEF PutFailed
  <2>3. CASE y.attempt + 1 < Attempts
    <3>1. mp' = [mp EXCEPT !.worker[w].pc = "wait", !.worker[w].attempt = @ + 1, !.loaded[y.part] = 0]
      BY <1>8, <2>3 DEF PutFailed
    <3>2. y.part \in 1..Parts /\ y.attempt + 1 \in 0..(Attempts - 1)
      BY <1>2, <1>3, <2>1, <2>3 DEF WorkerStates
    <3>3. mp' \in PutStates
      <4>1. [mp.loaded EXCEPT ![y.part] = 0] \in [1..Parts -> 0..2] BY <1>l, <3>2
      <4>2. x \in WorkerStates BY <1>2, <3>2 DEF WorkerStates
      <4>3. [mp.worker EXCEPT ![w] = x] \in [W -> WorkerStates] BY <1>2, <4>2
      <4>4. mp' = [mp EXCEPT !.worker = [mp.worker EXCEPT ![w] = x], !.loaded = [mp.loaded EXCEPT ![y.part] = 0]]
        BY <1>1, <1>2, <3>1 DEF PutStates
      <4> HIDE DEF x, y
      <4> QED BY <1>1, <4>1, <4>3, <4>4 DEF PutStates
    <3>4. /\ mp'.worker = [mp.worker EXCEPT ![w] = x] /\ mp'.completed = mp.completed
          /\ mp'.cursor = mp.cursor /\ mp'.loaded = [mp.loaded EXCEPT ![y.part] = 0] /\ mp'.outcome = mp.outcome
      BY <1>1, <1>2, <3>1 DEF PutStates
    <3>5. \A q \in 1..Parts : mp'.loaded[q] = mp.loaded[q] \/ Holds(mp, w, q)
      BY <1>2, <2>1, <3>4 DEF Holds
    <3>6. x.pc = "wait" /\ x.part = y.part BY <1>2 DEF WorkerStates
    <3> HIDE DEF x
    <3> QED BY <2>1, <3>3, <3>4, <3>5, <3>6, WorkerMoves DEF PutInv
  <2> QED BY <2>2, <2>3
<1>9. ASSUME NEW w \in W, Retry(w) PROVE PutInv'
  <2> DEFINE x == [mp.worker[w] EXCEPT !.pc = "put"]
  <2>1. mp.worker[w].pc = "wait" /\ mp' = [mp EXCEPT !.worker[w].pc = "put"] BY <1>9 DEF Retry
  <2>2. mp' \in PutStates
    <3>1. [mp.worker EXCEPT ![w].pc = "put"] \in [W -> WorkerStates] BY <1>w
    <3> QED BY <1>1, <2>1, <3>1 DEF PutStates
  <2>3. /\ mp'.worker = [mp.worker EXCEPT ![w] = x] /\ mp'.completed = mp.completed
        /\ mp'.cursor = mp.cursor /\ mp'.loaded = mp.loaded /\ mp'.outcome = mp.outcome
    BY <1>1, <1>2, <2>1 DEF PutStates
  <2>4. x.pc = "put" /\ x.part = mp.worker[w].part BY <1>2 DEF WorkerStates
  <2> HIDE DEF x
  <2> QED BY <2>1, <2>2, <2>3, <2>4, WorkerMoves DEF PutInv
<1>10. ASSUME NEW w \in W, PutAborted(w) PROVE PutInv'
  BY <1>7, <1>10 DEF PutAborted
<1>11. ASSUME SignalAbort PROVE PutInv'
  <2>1. mp' = [mp EXCEPT !.signal = TRUE] BY <1>11 DEF SignalAbort
  <2>2. mp' \in PutStates BY <1>1, <2>1 DEF PutStates
  <2>3. /\ mp'.worker = mp.worker /\ mp'.completed = mp.completed /\ mp'.cursor = mp.cursor
        /\ mp'.loaded = mp.loaded /\ mp'.outcome = mp.outcome
    BY <1>1, <2>1 DEF PutStates
  <2>4. PutOnce(mp') BY <1>1, <2>3 DEF PutOnce, Complete, Holds
  <2>5. PutCounted(mp') BY <1>1, <2>3 DEF PutCounted
  <2>6. PutLeft(mp') BY <1>1, <2>3 DEF PutLeft, Complete, Holds
  <2> QED BY <2>2, <2>4, <2>5, <2>6 DEF PutInv, PutGood
<1>12. ASSUME ConfirmParts PROVE PutInv'
  <2>1. /\ mp.outcome = "none" /\ \A w \in W : mp.worker[w].pc = "done"
        /\ mp' = [mp EXCEPT !.outcome = "ok", !.completed = InOrder(@)]
    BY <1>12 DEF ConfirmParts
  <2>2. 1 \in W BY DEF W
  <2>3. mp.cursor = Parts BY <1>1, <2>1, <2>2 DEF PutLeft
  <2>4. \A p \in 1..Parts : Complete(mp, p) BY <1>1, <2>1, <2>3 DEF PutLeft, Holds
  <2>5. InOrder(mp.completed) = [i \in 1..Parts |-> i]
    <3>1. \A i, j \in 1..Len(mp.completed) : mp.completed[i] = mp.completed[j] => i = j
      BY <1>1 DEF PutOnce
    <3>2. \A k \in 1..Parts : \E i \in 1..Len(mp.completed) : mp.completed[i] = k
      BY <2>4 DEF Complete
    <3> QED BY <1>2, <3>1, <3>2, InOrderGives
  <2>6. /\ mp'.worker = mp.worker /\ mp'.completed = [i \in 1..Parts |-> i] /\ mp'.cursor = mp.cursor
        /\ mp'.loaded = mp.loaded /\ mp'.outcome = "ok"
    BY <1>1, <2>1, <2>5 DEF PutStates
  <2>7. Len(mp'.completed) = Parts /\ mp'.completed \in Seq(1..Parts)
    <3>1. [i \in 1..Parts |-> i] \in [1..Parts -> 1..Parts] OBVIOUS
    <3>2. mp'.completed \in Seq(1..Parts) BY <1>2, <2>6, <3>1, SeqDef
    <3>3. DOMAIN mp'.completed = 1..Parts BY <2>6
    <3>4. DOMAIN mp'.completed = 1..Len(mp'.completed) /\ Len(mp'.completed) \in Nat BY <3>2
    <3> QED BY <1>2, <3>2, <3>3, <3>4
  <2>8. mp' \in PutStates BY <1>1, <2>1, <2>6, <2>7 DEF PutStates
  <2>9. \A p \in 1..Parts : mp.loaded[p] = 2 BY <1>1, <2>4 DEF Complete, PutCounted
  <2>10. PutOnce(mp') BY <2>1, <2>6, <2>7 DEF PutOnce, Holds
  <2>11. PutCounted(mp') BY <1>2, <2>3, <2>6, <2>7, <2>9 DEF PutCounted
  <2>12. PutLeft(mp')
    <3>1. \A p \in 1..Parts : Complete(mp', p) BY <2>6, <2>7 DEF Complete
    <3> QED BY <2>1, <2>3, <2>6, <3>1 DEF PutLeft
  <2> QED BY <2>8, <2>10, <2>11, <2>12 DEF PutInv, PutGood
<1> QED BY <1>4, <1>5, <1>6, <1>8, <1>9, <1>10, <1>11, <1>12 DEF PutNext, PutStep

-----------------------------------------------------------------------------
(* The card of a file.                                                      *)

(* FileCard.  A request that is under way keeps its entry fresh, since time *)
(* passes between requests only; a text is read by a card that has nothing  *)
(* else to ask for.                                                         *)
Entries == [on : BOOLEAN, age : 0..UrlTtl, ready : BOOLEAN, url : 0..UrlTtl]
CardStates ==
  [kind : {"off", "image", "file", "list", "paste"}, local : BOOLEAN, cache : [Roles -> Entries],
   preview : BOOLEAN, thumbnail : BOOLEAN, asked : {"no", "show", "open"}, downloads : 0..MaxClicks,
   loading : {"none", "preview", "download"}, error : BOOLEAN, open : BOOLEAN, given : 0..UrlTtl,
   text : BOOLEAN, spinner : BOOLEAN, reading : 0..MaxClicks, overlapped : BOOLEAN,
   clicks : 0..MaxClicks]
UsableEntry(e) == e.on /\ e.age < UrlTtl
CacheGood(c) ==
  /\ \A r \in Roles : c.cache[r].url <= c.cache[r].age
  /\ c.asked # "no" => UsableEntry(c.cache["preview"])
  /\ c.downloads > 0 => UsableEntry(c.cache["download"])
  /\ c.given < UrlTtl
LoadingGood(c) ==
  /\ c.loading = "preview" => c.asked # "no"
  /\ c.loading = "download" => c.downloads > 0
  /\ c.downloads + c.reading <= c.clicks
TextGood(c) ==
  /\ c.kind # "paste" => c.reading = 0 /\ ~c.text
  /\ c.kind = "paste" => c.asked = "no" /\ c.downloads = 0
  /\ ~c.overlapped => /\ c.reading > 0 => c.reading = 1 /\ ~c.error /\ ~c.text
                      /\ c.text => ~c.error
CardGood(c) == c \in CardStates /\ CacheGood(c) /\ LoadingGood(c) /\ TextGood(c)
CardInv == CardGood(fc)

(* An entry that is looked for is there and can be used.                    *)
LEMMA CachedUsable ==
  ASSUME CardInv, NEW r \in Roles
  PROVE  /\ CachedReadUrl(r) \in [Roles -> Entries]
         /\ UsableEntry(CachedReadUrl(r)[r])
         /\ \A s \in Roles : /\ s # r => CachedReadUrl(r)[s] = fc.cache[s]
                             /\ CachedReadUrl(r)[s].url <= CachedReadUrl(r)[s].age
<1> USE CardAssumption
<1>1. fc.cache \in [Roles -> Entries] /\ \A s \in Roles : fc.cache[s].url <= fc.cache[s].age
  BY DEF CardInv, CardGood, CardStates, CacheGood
<1>2. CacheTtl \in Nat /\ UrlTtl \in Nat /\ CacheTtl < UrlTtl OBVIOUS
<1>3. CASE Cached(r)
  BY <1>1, <1>2, <1>3 DEF CachedReadUrl, Cached, UsableEntry, Entries
<1>4. CASE ~Cached(r)
  <2> DEFINE e == [NoEntry EXCEPT !.on = TRUE]
  <2>1. e \in Entries /\ UsableEntry(e) /\ e.url <= e.age
    <3>1. 0 \in 0..UrlTtl /\ 0 < UrlTtl BY <1>2
    <3>2. NoEntry \in Entries BY <3>1 DEF Entries, NoEntry
    <3>3. e \in Entries BY <3>2 DEF Entries
    <3>4. e.on /\ e.age = 0 /\ e.url = 0 BY DEF NoEntry
    <3> HIDE DEF e
    <3> QED BY <3>1, <3>3, <3>4 DEF UsableEntry
  <2>2. CachedReadUrl(r) = [fc.cache EXCEPT ![r] = e] BY <1>4 DEF CachedReadUrl
  <2> HIDE DEF e
  <2> QED BY <1>1, <2>1, <2>2
<1> QED BY <1>3, <1>4

(* A card of any kind begins with nothing asked for.                        *)
LEMMA CardBegins ==
  ASSUME NEW kind \in {"off", "image", "file", "list", "paste"}, NEW local \in BOOLEAN,
         fc = CardStart(kind, local)
  PROVE  CardInv
<1> USE CardAssumption
<1>1. CacheTtl \in Nat /\ UrlTtl \in Nat /\ MaxClicks \in Nat /\ CacheTtl < UrlTtl OBVIOUS
<1>2. [r \in Roles |-> NoEntry] \in [Roles -> Entries] /\ \A r \in Roles : [s \in Roles |-> NoEntry][r] = NoEntry
  BY <1>1 DEF NoEntry, Entries
<1>3. fc \in CardStates BY <1>1, <1>2 DEF CardStart, CardStates
<1> QED
  BY <1>1, <1>2, <1>3 DEF CardStart, CardInv, CardGood, CacheGood, LoadingGood, TextGood, NoEntry

(* What a card promises follows.                                            *)
LEMMA CardHolds == CardInv => CardTypeOK /\ UrlsFresh /\ LoadingTrue /\ ErrorOverText
  BY DEF CardInv, CardGood, CardStates, CacheGood, LoadingGood, TextGood,
         CardTypeOK, UrlsFresh, LoadingTrue, ErrorOverText

(* A preview that is asked for.                                             *)
LEMMA ResolvePreviewKeeps ==
  ASSUME CardInv, fc.kind # "paste", NEW why \in {"show", "open"}
  PROVE  CardGood(ResolvePreviewUrl(why))
<1> USE CardAssumption
<1>1. /\ fc \in CardStates /\ CacheGood(fc) /\ LoadingGood(fc) /\ TextGood(fc)
      /\ fc.cache \in [Roles -> Entries] /\ "preview" \in Roles /\ "download" \in Roles
  BY DEF CardInv, CardGood, CardStates, Roles
<1>2. CASE fc.asked # "no"
  <2>1. ResolvePreviewUrl(why) = [fc EXCEPT !.asked = IF why = "open" THEN "open" ELSE @]
    BY <1>2 DEF ResolvePreviewUrl
  <2> QED BY <1>1, <1>2, <2>1 DEF CardGood, CardStates, CacheGood, LoadingGood, TextGood
<1>3. CASE fc.asked = "no"
  <2> DEFINE f == CachedReadUrl("preview")
  <2>1. ResolvePreviewUrl(why) = [fc EXCEPT !.asked = why, !.loading = "preview", !.error = FALSE, !.cache = f]
    BY <1>3 DEF ResolvePreviewUrl
  <2>2. /\ f \in [Roles -> Entries] /\ UsableEntry(f["preview"]) /\ f["download"] = fc.cache["download"]
        /\ \A s \in Roles : f[s].url <= f[s].age
    BY <1>1, CachedUsable
  <2> HIDE DEF f
  <2> QED BY <1>1, <1>3, <2>1, <2>2 DEF CardGood, CardStates, CacheGood, LoadingGood, TextGood
<1> QED BY <1>2, <1>3

(* Clicks, answers, failures and time keep it.                              *)
LEMMA CardStepKeeps == ASSUME CardInv, CardNext PROVE CardInv'
<1> USE CardAssumption
<1>1. /\ fc \in CardStates /\ CacheGood(fc) /\ LoadingGood(fc) /\ TextGood(fc)
      /\ fc.cache \in [Roles -> Entries] /\ "preview" \in Roles /\ "download" \in Roles
  BY DEF CardInv, CardGood, CardStates, Roles
<1>2. /\ CacheTtl \in Nat /\ UrlTtl \in Nat /\ MaxClicks \in Nat /\ CacheTtl < UrlTtl
      /\ fc.downloads \in 0..MaxClicks /\ fc.reading \in 0..MaxClicks /\ fc.clicks \in 0..MaxClicks
      /\ 0 \in 0..UrlTtl /\ 0 \in 0..MaxClicks
  BY <1>1 DEF CardStates
<1>3. ASSUME NEW c, CardGood(c) PROVE CardGood([c EXCEPT !.given = 0])
  BY <1>2, <1>3 DEF CardGood, CardStates, CacheGood, LoadingGood, TextGood
<1>4. CardGood(Unaged) BY <1>3 DEF CardInv, Unaged
<1>5. ASSUME NEW c, CardGood(c), c.clicks < MaxClicks PROVE CardGood(Clicked(c))
  <2>1. c \in CardStates /\ c.clicks + 1 \in 0..MaxClicks /\ 0 \in 0..UrlTtl /\ c.downloads \in Nat /\ c.reading \in Nat
    BY <1>2, <1>5 DEF CardGood, CardStates
  <2>2. Clicked(c) = [c EXCEPT !.clicks = c.clicks + 1, !.given = 0] BY DEF Clicked
  <2>3. Clicked(c) \in CardStates BY <2>1, <2>2 DEF CardStates
  <2>4. /\ Clicked(c).clicks = c.clicks + 1 /\ Clicked(c).given = 0 /\ Clicked(c).cache = c.cache
        /\ Clicked(c).asked = c.asked /\ Clicked(c).downloads = c.downloads /\ Clicked(c).loading = c.loading
        /\ Clicked(c).reading = c.reading /\ Clicked(c).kind = c.kind /\ Clicked(c).text = c.text
        /\ Clicked(c).overlapped = c.overlapped /\ Clicked(c).error = c.error
    BY <2>1, <2>2 DEF CardStates
  <2>5. c.clicks \in Nat BY <2>1 DEF CardStates
  <2> QED BY <1>2, <1>5, <2>1, <2>3, <2>4, <2>5 DEF CardGood, CacheGood, LoadingGood, TextGood
<1>6. CASE LoadThumbnail
  <2> DEFINE c == IF ShowsImage THEN Unaged ELSE [ResolvePreviewUrl("show") EXCEPT !.given = 0]
  <2>1. CardGood(ResolvePreviewUrl("show")) BY <1>6, ResolvePreviewKeeps DEF LoadThumbnail
  <2>2. CardGood(c) BY <1>3, <1>4, <2>1
  <2>3. fc' = [c EXCEPT !.thumbnail = FALSE] BY <1>6 DEF LoadThumbnail
  <2> HIDE DEF c
  <2> QED BY <2>2, <2>3 DEF CardInv, CardGood, CardStates, CacheGood, LoadingGood, TextGood
<1>7. CASE OpenPreview
  <2> DEFINE c == IF ShowsImage THEN [fc EXCEPT !.open = TRUE] ELSE ResolvePreviewUrl("open")
  <2>1. fc.kind # "paste" BY <1>7 DEF OpenPreview, ImageButton, ListPreview
  <2>2. CardGood(ResolvePreviewUrl("open")) BY <2>1, ResolvePreviewKeeps
  <2>3. CardGood([fc EXCEPT !.open = TRUE])
    BY <1>1 DEF CardGood, CardStates, CacheGood, LoadingGood, TextGood
  <2>4. CardGood(c) BY <2>2, <2>3
  <2>5. c.clicks = fc.clicks BY <1>1 DEF ResolvePreviewUrl, CardStates
  <2>6. fc.clicks < MaxClicks /\ fc' = Clicked(c) BY <1>7 DEF OpenPreview, CanClick
  <2> HIDE DEF c
  <2> QED BY <1>5, <2>4, <2>5, <2>6 DEF CardInv
<1>8. CASE ClosePreview
  <2>1. fc' = [Unaged EXCEPT !.open = FALSE] BY <1>8 DEF ClosePreview
  <2> QED BY <1>4, <2>1 DEF CardInv, CardGood, CardStates, CacheGood, LoadingGood, TextGood
<1>9. CASE Download
  <2> DEFINE f == CachedReadUrl("download")
  <2>1. /\ fc' = Clicked([fc EXCEPT !.downloads = @ + 1, !.loading = "download", !.error = FALSE, !.cache = f])
        /\ fc.clicks < MaxClicks /\ fc.kind # "paste"
    BY <1>9
       DEF Download, CanClick, FileButton, DialogDownload, ImagePreviewDialog, ImageButton, ListDownload
  <2>2. /\ f \in [Roles -> Entries] /\ UsableEntry(f["download"]) /\ f["preview"] = fc.cache["preview"]
        /\ \A s \in Roles : f[s].url <= f[s].age
    BY <1>1, CachedUsable
  <2> HIDE DEF f
  <2>3. fc' = [fc EXCEPT !.downloads = @ + 1, !.loading = "download", !.error = FALSE, !.cache = f,
                         !.clicks = @ + 1, !.given = 0]
    BY <1>1, <2>1 DEF Clicked, CardStates
  <2>4. fc.downloads + 1 \in 0..MaxClicks /\ fc.clicks + 1 \in 0..MaxClicks
    BY <1>1, <1>2, <2>1 DEF CardStates, LoadingGood
  <2>5. fc' \in CardStates BY <1>1, <1>2, <2>1, <2>2, <2>3, <2>4 DEF CardStates
  <2>6. /\ fc'.kind = fc.kind /\ fc'.cache = f /\ fc'.asked = fc.asked
         /\ fc'.downloads = fc.downloads + 1 /\ fc'.loading = "download" /\ fc'.error = FALSE
         /\ fc'.given = 0 /\ fc'.text = fc.text /\ fc'.reading = fc.reading
         /\ fc'.overlapped = fc.overlapped /\ fc'.clicks = fc.clicks + 1
    BY <1>1, <1>2, <2>1, <2>2, <2>3 DEF CardStates
  <2> QED
    BY <1>1, <1>2, <2>1, <2>2, <2>4, <2>5, <2>6
       DEF CardInv, CardGood, CacheGood, LoadingGood, TextGood
<1>10. CASE Tick
  <2> DEFINE f == [r \in Roles |-> Older(fc.cache[r])]
  <2>1. fc' = [fc EXCEPT !.given = 0, !.cache = f] /\ fc.asked = "no" /\ fc.downloads = 0
    BY <1>10 DEF Tick, Unaged
  <2>2. ASSUME NEW r \in Roles PROVE Older(fc.cache[r]) \in Entries /\ Older(fc.cache[r]).url <= Older(fc.cache[r]).age
    <3> DEFINE e == fc.cache[r]
    <3>1. e \in Entries /\ e.url <= e.age BY <1>1 DEF CacheGood
    <3>2. e.age \in 0..UrlTtl /\ e.url \in 0..UrlTtl BY <3>1 DEF Entries
    <3>3. CASE e.on /\ e.age < UrlTtl
      <4>1. e.age + 1 \in 0..UrlTtl /\ e.url + 1 \in 0..UrlTtl /\ e.url + 1 <= e.age + 1 /\ 0 <= e.age + 1
            /\ 0 \in 0..UrlTtl
        BY <1>2, <3>1, <3>2, <3>3
      <4>2. Older(e) = [e EXCEPT !.age = e.age + 1, !.url = IF e.ready THEN e.url + 1 ELSE 0]
        BY <3>3 DEF Older
      <4> HIDE DEF e
      <4>3. Older(e) \in Entries BY <3>1, <4>1, <4>2 DEF Entries
      <4>4. Older(e).age = e.age + 1 /\ Older(e).url = IF e.ready THEN e.url + 1 ELSE 0
        BY <3>1, <4>2 DEF Entries
      <4> QED BY <4>1, <4>3, <4>4 DEF e
    <3>4. CASE ~(e.on /\ e.age < UrlTtl) BY <3>1, <3>4 DEF Older
    <3> QED BY <3>3, <3>4
  <2>3. f \in [Roles -> Entries] /\ \A r \in Roles : f[r].url <= f[r].age BY <2>2
  <2> HIDE DEF f
  <2>4. fc' \in CardStates BY <1>1, <1>2, <2>1, <2>3 DEF CardStates
  <2>5. /\ fc'.kind = fc.kind /\ fc'.cache = f /\ fc'.asked = fc.asked
         /\ fc'.downloads = fc.downloads /\ fc'.loading = fc.loading /\ fc'.error = fc.error
         /\ fc'.given = 0 /\ fc'.text = fc.text /\ fc'.reading = fc.reading
         /\ fc'.overlapped = fc.overlapped /\ fc'.clicks = fc.clicks
    BY <1>1, <1>2, <2>1, <2>3 DEF CardStates
  <2> QED
    BY <1>1, <1>2, <2>1, <2>3, <2>4, <2>5 DEF CardInv, CardGood, CacheGood, LoadingGood, TextGood
<1>11. CASE LocalConsumed
  <2>1. fc' = [fc EXCEPT !.given = 0, !.local = FALSE, !.thumbnail = TRUE]
    BY <1>11 DEF LocalConsumed, Unaged
  <2>2. fc' \in CardStates BY <1>1, <1>2, <2>1 DEF CardStates
  <2>3. /\ fc'.kind = fc.kind /\ fc'.cache = fc.cache /\ fc'.asked = fc.asked
         /\ fc'.downloads = fc.downloads /\ fc'.loading = fc.loading /\ fc'.error = fc.error
         /\ fc'.given = 0 /\ fc'.text = fc.text /\ fc'.reading = fc.reading
         /\ fc'.overlapped = fc.overlapped /\ fc'.clicks = fc.clicks
    BY <1>1, <1>2, <2>1 DEF CardStates
  <2> QED BY <1>1, <1>2, <2>1, <2>2, <2>3 DEF CardInv, CardGood, CacheGood, LoadingGood, TextGood
<1>12. ASSUME NEW r \in Roles, Signed(r) PROVE CardInv'
  <2> DEFINE e == [fc.cache[r] EXCEPT !.ready = TRUE, !.url = 0]
             f == [fc.cache EXCEPT ![r] = e]
  <2>1. e \in Entries /\ e.url <= e.age /\ e.on = fc.cache[r].on /\ e.age = fc.cache[r].age
    <3>1. fc.cache[r] \in Entries /\ 0 \in 0..UrlTtl BY <1>1, <1>2
    <3>2. fc.cache[r].age \in 0..UrlTtl BY <3>1 DEF Entries
    <3>3. 0 <= fc.cache[r].age BY <1>2, <3>2
    <3> QED BY <3>1, <3>3 DEF Entries
  <2>2. fc' = [fc EXCEPT !.given = 0, !.cache = f] BY <1>1, <1>12 DEF Signed, Unaged, CardStates
  <2> HIDE DEF e
  <2>3. f \in [Roles -> Entries] /\ \A s \in Roles : f[s].url <= f[s].age /\ (UsableEntry(fc.cache[s]) => UsableEntry(f[s]))
    BY <1>1, <2>1 DEF CacheGood, UsableEntry
  <2> HIDE DEF f
  <2>4. fc' \in CardStates BY <1>1, <1>2, <2>2, <2>3 DEF CardStates
  <2>5. /\ fc'.kind = fc.kind /\ fc'.cache = f /\ fc'.asked = fc.asked
         /\ fc'.downloads = fc.downloads /\ fc'.loading = fc.loading /\ fc'.error = fc.error
         /\ fc'.given = 0 /\ fc'.text = fc.text /\ fc'.reading = fc.reading
         /\ fc'.overlapped = fc.overlapped /\ fc'.clicks = fc.clicks
    BY <1>1, <1>2, <2>2, <2>3 DEF CardStates
  <2> QED
    BY <1>1, <1>2, <2>2, <2>3, <2>4, <2>5 DEF CardInv, CardGood, CacheGood, LoadingGood, TextGood
<1>13. ASSUME NEW r \in Roles, ReadFailed(r) PROVE CardInv'
  <2> DEFINE f == [fc.cache EXCEPT ![r] = NoEntry]
  <2>1. f \in [Roles -> Entries] /\ \A s \in Roles : f[s].url <= f[s].age /\ (s # r => f[s] = fc.cache[s])
    <3>1. NoEntry \in Entries /\ NoEntry.url <= NoEntry.age BY <1>2 DEF NoEntry, Entries
    <3> QED BY <1>1, <3>1 DEF CacheGood
  <2>2. fc.kind # "paste" BY <1>1, <1>13 DEF ReadFailed, TextGood
  <2>3. CASE r = "preview"
    <3>1. fc' = [fc EXCEPT !.given = 0, !.asked = "no", !.error = TRUE, !.cache = f,
                               !.loading = IF @ = "preview" THEN "none" ELSE @]
      BY <1>1, <1>13, <2>3 DEF ReadFailed, Unaged, CardStates
    <3>2. f["download"] = fc.cache["download"] BY <1>1, <2>1, <2>3
    <3> HIDE DEF f
    <3>3. fc' \in CardStates BY <1>1, <1>2, <2>1, <3>1 DEF CardStates
    <3>4. /\ fc'.kind = fc.kind /\ fc'.cache = f /\ fc'.asked = "no"
           /\ fc'.downloads = fc.downloads
           /\ fc'.loading = (IF fc.loading = "preview" THEN "none" ELSE fc.loading)
           /\ fc'.error = TRUE /\ fc'.given = 0 /\ fc'.text = fc.text
           /\ fc'.reading = fc.reading /\ fc'.overlapped = fc.overlapped
           /\ fc'.clicks = fc.clicks
      BY <1>1, <1>2, <2>1, <3>1 DEF CardStates
    <3> QED
      BY <1>1, <1>2, <2>1, <2>2, <3>2, <3>3, <3>4
         DEF CardInv, CardGood, CacheGood, LoadingGood, TextGood
  <2>4. CASE r = "download"
    <3>1. fc' = [fc EXCEPT !.given = 0, !.downloads = 0, !.error = TRUE, !.cache = f, !.loading = "none"]
      BY <1>1, <1>13, <2>4 DEF ReadFailed, Unaged, CardStates
    <3>2. f["preview"] = fc.cache["preview"] BY <1>1, <2>1, <2>4
    <3> HIDE DEF f
    <3>3. fc' \in CardStates BY <1>1, <1>2, <2>1, <3>1 DEF CardStates
    <3>4. /\ fc'.kind = fc.kind /\ fc'.cache = f /\ fc'.asked = fc.asked /\ fc'.downloads = 0
           /\ fc'.loading = "none" /\ fc'.error = TRUE /\ fc'.given = 0 /\ fc'.text = fc.text
           /\ fc'.reading = fc.reading /\ fc'.overlapped = fc.overlapped
           /\ fc'.clicks = fc.clicks
      BY <1>1, <1>2, <2>1, <3>1 DEF CardStates
    <3> QED
      BY <1>1, <1>2, <2>1, <2>2, <3>2, <3>3, <3>4
         DEF CardInv, CardGood, CacheGood, LoadingGood, TextGood
  <2> QED BY <2>3, <2>4 DEF Roles
<1>14. CASE PreviewAnswered
  <2> DEFINE u == fc.cache["preview"].url
  <2>1. fc' = [fc EXCEPT !.preview = TRUE, !.given = u, !.open = @ \/ fc.asked = "open", !.asked = "no",
                         !.loading = IF @ = "preview" THEN "none" ELSE @]
        /\ fc.asked # "no"
    BY <1>14 DEF PreviewAnswered
  <2>2. u \in 0..UrlTtl /\ u < UrlTtl BY <1>1, <1>2, <2>1 DEF Entries, CacheGood, UsableEntry
  <2> HIDE DEF u
  <2> QED BY <1>1, <2>1, <2>2 DEF CardInv, CardGood, CardStates, CacheGood, LoadingGood, TextGood
<1>15. CASE DownloadAnswered
  <2> DEFINE u == fc.cache["download"].url
  <2>1. fc' = [fc EXCEPT !.downloads = @ - 1, !.loading = "none", !.given = u] /\ fc.downloads > 0
    BY <1>15 DEF DownloadAnswered
  <2>2. u \in 0..UrlTtl /\ u < UrlTtl BY <1>1, <1>2, <2>1 DEF Entries, CacheGood, UsableEntry
  <2> HIDE DEF u
  <2>3. fc.downloads - 1 \in 0..MaxClicks
    BY <1>1, <1>2, <2>1, <2>2 DEF CardStates
  <2>4. fc' \in CardStates BY <1>1, <1>2, <2>1, <2>2, <2>3 DEF CardStates
  <2>5. /\ fc'.kind = fc.kind /\ fc'.cache = fc.cache /\ fc'.asked = fc.asked
         /\ fc'.downloads = fc.downloads - 1 /\ fc'.loading = "none" /\ fc'.error = fc.error
         /\ fc'.given = u /\ fc'.text = fc.text /\ fc'.reading = fc.reading
         /\ fc'.overlapped = fc.overlapped /\ fc'.clicks = fc.clicks
    BY <1>1, <1>2, <2>1, <2>2 DEF CardStates
  <2> QED
    BY <1>1, <1>2, <2>1, <2>2, <2>3, <2>4, <2>5
       DEF CardInv, CardGood, CacheGood, LoadingGood, TextGood
<1>16. CASE OpenText
  <2>1. fc.kind = "paste" /\ fc.clicks < MaxClicks
    BY <1>16 DEF OpenText, PastedTextButton, CanClick
  <2>2. CASE fc.text
    <3>1. fc' = [fc EXCEPT !.open = TRUE, !.clicks = @ + 1, !.given = 0]
      BY <1>1, <1>16, <2>2 DEF OpenText, Clicked, CardStates
    <3>2. fc.clicks + 1 \in 0..MaxClicks
      BY <1>1, <1>2, <2>1, <3>1 DEF CardStates
    <3>3. fc' \in CardStates BY <1>1, <1>2, <2>1, <3>1, <3>2 DEF CardStates
    <3>4. /\ fc'.kind = fc.kind /\ fc'.cache = fc.cache /\ fc'.asked = fc.asked
           /\ fc'.downloads = fc.downloads /\ fc'.loading = fc.loading /\ fc'.error = fc.error
           /\ fc'.given = 0 /\ fc'.text = fc.text /\ fc'.reading = fc.reading
           /\ fc'.overlapped = fc.overlapped /\ fc'.clicks = fc.clicks + 1
      BY <1>1, <1>2, <2>1, <3>1 DEF CardStates
    <3> QED
      BY <1>1, <1>2, <2>1, <3>2, <3>3, <3>4 DEF CardInv, CardGood, CacheGood, LoadingGood, TextGood
  <2>3. CASE ~fc.text
    <3>1. fc' = [fc EXCEPT !.open = TRUE, !.spinner = TRUE, !.error = FALSE, !.reading = @ + 1,
                           !.overlapped = @ \/ fc.reading > 0, !.clicks = @ + 1, !.given = 0]
      BY <1>1, <1>16, <2>3 DEF OpenText, Clicked, CardStates
    <3>2. fc.clicks + 1 \in 0..MaxClicks
        /\ fc.reading + 1 \in 0..MaxClicks /\ (fc.overlapped \/ fc.reading > 0) \in BOOLEAN
      BY <1>1, <1>2, <2>1 DEF CardStates, LoadingGood
    <3>3. fc' \in CardStates BY <1>1, <1>2, <2>1, <3>1, <3>2 DEF CardStates
    <3>4. /\ fc'.kind = fc.kind /\ fc'.cache = fc.cache /\ fc'.asked = fc.asked
           /\ fc'.downloads = fc.downloads /\ fc'.loading = fc.loading /\ fc'.error = FALSE
           /\ fc'.given = 0 /\ fc'.text = fc.text /\ fc'.reading = fc.reading + 1
           /\ (fc'.overlapped <=> (fc.overlapped \/ fc.reading > 0)) /\ fc'.clicks = fc.clicks + 1
      BY <1>1, <1>2, <2>1, <3>1 DEF CardStates
    <3> QED
      BY <1>1, <1>2, <2>1, <2>3, <3>2, <3>3, <3>4
         DEF CardInv, CardGood, CacheGood, LoadingGood, TextGood
  <2> QED BY <2>2, <2>3
<1>17. CASE CloseText
  <2>1. fc' = [fc EXCEPT !.open = FALSE] BY <1>17 DEF CloseText
  <2> QED BY <1>1, <2>1 DEF CardInv, CardGood, CardStates, CacheGood, LoadingGood, TextGood
<1>18. CASE TextLoaded
  <2>1. fc' = [fc EXCEPT !.reading = @ - 1, !.text = TRUE, !.spinner = FALSE] /\ fc.reading > 0
    BY <1>18 DEF TextLoaded
  <2>2. fc.reading - 1 \in 0..MaxClicks
    BY <1>1, <1>2, <2>1 DEF CardStates
  <2>3. fc' \in CardStates BY <1>1, <1>2, <2>1, <2>2 DEF CardStates
  <2>4. /\ fc'.kind = fc.kind /\ fc'.cache = fc.cache /\ fc'.asked = fc.asked
         /\ fc'.downloads = fc.downloads /\ fc'.loading = fc.loading /\ fc'.error = fc.error
         /\ fc'.given = fc.given /\ fc'.text = TRUE /\ fc'.reading = fc.reading - 1
         /\ fc'.overlapped = fc.overlapped /\ fc'.clicks = fc.clicks
    BY <1>1, <1>2, <2>1 DEF CardStates
  <2> QED
    BY <1>1, <1>2, <2>1, <2>2, <2>3, <2>4 DEF CardInv, CardGood, CacheGood, LoadingGood, TextGood
<1>19. CASE TextFailed
  <2>1. fc' = [fc EXCEPT !.reading = @ - 1, !.error = TRUE, !.spinner = FALSE] /\ fc.reading > 0
    BY <1>19 DEF TextFailed
  <2>2. fc.reading - 1 \in 0..MaxClicks
    BY <1>1, <1>2, <2>1 DEF CardStates
  <2>3. fc' \in CardStates BY <1>1, <1>2, <2>1, <2>2 DEF CardStates
  <2>4. /\ fc'.kind = fc.kind /\ fc'.cache = fc.cache /\ fc'.asked = fc.asked
         /\ fc'.downloads = fc.downloads /\ fc'.loading = fc.loading /\ fc'.error = TRUE
         /\ fc'.given = fc.given /\ fc'.text = fc.text /\ fc'.reading = fc.reading - 1
         /\ fc'.overlapped = fc.overlapped /\ fc'.clicks = fc.clicks
    BY <1>1, <1>2, <2>1 DEF CardStates
  <2> QED
    BY <1>1, <1>2, <2>1, <2>2, <2>3, <2>4 DEF CardInv, CardGood, CacheGood, LoadingGood, TextGood
<1> QED
  BY <1>6, <1>7, <1>8, <1>9, <1>10, <1>11, <1>12, <1>13, <1>14, <1>15, <1>16, <1>17, <1>18, <1>19
     DEF CardNext

-----------------------------------------------------------------------------
(* The search dialog.                                                       *)

SearchRow == [c : SearchRows, q : SearchQueries]
SearchPage == [items : Seq(SearchRow), next : 0..SearchPages]
SearchRequests == [at : {"none", "timer", "asked"}, q : SearchQueries, prev : Nat,
                   got : SearchPage, live : BOOLEAN]
MoreRequests == [on : BOOLEAN, q : SearchQueries, page : 0..SearchPages, live : BOOLEAN]
SearchStates ==
  [on : BOOLEAN, open : BOOLEAN, q : SearchQueries, long : BOOLEAN, page : SearchPage,
   status : {"loading", "ready", "error"}, loadingMore : BOOLEAN, lock : BOOLEAN,
   pageError : BOOLEAN, revalidating : BOOLEAN, recent : SearchPage \cup {NoRecent},
   last : SearchQueries \cup {"null"}, composing : BOOLEAN, req : SearchRequests,
   more : MoreRequests, active : Int, opening : SUBSET SearchRows,
   calls : SUBSET SearchRows, opened : SUBSET SearchRows]
RowsOf(items, text) == \A i \in 1..Len(items) : items[i].q = text
Once(items) == \A i, j \in 1..Len(items) : items[i].c = items[j].c => i = j

SearchRowsGood(s) ==
  /\ s.status = "ready" => RowsOf(s.page.items, s.q)
  /\ s.last = NoText => RowsOf(s.page.items, NoText)
  /\ RowsOf(s.recent.items, NoText) /\ RowsOf(s.req.got.items, s.req.q)
  /\ Once(s.page.items) /\ Once(s.recent.items) /\ Once(s.req.got.items)
SearchLiveGood(s) ==
  /\ s.req.live => s.req.at # "none" /\ s.req.q = s.q
  /\ s.req.live /\ s.q = NoText /\ s.recent # NoRecent => RowsOf(s.page.items, NoText)
  /\ s.more.live => s.more.on /\ s.more.q = s.q /\ s.status = "ready" /\ s.open /\ ~s.composing
SearchQuiet(s) ==
  /\ s \in SearchStates /\ SearchRowsGood(s)
  /\ s.opening = s.calls /\ \A x, y \in s.calls : x = y
  /\ s.req.at # "none" => s.revalidating
  /\ s.more.on => s.req.at = "none"
SearchFit(s) == SearchQuiet(s) /\ SearchLiveGood(s)
LastShown(s) == s.status = "ready" => s.q = NoText \/ s.last = s.q
SearchGood(s) == SearchFit(s) /\ LastShown(s)
SearchInv == SearchGood(cs)

(* Rows are put in order of their places.                                   *)
LEMMA RowsWithout ==
  ASSUME NEW rows \in Seq(SearchRow), NEW gone
  PROVE  /\ RowsLeft(rows, gone) \in Seq(SearchRow)
         /\ \A k \in 1..Len(RowsLeft(rows, gone)) :
              \E i \in 1..Len(rows) : RowsLeft(rows, gone)[k] = rows[i] /\ rows[i].c \notin gone
         /\ Once(rows) => Once(RowsLeft(rows, gone))
<1> DEFINE at == {i \in 1..Len(rows) : rows[i].c \notin gone}
           Upto(i) == {j \in at : j <= i}
           Rank(i) == Cardinality(Upto(i))
           n == Cardinality(at)
           rank == [i \in at |-> Rank(i)]
           place == [k \in 1..n |-> CHOOSE i \in at : Rank(i) = k]
<1>1. at \subseteq 1..Len(rows) /\ IsFiniteSet(at) /\ n \in Nat
  <2>1. at \subseteq 1..Len(rows) OBVIOUS
  <2>2. Len(rows) \in Int /\ 1 \in Int OBVIOUS
  <2>3. IsFiniteSet(1..Len(rows)) BY <2>2, FS_Interval
  <2> HIDE DEF at
  <2>4. IsFiniteSet(at) BY <2>1, <2>3, FS_Subset
  <2> QED BY <2>1, <2>4, FS_CardinalityType
<1>2. \A i \in at : i \in Nat /\ i \in Upto(i) /\ Upto(i) \in SUBSET at /\ IsFiniteSet(Upto(i))
      /\ Rank(i) \in 1..n
  <2> SUFFICES ASSUME NEW i \in at
               PROVE  i \in Nat /\ i \in Upto(i) /\ Upto(i) \in SUBSET at /\ IsFiniteSet(Upto(i))
                      /\ Rank(i) \in 1..n
    OBVIOUS
  <2>1. i \in Nat /\ i \in Upto(i) /\ Upto(i) \in SUBSET at OBVIOUS
  <2> HIDE DEF at
  <2>2. IsFiniteSet(Upto(i)) /\ Rank(i) <= n BY <1>1, <2>1, FS_Subset
  <2>3. Rank(i) \in Nat /\ Rank(i) # 0
    <3> HIDE DEF Upto
    <3> QED BY <2>1, <2>2, FS_CardinalityType, FS_EmptySet
  <2> QED BY <1>1, <2>1, <2>2, <2>3
<1>3. \A i, j \in at : Rank(i) = Rank(j) => i = j
  <2>1. ASSUME NEW i \in at, NEW j \in at, i < j PROVE Rank(i) # Rank(j)
    <3>1. i \in Nat /\ j \in Nat BY <1>2
    <3>2. Upto(i) \in SUBSET Upto(j) /\ j \in Upto(j) /\ j \notin Upto(i)
      <4> HIDE DEF at
      <4>1. \A k \in at : k \in Nat BY <1>1
      <4>2. ASSUME NEW k \in at, k <= i PROVE k <= j BY <2>1, <3>1, <4>1, <4>2
      <4>3. j <= j /\ ~(j <= i) BY <2>1, <3>1
      <4> QED BY <4>2, <4>3
    <3>3. IsFiniteSet(Upto(j)) BY <1>2
    <3> HIDE DEF at, Upto
    <3> QED BY <3>2, <3>3, FS_Subset
  <2>2. \A i, j \in at : i \in Nat /\ j \in Nat BY <1>2
  <2> HIDE DEF at, Rank
  <2> QED BY <2>1, <2>2
<1>4. rank \in Surjection(at, 1..n)
  <2>1. rank \in Injection(at, 1..n)
    <3> HIDE DEF at, Rank, n
    <3> QED BY <1>2, <1>3 DEF Injection, IsInjective
  <2>2. IsFiniteSet(1..n) /\ Cardinality(1..n) = n
    <3> HIDE DEF n
    <3>1. n \in Int /\ 1 \in Int BY <1>1
    <3>2. IsFiniteSet(1..n) /\ Cardinality(1..n) = IF 1 > n THEN 0 ELSE n - 1 + 1
      BY <3>1, FS_Interval
    <3> QED BY <1>1, <3>2
  <2> HIDE DEF at, rank
  <2>3. Cardinality(at) = Cardinality(1..n) <=> rank \in Surjection(at, 1..n)
    BY <2>1, <2>2, FS_Injection
  <2> QED BY <2>2, <2>3
<1>5. \A k \in 1..n : place[k] \in at /\ Rank(place[k]) = k
  <2> SUFFICES ASSUME NEW k \in 1..n PROVE place[k] \in at /\ Rank(place[k]) = k
    OBVIOUS
  <2>1. PICK i \in at : rank[i] = k
    <3> HIDE DEF rank, at, n
    <3> QED BY <1>4 DEF Surjection
  <2> HIDE DEF at, Rank, n
  <2> QED BY <2>1
<1>6. RowsLeft(rows, gone) = [k \in 1..n |-> rows[place[k]]] BY DEF RowsLeft
<1> DEFINE kept == RowsLeft(rows, gone)
<1>7. \A k \in 1..n : kept[k] = rows[place[k]] /\ place[k] \in 1..Len(rows) /\ rows[place[k]] \in SearchRow
      /\ rows[place[k]].c \notin gone
  <2> HIDE DEF place, n, Rank
  <2> QED BY <1>5, <1>6, ElementOfSeq
<1>8. kept \in Seq(SearchRow) /\ Len(kept) = n
  <2> HIDE DEF place, n, at, Rank
  <2>1. n \in Nat BY <1>1
  <2>2. kept \in [1..n -> SearchRow] BY <1>6, <1>7
  <2>3. kept \in Seq(SearchRow) BY <2>1, <2>2, IsASeq
  <2>4. DOMAIN kept = 1..n BY <2>2
  <2> HIDE DEF kept
  <2>5. Len(kept) \in Nat /\ 1..Len(kept) = 1..n BY <2>3, <2>4, LenProperties
  <2> QED BY <2>1, <2>3, <2>5
<1>9. Once(rows) => Once(kept)
  <2> SUFFICES ASSUME Once(rows), NEW k \in 1..n, NEW l \in 1..n, kept[k].c = kept[l].c PROVE k = l
    BY <1>8 DEF Once
  <2>1. place[k] = place[l]
    <3> HIDE DEF kept, place, n
    <3> QED BY <1>7 DEF Once
  <2> HIDE DEF kept, place, n, Rank
  <2> QED BY <1>5, <2>1
<1> HIDE DEF kept, place, n, at, Rank
<1> QED BY <1>7, <1>8, <1>9 DEF kept

(* A page behind a page.                                                    *)
LEMMA RowsAppended ==
  ASSUME NEW old \in Seq(SearchRow), NEW new \in Seq(SearchRow), Once(old), Once(new)
  PROVE  /\ AppendRows(old, new) \in Seq(SearchRow) /\ Once(AppendRows(old, new))
         /\ \A text : RowsOf(old, text) /\ RowsOf(new, text) => RowsOf(AppendRows(old, new), text)
<1> DEFINE add == RowsLeft(new, Convs(old))
           all == old \o add
<1>1. /\ add \in Seq(SearchRow) /\ Once(add)
      /\ \A k \in 1..Len(add) : \E i \in 1..Len(new) : add[k] = new[i] /\ new[i].c \notin Convs(old)
  BY RowsWithout
<1>2. AppendRows(old, new) = all BY DEF AppendRows
<1> HIDE DEF add
<1>3. /\ all \in Seq(SearchRow) /\ Len(all) = Len(old) + Len(add) /\ Len(old) \in Nat /\ Len(add) \in Nat
      /\ \A i \in 1..Len(all) : all[i] = IF i <= Len(old) THEN old[i] ELSE add[i - Len(old)]
  BY <1>1, ConcatProperties
<1> HIDE DEF all
<1>4. \A i \in 1..Len(old) : i \in 1..Len(all) /\ all[i] = old[i] /\ all[i].c \in Convs(old)
  BY <1>3 DEF Convs
<1>5. \A i \in 1..Len(all) : i > Len(old) =>
        i - Len(old) \in 1..Len(add) /\ all[i] = add[i - Len(old)] /\ all[i].c \notin Convs(old)
  BY <1>1, <1>3
<1>6. Once(all)
  <2> SUFFICES ASSUME NEW i \in 1..Len(all), NEW j \in 1..Len(all), all[i].c = all[j].c PROVE i = j
    BY DEF Once
  <2>1. CASE i \in 1..Len(old) /\ j \in 1..Len(old) BY <1>4, <2>1 DEF Once
  <2>2. CASE i > Len(old) /\ j > Len(old)
    <3>1. /\ i - Len(old) \in 1..Len(add) /\ all[i] = add[i - Len(old)]
          /\ j - Len(old) \in 1..Len(add) /\ all[j] = add[j - Len(old)]
      BY <1>5, <2>2
    <3>2. i - Len(old) = j - Len(old) BY <1>1, <3>1 DEF Once
    <3> QED BY <1>3, <3>2
  <2>3. CASE i \in 1..Len(old) /\ j > Len(old) BY <1>4, <1>5, <2>3
  <2>4. CASE i > Len(old) /\ j \in 1..Len(old) BY <1>4, <1>5, <2>4
  <2> QED BY <1>3, <2>1, <2>2, <2>3, <2>4
<1>7. ASSUME NEW text, RowsOf(old, text), RowsOf(new, text) PROVE RowsOf(all, text)
  <2> SUFFICES ASSUME NEW i \in 1..Len(all) PROVE all[i].q = text BY DEF RowsOf
  <2>1. CASE i \in 1..Len(old) BY <1>4, <1>7, <2>1 DEF RowsOf
  <2>2. CASE i > Len(old)
    <3>1. i - Len(old) \in 1..Len(add) /\ all[i] = add[i - Len(old)] BY <1>5, <2>2
    <3>2. PICK k \in 1..Len(new) : add[i - Len(old)] = new[k] BY <1>1, <3>1
    <3> QED BY <1>7, <3>1, <3>2 DEF RowsOf
  <2> QED BY <1>3, <2>1, <2>2
<1> QED BY <1>2, <1>3, <1>6, <1>7

(* Rows that come once are as many as their conversations.                  *)
LEMMA OnceCounted ==
  ASSUME NEW rows \in Seq(SearchRow), Once(rows)
  PROVE  Cardinality(Convs(rows)) = Len(rows)
<1> DEFINE f == [i \in 1..Len(rows) |-> rows[i].c]
<1>1. f \in Bijection(1..Len(rows), Convs(rows))
  <2>1. f \in [1..Len(rows) -> Convs(rows)] BY DEF Convs
  <2>2. \A i, j \in 1..Len(rows) : f[i] = f[j] => i = j BY DEF Once
  <2>3. \A c \in Convs(rows) : \E i \in 1..Len(rows) : f[i] = c BY DEF Convs
  <2> HIDE DEF f
  <2> QED BY <2>1, <2>2, <2>3 DEF Bijection, Injection, Surjection, IsInjective
<1>2. Len(rows) \in Nat /\ Len(rows) \in Int /\ 1 \in Int BY LenProperties
<1>3. IsFiniteSet(1..Len(rows)) /\ Cardinality(1..Len(rows)) = Len(rows)
  <2>1. /\ IsFiniteSet(1..Len(rows))
        /\ Cardinality(1..Len(rows)) = IF 1 > Len(rows) THEN 0 ELSE Len(rows) - 1 + 1
    BY <1>2, FS_Interval
  <2> QED BY <1>2, <2>1
<1>4. ExistsBijection(1..Len(rows), Convs(rows)) BY <1>1 DEF ExistsBijection
<1> QED BY <1>3, <1>4, FS_Bijection

(* An empty page answers any text.                                          *)
LEMMA EmptyPageFits == /\ EmptyPage \in SearchPage /\ Once(EmptyPage.items) /\ Once(NoRecent.items)
                       /\ \A text : RowsOf(EmptyPage.items, text) /\ RowsOf(NoRecent.items, text)
                       /\ NoRequest \in SearchRequests /\ NoRequest.at = "none" /\ ~NoRequest.live
                       /\ NoRequest.got = EmptyPage
                       /\ NoMore \in MoreRequests /\ ~NoMore.on /\ ~NoMore.live
<1>1. 0 \in 0..SearchPages /\ 0 \in Nat /\ NoText \in SearchQueries BY SearchAssumption
<1>2. <<>> \in Seq(SearchRow) /\ Len(<<>>) = 0 /\ 1..0 = {} OBVIOUS
<1>3. EmptyPage \in SearchPage BY <1>1, <1>2 DEF EmptyPage, SearchPage
<1> QED
  BY <1>1, <1>2, <1>3 DEF EmptyPage, NoRecent, NoRequest, NoMore, SearchRequests, MoreRequests,
                               Once, RowsOf

(* A dialog that was never opened keeps the invariant.                      *)
LEMMA SearchBegins == ASSUME NEW on \in BOOLEAN, cs = SearchStart(on) PROVE SearchInv
<1>1. NoText \in SearchQueries /\ -1 \in Int BY SearchAssumption
<1>2. SearchStart(on) \in SearchStates BY <1>1, EmptyPageFits DEF SearchStart, SearchStates
<1> QED BY <1>1, <1>2, EmptyPageFits
       
           DEF SearchStart, SearchInv, SearchGood, SearchFit, SearchQuiet, SearchRowsGood, SearchLiveGood, LastShown

(* What the dialog promises follows.                                        *)
LEMMA SearchHolds == SearchInv => SearchTypeOK /\ RowsAnswerQuery /\ RowsOnce /\ OpeningTrue
<1> SUFFICES ASSUME SearchInv PROVE SearchTypeOK /\ RowsAnswerQuery /\ RowsOnce /\ OpeningTrue
  OBVIOUS
<1>1. cs \in SearchStates /\ SearchRowsGood(cs) /\ cs.opening = cs.calls /\ \A x, y \in cs.calls : x = y
  BY DEF SearchInv, SearchGood, SearchFit, SearchQuiet
<1>2. cs.page \in SearchPage /\ cs.req \in SearchRequests BY <1>1 DEF SearchStates
<1>3. SearchTypeOK BY <1>1, <1>2 DEF SearchTypeOK, SearchStates, SearchPage, SearchRequests
<1>4. RowsAnswerQuery BY <1>1 DEF RowsAnswerQuery, SearchRowsGood, RowsOf
<1>5. RowsOnce BY <1>1, <1>2, OnceCounted DEF RowsOnce, SearchRowsGood, SearchPage
<1> QED BY <1>1, <1>3, <1>4, <1>5 DEF OpeningTrue

(* A withdrawn request asks for nothing.                                    *)
LEMMA AbortKeeps ==
  ASSUME NEW s \in SearchStates
  PROVE  LET a == AbortRequest(s) IN
         /\ a \in SearchStates /\ a.req.at = s.req.at /\ a.req.q = s.req.q /\ a.req.got = s.req.got
         /\ ~a.req.live /\ ~a.more.live /\ a.more.on = s.more.on
         /\ a.q = s.q /\ a.last = s.last /\ a.status = s.status /\ a.page = s.page /\ a.recent = s.recent
         /\ a.revalidating = s.revalidating /\ a.opening = s.opening /\ a.calls = s.calls
         /\ a.open = s.open /\ a.composing = s.composing /\ a.long = s.long
         /\ (SearchQuiet(s) => SearchFit(a))
<1> DEFINE a == AbortRequest(s)
           r == [s.req EXCEPT !.live = FALSE]
           m == [s.more EXCEPT !.live = FALSE]
<1>1. s.req \in SearchRequests /\ s.more \in MoreRequests BY DEF SearchStates
<1>2. /\ r \in SearchRequests /\ m \in MoreRequests /\ r.at = s.req.at /\ r.q = s.req.q
      /\ r.got = s.req.got /\ ~r.live /\ ~m.live /\ m.on = s.more.on
  BY <1>1 DEF SearchRequests, MoreRequests
<1>3. a = [s EXCEPT !.req = r, !.more = m] BY DEF AbortRequest, SearchStates
<1> HIDE DEF r, m, a
<1>4. a \in SearchStates /\ a.req = r /\ a.more = m BY <1>2, <1>3 DEF SearchStates
<1>5. /\ a.q = s.q /\ a.last = s.last /\ a.status = s.status /\ a.page = s.page /\ a.recent = s.recent
      /\ a.revalidating = s.revalidating /\ a.opening = s.opening /\ a.calls = s.calls
      /\ a.open = s.open /\ a.composing = s.composing /\ a.long = s.long
  BY <1>3 DEF SearchStates
<1>6. SearchQuiet(s) => SearchFit(a)
  BY <1>2, <1>4, <1>5 DEF SearchFit, SearchQuiet, SearchRowsGood, SearchLiveGood
<1> QED BY <1>2, <1>4, <1>5, <1>6 DEF a

(* So does a request whose timer is cleared.                                *)
LEMMA CleanupKeeps ==
  ASSUME NEW s \in SearchStates, SearchQuiet(s)
  PROVE  LET c == Cleanup(s) IN
         /\ SearchFit(c) /\ c \in SearchStates /\ ~c.req.live /\ ~c.more.live /\ (LastShown(s) => LastShown(c))
         /\ c.q = s.q /\ c.last = s.last /\ c.recent = s.recent
<1> DEFINE a == AbortRequest(s)
           c == Cleanup(s)
<1>1. /\ SearchFit(a) /\ a \in SearchStates /\ a.q = s.q /\ a.last = s.last /\ a.status = s.status
      /\ ~a.req.live /\ ~a.more.live /\ a.recent = s.recent
  BY AbortKeeps
<1>2. c = [a EXCEPT !.req = IF s.req.at = "timer" THEN NoRequest ELSE a.req] BY DEF Cleanup
<1> HIDE DEF a, c
<1>3. CASE s.req.at = "timer"
  <2>1. c \in SearchStates /\ c.req = NoRequest BY <1>1, <1>2, <1>3, EmptyPageFits DEF SearchStates
  <2>2. /\ c.q = a.q /\ c.last = a.last /\ c.status = a.status /\ c.page = a.page /\ c.recent = a.recent
        /\ c.revalidating = a.revalidating /\ c.opening = a.opening /\ c.calls = a.calls /\ c.more = a.more
    BY <1>1, <1>2, <1>3 DEF SearchStates
  <2> QED BY <1>1, <2>1, <2>2, EmptyPageFits
          DEF SearchFit, SearchQuiet, SearchRowsGood, SearchLiveGood, LastShown, c
<1>4. CASE s.req.at # "timer"
  <2>1. c = a BY <1>1, <1>2, <1>4 DEF SearchStates
  <2> QED BY <1>1, <2>1 DEF LastShown, c
<1> QED BY <1>3, <1>4

(* The effect asks for the text that is in the input.                       *)
LEMMA EffectKeeps ==
  ASSUME NEW s \in SearchStates, SearchQuiet(s), LastShown(s) \/ (s.open /\ ~s.composing)
  PROVE  SearchGood(SearchEffect(s))
<1> DEFINE c == Cleanup(s)
           changed == s.last # s.q
           kept == s.q = NoText /\ s.recent # NoRecent
           start == IF changed
                    THEN [c EXCEPT !.page = IF kept THEN s.recent ELSE EmptyPage, !.active = -1,
                                   !.status = IF kept THEN "ready" ELSE "loading"]
                    ELSE c
           asked == [start EXCEPT !.loadingMore = FALSE, !.lock = FALSE, !.pageError = FALSE,
                                  !.more = NoMore]
           r == [at |-> "timer", q |-> s.q, prev |-> IF changed THEN 0 ELSE Len(asked.page.items),
                 got |-> EmptyPage, live |-> TRUE]
<1>1. SearchEffect(s) = IF ~s.open \/ s.composing THEN c
                        ELSE IF s.long THEN [asked EXCEPT !.req = NoRequest]
                        ELSE [asked EXCEPT !.revalidating = TRUE, !.req = r]
  BY DEF SearchEffect
<1>2. /\ SearchFit(c) /\ c \in SearchStates /\ (LastShown(s) => LastShown(c)) /\ ~c.req.live /\ ~c.more.live
      /\ c.q = s.q /\ c.last = s.last /\ c.recent = s.recent
  BY CleanupKeeps
<1> HIDE DEF c
<1>3. /\ SearchFit(start) /\ LastShown(start) /\ start \in SearchStates /\ ~start.req.live /\ ~start.more.live
      /\ start.q = s.q /\ (kept => RowsOf(start.page.items, NoText))
  <2>1. CASE changed
    <3> DEFINE p == IF kept THEN s.recent ELSE EmptyPage
               st == IF kept THEN "ready" ELSE "loading"
    <3>1. p \in SearchPage /\ Once(p.items) /\ RowsOf(p.items, NoText) /\ st \in {"ready", "loading"}
      <4>1. kept => s.recent \in SearchPage BY DEF SearchStates
      <4>2. Once(s.recent.items) /\ RowsOf(s.recent.items, NoText)
        BY DEF SearchQuiet, SearchRowsGood
      <4> QED BY <4>1, <4>2, EmptyPageFits
    <3>2. (st = "ready" => kept) /\ start = [c EXCEPT !.page = p, !.active = -1, !.status = st]
      BY <2>1
    <3> HIDE DEF p, st, start
    <3>3. start \in SearchStates
      <4>1. -1 \in Int /\ st \in {"loading", "ready", "error"} BY <3>1
      <4> QED BY <1>2, <3>1, <3>2, <4>1 DEF SearchStates
    <3>4. /\ start.page = p /\ start.status = st /\ start.q = c.q /\ start.last = c.last
          /\ start.recent = c.recent /\ start.req = c.req /\ start.more = c.more
          /\ start.revalidating = c.revalidating /\ start.opening = c.opening /\ start.calls = c.calls
      BY <1>2, <3>2 DEF SearchStates
    <3> QED
      BY <1>2, <3>1, <3>2, <3>3, <3>4
         DEF SearchFit, SearchQuiet, SearchRowsGood, SearchLiveGood, LastShown
  <2>2. CASE ~changed
    <3>1. start = c /\ c.last = c.q BY <1>2, <2>2
    <3> QED BY <1>2, <2>2, <3>1 DEF SearchFit, SearchQuiet, SearchRowsGood, LastShown
  <2> QED BY <2>1, <2>2
<1> HIDE DEF start
<1>4. /\ asked \in SearchStates /\ asked.more = NoMore /\ asked.req = start.req /\ asked.q = start.q
      /\ asked.status = start.status /\ asked.page = start.page /\ asked.last = start.last
      /\ asked.recent = start.recent /\ asked.opening = start.opening /\ asked.calls = start.calls
      /\ asked.revalidating = start.revalidating
  BY <1>3, EmptyPageFits DEF SearchStates
<1> HIDE DEF asked
<1>5. SearchGood([asked EXCEPT !.req = NoRequest])
  <2> DEFINE e == [asked EXCEPT !.req = NoRequest]
  <2>1. e \in SearchStates BY <1>4, EmptyPageFits DEF SearchStates
  <2>2. /\ e.req = NoRequest /\ e.more = NoMore /\ e.q = start.q
        /\ e.status = start.status /\ e.page = start.page /\ e.last = start.last
        /\ e.recent = start.recent /\ e.opening = start.opening /\ e.calls = start.calls
    BY <1>4 DEF SearchStates
  <2> HIDE DEF e
  <2>3. SearchRowsGood(e) BY <1>3, <2>2, EmptyPageFits DEF SearchFit, SearchQuiet, SearchRowsGood
  <2>4. SearchLiveGood(e) BY <2>2, EmptyPageFits DEF SearchLiveGood
  <2>5. e.opening = e.calls /\ (\A x, y \in e.calls : x = y) /\ LastShown(e)
    BY <1>3, <2>2 DEF SearchFit, SearchQuiet, LastShown
  <2>6. e.req.at = "none" BY <2>2, EmptyPageFits
  <2> QED BY <2>1, <2>3, <2>4, <2>5, <2>6 DEF SearchGood, SearchFit, SearchQuiet, e
<1>6. SearchGood([asked EXCEPT !.revalidating = TRUE, !.req = r])
  <2> DEFINE e == [asked EXCEPT !.revalidating = TRUE, !.req = r]
  <2>1. /\ r \in SearchRequests /\ r.live /\ r.q = s.q /\ r.got = EmptyPage /\ r.at = "timer"
    <3>1. asked.page.items \in Seq(SearchRow) BY <1>4 DEF SearchStates, SearchPage
    <3>2. Len(asked.page.items) \in Nat /\ 0 \in Nat BY <3>1, LenProperties
    <3>3. s.q \in SearchQueries BY DEF SearchStates
    <3> QED BY <3>2, <3>3, EmptyPageFits DEF SearchRequests
  <2> HIDE DEF r
  <2>2. e \in SearchStates BY <1>4, <2>1 DEF SearchStates
  <2>3. /\ e.req = r /\ e.more = NoMore /\ e.q = start.q /\ e.revalidating
        /\ e.status = start.status /\ e.page = start.page /\ e.last = start.last
        /\ e.recent = start.recent /\ e.opening = start.opening /\ e.calls = start.calls
    BY <1>4 DEF SearchStates
  <2>4. start.recent = s.recent BY <1>2 DEF start, SearchStates
  <2> HIDE DEF e, kept
  <2>5. SearchRowsGood(e)
    BY <1>3, <2>1, <2>3, EmptyPageFits DEF SearchFit, SearchQuiet, SearchRowsGood
  <2>6. SearchLiveGood(e)
    BY <1>3, <2>1, <2>3, <2>4, EmptyPageFits DEF SearchLiveGood, kept
  <2>7. e.opening = e.calls /\ (\A x, y \in e.calls : x = y) /\ LastShown(e)
    BY <1>3, <2>3 DEF SearchFit, SearchQuiet, LastShown
  <2>8. e.revalidating /\ ~e.more.on BY <2>3, EmptyPageFits
  <2> QED BY <2>2, <2>5, <2>6, <2>7, <2>8 DEF SearchGood, SearchFit, SearchQuiet, e
<1>7. CASE ~s.open \/ s.composing BY <1>1, <1>2, <1>7 DEF SearchGood
<1>8. CASE s.open /\ ~s.composing
  <2> HIDE DEF asked, r
  <2> QED BY <1>1, <1>5, <1>6, <1>8
<1> QED BY <1>7, <1>8

(* What does not touch the rows, the requests or the choice.                *)
LEMMA SearchKept ==
  ASSUME NEW s \in SearchStates, SearchGood(s), NEW t \in SearchStates,
         t.req = s.req, t.more = s.more, t.page = s.page, t.recent = s.recent, t.q = s.q,
         t.last = s.last, t.status = s.status, t.revalidating = s.revalidating,
         t.opening = t.calls, \A x, y \in t.calls : x = y, s.open => t.open, t.composing => s.composing
  PROVE  SearchGood(t)
BY DEF SearchGood, SearchFit, SearchQuiet, SearchRowsGood, SearchLiveGood, LastShown

(* A dialog that closes withdraws what it waits for.                        *)
LEMMA ClosedKeeps ==
  ASSUME NEW s \in SearchStates, SearchGood(s)
  PROVE  SearchGood(Closed(s))
<1> DEFINE t == [s EXCEPT !.open = FALSE, !.opening = {}, !.calls = {}]
<1>1. /\ t \in SearchStates /\ t.opening = {} /\ t.calls = {}
      /\ t.req = s.req /\ t.more = s.more /\ t.page = s.page /\ t.recent = s.recent /\ t.q = s.q
      /\ t.last = s.last /\ t.status = s.status /\ t.revalidating = s.revalidating
  BY DEF SearchStates
<1>2. Closed(s) = Cleanup(t) BY DEF Closed
<1> HIDE DEF t
<1>3. SearchQuiet(t) /\ LastShown(t)
  BY <1>1 DEF SearchGood, SearchFit, SearchQuiet, SearchRowsGood, LastShown
<1> QED BY <1>1, <1>2, <1>3, CleanupKeeps DEF SearchGood

(* Another text, typed or cleared.                                          *)
LEMMA UpdateKeeps ==
  ASSUME SearchInv, NEW text \in SearchQueries, NEW long \in BOOLEAN, UpdateQuery(text, long)
  PROVE  SearchInv'
<1> DEFINE kept == text = NoText /\ ~long /\ cs.recent # NoRecent
           st == IF kept THEN "ready" ELSE "loading"
           u == [cs EXCEPT !.q = text, !.long = long, !.calls = {}, !.opening = {}, !.active = -1,
                           !.status = st]
           a == AbortRequest(u)
           t == IF kept THEN [a EXCEPT !.page = cs.recent, !.loadingMore = FALSE, !.pageError = FALSE]
                ELSE a
<1>1. cs' = SearchEffect(t) BY DEF UpdateQuery
<1>2. cs \in SearchStates /\ SearchQuiet(cs) BY DEF SearchInv, SearchGood, SearchFit, SearchQuiet
<1>3. st \in {"loading", "ready", "error"} /\ -1 \in Int /\ (st = "ready" => kept)
      /\ (kept => text = NoText /\ cs.recent \in SearchPage)
  BY <1>2 DEF SearchStates
<1> HIDE DEF st, kept
<1>4. /\ u \in SearchStates /\ u.q = text /\ u.status = st /\ u.calls = {} /\ u.opening = {}
      /\ u.page = cs.page /\ u.recent = cs.recent /\ u.last = cs.last /\ u.req = cs.req
      /\ u.more = cs.more /\ u.revalidating = cs.revalidating
  BY <1>2, <1>3 DEF SearchStates
<1> HIDE DEF u
<1>5. /\ a \in SearchStates /\ a.req.at = cs.req.at /\ a.req.q = cs.req.q /\ a.req.got = cs.req.got
      /\ ~a.req.live /\ ~a.more.live /\ a.more.on = cs.more.on
      /\ a.q = text /\ a.last = cs.last /\ a.status = st /\ a.page = cs.page /\ a.recent = cs.recent
      /\ a.revalidating = cs.revalidating /\ a.opening = {} /\ a.calls = {}
  BY <1>4, AbortKeeps
<1> HIDE DEF a
<1>6. CASE kept
  <2> DEFINE w == [a EXCEPT !.page = cs.recent, !.loadingMore = FALSE, !.pageError = FALSE]
  <2>1. /\ w \in SearchStates /\ w.page = cs.recent /\ w.req = a.req /\ w.more = a.more /\ w.q = a.q
        /\ w.last = a.last /\ w.status = a.status /\ w.recent = a.recent
        /\ w.revalidating = a.revalidating /\ w.opening = a.opening /\ w.calls = a.calls
    BY <1>3, <1>5, <1>6 DEF SearchStates
  <2>2. t = w BY <1>6
  <2> HIDE DEF w, t
  <2>3. SearchRowsGood(w) BY <1>2, <1>3, <1>5, <1>6, <2>1 DEF SearchQuiet, SearchRowsGood
  <2>4. SearchQuiet(w) /\ LastShown(w)
    BY <1>2, <1>3, <1>5, <1>6, <2>1, <2>3 DEF SearchQuiet, LastShown
  <2>5. SearchGood(SearchEffect(w)) BY <2>1, <2>4, EffectKeeps
  <2> QED BY <1>1, <2>2, <2>5 DEF SearchInv
<1>7. CASE ~kept
  <2>1. t = a BY <1>7
  <2> HIDE DEF t
  <2>2. a.status # "ready" BY <1>3, <1>5, <1>7
  <2>3. SearchQuiet(a) /\ LastShown(a)
    BY <1>2, <1>5, <2>2 DEF SearchQuiet, SearchRowsGood, LastShown
  <2>4. SearchGood(SearchEffect(a)) BY <1>5, <2>3, EffectKeeps
  <2> QED BY <1>1, <2>1, <2>4 DEF SearchInv
<1> QED BY <1>6, <1>7

(* A page that the server answers with.                                     *)
LEMMA AnswersFit ==
  ASSUME NEW text \in SearchQueries, NEW n \in 0..SearchPages, NEW p \in Answers(text, n)
  PROVE  p \in SearchPage /\ Once(p.items) /\ RowsOf(p.items, text)
<1>1. PICK rows \in {<<>>} \cup {<<[c |-> c, q |-> text]>> : c \in SearchRows},
           next \in {0} \cup (IF n < SearchPages THEN {n + 1} ELSE {}) :
        p = [items |-> rows, next |-> next]
  BY DEF Answers
<1>2. next \in 0..SearchPages BY SearchAssumption
<1>3. rows \in Seq(SearchRow) /\ Once(rows) /\ RowsOf(rows, text)
  <2>1. CASE rows = <<>> BY <2>1 DEF Once, RowsOf
  <2>2. CASE rows # <<>>
    <3>1. PICK c \in SearchRows : rows = <<[c |-> c, q |-> text]>> BY <1>1, <2>2
    <3> DEFINE row == [c |-> c, q |-> text]
    <3>2. row \in SearchRow /\ row.q = text BY DEF SearchRow
    <3> HIDE DEF row
    <3>3. rows = <<row>> BY <3>1 DEF row
    <3> QED BY <3>2, <3>3 DEF Once, RowsOf
  <2> QED BY <2>1, <2>2
<1> QED BY <1>1, <1>2, <1>3 DEF SearchPage

(* Typing, answers, pages, keys and choices keep it.                        *)
LEMMA SearchStepKeeps == ASSUME SearchInv, SearchNext PROVE SearchInv'
<1>1. /\ cs \in SearchStates /\ SearchGood(cs) /\ SearchQuiet(cs) /\ SearchRowsGood(cs)
      /\ SearchLiveGood(cs) /\ LastShown(cs)
  BY DEF SearchInv, SearchGood, SearchFit, SearchQuiet
<1>2. /\ cs.page \in SearchPage /\ cs.page.items \in Seq(SearchRow) /\ cs.page.next \in 0..SearchPages
      /\ cs.req \in SearchRequests /\ cs.req.q \in SearchQueries /\ cs.req.got \in SearchPage
      /\ cs.req.got.items \in Seq(SearchRow) /\ cs.req.got.next \in 0..SearchPages
      /\ cs.more \in MoreRequests /\ cs.more.q \in SearchQueries /\ cs.more.page \in 0..SearchPages
      /\ cs.q \in SearchQueries
  BY <1>1 DEF SearchStates, SearchPage, SearchRequests, MoreRequests
<1>3. NoText \in SearchQueries /\ SearchPages \in Nat /\ SearchPages # 0 BY SearchAssumption
<1>4. NoText # "null" BY Zenon DEF NoText
<1>5. ASSUME NEW s \in SearchStates, SearchGood(s)
      PROVE  /\ SearchGood([s EXCEPT !.req = NoRequest, !.revalidating = FALSE])
             /\ SearchGood(Unlocked(s))
  <2>1. SearchGood([s EXCEPT !.req = NoRequest, !.revalidating = FALSE])
    <3> DEFINE t == [s EXCEPT !.req = NoRequest, !.revalidating = FALSE]
    <3>1. /\ t \in SearchStates /\ t.req = NoRequest /\ t.more = s.more /\ t.page = s.page
          /\ t.recent = s.recent /\ t.q = s.q /\ t.last = s.last /\ t.status = s.status
          /\ t.opening = s.opening /\ t.calls = s.calls /\ t.open = s.open /\ t.composing = s.composing
      BY EmptyPageFits DEF SearchStates
    <3> HIDE DEF t
    <3>2. SearchGood(t)
      BY <1>5, <3>1, EmptyPageFits
         DEF SearchGood, SearchFit, SearchQuiet, SearchRowsGood, SearchLiveGood, LastShown
    <3> QED BY <3>2 DEF t
  <2>2. SearchGood(Unlocked(s))
    <3> DEFINE t == Unlocked(s)
    <3>1. /\ t \in SearchStates /\ t.req = s.req /\ t.more = NoMore /\ t.page = s.page
          /\ t.recent = s.recent /\ t.q = s.q /\ t.last = s.last /\ t.status = s.status
          /\ t.revalidating = s.revalidating
          /\ t.opening = s.opening /\ t.calls = s.calls /\ t.open = s.open /\ t.composing = s.composing
      BY EmptyPageFits DEF SearchStates, Unlocked
    <3> HIDE DEF t
    <3>2. SearchGood(t)
      BY <1>5, <3>1, EmptyPageFits
         DEF SearchGood, SearchFit, SearchQuiet, SearchRowsGood, SearchLiveGood, LastShown
    <3> QED BY <3>2 DEF t
  <2> QED BY <2>1, <2>2
<1>6. CASE OpenSearch
  <2> DEFINE n == IF cs.q = NoText THEN -1 ELSE cs.active
             s == [cs EXCEPT !.open = TRUE, !.opened = {}, !.active = n]
  <2>1. n \in Int BY <1>1 DEF SearchStates
  <2>2. cs' = SearchEffect(s) BY <1>6 DEF OpenSearch
  <2> HIDE DEF n
  <2>3. s \in SearchStates BY <1>1, <2>1 DEF SearchStates
  <2>4. /\ s.req = cs.req /\ s.more = cs.more /\ s.page = cs.page /\ s.recent = cs.recent /\ s.q = cs.q
        /\ s.last = cs.last /\ s.status = cs.status /\ s.revalidating = cs.revalidating
        /\ s.opening = cs.opening /\ s.calls = cs.calls /\ s.open /\ s.composing = cs.composing
    BY <1>1 DEF SearchStates
  <2> HIDE DEF s
  <2>5. cs.opening = cs.calls /\ \A x, y \in cs.calls : x = y BY <1>1 DEF SearchQuiet
  <2>6. SearchGood(s) BY <1>1, <2>3, <2>4, <2>5, SearchKept
  <2> QED BY <2>2, <2>3, <2>6, EffectKeeps DEF SearchInv, SearchGood, SearchFit
<1>7. ASSUME NEW told \in BOOLEAN, CloseSearch(told) PROVE SearchInv'
  <2> DEFINE b == cs.composing /\ ~told
             s == [cs EXCEPT !.composing = b]
  <2>1. cs' = Closed(s) BY <1>7 DEF CloseSearch
  <2>2. b \in BOOLEAN /\ (b => cs.composing) OBVIOUS
  <2> HIDE DEF b
  <2>3. /\ s \in SearchStates /\ s.req = cs.req /\ s.more = cs.more /\ s.page = cs.page /\ s.recent = cs.recent
        /\ s.q = cs.q /\ s.last = cs.last /\ s.status = cs.status /\ s.revalidating = cs.revalidating
        /\ s.opening = cs.opening /\ s.calls = cs.calls /\ s.open = cs.open
    BY <1>1, <2>2 DEF SearchStates
  <2>4. s.composing => cs.composing BY <1>1, <2>2 DEF SearchStates
  <2> HIDE DEF s
  <2>5. cs.opening = cs.calls /\ \A x, y \in cs.calls : x = y BY <1>1 DEF SearchQuiet
  <2>6. SearchGood(s) BY <1>1, <2>3, <2>4, <2>5, SearchKept
  <2> QED BY <2>1, <2>3, <2>6, ClosedKeeps DEF SearchInv
<1>8. CASE \E text \in SearchQueries, long \in BOOLEAN : UpdateQuery(text, long)
  BY <1>8, UpdateKeeps
<1>9. CASE ClearQuery BY <1>3, <1>9, UpdateKeeps DEF ClearQuery
<1>10. CASE CompositionStart
  <2> DEFINE s == [cs EXCEPT !.composing = TRUE]
  <2>1. cs' = AbortRequest(s) BY <1>10 DEF CompositionStart
  <2>2. /\ s \in SearchStates /\ s.req = cs.req /\ s.more = cs.more /\ s.page = cs.page /\ s.recent = cs.recent
        /\ s.q = cs.q /\ s.last = cs.last /\ s.status = cs.status /\ s.revalidating = cs.revalidating
        /\ s.opening = cs.opening /\ s.calls = cs.calls
    BY <1>1 DEF SearchStates
  <2> HIDE DEF s
  <2>3. SearchQuiet(s) /\ LastShown(s) BY <1>1, <2>2 DEF SearchQuiet, SearchRowsGood, LastShown
  <2>4. /\ SearchFit(AbortRequest(s)) /\ AbortRequest(s).q = s.q /\ AbortRequest(s).last = s.last
        /\ AbortRequest(s).status = s.status
    BY <2>2, <2>3, AbortKeeps
  <2> QED BY <2>1, <2>3, <2>4 DEF SearchInv, SearchGood, LastShown
<1>11. CASE CompositionEnd
  <2> DEFINE s == [cs EXCEPT !.composing = FALSE]
  <2>1. cs' = SearchEffect(s) BY <1>11 DEF CompositionEnd
  <2>2. /\ s \in SearchStates /\ s.req = cs.req /\ s.more = cs.more /\ s.page = cs.page /\ s.recent = cs.recent
        /\ s.q = cs.q /\ s.last = cs.last /\ s.status = cs.status /\ s.revalidating = cs.revalidating
        /\ s.opening = cs.opening /\ s.calls = cs.calls
    BY <1>1 DEF SearchStates
  <2> HIDE DEF s
  <2>3. SearchQuiet(s) /\ LastShown(s) BY <1>1, <2>2 DEF SearchQuiet, SearchRowsGood, LastShown
  <2> QED BY <2>1, <2>2, <2>3, EffectKeeps DEF SearchInv
<1>12. CASE RetrySearch BY <1>1, <1>12, EffectKeeps DEF RetrySearch, SearchInv
<1>13. CASE SearchSent
  <2> DEFINE r == [cs.req EXCEPT !.at = "asked"]
  <2>1. cs.req.at = "timer" /\ cs' = [cs EXCEPT !.req = r]
    BY <1>1, <1>13 DEF SearchSent, SearchStates
  <2>2. /\ r \in SearchRequests /\ r.at = "asked" /\ r.q = cs.req.q /\ r.got = cs.req.got
        /\ r.live = cs.req.live
    BY <1>2 DEF SearchRequests
  <2> HIDE DEF r
  <2>3. /\ cs' \in SearchStates /\ cs'.req = r /\ cs'.more = cs.more /\ cs'.page = cs.page
        /\ cs'.recent = cs.recent /\ cs'.q = cs.q /\ cs'.last = cs.last /\ cs'.status = cs.status
        /\ cs'.revalidating = cs.revalidating /\ cs'.opening = cs.opening /\ cs'.calls = cs.calls
        /\ cs'.open = cs.open /\ cs'.composing = cs.composing
    BY <1>1, <2>1, <2>2 DEF SearchStates
  <2> QED BY <1>1, <2>1, <2>2, <2>3
         
             DEF SearchInv, SearchGood, SearchFit, SearchQuiet, SearchRowsGood, SearchLiveGood, LastShown
<1>14. CASE SearchAnswered
  <2> DEFINE r == cs.req
             n == IF r.got.next = 0 THEN 1 ELSE r.got.next
  <2>1. r.at = "asked" /\ r.live /\ r.q = cs.q /\ cs.revalidating /\ ~cs.more.on /\ ~cs.more.live
    BY <1>1, <1>14 DEF SearchAnswered, SearchQuiet, SearchLiveGood
  <2>2. n \in 0..SearchPages BY <1>2, <1>3
  <2>3. PICK p \in Answers(r.q, n) :
          LET got == [p EXCEPT !.items = AppendRows(r.got.items, p.items)] IN
          cs' = IF got.next > 0 /\ Len(got.items) < r.prev
                THEN [cs EXCEPT !.req.got = got]
                ELSE Settled([cs EXCEPT !.page = got, !.last = r.q, !.status = "ready",
                                        !.active = MarkedRow(got.items, r.q),
                                        !.recent = IF r.q = NoText THEN got ELSE @])
    BY <1>14 DEF SearchAnswered
  <2> DEFINE got == [p EXCEPT !.items = AppendRows(r.got.items, p.items)]
             m == MarkedRow(got.items, r.q)
             rec == IF r.q = NoText THEN got ELSE cs.recent
  <2> HIDE DEF n
  <2>4. p \in SearchPage /\ Once(p.items) /\ RowsOf(p.items, r.q) /\ p.items \in Seq(SearchRow)
    BY <1>2, <2>2, AnswersFit DEF SearchPage
  <2>5. got \in SearchPage /\ Once(got.items) /\ RowsOf(got.items, r.q) /\ got.items \in Seq(SearchRow)
    <3>1. Once(r.got.items) /\ RowsOf(r.got.items, r.q) BY <1>1 DEF SearchRowsGood
    <3>2. /\ AppendRows(r.got.items, p.items) \in Seq(SearchRow) /\ Once(AppendRows(r.got.items, p.items))
          /\ RowsOf(AppendRows(r.got.items, p.items), r.q)
      BY <1>2, <2>4, <3>1, RowsAppended
    <3> QED BY <2>4, <3>2 DEF SearchPage
  <2>6. m \in Int
    <3> HIDE DEF got
    <3> DEFINE marked == IF cs.active \in 0..(Len(cs.page.items) - 1)
                         THEN {cs.page.items[cs.active + 1].c} ELSE {}
               at == {i \in 1..Len(got.items) : got.items[i].c \in marked}
    <3>1. m = IF at # {} THEN (CHOOSE i \in at : TRUE) - 1
              ELSE IF r.q # NoText /\ got.items # <<>> THEN 0 ELSE -1
      BY DEF MarkedRow
    <3>2. at \subseteq Int BY <2>5
    <3> HIDE DEF at
    <3>3. at # {} => (CHOOSE i \in at : TRUE) \in Int BY <3>2
    <3> QED BY <3>1, <3>3
  <2>7. rec \in SearchPage \cup {NoRecent} /\ Once(rec.items) /\ RowsOf(rec.items, NoText)
    BY <1>1, <2>5 DEF SearchStates, SearchRowsGood
  <2>8. cs' \in {[cs EXCEPT !.req.got = got],
                 Settled([cs EXCEPT !.page = got, !.last = r.q, !.status = "ready",
                                    !.active = m, !.recent = rec])}
    BY <2>3
  <2> HIDE DEF got, m, rec
  <2>9. SearchGood([cs EXCEPT !.req.got = got])
    <3> DEFINE r2 == [cs.req EXCEPT !.got = got]
               t == [cs EXCEPT !.req = r2]
    <3>1. /\ r2 \in SearchRequests /\ r2.at = cs.req.at /\ r2.q = cs.req.q /\ r2.got = got
          /\ r2.live = cs.req.live
      BY <1>2, <2>5 DEF SearchRequests
    <3>2. t = [cs EXCEPT !.req.got = got] BY <1>1 DEF SearchStates
    <3> HIDE DEF r2
    <3>3. /\ t \in SearchStates /\ t.req = r2 /\ t.more = cs.more /\ t.page = cs.page
          /\ t.recent = cs.recent /\ t.q = cs.q /\ t.last = cs.last /\ t.status = cs.status
          /\ t.revalidating = cs.revalidating /\ t.opening = cs.opening /\ t.calls = cs.calls
          /\ t.open = cs.open /\ t.composing = cs.composing
      BY <1>1, <3>1 DEF SearchStates
    <3> HIDE DEF t
    <3>4. SearchGood(t)
      BY <1>1, <2>5, <3>1, <3>3
         DEF SearchGood, SearchFit, SearchQuiet, SearchRowsGood, SearchLiveGood, LastShown
    <3> QED BY <3>2, <3>4
  <2>10. SearchGood(Settled([cs EXCEPT !.page = got, !.last = r.q, !.status = "ready",
                                       !.active = m, !.recent = rec]))
    <3> DEFINE t == Settled([cs EXCEPT !.page = got, !.last = r.q, !.status = "ready",
                                       !.active = m, !.recent = rec])
    <3>1. t \in SearchStates
      BY <1>1, <1>2, <2>5, <2>6, <2>7, EmptyPageFits DEF SearchStates, Settled
    <3>2. /\ t.req = NoRequest /\ t.more = cs.more /\ t.page = got
          /\ t.recent = rec /\ t.q = cs.q /\ t.last = r.q /\ t.status = "ready"
          /\ t.opening = cs.opening /\ t.calls = cs.calls
      BY <1>1 DEF SearchStates, Settled
    <3> HIDE DEF t, r
    <3>3. SearchRowsGood(t) BY <2>1, <2>5, <2>7, <3>2, EmptyPageFits DEF SearchRowsGood
    <3>4. SearchQuiet(t) /\ SearchLiveGood(t)
      BY <1>1, <2>1, <3>1, <3>2, <3>3, EmptyPageFits DEF SearchQuiet, SearchLiveGood
    <3>5. LastShown(t) BY <2>1, <3>2 DEF LastShown
    <3> QED BY <3>4, <3>5 DEF SearchGood, SearchFit, t
  <2> QED BY <2>8, <2>9, <2>10 DEF SearchInv
<1>15. CASE SearchFailed
  <2> DEFINE st == IF cs.req.q = NoText /\ cs.recent # NoRecent THEN "ready" ELSE "error"
             t == [cs EXCEPT !.status = st]
  <2>1. cs.req.at = "asked" /\ cs' = Settled(IF ~cs.req.live THEN cs ELSE t)
    BY <1>15 DEF SearchFailed
  <2>2. CASE ~cs.req.live BY <1>1, <1>5, <2>1, <2>2 DEF Settled, SearchInv
  <2>3. CASE cs.req.live
    <3>1. cs.req.q = cs.q /\ (st = "ready" => cs.q = NoText /\ RowsOf(cs.page.items, NoText))
          /\ st \in {"loading", "ready", "error"}
      BY <1>1, <2>3 DEF SearchLiveGood
    <3> HIDE DEF st
    <3>2. /\ t \in SearchStates /\ t.req = cs.req /\ t.more = cs.more /\ t.page = cs.page
          /\ t.recent = cs.recent /\ t.q = cs.q /\ t.last = cs.last /\ t.status = st
          /\ t.revalidating = cs.revalidating /\ t.opening = cs.opening /\ t.calls = cs.calls
          /\ t.open = cs.open /\ t.composing = cs.composing
      BY <1>1, <3>1 DEF SearchStates
    <3> HIDE DEF t
    <3>3. ~cs.more.live BY <1>1, <2>1 DEF SearchQuiet, SearchLiveGood
    <3>4. SearchGood(t)
      BY <1>1, <3>1, <3>2, <3>3
         DEF SearchGood, SearchFit, SearchQuiet, SearchRowsGood, SearchLiveGood, LastShown
    <3> QED BY <1>5, <2>1, <2>3, <3>2, <3>4 DEF Settled, SearchInv
  <2> QED BY <2>2, <2>3
<1>16. CASE LoadMore
  <2> DEFINE m == [on |-> TRUE, q |-> cs.q, page |-> cs.page.next, live |-> ~cs.composing]
  <2>1. /\ ~cs.revalidating /\ cs.status = "ready" /\ cs.open
        /\ cs' = [cs EXCEPT !.lock = TRUE, !.loadingMore = TRUE, !.pageError = FALSE, !.more = m]
    BY <1>16 DEF LoadMore, MoreButton, SearchRowsShown
  <2>2. m \in MoreRequests /\ m.on /\ m.q = cs.q /\ (m.live => ~cs.composing)
    BY <1>2 DEF MoreRequests
  <2> HIDE DEF m
  <2>3. cs' \in SearchStates BY <1>1, <2>1, <2>2 DEF SearchStates
  <2>4. /\ cs'.req = cs.req /\ cs'.more = m /\ cs'.page = cs.page
        /\ cs'.recent = cs.recent /\ cs'.q = cs.q /\ cs'.last = cs.last /\ cs'.status = cs.status
        /\ cs'.revalidating = cs.revalidating /\ cs'.opening = cs.opening /\ cs'.calls = cs.calls
        /\ cs'.open = cs.open /\ cs'.composing = cs.composing
    BY <1>1, <2>1 DEF SearchStates
  <2>5. cs.req.at = "none" BY <1>1, <2>1 DEF SearchQuiet
  <2> QED BY <1>1, <2>1, <2>2, <2>3, <2>4, <2>5
         
             DEF SearchInv, SearchGood, SearchFit, SearchQuiet, SearchRowsGood, SearchLiveGood, LastShown
<1>17. CASE MoreAnswered
  <2>1. cs.more.on /\ cs.more.live /\ cs.more.q = cs.q /\ cs.status = "ready" /\ cs.req.at = "none"
    BY <1>1, <1>17 DEF MoreAnswered, SearchQuiet, SearchLiveGood
  <2>2. PICK p \in Answers(cs.more.q, cs.more.page) :
          cs' = Unlocked([cs EXCEPT !.page = [p EXCEPT !.items = AppendRows(cs.page.items, p.items)]])
    BY <1>17 DEF MoreAnswered
  <2> DEFINE got == [p EXCEPT !.items = AppendRows(cs.page.items, p.items)]
             t == [cs EXCEPT !.page = got]
  <2>3. p \in SearchPage /\ Once(p.items) /\ RowsOf(p.items, cs.q) /\ p.items \in Seq(SearchRow)
    BY <1>2, <2>1, AnswersFit DEF SearchPage
  <2>4. got \in SearchPage /\ Once(got.items) /\ RowsOf(got.items, cs.q)
    <3>1. Once(cs.page.items) /\ RowsOf(cs.page.items, cs.q) BY <1>1, <2>1 DEF SearchRowsGood
    <3>2. /\ AppendRows(cs.page.items, p.items) \in Seq(SearchRow) /\ Once(AppendRows(cs.page.items, p.items))
          /\ RowsOf(AppendRows(cs.page.items, p.items), cs.q)
      BY <1>2, <2>3, <3>1, RowsAppended
    <3> QED BY <2>3, <3>2 DEF SearchPage
  <2> HIDE DEF got
  <2>5. /\ t \in SearchStates /\ t.req = cs.req /\ t.more = cs.more /\ t.page = got
        /\ t.recent = cs.recent /\ t.q = cs.q /\ t.last = cs.last /\ t.status = cs.status
        /\ t.revalidating = cs.revalidating /\ t.opening = cs.opening /\ t.calls = cs.calls
        /\ t.open = cs.open /\ t.composing = cs.composing
    BY <1>1, <2>4 DEF SearchStates
  <2>6. cs' = Unlocked(t) BY <2>2 DEF got
  <2> HIDE DEF t
  <2>7. cs.last = NoText => cs.q = NoText BY <1>1, <2>1 DEF LastShown
  <2>8. ~cs.req.live BY <1>1, <2>1 DEF SearchLiveGood
  <2>9. SearchGood(t)
    BY <1>1, <2>1, <2>4, <2>5, <2>7, <2>8
       DEF SearchGood, SearchFit, SearchQuiet, SearchRowsGood, SearchLiveGood, LastShown
  <2> QED BY <1>5, <2>5, <2>6, <2>9 DEF SearchInv
<1>18. ASSUME NEW stale \in BOOLEAN, MoreFailed(stale) PROVE SearchInv'
  <2>1. cs' = IF ~cs.more.live THEN Unlocked(cs)
              ELSE IF stale THEN SearchEffect(Unlocked([cs EXCEPT !.last = "null"]))
              ELSE Unlocked([cs EXCEPT !.pageError = TRUE])
    BY <1>18 DEF MoreFailed
  <2>2. SearchGood(Unlocked(cs)) BY <1>1, <1>5
  <2>3. SearchGood(Unlocked([cs EXCEPT !.pageError = TRUE]))
    <3> DEFINE t == [cs EXCEPT !.pageError = TRUE]
    <3>1. /\ t \in SearchStates /\ t.req = cs.req /\ t.more = cs.more /\ t.page = cs.page
          /\ t.recent = cs.recent /\ t.q = cs.q /\ t.last = cs.last /\ t.status = cs.status
          /\ t.revalidating = cs.revalidating /\ t.opening = cs.opening /\ t.calls = cs.calls
          /\ t.open = cs.open /\ t.composing = cs.composing
      BY <1>1 DEF SearchStates
    <3> HIDE DEF t
    <3>2. cs.opening = cs.calls /\ \A x, y \in cs.calls : x = y BY <1>1 DEF SearchQuiet
    <3>3. SearchGood(t) BY <1>1, <3>1, <3>2, SearchKept
    <3>4. SearchGood(Unlocked(t)) BY <1>5, <3>1, <3>3
    <3> QED BY <3>4 DEF t
  <2>4. CASE cs.more.live /\ stale
    <3> DEFINE t == Unlocked([cs EXCEPT !.last = "null"])
    <3>1. /\ t \in SearchStates /\ t.req = cs.req /\ t.more = NoMore /\ t.page = cs.page
          /\ t.recent = cs.recent /\ t.q = cs.q /\ t.last = "null" /\ t.status = cs.status
          /\ t.revalidating = cs.revalidating /\ t.opening = cs.opening /\ t.calls = cs.calls
          /\ t.open = cs.open /\ t.composing = cs.composing
      BY <1>1, EmptyPageFits DEF SearchStates, Unlocked
    <3>2. cs' = SearchEffect(t) BY <2>1, <2>4
    <3>3. cs.open /\ ~cs.composing BY <1>1, <2>4 DEF SearchLiveGood
    <3> HIDE DEF t
    <3>4. SearchQuiet(t) BY <1>1, <1>4, <3>1, EmptyPageFits DEF SearchQuiet, SearchRowsGood
    <3>5. SearchGood(SearchEffect(t)) BY <3>1, <3>3, <3>4, EffectKeeps
    <3> QED BY <3>2, <3>5 DEF SearchInv
  <2> QED BY <2>1, <2>2, <2>3, <2>4 DEF SearchInv
<1>19. ASSUME NEW t \in SearchStates, NEW n \in Int, NEW C \in SUBSET SearchRows,
              \A x, y \in C : x = y,
              t = [cs EXCEPT !.active = n] \/ t = [cs EXCEPT !.calls = C, !.opening = C]
       PROVE  SearchGood(t)
  <2>1. /\ t.req = cs.req /\ t.more = cs.more /\ t.page = cs.page
        /\ t.recent = cs.recent /\ t.q = cs.q /\ t.last = cs.last /\ t.status = cs.status
        /\ t.revalidating = cs.revalidating
        /\ t.open = cs.open /\ t.composing = cs.composing
    BY <1>1, <1>19 DEF SearchStates
  <2>2. t.opening = t.calls /\ \A x, y \in t.calls : x = y
    <3>1. cs.opening = cs.calls /\ \A x, y \in cs.calls : x = y BY <1>1 DEF SearchQuiet
    <3>2. CASE t = [cs EXCEPT !.active = n]
      <4>1. t.opening = cs.opening /\ t.calls = cs.calls BY <1>1, <3>2 DEF SearchStates
      <4> QED BY <3>1, <4>1
    <3>3. CASE t = [cs EXCEPT !.calls = C, !.opening = C]
      <4>1. t.opening = C /\ t.calls = C BY <1>1, <3>3 DEF SearchStates
      <4> QED BY <1>19, <4>1
    <3> QED BY <1>19, <3>2, <3>3
  <2> QED BY <1>1, <2>1, <2>2, SearchKept
<1>20. ASSUME NEW d \in {-1, 1}, MoveActive(d) PROVE SearchInv'
  <2> DEFINE n == Len(cs.page.items)
             low == IF cs.active + d < n - 1 THEN cs.active + d ELSE n - 1
             m == IF low > 0 THEN low ELSE 0
  <2>1. cs' = [cs EXCEPT !.active = m] BY <1>20 DEF MoveActive
  <2>2. cs.active \in Int /\ n \in Nat BY <1>1, <1>2, LenProperties DEF SearchStates
  <2> HIDE DEF n
  <2>3. m \in Int BY <2>2
  <2> HIDE DEF m
  <2>4. cs' \in SearchStates BY <1>1, <2>1, <2>3 DEF SearchStates
  <2> QED BY <1>19, <2>1, <2>3, <2>4, {} \in SUBSET SearchRows DEF SearchInv
<1>21. ASSUME NEW i \in Int, PointAt(i) PROVE SearchInv'
  <2>1. cs' = [cs EXCEPT !.active = i] BY <1>21 DEF PointAt
  <2>2. cs' \in SearchStates BY <1>1, <2>1 DEF SearchStates
  <2> QED BY <1>19, <2>1, <2>2, {} \in SUBSET SearchRows DEF SearchInv
<1>22. ASSUME NEW c \in SearchRows, cs' = Chosen(c) PROVE SearchInv'
  <2>1. cs' = [cs EXCEPT !.calls = {c}, !.opening = {c}] BY <1>22 DEF Chosen
  <2>2. {c} \in SUBSET SearchRows /\ (\A x, y \in {c} : x = y) /\ 0 \in Int OBVIOUS
  <2>3. cs' \in SearchStates BY <1>1, <2>1, <2>2 DEF SearchStates
  <2> DEFINE C == {c}
  <2>4. cs' = [cs EXCEPT !.calls = C, !.opening = C] /\ C \in SUBSET SearchRows /\ \A x, y \in C : x = y
    BY <2>1, <2>2
  <2> HIDE DEF C
  <2>5. SearchGood(cs') BY <1>19, <2>2, <2>3, <2>4
  <2> QED BY <2>5 DEF SearchInv
<1>23. CASE EnterKey
  <2>1. cs.active \in 0..(Len(cs.page.items) - 1) /\ cs' = Chosen(cs.page.items[cs.active + 1].c)
    BY <1>23 DEF EnterKey
  <2>2. cs.active + 1 \in 1..Len(cs.page.items) BY <1>2, <2>1, LenProperties
  <2>3. cs.page.items[cs.active + 1] \in SearchRow BY <1>2, <2>2, ElementOfSeq
  <2>4. cs.page.items[cs.active + 1].c \in SearchRows BY <2>3 DEF SearchRow
  <2> QED BY <1>22, <2>1, <2>4
<1>24. ASSUME NEW c \in SearchRows, ChoiceOpened(c) PROVE SearchInv'
  <2> DEFINE s == [cs EXCEPT !.opened = {c}, !.calls = cs.calls \ {c}]
             t == [s EXCEPT !.open = FALSE, !.opening = {}, !.calls = {}]
             u == [cs EXCEPT !.opened = {c}]
  <2>1. cs' = Cleanup(t) BY <1>24 DEF ChoiceOpened, Closed
  <2>2. {c} \in SUBSET SearchRows OBVIOUS
  <2>3. u \in SearchStates /\ cs' = Closed(u)
    <3>1. u \in SearchStates BY <1>1, <2>2 DEF SearchStates
    <3>2. t = [u EXCEPT !.open = FALSE, !.opening = {}, !.calls = {}] BY <1>1 DEF SearchStates
    <3> QED BY <2>1, <3>1, <3>2 DEF Closed
  <2>4. /\ u.req = cs.req /\ u.more = cs.more /\ u.page = cs.page
        /\ u.recent = cs.recent /\ u.q = cs.q /\ u.last = cs.last /\ u.status = cs.status
        /\ u.revalidating = cs.revalidating /\ u.opening = cs.opening /\ u.calls = cs.calls
        /\ u.open = cs.open /\ u.composing = cs.composing
    BY <1>1 DEF SearchStates
  <2> HIDE DEF u
  <2>5. cs.opening = cs.calls /\ \A x, y \in cs.calls : x = y BY <1>1 DEF SearchQuiet
  <2>6. SearchGood(u) BY <1>1, <2>3, <2>4, <2>5, SearchKept
  <2> QED BY <2>3, <2>6, ClosedKeeps DEF SearchInv
<1>25. ASSUME NEW c \in SearchRows, NEW gone \in BOOLEAN, ChoiceFailed(c, gone) PROVE SearchInv'
  <2> DEFINE items == IF gone THEN RowsLeft(cs.page.items, {c}) ELSE cs.page.items
             p == [cs.page EXCEPT !.items = items]
             C == cs.calls \ {c}
  <2>1. cs' = [cs EXCEPT !.calls = C, !.opening = {}, !.page = p]
    BY <1>1, <1>25 DEF ChoiceFailed, SearchStates
  <2>2. C = {}
    <3>1. cs.calls = {c} BY <1>1, <1>25 DEF ChoiceFailed, SearchQuiet
    <3> QED BY <3>1
  <2>3. /\ items \in Seq(SearchRow) /\ Once(items)
        /\ \A text : RowsOf(cs.page.items, text) => RowsOf(items, text)
    <3>1. CASE ~gone BY <1>1, <1>2, <3>1 DEF SearchRowsGood
    <3>2. CASE gone
      <4> DEFINE rows == cs.page.items
                 kept == RowsLeft(rows, {c})
      <4>1. rows \in Seq(SearchRow) /\ Once(rows) BY <1>1, <1>2 DEF SearchRowsGood
      <4>2. items = kept BY <3>2
      <4> HIDE DEF rows
      <4>3. /\ kept \in Seq(SearchRow) /\ (Once(rows) => Once(kept))
            /\ \A k \in 1..Len(kept) : \E i \in 1..Len(rows) : kept[k] = rows[i] /\ rows[i].c \notin {c}
        BY <4>1, RowsWithout
      <4> HIDE DEF kept
      <4>4. ASSUME NEW text, RowsOf(rows, text) PROVE RowsOf(kept, text) BY <4>3, <4>4 DEF RowsOf
      <4> HIDE DEF items
      <4> QED BY <4>1, <4>2, <4>3, <4>4 DEF rows
    <3> QED BY <3>1, <3>2
  <2> HIDE DEF items, C
  <2>4. p \in SearchPage /\ p.items = items BY <1>2, <2>3 DEF SearchPage
  <2> HIDE DEF p
  <2>5. /\ cs' \in SearchStates /\ cs'.page = p /\ cs'.calls = {} /\ cs'.opening = {}
        /\ cs'.req = cs.req /\ cs'.more = cs.more /\ cs'.recent = cs.recent
        /\ cs'.q = cs.q /\ cs'.last = cs.last /\ cs'.status = cs.status
        /\ cs'.revalidating = cs.revalidating /\ cs'.open = cs.open /\ cs'.composing = cs.composing
    BY <1>1, <2>1, <2>2, <2>4 DEF SearchStates
  <2>6. SearchRowsGood(cs') BY <1>1, <2>3, <2>4, <2>5 DEF SearchRowsGood
  <2>7. SearchQuiet(cs') BY <1>1, <2>5, <2>6 DEF SearchQuiet
  <2>8. SearchLiveGood(cs') /\ LastShown(cs')
    BY <1>1, <2>3, <2>4, <2>5 DEF SearchLiveGood, LastShown
  <2> QED BY <2>7, <2>8 DEF SearchInv, SearchGood, SearchFit
<1> QED
  BY <1>6, <1>7, <1>8, <1>9, <1>10, <1>11, <1>12, <1>13, <1>14, <1>15, <1>16, <1>17, <1>18, <1>20, <1>21,
     <1>22, <1>23, <1>24, <1>25 DEF SearchNext, Choose

-----------------------------------------------------------------------------
(* The reveal of a hit.                                                     *)

(* SearchReveal.  An intent is that of the page, whose address is committed *)
(* or on its way, so that the page does not come to it a second time.       *)
RevealPages == RevealConvs \cup {Nowhere}
RevealRuns == [conv : RevealPages, dom : 0..MaxRenders, hash : -1..MaxRenders,
               range : -1..MaxRenders, at : {"waiting", "scrolled", "painted"}]
RevealStates ==
  [on : BOOLEAN, intent : RevealPages, target : BOOLEAN, route : RevealPages,
   detail : RevealPages, going : RevealPages, run : RevealRuns, ink : RevealPages,
   toasts : 0..1]
RevealOwned(r) ==
  /\ r.intent # Nowhere =>
       r.detail = r.intent /\ r.going \in {r.intent, Nowhere} /\ (r.going = Nowhere => r.route = r.intent)
  /\ r.run.conv # Nowhere => r.intent = r.run.conv /\ r.toasts = 0
  /\ r.ink # Nowhere => r.run.conv = r.ink
  /\ r.run.hash # -1 => r.run.conv # Nowhere
RevealGood(r) == r \in RevealStates /\ RevealOwned(r)
RevealInv == RevealGood(rv)

(* Without an intent nothing runs.                                          *)
LEMMA RevealBegins == ASSUME NEW on \in BOOLEAN, rv = RevealStart(on) PROVE RevealInv
<1>1. 0 \in 0..MaxRenders /\ 0 \in 0..1 /\ -1 \in -1..MaxRenders BY RevealAssumption
<1> QED BY <1>1 DEF RevealInv, RevealGood, RevealStates, RevealRuns, RevealPages, RevealOwned,
                    RevealStart, NoReveal

(* What a reveal promises follows.                                          *)
LEMMA RevealHolds == RevealInv => RevealTypeOK /\ PaintOwned
  BY DEF RevealInv, RevealGood, RevealStates, RevealRuns, RevealPages, RevealOwned,
         RevealTypeOK, PaintOwned

(* The effect, on a state whose run and paint do not matter.                *)
LEMMA RevealEffectKeeps ==
  ASSUME NEW s \in RevealStates, NEW found \in BOOLEAN, s.toasts = 0 \/ s.intent = Nowhere,
         s.intent # Nowhere =>
           s.detail = s.intent /\ s.going \in {s.intent, Nowhere} /\ (s.going = Nowhere => s.route = s.intent)
  PROVE  RevealGood(RevealEffect(s, found))
<1> DEFINE c == CleanupReveal(s)
<1>1. /\ NoReveal \in RevealRuns /\ NoReveal.conv = Nowhere /\ NoReveal.hash = -1
      /\ [NoReveal EXCEPT !.conv = s.intent, !.hash = 0] \in RevealRuns
      /\ [NoReveal EXCEPT !.conv = s.intent, !.hash = 0].conv = s.intent
  <2>1. 0 \in 0..MaxRenders /\ -1 \in -1..MaxRenders BY RevealAssumption
  <2>2. s.intent \in RevealPages /\ Nowhere \in RevealPages BY DEF RevealStates, RevealPages
  <2>3. NoReveal \in RevealRuns BY <2>1, <2>2 DEF RevealRuns, NoReveal
  <2>4. 0 \in -1..MaxRenders BY RevealAssumption
  <2>5. [NoReveal EXCEPT !.conv = s.intent, !.hash = 0] \in RevealRuns
    BY <2>2, <2>3, <2>4 DEF RevealRuns
  <2> QED BY <2>3, <2>5 DEF NoReveal
<1>2. /\ c \in RevealStates /\ c.run = NoReveal /\ c.ink = Nowhere /\ c.intent = s.intent
      /\ c.detail = s.detail /\ c.going = s.going /\ c.route = s.route /\ c.toasts = s.toasts
  BY <1>1 DEF CleanupReveal, RevealStates, RevealPages
<1>3. RevealGood(c) BY <1>1, <1>2 DEF RevealGood, RevealOwned
<1>4. CASE s.toasts = 0
  <2>1. RevealGood(Missing(c))
    <3>1. CleanupReveal(c) = c BY <1>2 DEF CleanupReveal, RevealStates
    <3>2. Missing(c) = [c EXCEPT !.toasts = 1] BY <1>2, <1>4, <3>1 DEF Missing
    <3>3. 1 \in 0..1 OBVIOUS
    <3> HIDE DEF c
    <3> QED BY <1>1, <1>2, <1>3, <3>2, <3>3 DEF RevealGood, RevealStates, RevealOwned
  <2>2. CASE s.intent # Nowhere
    <3> DEFINE r == [NoReveal EXCEPT !.conv = s.intent, !.hash = 0]
    <3>1. r \in RevealRuns /\ r.conv = s.intent BY <1>1
    <3>2. RevealEffect(s, found) \in {c, Missing(c), [c EXCEPT !.run = r]} BY DEF RevealEffect
    <3> HIDE DEF c, r
    <3>3. RevealGood([c EXCEPT !.run = r])
      BY <1>2, <1>3, <1>4, <2>2, <3>1 DEF RevealGood, RevealStates, RevealOwned
    <3> QED BY <1>3, <2>1, <3>2, <3>3
  <2>3. CASE s.intent = Nowhere BY <1>3, <2>3 DEF RevealEffect
  <2> QED BY <2>2, <2>3
<1>5. CASE s.intent = Nowhere BY <1>3, <1>5 DEF RevealEffect
<1> QED BY <1>4, <1>5

(* Choices, navigation, renders, hashes and ticks keep it.                  *)
LEMMA RevealStepKeeps == ASSUME RevealInv, RevealNext PROVE RevealInv'
<1>1. rv \in RevealStates /\ RevealOwned(rv) /\ rv.run \in RevealRuns
  BY DEF RevealInv, RevealGood, RevealStates
<1>2. MaxRenders \in Nat BY RevealAssumption
<1>3. RevealGood(CleanupReveal(rv))
  <2>1. NoReveal \in RevealRuns /\ NoReveal.conv = Nowhere /\ NoReveal.hash = -1
    BY <1>2 DEF RevealRuns, NoReveal, RevealPages
  <2> QED BY <1>1, <2>1 DEF RevealGood, RevealStates, RevealOwned, CleanupReveal, RevealPages
<1>4. ASSUME NEW c \in RevealConvs, NEW t \in BOOLEAN, NEW f \in BOOLEAN, ChooseResult(c, t, f)
      PROVE  RevealInv'
  <2> DEFINE s == [rv EXCEPT !.detail = c, !.going = c, !.intent = c, !.target = t, !.toasts = 0]
  <2>1. s \in RevealStates /\ s.toasts = 0 /\ s.intent = c /\ s.detail = c /\ s.going = c
    <3>1. 0 \in 0..1 /\ c \in RevealPages BY DEF RevealPages
    <3> QED BY <1>1, <3>1 DEF RevealStates
  <2>2. rv' = RevealEffect(s, f) BY <1>4 DEF ChooseResult
  <2> HIDE DEF s
  <2>3. RevealGood(RevealEffect(s, f)) BY <2>1, RevealEffectKeeps
  <2> QED BY <2>2, <2>3 DEF RevealInv
<1>5. ASSUME NEW s \in RevealStates, RevealOwned(s) \/ (s.intent # Nowhere /\ s.intent # s.route),
             NEW changed \in BOOLEAN, changed \/ RevealOwned(s)
      PROVE  RevealGood(RouteEffect(s, changed, TRUE))
  <2>1. CASE changed /\ s.intent # s.route /\ s.intent # Nowhere
    <3> DEFINE u == [s EXCEPT !.intent = Nowhere]
    <3>1. u \in RevealStates /\ u.intent = Nowhere BY DEF RevealStates, RevealPages
    <3> HIDE DEF u
    <3>2. RevealGood(RevealEffect(u, TRUE)) BY <3>1, RevealEffectKeeps
    <3> QED BY <2>1, <3>2 DEF RouteEffect, u
  <2>2. CASE ~(changed /\ s.intent # s.route /\ s.intent # Nowhere)
    BY <1>5, <2>2 DEF RouteEffect, RevealGood
  <2> QED BY <2>1, <2>2
<1>6. CASE CommitRoute
  <2> DEFINE s == [rv EXCEPT !.route = rv.going, !.going = Nowhere]
  <2>1. rv.going # Nowhere /\ rv' = RouteEffect(s, rv.going # rv.route, TRUE)
    BY <1>6 DEF CommitRoute
  <2>2. s \in RevealStates /\ RevealOwned(s)
    BY <1>1, <2>1 DEF RevealStates, RevealOwned, RevealPages
  <2> HIDE DEF s
  <2> QED BY <1>5, <2>1, <2>2 DEF RevealInv
<1>7. ASSUME NEW c \in RevealConvs, GoTo(c) PROVE RevealInv'
  <2> DEFINE s == [rv EXCEPT !.route = c]
  <2>1. rv.going = Nowhere /\ rv.route # c /\ rv' = RouteEffect(s, TRUE, TRUE) BY <1>7 DEF GoTo
  <2>2. /\ s \in RevealStates /\ s.intent = rv.intent /\ s.route = c
        /\ (RevealOwned(s) \/ (s.intent # Nowhere /\ s.intent # s.route))
    BY <1>1, <2>1 DEF RevealStates, RevealOwned, RevealPages
  <2> HIDE DEF s
  <2> QED BY <1>5, <2>1, <2>2 DEF RevealInv
<1>8. CASE ShowDetail
  <2>1. rv.going = Nowhere /\ rv.detail # rv.route BY <1>8 DEF ShowDetail
  <2>2. rv.intent = Nowhere BY <1>1, <2>1 DEF RevealOwned
  <2>3. rv' = [rv EXCEPT !.detail = rv.route] BY <1>8, <2>2 DEF ShowDetail
  <2> QED BY <1>1, <2>2, <2>3 DEF RevealInv, RevealGood, RevealStates, RevealOwned
<1>9. CASE RenderMessage
  <2>1. /\ rv.run.conv # Nowhere /\ rv.run.dom < MaxRenders
        /\ rv' = Rebuild([rv EXCEPT !.run.dom = rv.run.dom + 1])
    BY <1>9 DEF RenderMessage
  <2> DEFINE s == [rv EXCEPT !.run.dom = rv.run.dom + 1]
  <2>2. rv.run.dom + 1 \in 0..MaxRenders /\ rv.run.dom + 1 \in -1..MaxRenders
    BY <1>1, <1>2, <2>1 DEF RevealRuns
  <2>3. /\ s \in RevealStates /\ s.run.dom = rv.run.dom + 1 /\ s.run.conv = rv.run.conv
        /\ s.run.hash = rv.run.hash /\ s.intent = rv.intent /\ s.detail = rv.detail
        /\ s.going = rv.going /\ s.route = rv.route /\ s.ink = rv.ink /\ s.toasts = rv.toasts
    BY <1>1, <2>2 DEF RevealStates, RevealRuns
  <2> HIDE DEF s
  <2>4. RevealGood(s) BY <1>1, <2>3 DEF RevealGood, RevealOwned
  <2>5. RevealGood([s EXCEPT !.run.hash = s.run.dom])
    BY <1>1, <2>1, <2>2, <2>3 DEF RevealGood, RevealStates, RevealRuns, RevealOwned
  <2> QED BY <2>1, <2>4, <2>5 DEF Rebuild, s, RevealInv
<1>10. CASE HashedSame
  <2> DEFINE s == [rv EXCEPT !.run.range = rv.run.hash, !.run.hash = -1]
  <2>1. rv' = PaintIfStarted(s) BY <1>10 DEF HashedSame
  <2>2. /\ s \in RevealStates /\ s.run.conv = rv.run.conv /\ s.run.hash = -1 /\ s.intent = rv.intent
        /\ s.detail = rv.detail /\ s.going = rv.going /\ s.route = rv.route /\ s.ink = rv.ink
        /\ s.toasts = rv.toasts
    <3>1. -1 \in -1..MaxRenders BY <1>2
    <3> QED BY <1>1, <3>1 DEF RevealStates, RevealRuns
  <2> HIDE DEF s
  <2>3. RevealGood(s) BY <1>1, <2>2 DEF RevealGood, RevealOwned
  <2>4. RevealGood([s EXCEPT !.ink = s.run.conv])
    BY <1>1, <2>2, <2>3 DEF RevealGood, RevealStates, RevealRuns, RevealOwned
  <2> QED BY <2>1, <2>3, <2>4 DEF PaintIfStarted, RevealInv
<1>11. CASE HashedOther
  <2>1. rv.toasts = 0 BY <1>1, <1>11 DEF HashedOther, RevealOwned
  <2>2. rv' = [CleanupReveal(rv) EXCEPT !.toasts = 1]
    <3>1. CleanupReveal(rv) \in RevealStates /\ CleanupReveal(rv).toasts = 0
      BY <1>1, <1>3, <2>1 DEF CleanupReveal, RevealGood, RevealStates
    <3>2. rv' = [CleanupReveal(rv) EXCEPT !.toasts = @ + 1] BY <1>11 DEF HashedOther, Missing
    <3> QED BY <3>1, <3>2
  <2>3. CleanupReveal(rv).run.conv = Nowhere BY <1>1 DEF CleanupReveal, NoReveal, RevealStates
  <2> QED BY <1>3, <2>2, <2>3 DEF RevealInv, RevealGood, RevealStates, RevealOwned
<1>12. CASE TickPosition
  <2>1. rv' = [rv EXCEPT !.run.at = "scrolled"] BY <1>12 DEF TickPosition
  <2> QED BY <1>1, <2>1 DEF RevealInv, RevealGood, RevealStates, RevealRuns, RevealOwned
<1>13. CASE TickPaint
  <2>1. rv' = [rv EXCEPT !.run.at = "painted", !.ink = rv.run.conv] BY <1>13 DEF TickPaint
  <2> QED BY <1>1, <2>1 DEF RevealInv, RevealGood, RevealStates, RevealRuns, RevealOwned
<1>14. CASE TickEnd BY <1>3, <1>14 DEF TickEnd, RevealInv
<1>15. CASE CancelByUser
  <2>1. rv' = [CleanupReveal(rv) EXCEPT !.intent = Nowhere] BY <1>15 DEF CancelByUser
  <2>2. CleanupReveal(rv).run.conv = Nowhere BY <1>1 DEF CleanupReveal, NoReveal, RevealStates
  <2> QED BY <1>3, <2>1, <2>2 DEF RevealInv, RevealGood, RevealStates, RevealOwned, RevealPages
<1> QED
  BY <1>4, <1>6, <1>7, <1>8, <1>9, <1>10, <1>11, <1>12, <1>13, <1>14, <1>15 DEF RevealNext

-----------------------------------------------------------------------------
(* The parts together.                                                      *)

RequestsInv == PutInv /\ CardInv /\ SearchInv /\ RevealInv

(* One part is on, and all begin as they must.                              *)
LEMMA RequestsBegin == RequestsInit => RequestsInv
<1> SUFFICES ASSUME RequestsInit PROVE RequestsInv
  OBVIOUS
<1>1. PICK part \in {"put", "card", "search", "reveal", "design", "results"} :
        /\ mp = PutStart(part = "put")
        /\ fc \in IF part = "card" THEN CardStarts ELSE {CardStart("off", FALSE)}
        /\ cs = SearchStart(part = "search")
        /\ rv = RevealStart(part = "reveal")
  BY DEF RequestsInit
<1>2. PutInv
  BY <1>1, PutBegins, (part = "put") \in BOOLEAN
<1>3. CardInv
  <2>1. \E kind \in {"off", "image", "file", "list", "paste"}, local \in BOOLEAN : fc = CardStart(kind, local)
    BY <1>1 DEF CardStarts
  <2> QED BY <2>1, CardBegins
<1>4. SearchInv
  BY <1>1, SearchBegins, (part = "search") \in BOOLEAN
<1>5. RevealInv
  BY <1>1, RevealBegins, (part = "reveal") \in BOOLEAN
<1> QED BY <1>2, <1>3, <1>4, <1>5 DEF RequestsInv

(* A step of one part leaves the others alone.                              *)
LEMMA RequestsStep ==
  ASSUME RequestsInv, [RequestsNext]_requestVars
  PROVE  RequestsInv'
<1>1. PutNext \/ mp' = mp
  BY DEF RequestsNext, requestVars
<1>2. CardNext \/ fc' = fc
  BY DEF RequestsNext, requestVars
<1>3. SearchNext \/ cs' = cs
  BY DEF RequestsNext, requestVars
<1>4. RevealNext \/ rv' = rv
  BY DEF RequestsNext, requestVars
<1>5. PutInv'
  BY <1>1, PutStepKeeps DEF RequestsInv, PutInv
<1>6. CardInv'
  BY <1>2, CardStepKeeps DEF RequestsInv, CardInv
<1>7. SearchInv'
  BY <1>3, SearchStepKeeps DEF RequestsInv, SearchInv
<1>8. RevealInv'
  BY <1>4, RevealStepKeeps DEF RequestsInv, RevealInv
<1> QED BY <1>5, <1>6, <1>7, <1>8 DEF RequestsInv

(* However workers, answers, texts, clicks and navigation interleave: every *)
(* part of a file is put once and confirmed in order (putMultipartFile),    *)
(* no link is used that has run out and no error covers a text              *)
(* (FileAttachmentCard, PastedTextCard), the rows of the search answer the  *)
(* text in the input, each once (ConversationSearch), and what is painted   *)
(* belongs to the page that is shown (revealSearchResult).                  *)
THEOREM RequestsStaySound == RequestsSpec => []RequestsSound
<1>1. RequestsInit => RequestsInv
  BY RequestsBegin
<1>2. RequestsInv /\ [RequestsNext]_requestVars => RequestsInv'
  BY RequestsStep
<1>3. RequestsInv => RequestsSound
  BY PutHolds, CardHolds, SearchHolds, RevealHolds DEF RequestsInv, RequestsSound
<1> QED BY <1>1, <1>2, <1>3, PTL DEF RequestsSpec
=============================================================================
