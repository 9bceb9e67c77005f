--------------------------- MODULE DesignResults ---------------------------
(***************************************************************************)
(* The services of the design workbench (design/src/runtime/results.ts):   *)
(* the model catalog with the rules of archiving that mirror the server's, *)
(* and public links with their snapshots, of which the browser keeps a     *)
(* copy.  outcomes.run evaluates a change when it answers, so each is one  *)
(* step; a request that fails there changes nothing.  As in CatalogRows    *)
(* one model key, one upstream key and one remote model stand for all; the *)
(* account, files and expiry dates are left out.                           *)
(***************************************************************************)
EXTENDS Integers, FiniteSets, Sequences, FiniteSetsExt, TLC

CONSTANTS SharedRooms,   \* conversations that may be shared, as numbers
          MaxChanges     \* bound on the requests
ASSUME ResultsAssumption == SharedRooms \subseteq Nat \ {0} /\ MaxChanges \in Nat

VARIABLE dr

(* Rows by the number of their ref; at: archived_at, or 0.  solo: routes    *)
(* archived by themselves.  rooms: how many messages a conversation has.    *)
(* shares: the links, with what their conversation had.  snapshots, saved:  *)
(* what a token reads here and in the browser's store.  revoked: a link was *)
(* ever withdrawn.                                                          *)
SceneCatalog == [models |-> 1 :> [at |-> 0], upstreams |-> 1 :> [at |-> 0],
                 routes |-> 1 :> [at |-> 0, model |-> 1, upstream |-> 1]]
Snapshot(s, c) == [room |-> c, seen |-> s.rooms[c]]
FirstShare == [token |-> 0, room |-> 1, seen |-> 1]

(* createResults: the scenes without a link, and those with one, which has  *)
(* a token of its own and is not put in the store.                          *)
Session(s, shared) ==
  [s EXCEPT !.catalog = SceneCatalog, !.solo = {}, !.revoked = FALSE,
            !.shares = IF shared THEN <<[FirstShare EXCEPT !.seen = s.rooms[1]]>> ELSE <<>>,
            !.snapshots = IF shared THEN 0 :> Snapshot(s, 1) ELSE <<>>]
ResultsStart(on, shared) ==
  Session([on |-> on, catalog |-> SceneCatalog, clock |-> 0, solo |-> {}, moves |-> 0,
           rooms |-> [c \in SharedRooms |-> 1], shares |-> <<>>, snapshots |-> <<>>,
           saved |-> <<>>, revoked |-> FALSE], shared)

-----------------------------------------------------------------------------
(* The catalog                                                              *)

InUse(rows) == {i \in DOMAIN rows : rows[i].at = 0}
NextRef(rows) == Max({0} \cup DOMAIN rows) + 1

Request(s) == dr.on /\ dr.moves < MaxChanges /\ dr' = [s EXCEPT !.moves = dr.moves + 1]
Change(cat) == Request([dr EXCEPT !.catalog = cat])

(* upsertModel, upsertUpstream, upsertRoute: the active row stays, or one   *)
(* with the next ref is added; a route wants both parents active.           *)
SaveModel ==
  Change([dr.catalog EXCEPT !.models = IF InUse(@) # {} THEN @ ELSE NextRef(@) :> [at |-> 0] @@ @])
SaveUpstream ==
  Change([dr.catalog EXCEPT !.upstreams = IF InUse(@) # {} THEN @
                                          ELSE NextRef(@) :> [at |-> 0] @@ @])
SaveRoute ==
  \E m \in InUse(dr.catalog.models), u \in InUse(dr.catalog.upstreams) :
    LET row == [at |-> 0, model |-> m, upstream |-> u] IN
    Change([dr.catalog EXCEPT !.routes =
              IF InUse(@) # {} THEN [r \in DOMAIN @ |-> IF r \in InUse(@) THEN row ELSE @[r]]
              ELSE NextRef(@) :> row @@ @])

At(rows, which, time) ==
  [i \in DOMAIN rows |-> IF i \in which THEN [rows[i] EXCEPT !.at = time] ELSE rows[i]]

(* archiveModel: its active routes get its time.                            *)
ArchiveModel ==
  \E m \in InUse(dr.catalog.models) :
    LET now == dr.clock + 1
        routes == {r \in InUse(dr.catalog.routes) : dr.catalog.routes[r].model = m} IN
    Request([dr EXCEPT !.clock = now, !.catalog.models = At(@, {m}, now),
                       !.catalog.routes = At(@, routes, now)])

(* archiveUpstream: refused while an active route uses it.                  *)
ArchiveUpstream ==
  \E u \in InUse(dr.catalog.upstreams) :
    /\ \A r \in InUse(dr.catalog.routes) : dr.catalog.routes[r].upstream # u
    /\ Request([dr EXCEPT !.clock = @ + 1, !.catalog.upstreams = At(@, {u}, dr.clock + 1)])

ArchiveRoute ==
  \E r \in InUse(dr.catalog.routes) :
    Request([dr EXCEPT !.clock = @ + 1, !.catalog.routes = At(@, {r}, dr.clock + 1),
                       !.solo = @ \cup {r}])

(* Mutant: a model returns with all its routes.                             *)
RestoreModelAll ==
  \E m \in DOMAIN dr.catalog.models \ InUse(dr.catalog.models) :
    LET cat == dr.catalog
        back == {r \in DOMAIN cat.routes : cat.routes[r].model = m} IN
    /\ InUse(cat.models) = {}
    /\ Change([cat EXCEPT !.models = At(@, {m}, 0), !.routes = At(@, back, 0)])

(* restore: a model returns with the routes of its time whose upstream is   *)
(* active, unless its key is taken; a route wants both parents active.      *)
RestoreModel ==
  \E m \in DOMAIN dr.catalog.models \ InUse(dr.catalog.models) :
    LET cat == dr.catalog
        back == {r \in DOMAIN cat.routes : /\ cat.routes[r].model = m
                                           /\ cat.routes[r].at = cat.models[m].at
                                           /\ cat.routes[r].upstream \in InUse(cat.upstreams)} IN
    /\ InUse(cat.models) = {}
    /\ Change([cat EXCEPT !.models = At(@, {m}, 0), !.routes = At(@, back, 0)])
RestoreUpstream ==
  \E u \in DOMAIN dr.catalog.upstreams \ InUse(dr.catalog.upstreams) :
    /\ InUse(dr.catalog.upstreams) = {}
    /\ Change([dr.catalog EXCEPT !.upstreams = At(@, {u}, 0)])
RestoreRoute ==
  \E r \in DOMAIN dr.catalog.routes \ InUse(dr.catalog.routes) :
    LET cat == dr.catalog IN
    /\ cat.routes[r].model \in InUse(cat.models) /\ cat.routes[r].upstream \in InUse(cat.upstreams)
    /\ InUse(cat.routes) = {}
    /\ Request([dr EXCEPT !.catalog.routes = At(@, {r}, 0), !.solo = @ \ {r}])

(* importEnvironment: the catalog of the scene again.                       *)
ImportCatalog == Request([dr EXCEPT !.catalog = SceneCatalog, !.solo = {}])

-----------------------------------------------------------------------------
(* Links                                                                    *)

(* create: the link there is, or one numbered by how many there are.        *)
CreateShare(c) ==
  /\ \A i \in DOMAIN dr.shares : dr.shares[i].room # c
  /\ LET token == Len(dr.shares) + 1 IN
     Request([dr EXCEPT !.shares = Append(@, [token |-> token, room |-> c, seen |-> dr.rooms[c]]),
                        !.snapshots = token :> Snapshot(dr, c) @@ @,
                        !.saved = token :> Snapshot(dr, c) @@ @])

RevokeShare(i) ==
  LET row == dr.shares[i]
      drop(f) == [t \in DOMAIN f \ {row.token} |-> f[t]] IN
  Request([dr EXCEPT !.shares = SelectSeq(@, LAMBDA x : x.room # row.room \/ x.token # row.token),
                     !.snapshots = drop(@), !.saved = drop(@), !.revoked = TRUE])

(* getPublic: what this page made, or what the browser kept.                *)
PublicShare(s, token) ==
  IF token \in DOMAIN s.snapshots THEN {s.snapshots[token]}
  ELSE IF token \in DOMAIN s.saved THEN {s.saved[token]} ELSE {}

(* A conversation goes on; the page is loaded again.                        *)
MoreMessages(c) == dr.rooms[c] < 2 /\ Request([dr EXCEPT !.rooms[c] = @ + 1])
ReloadPage == \E shared \in BOOLEAN :
                Request(Session([dr EXCEPT !.rooms = [c \in SharedRooms |-> 1]], shared))

ResultsInit(on) == IF on THEN \E shared \in BOOLEAN : dr = ResultsStart(TRUE, shared)
                   ELSE dr = ResultsStart(FALSE, FALSE)
ResultsNext ==
  \/ SaveModel \/ SaveUpstream \/ SaveRoute \/ ArchiveModel \/ ArchiveUpstream \/ ArchiveRoute
  \/ RestoreModel \/ RestoreUpstream \/ RestoreRoute \/ ImportCatalog \/ ReloadPage
  \/ \E c \in SharedRooms : CreateShare(c) \/ MoreMessages(c)
  \/ \E i \in DOMAIN dr.shares : RevokeShare(i)

-----------------------------------------------------------------------------
ResultsTypeOK == dr.clock \in Nat /\ dr.moves \in 0..MaxChanges /\ DOMAIN dr.rooms = SharedRooms

(* Archiving and restoring keep a key to one active row and an active route *)
(* between active rows, and a route that was archived by itself stays so    *)
(* when its model returns (the archive rules of results.ts).                *)
MirrorKeeps ==
  LET cat == dr.catalog IN
  /\ Cardinality(InUse(cat.models)) <= 1 /\ Cardinality(InUse(cat.upstreams)) <= 1
  /\ Cardinality(InUse(cat.routes)) <= 1
  /\ \A r \in InUse(cat.routes) : /\ cat.routes[r].model \in InUse(cat.models)
                                  /\ cat.routes[r].upstream \in InUse(cat.upstreams)
  /\ dr.solo \cap InUse(cat.routes) = {}

(* As long as none was withdrawn, a conversation has one link, which shows  *)
(* what it had when it was shared, whatever an earlier page left in the     *)
(* store (create, getPublic).                                               *)
LinksShowTheirOwn ==
  ~dr.revoked => \A i \in DOMAIN dr.shares :
    LET row == dr.shares[i] IN
    /\ PublicShare(dr, row.token) = {[room |-> row.room, seen |-> row.seen]}
    /\ \A j \in DOMAIN dr.shares : dr.shares[j].room = row.room => j = i
=============================================================================
