----------------------------- MODULE PeerCatalog -----------------------------
(***************************************************************************)
(* What a consumer sees of its peers: routes and manifests, resolve,       *)
(* list_registered_with_coverage, refresh and the advisory cache           *)
(* (mesh_core/src/services/peer_access.rs) and the pages of query_catalog  *)
(* (catalog_service.rs).                                                   *)
(*                                                                         *)
(* One consumer makes a call at a time.  Its calls read several files one  *)
(* after the other, while providers publish and withdraw (the steps of     *)
(* PublicationLog) and configured paths are re-pointed or lost.            *)
(*                                                                         *)
(* An item is a product version; items are numbered in the order in which  *)
(* query_catalog sorts references and versions.                            *)
(***************************************************************************)
EXTENDS Naturals, Sequences, FiniteSets, SequencesExt

CONSTANTS Config,     \* the configured namespaces, the local one first
          Dirs,       \* directories a path can lead to
          Owner,      \* directory -> namespace its manifest names
          Items, Space,
          Wanted,     \* the items that satisfy the filters of the query
          PageLimit,
          InputLimit, \* total size of the manifests: 32 MiB in the code
          MaxMoves,   \* bound on the times a path is re-pointed
          MaxRev,     \* bound on the revisions of a manifest
          Nowhere, None

\* validate_project_config
ValidConfig(c) == c # <<>> /\ IsInjective(c)

ASSUME CatalogAssumption ==
    /\ Config \in Seq(STRING) /\ ValidConfig(Config)
    /\ Owner \in [Dirs -> STRING] /\ Space \in [Items -> STRING]
    /\ Items \subseteq Nat /\ IsFiniteSet(Items)
    /\ Wanted \subseteq Items
    /\ PageLimit \in Nat \ {0} /\ {InputLimit, MaxMoves, MaxRev} \subseteq Nat

VARIABLES
    \* the file systems
    rev,      \* directory -> manifest.revision, 0 without a manifest
    life,     \* directory -> item -> "none", "active" or "withdrawn"
    route,    \* namespace -> directory its configured path leads to
    cache,    \* the namespaces that the last refresh could read
    \* the consumer's call
    at, todo, seen, item, root, found,
    \* what its caller has: the pages so far, the cursor, a resolved item
    got, cursor, pages, resolved,
    \* history: what was registered when the call began, whether a path moved
    \* during a call of this query, how often during this call, and in all
    began, moved, during, moves

files == <<rev, life, route>>
call == <<at, todo, seen, item, root, found>>
query == <<got, cursor, pages, moved>>
catalogVars == <<files, cache, call, query, resolved, began, during, moves>>

Local == Head(Config)
Spaces == Range(Config)
ItemsOf(n) == {i \in Items : Space[i] = n}

-----------------------------------------------------------------------------
(* Reading                                                                 *)

Unavailable == [rev |-> 0, ok |-> FALSE, size |-> 0, active |-> {}]

\* parse_manifest of the file in a directory, for a configured namespace
ManifestAt(d, n) ==
    IF d = Nowhere THEN Unavailable
    ELSE IF rev[d] = 0 THEN Unavailable
    ELSE [rev |-> rev[d], ok |-> Owner[d] = n,
          size |-> Cardinality({i \in Items : life[d][i] # "none"}),
          active |-> IF Owner[d] = n THEN {i \in ItemsOf(n) : life[d][i] = "active"} ELSE {}]

Registered == [n \in Spaces |-> ManifestAt(route[n], n)]

\* The entries that query_catalog keeps
Kept(view) == {i \in Wanted : \E n \in DOMAIN view : i \in view[n].active}

\* matches.sort_by
Sorted(S) ==
    CHOOSE s \in [1..Cardinality(S) -> S] : \A i, j \in DOMAIN s : i < j => s[i] < s[j]

Matches(view) == Sorted(Kept(view))

NoView == [n \in {} |-> Unavailable]
With(view, n, m) == [x \in DOMAIN view \cup {n} |-> IF x = n THEN m ELSE view[x]]
\* The first page's cursor, and the last page's next_cursor: None in the code
NoCursor == [fingerprint |-> <<>>, after |-> 0]
InputSize(view) == FoldLeft(LAMBDA s, n : IF n \in DOMAIN view THEN s + view[n].size ELSE s, 0, Config)

CatalogInit ==
    /\ rev = [d \in Dirs |-> 0]
    /\ life = [d \in Dirs |-> [i \in Items |-> "none"]]
    /\ route \in [Spaces -> Dirs] /\ \A n \in Spaces : Owner[route[n]] = n
    /\ cache = {}
    /\ at = "idle" /\ todo = <<>> /\ seen = NoView
    /\ item = None /\ root = Nowhere /\ found = Nowhere
    /\ got = <<>> /\ cursor = NoCursor /\ pages = 0 /\ resolved = None
    /\ began = NoView /\ moved = FALSE /\ during = 0 /\ moves = 0

\* A call returns; what it had read is gone.
Return ==
    /\ at' = "idle" /\ todo' = <<>> /\ seen' = NoView
    /\ item' = None /\ root' = Nowhere /\ found' = Nowhere /\ during' = 0

NewQuery == got' = <<>> /\ cursor' = NoCursor /\ pages' = 0 /\ moved' = FALSE
Forget == began' = NoView

-----------------------------------------------------------------------------
(* query_catalog                                                           *)

\* The first page, or the next one of a query that has a cursor
StartPage(fresh) ==
    /\ at = "idle" /\ (fresh \/ cursor # NoCursor)
    /\ IF fresh THEN NewQuery ELSE UNCHANGED query
    /\ at' = "list" /\ todo' = Config
    /\ began' = Registered /\ resolved' = None
    /\ UNCHANGED <<files, cache, seen, item, root, found, during, moves>>

\* One round of the loop in list_registered_with_coverage: a route or
\* manifest that cannot be used is a row of the coverage.
ListNamespace ==
    /\ at = "list" /\ todo # <<>>
    /\ LET n == Head(todo) m == ManifestAt(route[n], n) IN
       IF InputSize(seen) + m.size > InputLimit
       THEN Return /\ NewQuery /\ Forget
       ELSE /\ seen' = With(seen, n, m)
            /\ todo' = Tail(todo)
            /\ at' = IF Tail(todo) = <<>> THEN "page" ELSE "list"
            /\ UNCHANGED <<item, root, found, during, query, began>>
    /\ UNCHANGED <<files, cache, resolved, moves>>

\* Mutant: the cursor binds only the routes.
FingerprintOfRoutes == route

\* The coverage of the listing, and where the paths lead now
Fingerprint == <<[n \in Spaces |-> <<seen[n].rev, seen[n].ok>>], route>>

\* The cursor must fit; then the matches behind it, up to the limit.
MakePage ==
    /\ at = "page"
    /\ Return
    /\ IF cursor # NoCursor /\ cursor.fingerprint # Fingerprint
       THEN NewQuery /\ Forget
       ELSE LET rest == Sorted({i \in Kept(seen) : cursor = NoCursor \/ i > cursor.after})
                page == SubSeq(rest, 1, IF Len(rest) < PageLimit THEN Len(rest) ELSE PageLimit)
            IN  /\ got' = got \o page
                /\ pages' = pages + 1
                /\ cursor' = IF Len(rest) > PageLimit
                             THEN [fingerprint |-> Fingerprint, after |-> Last(page)] ELSE NoCursor
                /\ UNCHANGED <<moved, began>>
    /\ UNCHANGED <<files, cache, resolved, moves>>

-----------------------------------------------------------------------------
(* resolve                                                                 *)

\* route_for_namespace; without a route the call fails at once.
StartResolve(i) ==
    /\ at = "idle"
    /\ Space[i] \in Spaces /\ route[Space[i]] # Nowhere
    /\ at' = "manifest" /\ item' = i /\ root' = route[Space[i]]
    /\ began' = [n \in {Space[i]} |-> life[route[n]][i]]
    /\ resolved' = None
    /\ NewQuery
    /\ UNCHANGED <<files, cache, todo, seen, found, during, moves>>

\* A peer's files are opened by the configured path, the local ones by the
\* canonical one.
Displayed(n) == IF n = Local THEN root ELSE route[n]

\* Mutant: a version that the last refresh found is taken from the cache.
MayResolveCached(d, n) == n \in cache \/ (ManifestAt(d, n).ok /\ life[d][item] = "active")

\* The manifest is usable and its record of the item is active.
MayResolve(d, n) == ManifestAt(d, n).ok /\ life[d][item] = "active"

ResolveManifest ==
    /\ at = "manifest"
    /\ LET d == Displayed(Space[item]) IN
       IF d # Nowhere /\ MayResolve(d, Space[item])
       THEN found' = d /\ at' = "asset" /\ UNCHANGED <<todo, seen, item, root, during, began>>
       ELSE Return /\ Forget
    /\ UNCHANGED <<files, cache, query, resolved, moves>>

\* checked_asset_path: the asset's real path lies below the route's.
Inside(d) == d # Nowhere /\ d = root

\* The asset is there, inside, has the recorded size and, if asked for, the
\* recorded digest; or the call fails.
ResolveAsset ==
    /\ at = "asset"
    /\ Return /\ Forget
    /\ resolved' \in {None} \cup
          (IF Inside(Displayed(Space[item]))
           THEN {[item |-> item, from |-> found, in |-> Displayed(Space[item]), moves |-> during,
                  refreshed |-> Space[item] \in cache, was |-> began[Space[item]]]}
           ELSE {})
    /\ UNCHANGED <<files, cache, query, moves>>

-----------------------------------------------------------------------------
(* refresh                                                                 *)

\* All routes first: without the local one the call fails, a lost peer is
\* recorded as unavailable.
StartRefresh ==
    /\ at = "idle"
    /\ route[Local] # Nowhere
    /\ at' = "refresh"
    /\ todo' = SelectSeq(Config, LAMBDA n : route[n] # Nowhere)
    /\ seen' = [n \in {x \in Spaces : route[x] = Nowhere} |-> Unavailable]
    /\ root' = route[Local]
    /\ Forget /\ resolved' = None
    /\ NewQuery
    /\ UNCHANGED <<files, cache, item, found, during, moves>>

RefreshNamespace ==
    /\ at = "refresh" /\ todo # <<>>
    /\ LET n == Head(todo) IN seen' = With(seen, n, ManifestAt(Displayed(n), n))
    /\ todo' = Tail(todo)
    /\ UNCHANGED <<files, cache, at, item, root, found, query, resolved, began, during, moves>>

\* The snapshot replaces the cache file, or the write fails.
WriteCache ==
    /\ at = "refresh" /\ todo = <<>>
    /\ Return
    /\ cache' \in {cache, {n \in Spaces : seen[n].ok}}
    /\ UNCHANGED <<files, query, resolved, began, moves>>

-----------------------------------------------------------------------------
(* Providers and paths                                                     *)

Change(d, i, from, to) ==
    /\ life[d][i] = from /\ rev[d] < MaxRev
    /\ life' = [life EXCEPT ![d][i] = to]
    /\ rev' = [rev EXCEPT ![d] = @ + 1]
    /\ UNCHANGED <<route, cache, call, query, resolved, began, during, moves>>

Provider == \E d \in Dirs : \E i \in ItemsOf(Owner[d]) :
    Change(d, i, "none", "active") \/ Change(d, i, "active", "withdrawn")

\* Somebody re-points a configured path, or it is gone.
Repoint(n, d) ==
    /\ moves < MaxMoves /\ route[n] # d
    /\ route' = [route EXCEPT ![n] = d]
    /\ moves' = moves + 1
    /\ during' = IF at = "idle" THEN 0 ELSE during + 1
    /\ moved' = (moved \/ at \in {"list", "page"})
    /\ UNCHANGED <<rev, life, cache, call, got, cursor, pages, resolved, began>>

Consumer ==
    \/ \E fresh \in BOOLEAN : StartPage(fresh)
    \/ ListNamespace \/ MakePage
    \/ \E i \in Items : StartResolve(i)
    \/ ResolveManifest \/ ResolveAsset
    \/ StartRefresh \/ RefreshNamespace \/ WriteCache

CatalogNext ==
    \/ Consumer \/ Provider
    \/ \E n \in Spaces : \E d \in Dirs \cup {Nowhere} : Repoint(n, d)

CatalogSpec == CatalogInit /\ [][CatalogNext]_catalogVars
-----------------------------------------------------------------------------
(* Properties                                                              *)

Finished == at = "idle" /\ pages > 0 /\ cursor = NoCursor

\* The pages of a query together are the registered versions of one instant,
\* the one at which the last page was asked for, although every page reads
\* the manifests again and one after the other; only a path that is re-pointed
\* during a call can spoil it.  (A single page has no second look.)
PagesAreOneInstant == Finished /\ pages > 1 /\ ~moved => got = Matches(began)

\* A version that was withdrawn when resolve was called is not resolved,
\* whatever the cache says, while the paths stay; and what resolve returns
\* lies in the directory whose manifest registers it, also when the path is
\* re-pointed once between the two looks.
ResolveSound ==
    resolved # None =>
        /\ resolved.moves = 0 => resolved.was # "withdrawn"
        /\ resolved.moves < 2 => resolved.from = resolved.in
=============================================================================
