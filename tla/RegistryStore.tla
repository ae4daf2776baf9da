---------------------------- MODULE RegistryStore ----------------------------
(***************************************************************************)
(* The legacy registry: a SQLite file (mesh_core/src/db.rs) that processes *)
(* open at the same time, RegistryService over it                          *)
(* (services/registry_service.rs, repositories/, domain.rs), and consume,  *)
(* which copies a registered source and leaves a receipt.                  *)
(*                                                                         *)
(* A process opens the registry, runs one command and ends.  SQLite is     *)
(* external: one writer at a time, readers see committed rows, and a       *)
(* transaction that has read cannot write once another one has committed.  *)
(* Rows are kept in the order of their ids; each names the process that    *)
(* wrote it.  The processes share one working directory.                   *)
(***************************************************************************)
EXTENDS Naturals, Sequences, FiniteSets, SequencesExt

CONSTANTS Procs, Nobody,
          Names, Lower,    \* team names, and their lower-case form
          Labels,          \* version labels
          Paths,           \* what may be given as a path
          Upstreams,       \* the ones that lineage is recorded of
          Anchor,          \* the absolute path it stands for
          Number,          \* what parse::<i64> makes of it: an id, 0 for one
                           \* below 1, or Absent
          Parts,           \* names of directory entries
          Kinds,           \* what may be at a place at first: a directory (TRUE),
                           \* a plain file (FALSE) or nothing (Absent)
          Absent,
          Columns          \* columns that older registry files lack

\* The places at which files are
Places == {Anchor[path] : path \in Paths}

\* A directory with its entries, or a plain file, the same bytes under every
\* name.  Bytes are called after the place they were first at.
Trees == [dir: BOOLEAN, parts: [Parts -> Places \cup {"partial", Absent}]]
Tree(dir, bytes) == [dir |-> dir, parts |-> [e \in Parts |-> bytes]]
Without(t, gone) ==
    [dir |-> t.dir, parts |-> [e \in Parts |-> IF e \in gone THEN Absent ELSE t.parts[e]]]

\* What show_product answers
ProductDetail ==
    [product: Nat, version: Nat, team: Nat, lineage: SUBSET (Paths \X (Nat \cup {Absent}))]

\* An absolute path is no number; Absent is no value of any kind, and a product
\* id is told from a path.
ASSUME RegistryAssumption ==
    /\ Nobody \notin Procs /\ Absent \notin Procs
    /\ Absent \notin Paths /\ Absent \notin Labels /\ Absent \notin Nat
    /\ \A path \in Paths : path \notin Nat
    /\ Upstreams \subseteq Paths
    /\ Absent \notin ProductDetail /\ Absent \notin Trees
    /\ Number \in [Paths -> Nat \cup {Absent}] /\ Anchor \in [Paths -> Paths]
    /\ \A path \in Paths : Number[Anchor[path]] = Absent
    /\ Parts # {} /\ Kinds \subseteq {TRUE, FALSE, Absent}

VARIABLES
    db,       \* the committed tables
    writer,   \* the process that may write
    files,    \* place -> the tree there, or Absent
    receipts, \* output place -> version id a receipt beside it names, or Absent
    pc, cmd, snap, result,
    todo,     \* the entries that a consume has yet to copy
    disturbed \* history: consumes whose source or output another one changed

vars == <<db, writer, files, receipts, pc, cmd, snap, result, todo, disturbed>>

\* columns is Absent while the file has no tables.
Empty == [columns |-> Absent, teams |-> <<>>, products |-> <<>>, versions |-> <<>>, lineage |-> <<>>]

NoCommand == [kind |-> "none"]

Init ==
    /\ db \in {[Empty EXCEPT !.columns = c] : c \in {Absent, {}, Columns}}
    /\ writer = Nobody
    /\ \E kind \in [Places -> Kinds] :
          files = [x \in Places |-> IF kind[x] = Absent THEN Absent ELSE Tree(kind[x], x)]
    /\ receipts = [x \in Places |-> Absent]
    /\ pc = [p \in Procs |-> "start"]
    /\ cmd = [p \in Procs |-> NoCommand]
    /\ snap = [p \in Procs |-> Empty]
    /\ todo = [p \in Procs |-> Parts]
    /\ disturbed = {}
    /\ result = [p \in Procs |-> "none"]

Goto(p, l) == pc' = [pc EXCEPT ![p] = l]
End(p, r) == /\ Goto(p, "end")
             /\ result' = [result EXCEPT ![p] = r]
             /\ snap' = [snap EXCEPT ![p] = Empty]
Ready(p, c) == pc[p] = "ready" /\ cmd' = [cmd EXCEPT ![p] = c]

-----------------------------------------------------------------------------
(* Reading: what the repositories' queries return                          *)

Ids(table, P(_)) == {i \in DOMAIN table : P(table[i])}
Least(S) == CHOOSE i \in S : \A j \in S : i <= j
Greatest(S) == CHOOSE i \in S : \A j \in S : j <= i

\* Mutant: the spelling counts.
TeamsNamedExactly(d, name) == Ids(d.teams, LAMBDA t : t.name = name)

TeamsNamed(d, name) == Ids(d.teams, LAMBDA t : Lower[t.name] = Lower[name])
VersionsAt(d, path) == Ids(d.versions, LAMBDA v : v.path = path)
VersionsOf(d, product) == Ids(d.versions, LAMBDA v : v.product = product)
Labelled(d, product, label) == {i \in VersionsOf(d, product) : d.versions[i].label = label}

\* upstream_context
ProductAt(d, path) == IF VersionsAt(d, path) = {} THEN Absent
                      ELSE d.versions[Least(VersionsAt(d, path))].product

\* parse_product_ref: what looks like a number is a product id, anything else
\* a source path; then the product
ProductRef(d, ref) ==
    LET id == IF ref \in Paths THEN Number[ref] ELSE ref
    IN  IF id = Absent THEN ProductAt(d, ref) ELSE IF id \in DOMAIN d.products THEN id ELSE Absent

\* Mutant: the first version of a product counts as its latest.
LatestIsFirst(d, product) == Least(VersionsOf(d, product))

\* get_latest_for_product
Latest(d, product) == Greatest(VersionsOf(d, product))

\* resolve_version
ResolveVersion(d, product, label) ==
    LET ids == IF label = Absent THEN VersionsOf(d, product) ELSE Labelled(d, product, label)
    IN  IF ids = {} THEN Absent ELSE IF label = Absent THEN Latest(d, product) ELSE Least(ids)

\* lineage_for_version with the product that each upstream path names
LineageFor(d, version) ==
    {<<d.lineage[i].upstream, ProductAt(d, d.lineage[i].upstream)>> :
        i \in Ids(d.lineage, LAMBDA l : l.version = version)}

\* show_product
ShowProduct(d, ref, label) ==
    LET product == ProductRef(d, ref)
        version == IF product = Absent THEN Absent ELSE ResolveVersion(d, product, label)
    IN  IF version = Absent THEN Absent
        ELSE [product |-> product, version |-> version, lineage |-> LineageFor(d, version),
              team |-> d.products[product].team]

\* search_products: every product with its newest version, if it has one
SearchProducts(d, team) ==
    {<<i, IF VersionsOf(d, i) = {} THEN Absent ELSE Greatest(VersionsOf(d, i))>> :
        i \in {k \in DOMAIN d.products :
                 team = Absent \/ Lower[d.teams[d.products[k].team].name] = Lower[team]}}
-----------------------------------------------------------------------------
(* init_db, at the start of every command                                  *)

\* A file without tables: the first statement writes, and waits its turn.
OpenCreate(p) ==
    /\ pc[p] = "start" /\ db.columns = Absent /\ writer = Nobody
    /\ db' = [db EXCEPT !.columns = Columns]
    /\ Goto(p, "ready")
    /\ UNCHANGED <<writer, files, receipts, cmd, snap, todo, disturbed, result>>

\* Otherwise the transaction reads first,
OpenRead(p) ==
    /\ pc[p] = "start" /\ db.columns # Absent
    /\ Goto(p, "open")
    /\ snap' = [snap EXCEPT ![p] = db]
    /\ UNCHANGED <<db, writer, files, receipts, cmd, todo, disturbed, result>>

\* and writes then: the missing columns, and the update of NULLs even if none
\* is missing.  That fails at once if somebody writes or has written.
OpenWrite(p) ==
    /\ pc[p] = "open"
    /\ IF writer = Nobody /\ db = snap[p]
       THEN /\ db' = [db EXCEPT !.columns = Columns]
            /\ Goto(p, "ready")
            /\ snap' = [snap EXCEPT ![p] = Empty] /\ UNCHANGED result
       ELSE End(p, "busy") /\ UNCHANGED db
    /\ UNCHANGED <<writer, files, receipts, cmd, todo, disturbed>>

-----------------------------------------------------------------------------
(* serve                                                                   *)

\* BEGIN IMMEDIATE: the transaction works on a copy.
ServeBegin(p, c) ==
    /\ Ready(p, c)
    /\ writer = Nobody /\ writer' = p
    /\ snap' = [snap EXCEPT ![p] = db]
    /\ Goto(p, "product")
    /\ UNCHANGED <<db, files, receipts, todo, disturbed, result>>

\* Mutant: what the failed transaction wrote stays.
RollbackKeeps(p) ==
    /\ writer' = Nobody
    /\ db' = snap[p]
    /\ End(p, "failed")

Rollback(p) ==
    /\ writer' = Nobody
    /\ End(p, "failed")
    /\ UNCHANGED db

\* get_or_create_team, and the product
ServeProduct(p) ==
    /\ pc[p] = "product"
    /\ LET d == snap[p]
           known == TeamsNamed(d, cmd[p].team)
           team == IF known = {} THEN Len(d.teams) + 1 ELSE Least(known)
       IN  snap' = [snap EXCEPT ![p] =
              [d EXCEPT !.teams =
                           IF known # {} THEN @
                           ELSE Append(@, [name |-> cmd[p].team, by |-> p, via |-> "serve"]),
                        !.products = Append(@, [team |-> team, by |-> p])]]
    /\ Goto(p, "version")
    /\ UNCHANGED <<db, writer, files, receipts, cmd, todo, disturbed, result>>

\* The two unique indexes
MayInsertVersion(d, product, label, path) ==
    Labelled(d, product, label) = {} /\ VersionsAt(d, path) = {}

\* The version and its lineage; any error rolls the transaction back.
ServeVersion(p) ==
    /\ pc[p] = "version"
    /\ LET d == snap[p] c == cmd[p] IN
       IF MayInsertVersion(d, Len(d.products), c.label, c.path)
       THEN /\ snap' = [snap EXCEPT ![p] =
                  [d EXCEPT !.versions = Append(@, [product |-> Len(d.products), label |-> c.label,
                                                    path |-> c.path, by |-> p]),
                            !.lineage = IF c.upstream = Absent THEN @
                                        ELSE Append(@, [version |-> Len(d.versions) + 1,
                                                        upstream |-> c.upstream, by |-> p])]]
            /\ Goto(p, "commit")
            /\ UNCHANGED <<db, writer, result>>
       ELSE Rollback(p)
    /\ UNCHANGED <<files, receipts, cmd, todo, disturbed>>

\* COMMIT, or its failure
ServeCommit(p) ==
    /\ pc[p] = "commit"
    /\ \/ /\ db' = snap[p] /\ writer' = Nobody
          /\ Goto(p, "served")
          /\ snap' = [snap EXCEPT ![p] = Empty] /\ UNCHANGED result
       \/ Rollback(p)
    /\ UNCHANGED <<files, receipts, cmd, todo, disturbed>>

\* The answer, which a process that dies after the commit never gives
ServeReport(p) ==
    /\ pc[p] = "served"
    /\ End(p, "published")
    /\ UNCHANGED <<db, writer, files, receipts, cmd, todo, disturbed>>

-----------------------------------------------------------------------------
(* The single inserts: register_team and its siblings                      *)

Insert(p, c, d) ==
    /\ Ready(p, c) /\ writer = Nobody
    /\ db' = d
    /\ End(p, "registered")
    /\ UNCHANGED <<writer, files, receipts, todo, disturbed>>

\* Only the exact name must be new.
RegisterTeam(p, name) ==
    /\ ~\E i \in DOMAIN db.teams : db.teams[i].name = name
    /\ Insert(p, [kind |-> "team"],
              [db EXCEPT !.teams = Append(@, [name |-> name, by |-> p, via |-> "register"])])

RegisterProduct(p, team) ==
    Insert(p, [kind |-> "product"], [db EXCEPT !.products = Append(@, [team |-> team, by |-> p])])

RegisterVersion(p, product, label, path) ==
    /\ MayInsertVersion(db, product, label, path)
    /\ Insert(p, [kind |-> "version"],
              [db EXCEPT !.versions = Append(@, [product |-> product, label |-> label,
                                                 path |-> path, by |-> p])])

RegisterLineage(p, version, upstream) ==
    Insert(p, [kind |-> "lineage"],
           [db EXCEPT !.lineage = Append(@, [version |-> version, upstream |-> upstream, by |-> p])])

-----------------------------------------------------------------------------
(* consume                                                                 *)

\* show_product, then the tests of source and destination
ConsumeCheck(p, c) ==
    LET shown == ShowProduct(db, c.ref, c.label)
        source == Anchor[db.versions[shown.version].path] IN
    /\ shown # Absent
    /\ Ready(p, [kind |-> "consume", version |-> shown.version, path |-> source,
                 out |-> c.out, overwrite |-> c.overwrite])
    /\ IF files[source] = Absent \/ (files[c.out] # Absent /\ ~c.overwrite)
       THEN End(p, "failed")
       ELSE Goto(p, "remove") /\ UNCHANGED <<snap, result>>
    /\ UNCHANGED <<db, writer, files, receipts, todo, disturbed>>

Consuming == {"remove", "file", "create", "list", "entries", "receipt"}

\* p changes its output, which may be another's source or output.
Write(p, tree) ==
    /\ files' = [files EXCEPT ![cmd[p].out] = tree]
    /\ disturbed' = disturbed \cup
          {q \in Procs \ {p} : pc[q] \in Consuming /\ cmd[p].out \in {cmd[q].path, cmd[q].out}}

\* What p reads from its source.  A file copied onto itself is truncated first.
Reads(p) == LET source == files[cmd[p].path] IN
            IF cmd[p].path = cmd[p].out THEN Tree(source.dir, "partial") ELSE source

\* Mutant: an error of the copy is not noticed.
CopyEndsAnyhow(p, ok) == Goto(p, "receipt") /\ UNCHANGED <<snap, result>>

CopyEnds(p, ok) == IF ok THEN Goto(p, "receipt") /\ UNCHANGED <<snap, result>>
                         ELSE End(p, "failed")

\* An operation fails before it has changed anything.
Fails(p) == CopyEnds(p, FALSE) /\ UNCHANGED <<files, disturbed>>

IsDir(x) == files[x] # Absent /\ files[x].dir
IsFile(x) == files[x] # Absent /\ ~files[x].dir

\* copy_source looks at the source again; the old output goes first, perhaps
\* not all of it.
ConsumeRemove(p) ==
    /\ pc[p] = "remove"
    /\ LET old == files[cmd[p].out] replaces == cmd[p].overwrite /\ old # Absent IN
       \/ /\ files[cmd[p].path] # Absent
          /\ IF replaces THEN Write(p, Absent) ELSE UNCHANGED <<files, disturbed>>
          /\ Goto(p, IF IsDir(cmd[p].path) THEN "create" ELSE "file")
          /\ UNCHANGED <<snap, result>>
       \/ /\ files[cmd[p].path] # Absent /\ replaces /\ old.dir
          /\ \E gone \in SUBSET Parts : Write(p, Without(old, gone))
          /\ CopyEnds(p, FALSE)
       \/ Fails(p)
    /\ UNCHANGED <<db, writer, receipts, cmd, todo>>

\* A plain file is copied, perhaps only in part.
ConsumeFile(p) ==
    /\ pc[p] = "file"
    /\ \/ /\ IsFile(cmd[p].path) /\ ~IsDir(cmd[p].out)
          /\ Write(p, Reads(p))
          /\ CopyEnds(p, TRUE)
       \/ /\ IsFile(cmd[p].path) /\ ~IsDir(cmd[p].out)
          /\ Write(p, Tree(FALSE, "partial"))
          /\ CopyEnds(p, FALSE)
       \/ Fails(p)
    /\ UNCHANGED <<db, writer, receipts, cmd, todo>>

\* For a directory, copy_dir_recursive first creates the output,
ConsumeCreate(p) ==
    /\ pc[p] = "create"
    /\ \/ /\ ~IsFile(cmd[p].out)
          /\ IF IsDir(cmd[p].out) THEN UNCHANGED <<files, disturbed>>
                                  ELSE Write(p, Tree(TRUE, Absent))
          /\ Goto(p, "list")
          /\ UNCHANGED <<snap, result>>
       \/ Fails(p)
    /\ UNCHANGED <<db, writer, receipts, cmd, todo>>

\* then opens the source,
ConsumeList(p) ==
    /\ pc[p] = "list"
    /\ \/ IsDir(cmd[p].path) /\ Goto(p, "entries") /\ UNCHANGED <<snap, result, files, disturbed>>
       \/ Fails(p)
    /\ UNCHANGED <<db, writer, receipts, cmd, todo>>

\* and copies the entries one by one.  An entry that is gone is not listed, or
\* its copy fails; so it does when the output is gone.
ConsumeEntry(p, e) ==
    /\ pc[p] = "entries" /\ e \in todo[p]
    /\ LET there == IsDir(cmd[p].path) /\ files[cmd[p].path].parts[e] # Absent
           onward == IF todo[p] = {e} THEN CopyEnds(p, TRUE) ELSE UNCHANGED <<pc, snap, result>> IN
       \/ /\ there /\ IsDir(cmd[p].out)
          /\ Write(p, [files[cmd[p].out] EXCEPT !.parts[e] = Reads(p).parts[e]])
          /\ onward
       \/ ~there /\ onward /\ UNCHANGED <<files, disturbed>>
       \/ /\ there /\ IsDir(cmd[p].out)
          /\ Write(p, [files[cmd[p].out] EXCEPT !.parts[e] = "partial"])
          /\ CopyEnds(p, FALSE)
       \/ Fails(p)
    /\ todo' = [todo EXCEPT ![p] = @ \ {e}]
    /\ UNCHANGED <<db, writer, receipts, cmd>>

ConsumeReceipt(p) ==
    /\ pc[p] = "receipt"
    /\ \/ /\ receipts' = [receipts EXCEPT ![cmd[p].out] = cmd[p].version]
          /\ End(p, "consumed")
       \/ End(p, "failed") /\ UNCHANGED receipts
    /\ UNCHANGED <<db, writer, files, cmd, todo, disturbed>>

-----------------------------------------------------------------------------

\* A command is refused: an invalid argument, an unknown product, a source
\* that cannot be anchored, or a registry that stays busy
Refused(p) ==
    /\ pc[p] = "ready"
    /\ End(p, "failed")
    /\ UNCHANGED <<db, writer, files, receipts, cmd, todo, disturbed>>

\* SQLite rolls back what a dead process had not committed.
Crash(p) ==
    /\ pc[p] \notin {"start", "end"}
    /\ writer' = IF writer = p THEN Nobody ELSE writer
    /\ End(p, "died")
    /\ UNCHANGED <<db, files, receipts, cmd, todo, disturbed>>

\* anchor_legacy_source makes the path of a serve absolute.
Serves == [kind: {"serve"}, team: Names, label: Labels, path: Places, upstream: Upstreams \cup {Absent}]
Consumes == [ref: Paths \cup DOMAIN db.products, label: Labels, out: Places, overwrite: BOOLEAN]

\* What a process may be started for
Command(p) ==
    \/ \E c \in Serves : ServeBegin(p, c)
    \/ \E name \in Names : RegisterTeam(p, name)
    \/ \E team \in DOMAIN db.teams : RegisterProduct(p, team)
    \/ \E product \in DOMAIN db.products, label \in Labels, path \in Paths :
          RegisterVersion(p, product, label, path)
    \/ \E version \in DOMAIN db.versions, path \in Upstreams : RegisterLineage(p, version, path)
    \/ \E c \in Consumes : ConsumeCheck(p, c)
    \/ Refused(p)

Next == \E p \in Procs :
    \/ OpenCreate(p) \/ OpenRead(p) \/ OpenWrite(p)
    \/ pc[p] = "ready" /\ Command(p)
    \/ ServeProduct(p) \/ ServeVersion(p) \/ ServeCommit(p) \/ ServeReport(p)
    \/ ConsumeRemove(p) \/ ConsumeFile(p) \/ ConsumeCreate(p) \/ ConsumeList(p)
    \/ (\E e \in Parts : ConsumeEntry(p, e)) \/ ConsumeReceipt(p)
    \/ Crash(p)

Spec == Init /\ [][Next]_vars
-----------------------------------------------------------------------------
(* Properties                                                              *)

Wrote(p, table) == \E i \in DOMAIN table : table[i].by = p

\* A product is registered with its team, version and lineage or not at all,
\* whatever fails or dies in between.  serve reports it only when it is, and a
\* failure only when it is not; a process that dies reports nothing.
ServeAllOrNothing ==
    \A p \in Procs : cmd[p].kind = "serve" =>
        /\ Wrote(p, db.products) <=> Wrote(p, db.versions)
        /\ Wrote(p, db.teams) => Wrote(p, db.products)
        /\ Wrote(p, db.lineage) <=> (Wrote(p, db.products) /\ cmd[p].upstream # Absent)
        /\ result[p] = "published" => Wrote(p, db.products)
        /\ result[p] = "failed" => ~Wrote(p, db.products)

\* Serves that race never create a team twice: of two teams whose names differ
\* in case only, the later one was registered by name.
TeamsOnce ==
    \A i, j \in DOMAIN db.teams :
        i < j /\ Lower[db.teams[i].name] = Lower[db.teams[j].name] =>
            db.teams[j].via = "register"

\* Its product's id and its label show a version, and so does the path under
\* which it was registered, unless that is a number, which no serve registers;
\* search lists every product once, with the version that show selects by
\* default.
LookupsAgree ==
    /\ \A i \in DOMAIN db.versions :
          LET v == db.versions[i] shown == ShowProduct(db, v.product, v.label) IN
          /\ shown # Absent /\ shown.product = v.product /\ shown.version = i
          /\ Number[v.path] = Absent \/ cmd[v.by].kind = "serve" =>
                ShowProduct(db, v.path, v.label) = shown
          /\ <<v.product, ShowProduct(db, v.product, Absent).version>> \in SearchProducts(db, Absent)
    /\ Cardinality(SearchProducts(db, Absent)) = Len(db.products)

\* A receipt is written only when the output is the source, entry by entry, if
\* the consume does not write to its own source and no other one has changed
\* source or output since it began.
ReceiptAfterCopy ==
    [][\A p \in Procs : result'[p] = "consumed" /\ result[p] # "consumed" =>
          \/ files[cmd[p].out] = files[cmd[p].path] /\ files[cmd[p].out] # Absent
          \/ cmd[p].out = cmd[p].path \/ p \in disturbed]_vars
=============================================================================
