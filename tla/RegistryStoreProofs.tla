------------------------- MODULE RegistryStoreProofs -------------------------
(***************************************************************************)
(* Proofs about RegistryStore for any processes, names, labels and paths.  *)
(*                                                                         *)
(* The inductive invariant has a part about the tables (Tables, Sound),    *)
(* which a transaction's copy keeps as well, and a part about each process *)
(* (Own): nobody else writes while it has a transaction, and what it       *)
(* reports is what the tables hold.                                        *)
(***************************************************************************)
EXTENDS RegistryStore, FiniteSetTheorems, SequenceTheorems, WellFoundedInduction, TLAPS

Team == [name: Names, by: Procs, via: {"serve", "register"}]
Product == [team: Nat, by: Procs]
Version == [product: Nat, label: Labels, path: Paths, by: Procs]
Lineage == [version: Nat, upstream: Paths, by: Procs]

Tables(d) ==
    /\ d = [columns |-> d.columns, teams |-> d.teams, products |-> d.products,
            versions |-> d.versions, lineage |-> d.lineage]
    /\ d.teams \in Seq(Team) /\ d.products \in Seq(Product)
    /\ d.versions \in Seq(Version) /\ d.lineage \in Seq(Lineage)

\* A version has its product, and the two unique indexes hold.
Indexed(d) ==
    /\ \A i \in 1..Len(d.versions) : d.versions[i].product \in 1..Len(d.products)
    /\ \A i, j \in 1..Len(d.versions) :
          \/ d.versions[i].path = d.versions[j].path
          \/ /\ d.versions[i].product = d.versions[j].product
             /\ d.versions[i].label = d.versions[j].label
          => i = j

\* Only register_team adds another spelling of a team.
Distinct(t) ==
    \A i, j \in 1..Len(t) : i < j /\ Lower[t[i].name] = Lower[t[j].name] => t[j].via = "register"

Sound(d) == Indexed(d) /\ Distinct(d.teams)

\* p registered a version under a path that looks like a number.
Numbered(p, table) == \E i \in DOMAIN table : table[i].by = p /\ Number[table[i].path] # Absent

Unwritten(p, d) ==
    /\ ~Wrote(p, d.teams) /\ ~Wrote(p, d.products)
    /\ ~Wrote(p, d.versions) /\ ~Wrote(p, d.lineage)

\* All that a serve with command c registers
Written(p, d, c) ==
    /\ Wrote(p, d.products) /\ Wrote(p, d.versions) /\ ~Numbered(p, d.versions)
    /\ Wrote(p, d.lineage) <=> c.upstream # Absent

\* p has rows in the same tables of d and e.
Same(p, d, e) ==
    /\ Wrote(p, d.teams) <=> Wrote(p, e.teams)
    /\ Wrote(p, d.products) <=> Wrote(p, e.products)
    /\ Wrote(p, d.versions) <=> Wrote(p, e.versions)
    /\ Wrote(p, d.lineage) <=> Wrote(p, e.lineage)
    /\ Numbered(p, d.versions) <=> Numbered(p, e.versions)

Writing == {"product", "version", "commit"}
Early == {"start", "open", "ready"}
Locations == Early \cup Writing \cup Consuming \cup {"served", "end"}

\* What a serve's transaction has done to its copy of the tables
Staged(p) ==
    /\ pc[p] = "product" => snap[p] = db
    /\ pc[p] \in {"version", "commit"} =>
          /\ Tables(snap[p]) /\ Sound(snap[p])
          /\ \A q \in Procs \ {p} : Same(q, snap[p], db)
          /\ Wrote(p, snap[p].products)
    /\ pc[p] = "version" => ~Wrote(p, snap[p].versions) /\ ~Wrote(p, snap[p].lineage)
    /\ pc[p] = "commit" => Written(p, snap[p], cmd[p])

\* What a serve reports is what the tables hold.
Reported(p) ==
    \/ result[p] # "published" /\ Unwritten(p, db)
    \/ result[p] # "failed" /\ Written(p, db, cmd[p])

Own(p) ==
    /\ writer = p <=> pc[p] \in Writing
    /\ pc[p] \in Early => cmd[p] = NoCommand /\ Unwritten(p, db)
    /\ pc[p] \in Writing => cmd[p] \in Serves /\ Unwritten(p, db) /\ Staged(p)
    /\ pc[p] = "served" => cmd[p] \in Serves /\ Written(p, db, cmd[p])
    /\ pc[p] \in Consuming =>
          cmd[p].kind = "consume" /\ cmd[p].out \in Places /\ cmd[p].path \in Places
    /\ pc[p] # "end" => result[p] = "none"
    /\ pc[p] = "end" /\ cmd[p].kind = "serve" => Reported(p)

\* How far the copy has come of a consume that nobody has disturbed
CopyInv(p) ==
    pc[p] \in Consuming /\ cmd[p].out # cmd[p].path /\ p \notin disturbed =>
        LET source == files[cmd[p].path] out == files[cmd[p].out] IN
        /\ source # Absent
        /\ pc[p] = "remove" => cmd[p].overwrite \/ out = Absent
        /\ pc[p] = "file" => ~source.dir /\ out = Absent
        /\ pc[p] = "create" => source.dir /\ out = Absent
        /\ pc[p] = "list" => source.dir /\ out = Tree(TRUE, Absent)
        /\ pc[p] = "entries" =>
              /\ source.dir
              /\ out = [dir |-> TRUE,
                        parts |-> [e \in Parts |-> IF e \in todo[p] THEN Absent ELSE source.parts[e]]]
        /\ pc[p] = "receipt" => out = source

RegistryType ==
    /\ Tables(db) /\ Sound(db)
    /\ pc \in [Procs -> Locations]
    /\ cmd = [p \in Procs |-> cmd[p]] /\ snap = [p \in Procs |-> snap[p]]
    /\ result = [p \in Procs |-> result[p]]
    /\ files \in [Places -> Trees \cup {Absent}]
    /\ todo \in [Procs -> SUBSET Parts]
    /\ \A p \in Procs : pc[p] \notin {"entries", "receipt", "end"} => todo[p] = Parts

IInv == RegistryType /\ \A p \in Procs : Own(p) /\ CopyInv(p)

-----------------------------------------------------------------------------
(* The tables                                                              *)

LEMMA AppendWrote ==
  ASSUME NEW S, NEW t \in Seq(S), NEW row \in S, NEW p
  PROVE  Wrote(p, Append(t, row)) <=> Wrote(p, t) \/ row.by = p
  <1> DEFINE u == Append(t, row)
  <1>1. /\ DOMAIN u = 1..Len(t) + 1 /\ DOMAIN t = 1..Len(t) /\ Len(t) \in Nat
        /\ \A i \in 1..Len(t) : u[i] = t[i]
        /\ u[Len(t) + 1] = row
    OBVIOUS
  <1> HIDE DEF u
  <1>2. Wrote(p, t) => Wrote(p, u)
    BY <1>1 DEF Wrote
  <1>3. row.by = p => Wrote(p, u)
    BY <1>1 DEF Wrote
  <1>4. ASSUME Wrote(p, u), row.by # p PROVE Wrote(p, t)
    <2>1. PICK i \in DOMAIN u : u[i].by = p
      BY <1>4 DEF Wrote
    <2>2. i \in 1..Len(t)
      BY <1>1, <1>4, <2>1
    <2>3. QED
      BY <1>1, <2>1, <2>2 DEF Wrote
  <1>5. QED
    BY <1>2, <1>3, <1>4 DEF u

LEMMA AppendNumbered ==
  ASSUME NEW t \in Seq(Version), NEW row \in Version, NEW p
  PROVE  Numbered(p, Append(t, row)) <=>
            Numbered(p, t) \/ (row.by = p /\ Number[row.path] # Absent)
  <1> DEFINE u == Append(t, row)
  <1>1. /\ DOMAIN u = 1..Len(t) + 1 /\ DOMAIN t = 1..Len(t) /\ Len(t) \in Nat
        /\ \A i \in 1..Len(t) : u[i] = t[i]
        /\ u[Len(t) + 1] = row
    OBVIOUS
  <1> HIDE DEF u
  <1>2. Numbered(p, t) => Numbered(p, u)
    BY <1>1 DEF Numbered
  <1>3. row.by = p /\ Number[row.path] # Absent => Numbered(p, u)
    BY <1>1 DEF Numbered
  <1>4. ASSUME Numbered(p, u), ~(row.by = p /\ Number[row.path] # Absent) PROVE Numbered(p, t)
    <2>1. PICK i \in DOMAIN u : u[i].by = p /\ Number[u[i].path] # Absent
      BY <1>4 DEF Numbered
    <2>2. i \in 1..Len(t)
      BY <1>1, <1>4, <2>1
    <2>3. QED
      BY <1>1, <2>1, <2>2 DEF Numbered
  <1>5. QED
    BY <1>2, <1>3, <1>4 DEF u

\* Another team: a new name, or a new spelling that register_team allows
LEMMA TeamAdded ==
  ASSUME NEW t \in Seq(Team), NEW row \in Team, Distinct(t),
         \/ row.via = "register"
         \/ \A i \in 1..Len(t) : Lower[t[i].name] # Lower[row.name]
  PROVE  Distinct(Append(t, row))
  <1> DEFINE n == Len(t)
             u == Append(t, row)
  <1>1. n \in Nat /\ Len(u) = n + 1 /\ u[n + 1] = row /\ \A i \in 1..n : u[i] = t[i]
    OBVIOUS
  <1> HIDE DEF u
  <1> SUFFICES ASSUME NEW i \in 1..n + 1, NEW j \in 1..n + 1, i < j,
                      Lower[u[i].name] = Lower[u[j].name]
               PROVE  u[j].via = "register"
    BY <1>1 DEF Distinct, u
  <1>2. i \in 1..n
    BY <1>1
  <1>3. CASE j = n + 1
    BY <1>1, <1>2, <1>3
  <1>4. CASE j \in 1..n
    BY <1>1, <1>2, <1>4 DEF Distinct
  <1>5. QED
    BY <1>1, <1>3, <1>4

\* Another version of a product that is there, if the indexes allow it
LEMMA VersionAdded ==
  ASSUME NEW d, NEW e, Tables(d), Indexed(d), NEW row \in Version,
         row.product \in 1..Len(d.products),
         MayInsertVersion(d, row.product, row.label, row.path),
         e.versions = Append(d.versions, row), e.products = d.products
  PROVE  Indexed(e)
  <1> DEFINE t == d.versions
             n == Len(t)
             u == Append(t, row)
  <1>1. /\ t \in Seq(Version) /\ n \in Nat
        /\ Len(u) = n + 1
        /\ \A i \in 1..n : u[i] = t[i]
        /\ u[n + 1] = row
    BY DEF Tables
  <1>2. DOMAIN t = 1..n
    BY <1>1
  <1>3. \A i \in 1..n : /\ t[i].path # row.path
                        /\ ~(t[i].product = row.product /\ t[i].label = row.label)
    BY <1>2 DEF MayInsertVersion, Labelled, VersionsOf, VersionsAt, Ids
  <1>4. e.versions = u /\ e.products = d.products
    OBVIOUS
  <1>5. /\ \A i \in 1..n : t[i].product \in 1..Len(d.products)
        /\ \A i, j \in 1..n :
             \/ t[i].path = t[j].path
             \/ t[i].product = t[j].product /\ t[i].label = t[j].label
             => i = j
    BY DEF Indexed
  <1> HIDE DEF t, n, u
  <1>6. \A i \in 1..n + 1 : u[i].product \in 1..Len(d.products)
    BY <1>1, <1>5
  <1>7. ASSUME NEW i \in 1..n + 1, NEW j \in 1..n + 1,
               \/ u[i].path = u[j].path
               \/ u[i].product = u[j].product /\ u[i].label = u[j].label
        PROVE  i = j
    <2>1. CASE i \in 1..n /\ j \in 1..n
      BY <1>1, <1>5, <1>7, <2>1
    <2>2. CASE i = n + 1 \/ j = n + 1
      BY <1>1, <1>3, <1>7, <2>2, SMTT(30)
    <2>3. QED
      BY <1>1, <2>1, <2>2
  <1>8. QED
    BY <1>1, <1>4, <1>6, <1>7 DEF Indexed

\* Another product leaves the versions as they are.
LEMMA ProductAdded ==
  ASSUME NEW d, NEW e, Tables(d), Indexed(d), NEW row \in Product,
         e.products = Append(d.products, row), e.versions = d.versions
  PROVE  Indexed(e)
  <1>1. Len(e.products) = Len(d.products) + 1 /\ Len(d.products) \in Nat
    BY DEF Tables
  <1>2. QED
    BY <1>1 DEF Indexed

LEMMA LeastExists ==
  ASSUME NEW T, T \subseteq Nat, T # {}
  PROVE  Least(T) \in T /\ \A y \in T : Least(T) <= y
  <1>1. \E x \in T : \A y \in T : ~ (<<y, x>> \in OpToRel(<, Nat))
    BY NatLessThanWellFounded, WFMin
  <1>2. PICK x \in T : \A y \in T : ~ (<<y, x>> \in OpToRel(<, Nat))
    BY <1>1
  <1>3. \A y \in T : ~(y < x)
    BY <1>2 DEF OpToRel
  <1>4. \A y \in T : x <= y
    BY <1>3
  <1>5. QED
    BY <1>4 DEF Least

LEMMA GreatestExists ==
  ASSUME NEW n \in Nat, NEW T, T \subseteq 1..n, T # {}
  PROVE  Greatest(T) \in T
  <1> DEFINE U == {n - x : x \in T}
  <1>1. U \subseteq Nat /\ U # {}
    <2>1. \A x \in T : x \in Nat /\ n - x \in Nat
      OBVIOUS
    <2>2. QED
      BY <2>1
  <1>2. Least(U) \in U /\ \A y \in U : Least(U) <= y
    BY <1>1, LeastExists
  <1>3. PICK x \in T : Least(U) = n - x
    BY <1>2
  <1>4. \A y \in T : n - x <= n - y
    BY <1>2, <1>3
  <1>5. \A y \in T : y <= x
    BY <1>4
  <1>6. QED
    BY <1>5 DEF Greatest

-----------------------------------------------------------------------------
(* Own and CopyInv                                                         *)

\* A step of p leaves q's variables alone, and changes the tables only while
\* nobody else has a transaction.
Elsewhere(p) ==
    \A q \in Procs \ {p} :
        /\ pc'[q] = pc[q] /\ cmd'[q] = cmd[q] /\ snap'[q] = snap[q]
        /\ result'[q] = result[q] /\ todo'[q] = todo[q]
        /\ writer' = q <=> writer = q
        /\ db' = db \/ (writer # q /\ Same(q, db', db))

\* Of the files, p changes at most its output.
Touches(p) ==
    \/ UNCHANGED <<files, disturbed>>
    \/ /\ cmd[p].out \in Places /\ pc[p] \in Consuming
       /\ \E tree \in Trees \cup {Absent} : Write(p, tree)

LEMMA OtherOwn ==
  ASSUME NEW p \in Procs, NEW q \in Procs \ {p}, Own(q), Elsewhere(p)
  PROVE  Own(q)'
  <1>1. /\ pc'[q] = pc[q] /\ cmd'[q] = cmd[q] /\ snap'[q] = snap[q]
        /\ result'[q] = result[q] /\ (writer' = q <=> writer = q)
        /\ db' = db \/ (writer # q /\ Same(q, db', db))
    BY DEF Elsewhere
  <1>2. Unwritten(q, db) => Unwritten(q, db')
    BY <1>1 DEF Same, Unwritten
  <1>3. Written(q, db, cmd[q]) => Written(q, db, cmd[q])'
    BY <1>1 DEF Same, Written
  <1>4. Reported(q) => Reported(q)'
    BY <1>1, <1>2, <1>3 DEF Reported
  <1>5. pc[q] \in Writing => db' = db
    BY <1>1 DEF Own
  <1>6. pc[q] \in Writing /\ Staged(q) => Staged(q)'
    BY <1>1, <1>5 DEF Staged
  <1>7. Unwritten(q, db) => Unwritten(q, db)'
    BY <1>2
  <1>8. Serves' = Serves
    BY DEF Serves
  <1>9. QED
    BY <1>1, <1>3, <1>4, <1>6, <1>7, <1>8 DEF Own

\* Another's copy goes on as before, or counts as disturbed.
LEMMA OtherCopy ==
  ASSUME RegistryType, NEW p \in Procs, NEW q \in Procs \ {p}, CopyInv(q), Own(q),
         Elsewhere(p), Touches(p)
  PROVE  CopyInv(q)'
  <1>1. pc'[q] = pc[q] /\ cmd'[q] = cmd[q] /\ todo'[q] = todo[q]
    BY DEF Elsewhere
  <1> SUFFICES ASSUME pc[q] \in Consuming, q \notin disturbed' PROVE CopyInv(q)'
    BY <1>1 DEF CopyInv
  <1>2. cmd[q].out \in Places /\ cmd[q].path \in Places
    BY DEF Own
  <1>3. /\ q \notin disturbed
        /\ files'[cmd[q].path] = files[cmd[q].path] /\ files'[cmd[q].out] = files[cmd[q].out]
    <2>1. CASE UNCHANGED <<files, disturbed>>
      BY <2>1
    <2>2. CASE \E tree \in Trees \cup {Absent} : Write(p, tree)
      <3>1. PICK tree \in Trees \cup {Absent} : Write(p, tree)
        BY <2>2
      <3>2. q \notin disturbed /\ cmd[p].out \notin {cmd[q].path, cmd[q].out}
        BY <3>1 DEF Write
      <3>3. files' = [files EXCEPT ![cmd[p].out] = tree] /\ files \in [Places -> Trees \cup {Absent}]
        BY <3>1 DEF Write, RegistryType
      <3>4. QED
        BY <1>2, <3>2, <3>3
    <2>3. QED
      BY <2>1, <2>2 DEF Touches
  <1>4. QED
    BY <1>1, <1>3 DEF CopyInv

LEMMA TouchType ==
  ASSUME RegistryType, NEW p \in Procs, Touches(p)
  PROVE  files' \in [Places -> Trees \cup {Absent}]
  <1>1. files \in [Places -> Trees \cup {Absent}]
    BY DEF RegistryType
  <1>2. QED
    BY <1>1 DEF Touches, Write

LEMMA EndMoves ==
  ASSUME RegistryType, NEW p \in Procs, NEW r, End(p, r)
  PROVE  /\ pc'[p] = "end" /\ result'[p] = r
         /\ pc' \in [Procs -> Locations]
         /\ result' = [q \in Procs |-> result'[q]] /\ snap' = [q \in Procs |-> snap'[q]]
         /\ \A q \in Procs \ {p} : pc'[q] = pc[q] /\ result'[q] = result[q] /\ snap'[q] = snap[q]
  <1>1. /\ pc' = [pc EXCEPT ![p] = "end"] /\ pc \in [Procs -> Locations]
    BY DEF RegistryType, End, Goto
  <1>2. /\ pc'[p] = "end" /\ \A q \in Procs \ {p} : pc'[q] = pc[q]
        /\ pc' \in [Procs -> Locations]
    BY <1>1 DEF Locations
  <1>3. /\ result' = [result EXCEPT ![p] = r] /\ result = [q \in Procs |-> result[q]]
        /\ snap' = [snap EXCEPT ![p] = Empty] /\ snap = [q \in Procs |-> snap[q]]
    BY DEF RegistryType, End
  <1>4. /\ result'[p] = r /\ result' = [q \in Procs |-> result'[q]]
        /\ \A q \in Procs \ {p} : result'[q] = result[q]
    BY <1>3
  <1>5. snap' = [q \in Procs |-> snap'[q]] /\ \A q \in Procs \ {p} : snap'[q] = snap[q]
    BY <1>3
  <1>6. QED
    BY <1>2, <1>4, <1>5

LEMMA GotoMoves ==
  ASSUME RegistryType, NEW p \in Procs,
         NEW l \in Locations, Goto(p, l)
  PROVE  /\ pc'[p] = l /\ \A q \in Procs \ {p} : pc'[q] = pc[q]
         /\ pc' \in [Procs -> Locations]
  BY DEF RegistryType, Goto

\* The whole of the invariant from what a step of p does
LEMMA Combine ==
  ASSUME IInv, NEW p \in Procs, RegistryType', Elsewhere(p), Own(p)', CopyInv(p)', Touches(p)
  PROVE  IInv'
  <1>1. RegistryType /\ \A q \in Procs \ {p} : Own(q) /\ CopyInv(q)
    BY DEF IInv
  <1>2. \A q \in Procs \ {p} : Own(q)'
    BY <1>1, OtherOwn
  <1>3. \A q \in Procs \ {p} : CopyInv(q)'
    BY <1>1, OtherCopy
  <1>4. QED
    BY <1>2, <1>3 DEF IInv

-----------------------------------------------------------------------------
(* Opening, and ends without an effect                                     *)

LEMMA ColumnsAdded ==
  ASSUME NEW d, NEW x, NEW e, Tables(d), Sound(d), e = [d EXCEPT !.columns = x]
  PROVE  Tables(e) /\ Sound(e) /\ \A q : Same(q, e, d)
  <1>1. d = [columns |-> d.columns, teams |-> d.teams, products |-> d.products,
             versions |-> d.versions, lineage |-> d.lineage]
    BY DEF Tables
  <1>2. e = [columns |-> x, teams |-> d.teams, products |-> d.products,
             versions |-> d.versions, lineage |-> d.lineage]
    BY <1>1
  <1>3. /\ e.teams = d.teams /\ e.products = d.products /\ e.versions = d.versions
        /\ e.lineage = d.lineage /\ e.columns = x
    BY <1>2
  <1>4. Tables(e)
    BY <1>2, <1>3 DEF Tables
  <1>5. Sound(e)
    BY <1>3 DEF Sound, Indexed
  <1>6. QED
    BY <1>3, <1>4, <1>5 DEF Same

LEMMA OpenKeeps ==
  ASSUME IInv, NEW p \in Procs,
         \/ OpenCreate(p) \/ OpenRead(p)
         \/ OpenWrite(p) /\ writer = Nobody /\ db = snap[p]
  PROVE  IInv'
  <1>1. RegistryType /\ Own(p)
    BY DEF IInv
  <1>2. /\ pc[p] \in {"start", "open"}
        /\ \E l \in {"open", "ready"} : Goto(p, l)
        /\ UNCHANGED <<files, disturbed, cmd, todo, writer>>
        /\ result' = result
        /\ \/ db' = db
           \/ db' = [db EXCEPT !.columns = Columns] /\ writer = Nobody
        /\ \/ snap' = snap \/ snap' = [snap EXCEPT ![p] = db] \/ snap' = [snap EXCEPT ![p] = Empty]
    BY DEF OpenCreate, OpenRead, OpenWrite
  <1>3. PICK l \in {"open", "ready"} : Goto(p, l)
    BY <1>2
  <1>4. /\ pc'[p] = l /\ \A q \in Procs \ {p} : pc'[q] = pc[q]
        /\ pc' \in [Procs -> Locations]
    BY <1>1, <1>3, GotoMoves DEF Early, Locations
  <1>5. snap' = [q \in Procs |-> snap'[q]] /\ \A q \in Procs \ {p} : snap'[q] = snap[q]
    <2>1. snap = [q \in Procs |-> snap[q]]
      BY <1>1 DEF RegistryType
    <2>2. QED
      BY <1>2, <2>1
  <1>6. Tables(db') /\ Sound(db') /\ \A q \in Procs : Same(q, db', db)
    <2>1. Tables(db) /\ Sound(db)
      BY <1>1 DEF RegistryType
    <2>2. CASE db' = db
      BY <2>1, <2>2 DEF Same
    <2>3. CASE db' = [db EXCEPT !.columns = Columns]
      BY <2>1, <2>3, ColumnsAdded
    <2>4. QED
      BY <1>2, <2>2, <2>3
  <1>7. RegistryType'
    <2>1. pc[p] \notin {"entries", "receipt", "end"} /\ pc'[p] \notin {"entries", "receipt", "end"}
      BY <1>2, <1>4
    <2>2. QED
      BY <1>1, <1>2, <1>4, <1>5, <1>6, <2>1 DEF RegistryType
  <1>8. Elsewhere(p)
    BY <1>2, <1>4, <1>5, <1>6, RegistryAssumption DEF Elsewhere
  <1>9. Own(p)'
    <2>1. /\ pc[p] \in Early /\ pc[p] \notin Writing /\ pc[p] # "end"
          /\ pc'[p] \in Early /\ pc'[p] \notin Writing \cup Consuming \cup {"served", "end"}
      BY <1>2, <1>4 DEF Early, Writing, Consuming
    <2>2. cmd[p] = NoCommand /\ Unwritten(p, db) /\ result[p] = "none" /\ writer # p
      BY <1>1, <2>1 DEF Own
    <2>3. Unwritten(p, db')
      BY <1>6, <2>2 DEF Same, Unwritten
    <2>4. Unwritten(p, db)'
      BY <2>3
    <2>5. QED
      BY <1>2, <2>1, <2>2, <2>4 DEF Own
  <1>10. CopyInv(p)'
    BY <1>4 DEF CopyInv, Consuming
  <1>11. QED
    BY <1>2, <1>7, <1>8, <1>9, <1>10, Combine DEF Touches

\* p ends without having changed the tables.
LEMMA EndQuietly ==
  ASSUME IInv, NEW p \in Procs, NEW r, pc[p] # "end",
         IF pc[p] = "served" THEN r # "failed" ELSE r # "published",
         End(p, r), db' = db, writer' = IF writer = p THEN Nobody ELSE writer,
         \/ cmd' = cmd
         \/ cmd[p] = NoCommand /\ \E c : c.kind # "serve" /\ cmd' = [cmd EXCEPT ![p] = c],
         todo' = todo \/ \E e : todo' = [todo EXCEPT ![p] = @ \ {e}],
         Touches(p)
  PROVE  IInv'
  <1>1. RegistryType /\ Own(p)
    BY DEF IInv
  <1>2. /\ pc'[p] = "end" /\ result'[p] = r
        /\ pc' \in [Procs -> Locations]
        /\ result' = [q \in Procs |-> result'[q]] /\ snap' = [q \in Procs |-> snap'[q]]
        /\ \A q \in Procs \ {p} : pc'[q] = pc[q] /\ result'[q] = result[q] /\ snap'[q] = snap[q]
    BY <1>1, EndMoves
  <1>3. /\ cmd' = [q \in Procs |-> cmd'[q]]
        /\ \A q \in Procs \ {p} : cmd'[q] = cmd[q]
        /\ \/ cmd'[p] = cmd[p]
           \/ cmd[p] = NoCommand /\ cmd'[p].kind # "serve"
    <2>1. cmd = [q \in Procs |-> cmd[q]]
      BY <1>1 DEF RegistryType
    <2>2. QED
      BY <2>1
  <1>4. todo' \in [Procs -> SUBSET Parts] /\ \A q \in Procs \ {p} : todo'[q] = todo[q]
    <2>1. todo \in [Procs -> SUBSET Parts]
      BY <1>1 DEF RegistryType
    <2>2. QED
      BY <2>1
  <1>5. RegistryType'
    <2>1. files' \in [Places -> Trees \cup {Absent}]
      BY <1>1, TouchType
    <2>2. Tables(db') /\ Sound(db')
      BY <1>1 DEF RegistryType
    <2>3. \A q \in Procs : pc'[q] \notin {"entries", "receipt", "end"} => todo'[q] = Parts
      BY <1>1, <1>2, <1>4 DEF RegistryType
    <2>4. QED
      BY <1>2, <1>3, <1>4, <2>1, <2>2, <2>3 DEF RegistryType
  <1>6. Elsewhere(p)
    BY <1>2, <1>3, <1>4, RegistryAssumption DEF Elsewhere
  <1>7. writer' # p
    BY RegistryAssumption
  <1>8. cmd'[p].kind = "serve" => Reported(p)'
    <2>1. pc[p] \in Early \cup Writing \cup Consuming \cup {"served"}
      BY <1>1 DEF RegistryType, Locations
    <2>2. cmd'[p].kind = "serve" => pc[p] \in Writing \cup {"served"} /\ cmd'[p] = cmd[p]
      BY <1>1, <1>3, <2>1 DEF Own, NoCommand
    <2>3. CASE pc[p] \in Writing
      <3>1. Unwritten(p, db) /\ r # "published"
        BY <1>1, <2>3 DEF Own, Writing
      <3>2. Unwritten(p, db)'
        BY <3>1
      <3>3. QED
        BY <1>2, <3>1, <3>2 DEF Reported
    <2>4. CASE pc[p] = "served"
      <3>1. Written(p, db, cmd[p]) /\ r # "failed"
        BY <1>1, <2>4 DEF Own
      <3>2. cmd'[p] = cmd[p] => Written(p, db, cmd[p])'
        BY <3>1
      <3>3. QED
        BY <1>2, <2>2, <3>1, <3>2 DEF Reported
    <2>5. QED
      BY <2>2, <2>3, <2>4
  <1>9. Own(p)'
    BY <1>2, <1>7, <1>8 DEF Own, Early, Writing, Consuming
  <1>10. CopyInv(p)'
    BY <1>2 DEF CopyInv, Consuming
  <1>11. QED
    BY <1>5, <1>6, <1>9, <1>10, Combine

LEMMA RefusalKeeps ==
  ASSUME IInv, NEW p \in Procs,
         \/ Refused(p) \/ Crash(p) \/ ServeReport(p)
         \/ OpenWrite(p) /\ ~(writer = Nobody /\ db = snap[p])
         \/ Rollback(p) /\ pc[p] \in Writing /\ UNCHANGED <<files, receipts, cmd, todo, disturbed>>
  PROVE  IInv'
  <1>1. Own(p)
    BY DEF IInv
  <1>2. \E r : End(p, r) /\ IF pc[p] = "served" THEN r # "failed" ELSE r # "published"
    BY DEF Refused, Crash, ServeReport, OpenWrite, Rollback, Writing
  <1>3. pc[p] # "end" /\ UNCHANGED <<db, todo, cmd, files, disturbed>>
    BY DEF Refused, Crash, ServeReport, OpenWrite, Rollback, Writing
  <1>4. writer' = IF writer = p THEN Nobody ELSE writer
    <2>1. CASE Refused(p) \/ ServeReport(p) \/ (OpenWrite(p) /\ ~(writer = Nobody /\ db = snap[p]))
      <3>1. writer' = writer /\ pc[p] \in {"ready", "open", "served"}
        BY <2>1 DEF Refused, ServeReport, OpenWrite
      <3>2. writer # p
        BY <1>1, <3>1 DEF Own, Writing
      <3>3. QED
        BY <3>1, <3>2
    <2>2. CASE Crash(p)
      BY <2>2 DEF Crash
    <2>3. CASE Rollback(p) /\ pc[p] \in Writing
      BY <1>1, <2>3 DEF Own, Rollback
    <2>4. QED
      BY <2>1, <2>2, <2>3
  <1>5. QED
    BY <1>2, <1>3, <1>4, EndQuietly DEF Touches

\* Replacing one table, or two
LEMMA Fields ==
  ASSUME NEW d, NEW x,
         d = [columns |-> d.columns, teams |-> d.teams, products |-> d.products,
              versions |-> d.versions, lineage |-> d.lineage]
  PROVE  /\ [d EXCEPT !.teams = x] =
            [columns |-> d.columns, teams |-> x, products |-> d.products,
             versions |-> d.versions, lineage |-> d.lineage]
         /\ [d EXCEPT !.products = x] =
            [columns |-> d.columns, teams |-> d.teams, products |-> x,
             versions |-> d.versions, lineage |-> d.lineage]
         /\ [d EXCEPT !.versions = x] =
            [columns |-> d.columns, teams |-> d.teams, products |-> d.products,
             versions |-> x, lineage |-> d.lineage]
         /\ [d EXCEPT !.lineage = x] =
            [columns |-> d.columns, teams |-> d.teams, products |-> d.products,
             versions |-> d.versions, lineage |-> x]
  <1>1. [d EXCEPT !.teams = x] =
            [columns |-> d.columns, teams |-> x, products |-> d.products,
             versions |-> d.versions, lineage |-> d.lineage]
    OBVIOUS
  <1>2. [d EXCEPT !.products = x] =
            [columns |-> d.columns, teams |-> d.teams, products |-> x,
             versions |-> d.versions, lineage |-> d.lineage]
    OBVIOUS
  <1>3. [d EXCEPT !.versions = x] =
            [columns |-> d.columns, teams |-> d.teams, products |-> d.products,
             versions |-> x, lineage |-> d.lineage]
    OBVIOUS
  <1>4. [d EXCEPT !.lineage = x] =
            [columns |-> d.columns, teams |-> d.teams, products |-> d.products,
             versions |-> d.versions, lineage |-> x]
    OBVIOUS
  <1>5. QED
    BY <1>1, <1>2, <1>3, <1>4

LEMMA TeamAndProduct ==
  ASSUME NEW d, NEW x, NEW y,
         d = [columns |-> d.columns, teams |-> d.teams, products |-> d.products,
              versions |-> d.versions, lineage |-> d.lineage]
  PROVE  [d EXCEPT !.teams = x, !.products = y] =
            [columns |-> d.columns, teams |-> x, products |-> y,
             versions |-> d.versions, lineage |-> d.lineage]
  <1> DEFINE e == [d EXCEPT !.teams = x]
  <1>1. [d EXCEPT !.teams = x, !.products = y] = [e EXCEPT !.products = y]
    OBVIOUS
  <1>2. e = [columns |-> d.columns, teams |-> x, products |-> d.products,
             versions |-> d.versions, lineage |-> d.lineage]
    OBVIOUS
  <1> HIDE DEF e
  <1>3. /\ e.columns = d.columns /\ e.teams = x /\ e.products = d.products
        /\ e.versions = d.versions /\ e.lineage = d.lineage
    BY <1>2
  <1>4. e = [columns |-> e.columns, teams |-> e.teams, products |-> e.products,
             versions |-> e.versions, lineage |-> e.lineage]
    BY <1>2, <1>3
  <1>5. [e EXCEPT !.products = y] =
            [columns |-> e.columns, teams |-> e.teams, products |-> y,
             versions |-> e.versions, lineage |-> e.lineage]
    BY <1>4
  <1>6. QED
    BY <1>1, <1>3, <1>5

LEMMA VersionAndLineage ==
  ASSUME NEW d, NEW x, NEW y,
         d = [columns |-> d.columns, teams |-> d.teams, products |-> d.products,
              versions |-> d.versions, lineage |-> d.lineage]
  PROVE  [d EXCEPT !.versions = x, !.lineage = y] =
            [columns |-> d.columns, teams |-> d.teams, products |-> d.products,
             versions |-> x, lineage |-> y]
  <1> DEFINE e == [d EXCEPT !.versions = x]
  <1>1. [d EXCEPT !.versions = x, !.lineage = y] = [e EXCEPT !.lineage = y]
    OBVIOUS
  <1>2. e = [columns |-> d.columns, teams |-> d.teams, products |-> d.products,
             versions |-> x, lineage |-> d.lineage]
    OBVIOUS
  <1> HIDE DEF e
  <1>3. /\ e.columns = d.columns /\ e.teams = d.teams /\ e.products = d.products
        /\ e.versions = x /\ e.lineage = d.lineage
    BY <1>2
  <1>4. e = [columns |-> e.columns, teams |-> e.teams, products |-> e.products,
             versions |-> e.versions, lineage |-> e.lineage]
    BY <1>2, <1>3
  <1>5. [e EXCEPT !.lineage = y] =
            [columns |-> e.columns, teams |-> e.teams, products |-> e.products,
             versions |-> e.versions, lineage |-> y]
    BY <1>4
  <1>6. QED
    BY <1>1, <1>3, <1>5

-----------------------------------------------------------------------------
(* The single inserts                                                      *)

LEMMA InsertKeeps ==
  ASSUME IInv, NEW p \in Procs, NEW c, NEW d, Insert(p, c, d), c.kind # "serve",
         Tables(d), Sound(d), \A q \in Procs \ {p} : Same(q, d, db)
  PROVE  IInv'
  <1>1. RegistryType /\ Own(p)
    BY DEF IInv
  <1>2. /\ pc[p] = "ready" /\ cmd' = [cmd EXCEPT ![p] = c] /\ writer = Nobody
        /\ db' = d /\ End(p, "registered")
        /\ UNCHANGED <<writer, files, todo, disturbed>>
    BY DEF Insert, Ready
  <1>3. /\ pc'[p] = "end" /\ result'[p] = "registered"
        /\ pc' \in [Procs -> Locations]
        /\ result' = [q \in Procs |-> result'[q]] /\ snap' = [q \in Procs |-> snap'[q]]
        /\ \A q \in Procs \ {p} : pc'[q] = pc[q] /\ result'[q] = result[q] /\ snap'[q] = snap[q]
    BY <1>1, <1>2, EndMoves
  <1>4. /\ cmd' = [q \in Procs |-> cmd'[q]]
        /\ \A q \in Procs \ {p} : cmd'[q] = cmd[q]
        /\ cmd'[p] = c
    BY <1>1, <1>2 DEF RegistryType
  <1>5. RegistryType'
    <2>1. \A q \in Procs : pc'[q] \notin {"entries", "receipt", "end"} => todo'[q] = Parts
      BY <1>1, <1>2, <1>3 DEF RegistryType
    <2>2. QED
      BY <1>1, <1>2, <1>3, <1>4, <2>1 DEF RegistryType
  <1>6. Elsewhere(p)
    BY <1>2, <1>3, <1>4, RegistryAssumption DEF Elsewhere
  <1>7. Own(p)'
    BY <1>2, <1>3, <1>4, RegistryAssumption DEF Own, Early, Writing, Consuming
  <1>8. CopyInv(p)'
    BY <1>3 DEF CopyInv, Consuming
  <1>9. QED
    BY <1>2, <1>5, <1>6, <1>7, <1>8, Combine DEF Touches

LEMMA RegisterKeeps ==
  ASSUME IInv, NEW p \in Procs,
         \/ \E name \in Names : RegisterTeam(p, name)
         \/ \E team \in DOMAIN db.teams : RegisterProduct(p, team)
         \/ \E product \in DOMAIN db.products, label \in Labels, path \in Paths :
               RegisterVersion(p, product, label, path)
         \/ \E version \in DOMAIN db.versions, path \in Paths : RegisterLineage(p, version, path)
  PROVE  IInv'
  <1>1. Tables(db) /\ Sound(db)
    BY DEF IInv, RegistryType
  <1>2. /\ db = [columns |-> db.columns, teams |-> db.teams, products |-> db.products,
                 versions |-> db.versions, lineage |-> db.lineage]
        /\ db.teams \in Seq(Team) /\ db.products \in Seq(Product)
        /\ db.versions \in Seq(Version) /\ db.lineage \in Seq(Lineage)
    BY <1>1 DEF Tables
  <1>3. CASE \E name \in Names : RegisterTeam(p, name)
    <2>1. PICK name \in Names : RegisterTeam(p, name)
      BY <1>3
    <2> DEFINE row == [name |-> name, by |-> p, via |-> "register"]
               d == [db EXCEPT !.teams = Append(@, row)]
    <2>2. row \in Team /\ row.by = p /\ row.via = "register"
      BY DEF Team
    <2>3. Insert(p, [kind |-> "team"], d)
      BY <2>1 DEF RegisterTeam
    <2>4. d = [columns |-> db.columns, teams |-> Append(db.teams, row), products |-> db.products,
               versions |-> db.versions, lineage |-> db.lineage]
      BY <1>2, Fields
    <2> HIDE DEF row, d
    <2>5. /\ d.teams = Append(db.teams, row) /\ d.products = db.products
          /\ d.versions = db.versions /\ d.lineage = db.lineage /\ d.columns = db.columns
      BY <2>4
    <2>6. Tables(d)
      BY <1>2, <2>2, <2>4, <2>5 DEF Tables
    <2>7. Sound(d)
      <3>1. Distinct(d.teams)
        BY <1>1, <1>2, <2>2, <2>5, TeamAdded DEF Sound
      <3>2. QED
        BY <1>1, <2>5, <3>1 DEF Sound, Indexed
    <2>8. \A q \in Procs \ {p} : Same(q, d, db)
      BY <1>2, <2>2, <2>5, AppendWrote DEF Same
    <2>9. QED
      BY <2>3, <2>6, <2>7, <2>8, InsertKeeps
  <1>4. CASE \E team \in DOMAIN db.teams : RegisterProduct(p, team)
    <2>1. PICK team \in DOMAIN db.teams : RegisterProduct(p, team)
      BY <1>4
    <2> DEFINE row == [team |-> team, by |-> p]
               d == [db EXCEPT !.products = Append(@, row)]
    <2>2. row \in Product /\ row.by = p
      BY <1>2, <2>1 DEF Product
    <2>3. Insert(p, [kind |-> "product"], d)
      BY <2>1 DEF RegisterProduct
    <2>4. d = [columns |-> db.columns, teams |-> db.teams, products |-> Append(db.products, row),
               versions |-> db.versions, lineage |-> db.lineage]
      BY <1>2, Fields
    <2> HIDE DEF row, d
    <2>5. /\ d.products = Append(db.products, row) /\ d.teams = db.teams
          /\ d.versions = db.versions /\ d.lineage = db.lineage /\ d.columns = db.columns
      BY <2>4
    <2>6. Tables(d)
      BY <1>2, <2>2, <2>4, <2>5 DEF Tables
    <2>7. Sound(d)
      BY <1>1, <2>2, <2>5, ProductAdded DEF Sound
    <2>8. \A q \in Procs \ {p} : Same(q, d, db)
      BY <1>2, <2>2, <2>5, AppendWrote DEF Same
    <2>9. QED
      BY <2>3, <2>6, <2>7, <2>8, InsertKeeps
  <1>5. CASE \E product \in DOMAIN db.products, label \in Labels, path \in Paths :
               RegisterVersion(p, product, label, path)
    <2>1. PICK product \in DOMAIN db.products, label \in Labels, path \in Paths :
             RegisterVersion(p, product, label, path)
      BY <1>5
    <2> DEFINE row == [product |-> product, label |-> label, path |-> path, by |-> p]
               d == [db EXCEPT !.versions = Append(@, row)]
    <2>2. row \in Version /\ row.by = p /\ row.product \in 1..Len(db.products)
      BY <1>2, <2>1 DEF Version
    <2>3. Insert(p, [kind |-> "version"], d) /\ MayInsertVersion(db, row.product, row.label, row.path)
      BY <2>1 DEF RegisterVersion
    <2>4. d = [columns |-> db.columns, teams |-> db.teams, products |-> db.products,
               versions |-> Append(db.versions, row), lineage |-> db.lineage]
      BY <1>2, Fields
    <2> HIDE DEF row, d
    <2>5. /\ d.versions = Append(db.versions, row) /\ d.teams = db.teams
          /\ d.products = db.products /\ d.lineage = db.lineage /\ d.columns = db.columns
      BY <2>4
    <2>6. Tables(d)
      BY <1>2, <2>2, <2>4, <2>5 DEF Tables
    <2>7. Sound(d)
      BY <1>1, <2>2, <2>3, <2>5, VersionAdded DEF Sound
    <2>8. \A q \in Procs \ {p} : Same(q, d, db)
      BY <1>2, <2>2, <2>5, AppendWrote, AppendNumbered DEF Same
    <2>9. QED
      BY <2>3, <2>6, <2>7, <2>8, InsertKeeps
  <1>6. CASE \E version \in DOMAIN db.versions, path \in Paths : RegisterLineage(p, version, path)
    <2>1. PICK version \in DOMAIN db.versions, path \in Paths : RegisterLineage(p, version, path)
      BY <1>6
    <2> DEFINE row == [version |-> version, upstream |-> path, by |-> p]
               d == [db EXCEPT !.lineage = Append(@, row)]
    <2>2. row \in Lineage /\ row.by = p
      BY <1>2, <2>1 DEF Lineage
    <2>3. Insert(p, [kind |-> "lineage"], d)
      BY <2>1 DEF RegisterLineage
    <2>4. d = [columns |-> db.columns, teams |-> db.teams, products |-> db.products,
               versions |-> db.versions, lineage |-> Append(db.lineage, row)]
      BY <1>2, Fields
    <2> HIDE DEF row, d
    <2>5. /\ d.lineage = Append(db.lineage, row) /\ d.teams = db.teams
          /\ d.products = db.products /\ d.versions = db.versions /\ d.columns = db.columns
      BY <2>4
    <2>6. Tables(d) /\ Sound(d)
      BY <1>1, <1>2, <2>2, <2>4, <2>5 DEF Tables, Sound, Indexed
    <2>7. \A q \in Procs \ {p} : Same(q, d, db)
      BY <1>2, <2>2, <2>5, AppendWrote DEF Same
    <2>8. QED
      BY <2>3, <2>6, <2>7, InsertKeeps
  <1>7. QED
    BY <1>3, <1>4, <1>5, <1>6

-----------------------------------------------------------------------------
(* serve                                                                   *)

LEMMA BeginKeeps ==
  ASSUME IInv, NEW p \in Procs, NEW c \in Serves, ServeBegin(p, c)
  PROVE  IInv'
  <1>1. RegistryType /\ Own(p)
    BY DEF IInv
  <1>2. /\ pc[p] = "ready" /\ cmd' = [cmd EXCEPT ![p] = c] /\ writer = Nobody /\ writer' = p
        /\ db' = db /\ snap' = [snap EXCEPT ![p] = db] /\ Goto(p, "product")
        /\ UNCHANGED <<files, disturbed, todo, result>>
    BY DEF ServeBegin, Ready
  <1>3. /\ pc'[p] = "product" /\ \A q \in Procs \ {p} : pc'[q] = pc[q]
        /\ pc' \in [Procs -> Locations]
    BY <1>1, <1>2, GotoMoves DEF Writing, Locations
  <1>4. /\ cmd' = [q \in Procs |-> cmd'[q]] /\ cmd'[p] = c
        /\ \A q \in Procs \ {p} : cmd'[q] = cmd[q]
    BY <1>1, <1>2 DEF RegistryType
  <1>5. /\ snap' = [q \in Procs |-> snap'[q]] /\ snap'[p] = db
        /\ \A q \in Procs \ {p} : snap'[q] = snap[q]
    BY <1>1, <1>2 DEF RegistryType
  <1>6. RegistryType'
    <2>1. pc[p] \notin {"entries", "receipt", "end"} /\ pc'[p] \notin {"entries", "receipt", "end"}
      BY <1>2, <1>3
    <2>2. QED
      BY <1>1, <1>2, <1>3, <1>4, <1>5, <2>1 DEF RegistryType
  <1>7. Elsewhere(p)
    BY <1>2, <1>3, <1>4, <1>5, RegistryAssumption DEF Elsewhere
  <1>8. cmd[p] = NoCommand /\ Unwritten(p, db) /\ result[p] = "none"
    BY <1>1, <1>2 DEF Own, Early
  <1>9. Staged(p)'
    BY <1>2, <1>3, <1>5 DEF Staged
  <1>10. Unwritten(p, db)' /\ Serves' = Serves
    BY <1>2, <1>8 DEF Serves
  <1>11. Own(p)'
    BY <1>2, <1>3, <1>4, <1>8, <1>9, <1>10 DEF Own, Early, Writing, Consuming
  <1>12. CopyInv(p)'
    BY <1>3 DEF CopyInv, Consuming
  <1>13. QED
    BY <1>2, <1>6, <1>7, <1>11, <1>12, Combine DEF Touches

\* A step inside p's transaction, from what it makes of p's copy
LEMMA InsideKeeps ==
  ASSUME IInv, NEW p \in Procs, NEW d, NEW l \in {"version", "commit"},
         pc[p] \in Writing, Goto(p, l), snap' = [snap EXCEPT ![p] = d],
         UNCHANGED <<db, writer, files, receipts, cmd, todo, disturbed, result>>,
         Tables(d), Sound(d), \A q \in Procs \ {p} : Same(q, d, db), Wrote(p, d.products),
         l = "version" => ~Wrote(p, d.versions) /\ ~Wrote(p, d.lineage),
         l = "commit" => Written(p, d, cmd[p])
  PROVE  IInv'
  <1>1. RegistryType /\ Own(p)
    BY DEF IInv
  <1>2. /\ pc'[p] = l /\ \A q \in Procs \ {p} : pc'[q] = pc[q]
        /\ pc' \in [Procs -> Locations]
    BY <1>1, GotoMoves DEF Writing, Locations
  <1>3. /\ snap' = [q \in Procs |-> snap'[q]] /\ snap'[p] = d
        /\ \A q \in Procs \ {p} : snap'[q] = snap[q]
    BY <1>1 DEF RegistryType
  <1>4. RegistryType'
    <2>1. pc[p] \notin {"entries", "receipt", "end"} /\ pc'[p] \notin {"entries", "receipt", "end"}
      BY <1>2 DEF Writing
    <2>2. QED
      BY <1>1, <1>2, <1>3, <2>1 DEF RegistryType
  <1>5. Elsewhere(p)
    BY <1>2, <1>3 DEF Elsewhere
  <1>6. cmd[p] \in Serves /\ Unwritten(p, db) /\ result[p] = "none" /\ writer = p
    BY <1>1 DEF Own, Writing
  <1>7. Staged(p)'
    BY <1>2, <1>3 DEF Staged
  <1>8. Unwritten(p, db)' /\ Serves' = Serves
    BY <1>6 DEF Serves
  <1>9. Own(p)'
    BY <1>2, <1>6, <1>7, <1>8 DEF Own, Early, Writing, Consuming
  <1>10. CopyInv(p)'
    BY <1>2 DEF CopyInv, Consuming
  <1>11. QED
    BY <1>4, <1>5, <1>9, <1>10, Combine DEF Touches

LEMMA ProductKeeps ==
  ASSUME IInv, NEW p \in Procs, ServeProduct(p)
  PROVE  IInv'
  <1>1. RegistryType /\ Own(p) /\ pc[p] = "product"
    BY DEF IInv, ServeProduct
  <1>2. /\ snap[p] = db /\ cmd[p].team \in Names /\ Unwritten(p, db)
    BY <1>1 DEF Own, Staged, Writing, Serves
  <1>3. Tables(db) /\ Sound(db)
    BY <1>1 DEF RegistryType
  <1>4. /\ db = [columns |-> db.columns, teams |-> db.teams, products |-> db.products,
                 versions |-> db.versions, lineage |-> db.lineage]
        /\ db.teams \in Seq(Team) /\ db.products \in Seq(Product)
        /\ db.versions \in Seq(Version) /\ db.lineage \in Seq(Lineage)
    BY <1>3 DEF Tables
  <1> DEFINE known == TeamsNamed(db, cmd[p].team)
             team == IF known = {} THEN Len(db.teams) + 1 ELSE Least(known)
             new == [name |-> cmd[p].team, by |-> p, via |-> "serve"]
             row == [team |-> team, by |-> p]
             teams == IF known = {} THEN Append(db.teams, new) ELSE db.teams
             d == [db EXCEPT !.teams = IF known = {} THEN Append(@, new) ELSE @,
                             !.products = Append(@, row)]
  <1>5. snap' = [snap EXCEPT ![p] = d]
    BY <1>2 DEF ServeProduct
  <1>6. new \in Team /\ new.by = p
    BY <1>2 DEF Team
  <1>7. row \in Product /\ row.by = p
    <2>1. known \subseteq Nat
      BY <1>4 DEF TeamsNamed, Ids
    <2>2. known # {} => Least(known) \in Nat
      BY <2>1, LeastExists
    <2>3. Len(db.teams) + 1 \in Nat
      BY <1>4
    <2>4. QED
      BY <2>2, <2>3 DEF Product
  <1>8. d = [columns |-> db.columns, teams |-> teams, products |-> Append(db.products, row),
             versions |-> db.versions, lineage |-> db.lineage]
    BY <1>4, TeamAndProduct, ZenonT(60)
  <1>9. /\ teams \in Seq(Team)
        /\ \A q : Wrote(q, teams) <=> Wrote(q, db.teams) \/ (known = {} /\ q = p)
    BY <1>4, <1>6, AppendWrote
  <1>10. Distinct(teams)
    <2>1. Distinct(db.teams) /\ DOMAIN db.teams = 1..Len(db.teams)
      BY <1>3, <1>4 DEF Sound
    <2>2. known = {} => \A i \in 1..Len(db.teams) : Lower[db.teams[i].name] # Lower[new.name]
      BY <2>1 DEF TeamsNamed, Ids
    <2> HIDE DEF new
    <2>3. known = {} => Distinct(Append(db.teams, new))
      BY <1>4, <1>6, <2>1, <2>2, TeamAdded
    <2>4. QED
      BY <2>1, <2>3
  <1> HIDE DEF new, row, teams, d, known
  <1>11. /\ d.products = Append(db.products, row) /\ d.teams = teams
         /\ d.versions = db.versions /\ d.lineage = db.lineage /\ d.columns = db.columns
    BY <1>8
  <1>12. Tables(d)
    BY <1>4, <1>7, <1>8, <1>9, <1>11 DEF Tables
  <1>13. Sound(d)
    BY <1>3, <1>7, <1>11, <1>10, ProductAdded DEF Sound
  <1>14. \A q : Wrote(q, d.products) <=> Wrote(q, db.products) \/ q = p
    BY <1>4, <1>7, <1>11, AppendWrote
  <1>15. \A q \in Procs \ {p} : Same(q, d, db)
    BY <1>9, <1>11, <1>14 DEF Same
  <1>16. ~Wrote(p, d.versions) /\ ~Wrote(p, d.lineage)
    BY <1>2, <1>11 DEF Unwritten
  <1>17. /\ Goto(p, "version") /\ UNCHANGED <<db, writer, files, receipts, cmd, todo, disturbed, result>>
    BY DEF ServeProduct
  <1>18. pc[p] \in Writing
    BY <1>1 DEF Writing
  <1>19. QED
    BY <1>5, <1>12, <1>13, <1>14, <1>15, <1>16, <1>17, <1>18, InsideKeeps

LEMMA VersionKeeps ==
  ASSUME IInv, NEW p \in Procs, ServeVersion(p)
  PROVE  IInv'
  <1>1. RegistryType /\ Own(p) /\ pc[p] = "version" /\ pc[p] \in Writing
    BY DEF IInv, ServeVersion, Writing
  <1> DEFINE d == snap[p]
             c == cmd[p]
             row == [product |-> Len(d.products), label |-> c.label, path |-> c.path, by |-> p]
             up == [version |-> Len(d.versions) + 1, upstream |-> c.upstream, by |-> p]
             lineage == IF c.upstream = Absent THEN d.lineage ELSE Append(d.lineage, up)
             e == [d EXCEPT !.versions = Append(@, row),
                            !.lineage = IF c.upstream = Absent THEN @ ELSE Append(@, up)]
  <1>2. /\ Tables(d) /\ Sound(d) /\ Wrote(p, d.products)
        /\ \A q \in Procs \ {p} : Same(q, d, db)
        /\ ~Wrote(p, d.versions) /\ ~Wrote(p, d.lineage)
    BY <1>1 DEF Own, Staged
  <1>3. /\ c.label \in Labels /\ c.path \in Paths /\ c.upstream \in Paths \cup {Absent}
        /\ Number[c.path] = Absent
    <2>1. c.label \in Labels /\ c.path \in Places /\ c.upstream \in Paths \cup {Absent}
      BY <1>1, RegistryAssumption DEF Own, Serves
    <2>2. PICK path \in Paths : c.path = Anchor[path]
      BY <2>1 DEF Places
    <2>3. QED
      BY <2>1, <2>2, RegistryAssumption
  <1>4. /\ d = [columns |-> d.columns, teams |-> d.teams, products |-> d.products,
                versions |-> d.versions, lineage |-> d.lineage]
        /\ d.teams \in Seq(Team) /\ d.products \in Seq(Product)
        /\ d.versions \in Seq(Version) /\ d.lineage \in Seq(Lineage)
    BY <1>2 DEF Tables
  <1>5. CASE MayInsertVersion(d, Len(d.products), c.label, c.path)
    <2>1. /\ snap' = [snap EXCEPT ![p] = e] /\ Goto(p, "commit")
          /\ UNCHANGED <<db, writer, files, receipts, cmd, todo, disturbed, result>>
      BY <1>5 DEF ServeVersion
    <2>2. e = [columns |-> d.columns, teams |-> d.teams, products |-> d.products,
               versions |-> Append(d.versions, row), lineage |-> lineage]
      <3>1. e = [d EXCEPT !.versions = Append(d.versions, row), !.lineage = lineage]
        OBVIOUS
      <3> HIDE DEF e, row, lineage, d
      <3>2. QED
        BY <1>4, <3>1, VersionAndLineage
    <2>3. Len(d.products) \in Nat /\ Len(d.products) \in 1..Len(d.products)
      <3>1. PICK i \in DOMAIN d.products : d.products[i].by = p
        BY <1>2 DEF Wrote
      <3>2. i \in 1..Len(d.products) /\ Len(d.products) \in Nat
        BY <1>4, <3>1
      <3>3. QED
        BY <3>2
    <2>4. /\ row \in Version /\ row.by = p /\ row.product \in 1..Len(d.products)
          /\ MayInsertVersion(d, row.product, row.label, row.path) /\ Number[row.path] = Absent
      BY <1>3, <1>5, <2>3 DEF Version
    <2>5. c.upstream # Absent => up \in Lineage
      <3>1. Len(d.versions) + 1 \in Nat
        BY <1>4
      <3>2. QED
        BY <1>3, <3>1 DEF Lineage
    <2>6. /\ lineage \in Seq(Lineage)
          /\ \A q : Wrote(q, lineage) <=> Wrote(q, d.lineage) \/ (c.upstream # Absent /\ q = p)
      <3>1. CASE c.upstream = Absent
        BY <1>4, <3>1
      <3>2. CASE c.upstream # Absent
        <4>1. up \in Lineage /\ up.by = p /\ lineage = Append(d.lineage, up)
          BY <2>5, <3>2
        <4> HIDE DEF up, lineage
        <4>2. QED
          BY <1>4, <3>2, <4>1, AppendWrote
      <3>3. QED
        BY <3>1, <3>2
    <2> HIDE DEF row, up, lineage, e
    <2>7. /\ e.products = d.products /\ e.teams = d.teams /\ e.columns = d.columns
          /\ e.versions = Append(d.versions, row) /\ e.lineage = lineage
      BY <2>2
    <2>8. Tables(e)
      BY <1>4, <2>2, <2>4, <2>6, <2>7 DEF Tables
    <2>9. Sound(e)
      BY <1>2, <2>4, <2>7, VersionAdded DEF Sound
    <2>10. \A q : /\ Wrote(q, e.versions) <=> Wrote(q, d.versions) \/ q = p
                  /\ Numbered(q, e.versions) <=> Numbered(q, d.versions)
      BY <1>4, <2>4, <2>7, AppendWrote, AppendNumbered
    <2>11. \A q \in Procs \ {p} : Same(q, e, db)
      BY <1>2, <2>6, <2>7, <2>10 DEF Same
    <2>12. Wrote(p, e.products)
      BY <1>2, <2>7
    <2>13. Written(p, e, c)
      <3>1. ~Numbered(p, d.versions)
        BY <1>2 DEF Numbered, Wrote
      <3>2. QED
        BY <1>2, <2>6, <2>7, <2>10, <2>12, <3>1 DEF Written
    <2>14. QED
      BY <1>1, <2>1, <2>8, <2>9, <2>11, <2>12, <2>13, InsideKeeps
  <1>6. CASE ~MayInsertVersion(d, Len(d.products), c.label, c.path)
    <2>1. Rollback(p) /\ UNCHANGED <<files, receipts, cmd, todo, disturbed>>
      BY <1>6 DEF ServeVersion
    <2>2. QED
      BY <1>1, <2>1, RefusalKeeps
  <1>7. QED
    BY <1>5, <1>6

LEMMA CommitKeeps ==
  ASSUME IInv, NEW p \in Procs, ServeCommit(p)
  PROVE  IInv'
  <1>1. RegistryType /\ Own(p) /\ pc[p] = "commit" /\ pc[p] \in Writing
    BY DEF IInv, ServeCommit, Writing
  <1>2. CASE /\ db' = snap[p] /\ writer' = Nobody /\ Goto(p, "served")
            /\ snap' = [snap EXCEPT ![p] = Empty] /\ UNCHANGED result
    <2>1. /\ Tables(snap[p]) /\ Sound(snap[p]) /\ Wrote(p, snap[p].products)
          /\ \A q \in Procs \ {p} : Same(q, snap[p], db)
          /\ Written(p, snap[p], cmd[p]) /\ cmd[p] \in Serves
          /\ writer = p /\ result[p] = "none"
      BY <1>1 DEF Own, Staged
    <2>2. /\ pc'[p] = "served" /\ \A q \in Procs \ {p} : pc'[q] = pc[q]
          /\ pc' \in [Procs -> Locations]
      BY <1>1, <1>2, GotoMoves DEF Locations
    <2>3. snap' = [q \in Procs |-> snap'[q]] /\ \A q \in Procs \ {p} : snap'[q] = snap[q]
      BY <1>1, <1>2 DEF RegistryType
    <2>4. UNCHANGED <<cmd, files, todo, disturbed>>
      BY DEF ServeCommit
    <2>5. RegistryType'
      BY <1>1, <1>2, <2>1, <2>2, <2>4, <2>3 DEF RegistryType
    <2>6. Elsewhere(p)
      BY <1>2, <2>1, <2>2, <2>4, <2>3, RegistryAssumption DEF Elsewhere
    <2>7. Written(p, db, cmd[p])' /\ Serves' = Serves
      BY <1>2, <2>1, <2>4 DEF Serves
    <2>8. Own(p)'
      BY <1>2, <2>1, <2>2, <2>4, <2>7, RegistryAssumption DEF Own, Early, Writing, Consuming
    <2>9. CopyInv(p)'
      BY <2>2 DEF CopyInv, Consuming
    <2>10. QED
      BY <2>4, <2>5, <2>6, <2>8, <2>9, Combine DEF Touches
  <1>3. CASE Rollback(p)
    BY <1>1, <1>3, RefusalKeeps DEF ServeCommit
  <1>4. QED
    BY <1>2, <1>3 DEF ServeCommit

-----------------------------------------------------------------------------
(* consume                                                                 *)

\* A consume goes on to its next file operation.
LEMMA ConsumeOn ==
  ASSUME IInv, NEW p \in Procs, NEW l \in Consuming, pc' = [pc EXCEPT ![p] = l],
         pc[p] \in {"ready"} \cup Consuming,
         UNCHANGED <<db, writer, snap, result>>,
         cmd' = [q \in Procs |-> cmd'[q]], \A q \in Procs \ {p} : cmd'[q] = cmd[q],
         cmd'[p].kind = "consume", cmd'[p].out \in Places, cmd'[p].path \in Places,
         todo' \in [Procs -> SUBSET Parts], \A q \in Procs \ {p} : todo'[q] = todo[q],
         l \notin {"entries", "receipt"} => todo'[p] = Parts,
         Touches(p), CopyInv(p)'
  PROVE  IInv'
  <1>1. RegistryType /\ Own(p)
    BY DEF IInv
  <1>2. /\ pc'[p] = l /\ \A q \in Procs \ {p} : pc'[q] = pc[q]
        /\ pc' \in [Procs -> Locations]
    BY <1>1, GotoMoves DEF Goto, Locations
  <1>3. RegistryType'
    <2>1. files' \in [Places -> Trees \cup {Absent}]
      BY <1>1, TouchType
    <2>2. \A q \in Procs : pc'[q] \notin {"entries", "receipt", "end"} => todo'[q] = Parts
      BY <1>1, <1>2 DEF RegistryType
    <2>3. QED
      BY <1>1, <1>2, <2>1, <2>2 DEF RegistryType
  <1>4. Elsewhere(p)
    BY <1>2 DEF Elsewhere
  <1>5. writer # p /\ result[p] = "none"
    BY <1>1 DEF Own, Writing, Consuming
  <1>6. Own(p)'
    BY <1>2, <1>5 DEF Own, Early, Writing, Consuming
  <1>7. QED
    BY <1>3, <1>4, <1>6, Combine

\* The version that show selects is one of the table.
LEMMA ShownVersion ==
  ASSUME NEW d, Tables(d), NEW ref, NEW label, ShowProduct(d, ref, label) # Absent
  PROVE  ShowProduct(d, ref, label).version \in 1..Len(d.versions)
  <1> DEFINE k == ProductRef(d, ref)
             ids == IF label = Absent THEN VersionsOf(d, k) ELSE Labelled(d, k, label)
             v == ResolveVersion(d, k, label)
  <1>1. DOMAIN d.versions = 1..Len(d.versions) /\ Len(d.versions) \in Nat
    BY DEF Tables
  <1>2. ids \subseteq 1..Len(d.versions) /\ ids \subseteq Nat
    BY <1>1 DEF Labelled, VersionsOf, Ids
  <1>3. ids # {} => v \in 1..Len(d.versions)
    <2>1. ids # {} => Least(ids) \in ids /\ Greatest(ids) \in ids
      BY <1>1, <1>2, LeastExists, GreatestExists
    <2>2. QED
      BY <1>2, <2>1 DEF ResolveVersion, Latest
  <1>4. ids = {} => v = Absent
    BY DEF ResolveVersion
  <1>5. k # Absent /\ v # Absent
    BY DEF ShowProduct
  <1> HIDE DEF k, v
  <1>6. ShowProduct(d, ref, label).version = v
    BY <1>5 DEF ShowProduct, k, v
  <1>7. QED
    BY <1>3, <1>4, <1>5, <1>6

LEMMA CheckKeeps ==
  ASSUME IInv, NEW p \in Procs, NEW c \in Consumes, ConsumeCheck(p, c)
  PROVE  IInv'
  <1>1. RegistryType /\ Own(p)
    BY DEF IInv
  <1> DEFINE shown == ShowProduct(db, c.ref, c.label)
             source == Anchor[db.versions[shown.version].path]
             x == [kind |-> "consume", version |-> shown.version, path |-> source,
                   out |-> c.out, overwrite |-> c.overwrite]
  <1>2. /\ shown # Absent /\ cmd' = [cmd EXCEPT ![p] = x] /\ pc[p] = "ready"
        /\ UNCHANGED <<db, writer, files, todo, disturbed>>
        /\ IF files[source] = Absent \/ (files[c.out] # Absent /\ ~c.overwrite)
           THEN End(p, "failed") ELSE Goto(p, "remove") /\ UNCHANGED <<snap, result>>
    BY DEF ConsumeCheck, Ready
  <1>3. cmd[p] = NoCommand /\ writer # p
    BY <1>1, <1>2 DEF Own, Early, Writing
  <1>4. source \in Places
    <2>1. Tables(db) /\ Sound(db)
      BY <1>1 DEF RegistryType
    <2>2. shown.version \in 1..Len(db.versions)
      BY <1>2, <2>1, ShownVersion
    <2>3. db.versions[shown.version].path \in Paths
      <3>1. db.versions[shown.version] \in Version
        BY <2>1, <2>2 DEF Tables
      <3>2. QED
        BY <3>1 DEF Version
    <2>4. QED
      BY <2>3 DEF Places
  <1> HIDE DEF shown, source
  <1>5. x.kind = "consume" /\ x.out = c.out /\ x.path = source /\ x.overwrite = c.overwrite
    OBVIOUS
  <1> HIDE DEF x
  <1>6. CASE End(p, "failed")
    BY <1>2, <1>3, <1>5, <1>6, EndQuietly DEF Touches
  <1>7. CASE /\ ~(files[source] = Absent \/ (files[c.out] # Absent /\ ~c.overwrite))
             /\ Goto(p, "remove") /\ UNCHANGED <<snap, result>>
    <2>1. cmd = [q \in Procs |-> cmd[q]]
      BY <1>1 DEF RegistryType
    <2>2. /\ cmd' = [q \in Procs |-> cmd'[q]] /\ \A q \in Procs \ {p} : cmd'[q] = cmd[q]
          /\ cmd'[p] = x
      BY <1>2, <2>1
    <2>3. c.out \in Places
      BY DEF Consumes
    <2>4. /\ todo \in [Procs -> SUBSET Parts] /\ todo[p] = Parts
      BY <1>1, <1>2 DEF RegistryType
    <2>5. pc'[p] = "remove" /\ pc' = [pc EXCEPT ![p] = "remove"]
      BY <1>1, <1>7 DEF RegistryType, Goto
    <2>6. CopyInv(p)'
      BY <1>2, <1>5, <1>7, <2>2, <2>5 DEF CopyInv
    <2>7. QED
      BY <1>2, <1>4, <1>5, <1>7, <2>2, <2>3, <2>4, <2>5, <2>6, ConsumeOn DEF Consuming, Touches
  <1>8. QED
    BY <1>2, <1>6, <1>7

\* What the file operations of a consume have in common
LEMMA FileStep ==
  ASSUME IInv, NEW p \in Procs, pc[p] \in Consuming
  PROVE  /\ cmd = [q \in Procs |-> cmd[q]] /\ pc \in [Procs -> Locations]
         /\ cmd[p].kind = "consume" /\ cmd[p].out \in Places /\ cmd[p].path \in Places
         /\ writer # p /\ pc[p] \notin {"end", "served"}
         /\ files \in [Places -> Trees \cup {Absent}]
         /\ todo \in [Procs -> SUBSET Parts]
         /\ pc[p] \notin {"entries", "receipt"} => todo[p] = Parts
         /\ CopyInv(p)
  <1>1. RegistryType /\ Own(p) /\ CopyInv(p)
    BY DEF IInv
  <1>2. pc[p] \notin Writing /\ pc[p] \notin {"end", "served"}
    BY DEF Writing, Consuming
  <1>3. QED
    BY <1>1, <1>2 DEF RegistryType, Own

LEMMA WriteMoves ==
  ASSUME files \in [Places -> Trees \cup {Absent}], NEW p, cmd[p].out \in Places,
         NEW tree, Write(p, tree)
  PROVE  /\ files'[cmd[p].out] = tree /\ \A x \in Places \ {cmd[p].out} : files'[x] = files[x]
         /\ p \in disturbed' <=> p \in disturbed
  BY DEF Write

\* A file operation of a consume fails.
LEMMA FailKeeps ==
  ASSUME IInv, NEW p \in Procs, pc[p] \in Consuming, CopyEnds(p, FALSE),
         UNCHANGED <<db, writer, cmd>>,
         todo' = todo \/ \E e : todo' = [todo EXCEPT ![p] = @ \ {e}],
         Touches(p)
  PROVE  IInv'
  <1>1. End(p, "failed")
    BY DEF CopyEnds
  <1>2. writer # p /\ pc[p] \notin {"end", "served"}
    BY FileStep
  <1>3. QED
    BY <1>1, <1>2, EndQuietly

\* A tree without some of its entries, or with another one, is a tree.
LEMMA TreeTypes ==
  ASSUME NEW t \in Trees
  PROVE  /\ \A gone : Without(t, gone) \in Trees
         /\ \A e \in Parts, y \in Places \cup {"partial", Absent} :
               /\ [t EXCEPT !.parts[e] = y] = [dir |-> t.dir, parts |-> [t.parts EXCEPT ![e] = y]]
               /\ [t EXCEPT !.parts[e] = y] \in Trees
         /\ t = [dir |-> t.dir, parts |-> t.parts] /\ t.dir \in BOOLEAN
         /\ t.parts \in [Parts -> Places \cup {"partial", Absent}] /\ t # Absent
  <1>1. /\ t = [dir |-> t.dir, parts |-> t.parts] /\ t.dir \in BOOLEAN
        /\ t.parts \in [Parts -> Places \cup {"partial", Absent}]
    BY DEF Trees
  <1>2. t # Absent
    BY RegistryAssumption
  <1>3. \A gone : Without(t, gone) \in Trees
    BY <1>1 DEF Without, Trees
  <1>4. ASSUME NEW e \in Parts, NEW y \in Places \cup {"partial", Absent}
        PROVE  /\ [t EXCEPT !.parts[e] = y] = [dir |-> t.dir, parts |-> [t.parts EXCEPT ![e] = y]]
               /\ [t EXCEPT !.parts[e] = y] \in Trees
    <2>1. [t EXCEPT !.parts[e] = y] = [dir |-> t.dir, parts |-> [t.parts EXCEPT ![e] = y]]
      BY <1>1
    <2>2. [t.parts EXCEPT ![e] = y] \in [Parts -> Places \cup {"partial", Absent}]
      BY <1>1
    <2>3. QED
      BY <1>1, <2>1, <2>2 DEF Trees
  <1>5. QED
    BY <1>1, <1>2, <1>3, <1>4

LEMMA TreeType ==
  ASSUME NEW dir \in BOOLEAN, NEW y \in Places \cup {"partial", Absent}
  PROVE  Tree(dir, y) \in Trees
  BY DEF Tree, Trees

LEMMA ReadsType ==
  ASSUME NEW p, NEW x \in Trees, files[cmd[p].path] = x
  PROVE  Reads(p) \in Trees
  BY TreeTypes, TreeType DEF Reads

LEMMA RemoveKeeps ==
  ASSUME IInv, NEW p \in Procs, ConsumeRemove(p)
  PROVE  IInv'
  <1> DEFINE old == files[cmd[p].out]
             source == files[cmd[p].path]
             replaces == cmd[p].overwrite /\ old # Absent
             l == IF IsDir(cmd[p].path) THEN "create" ELSE "file"
  <1>1. pc[p] = "remove" /\ pc[p] \in Consuming /\ UNCHANGED <<db, writer, cmd, todo>>
    BY DEF ConsumeRemove, Consuming
  <1>2. /\ cmd = [q \in Procs |-> cmd[q]] /\ pc \in [Procs -> Locations]
        /\ cmd[p].kind = "consume" /\ cmd[p].out \in Places /\ cmd[p].path \in Places
        /\ files \in [Places -> Trees \cup {Absent}]
        /\ todo \in [Procs -> SUBSET Parts] /\ todo[p] = Parts
        /\ CopyInv(p)
    BY <1>1, FileStep
  <1>3. CASE /\ source # Absent
             /\ IF replaces THEN Write(p, Absent) ELSE UNCHANGED <<files, disturbed>>
             /\ Goto(p, l) /\ UNCHANGED <<snap, result>>
    <2>1. Touches(p)
      BY <1>1, <1>2, <1>3 DEF Touches
    <2>2. /\ pc' = [pc EXCEPT ![p] = l] /\ pc'[p] = l /\ l \in Consuming
      BY <1>2, <1>3 DEF Goto, Consuming
    <2>3. CopyInv(p)'
      <3> SUFFICES ASSUME cmd[p].out # cmd[p].path, p \notin disturbed' PROVE CopyInv(p)'
        BY <1>1 DEF CopyInv
      <3>1. p \notin disturbed /\ files'[cmd[p].path] = source /\ files'[cmd[p].out] = Absent
        <4>1. CASE replaces
          BY <1>2, <1>3, <4>1, WriteMoves
        <4>2. CASE ~replaces
          BY <1>1, <1>2, <1>3, <4>2 DEF CopyInv, Consuming
        <4>3. QED
          BY <4>1, <4>2
      <3>2. source \in Trees /\ source # Absent
        BY <1>2, <1>3
      <3>3. CASE source.dir
        <4>1. pc'[p] = "create"
          BY <2>2, <3>2, <3>3 DEF IsDir
        <4>2. QED
          BY <1>1, <3>1, <3>2, <3>3, <4>1 DEF CopyInv
      <3>4. CASE ~source.dir
        <4>1. pc'[p] = "file"
          BY <2>2, <3>2, <3>4 DEF IsDir
        <4>2. QED
          BY <1>1, <3>1, <3>2, <3>4, <4>1 DEF CopyInv
      <3>5. QED
        BY <3>3, <3>4
    <2> HIDE DEF l
    <2>4. l \notin {"entries", "receipt"}
      BY DEF l
    <2>5. QED
      BY <1>1, <1>2, <1>3, <2>1, <2>2, <2>3, <2>4, ConsumeOn
  <1>4. CASE /\ replaces /\ CopyEnds(p, FALSE)
             /\ \E gone \in SUBSET Parts : Write(p, Without(old, gone))
    <2>1. old \in Trees
      BY <1>2, <1>4
    <2>2. Touches(p)
      BY <1>1, <1>2, <1>4, <2>1, TreeTypes DEF Touches
    <2>3. QED
      BY <1>1, <1>4, <2>2, FailKeeps
  <1>5. CASE Fails(p)
    BY <1>1, <1>5, FailKeeps DEF Fails, Touches
  <1>6. QED
    BY <1>3, <1>4, <1>5 DEF ConsumeRemove

LEMMA FileKeeps ==
  ASSUME IInv, NEW p \in Procs, ConsumeFile(p)
  PROVE  IInv'
  <1>1. pc[p] = "file" /\ pc[p] \in Consuming /\ UNCHANGED <<db, writer, cmd, todo>>
    BY DEF ConsumeFile, Consuming
  <1>2. /\ cmd = [q \in Procs |-> cmd[q]] /\ pc \in [Procs -> Locations]
        /\ cmd[p].kind = "consume" /\ cmd[p].out \in Places /\ cmd[p].path \in Places
        /\ files \in [Places -> Trees \cup {Absent}]
        /\ todo \in [Procs -> SUBSET Parts] /\ todo[p] = Parts
        /\ CopyInv(p)
    BY <1>1, FileStep
  <1>3. CASE IsFile(cmd[p].path) /\ Write(p, Reads(p)) /\ CopyEnds(p, TRUE)
    <2>1. files[cmd[p].path] \in Trees
      BY <1>2, <1>3 DEF IsFile
    <2>2. Touches(p)
      BY <1>1, <1>2, <1>3, <2>1, ReadsType DEF Touches
    <2>3. /\ pc' = [pc EXCEPT ![p] = "receipt"] /\ pc'[p] = "receipt"
          /\ UNCHANGED <<snap, result>>
      BY <1>2, <1>3 DEF CopyEnds, Goto
    <2>4. CopyInv(p)'
      <3> SUFFICES ASSUME cmd[p].out # cmd[p].path, p \notin disturbed' PROVE CopyInv(p)'
        BY <1>1 DEF CopyInv
      <3>1. Reads(p) = files[cmd[p].path] /\ Reads(p) # Absent
        BY <2>1, RegistryAssumption DEF Reads
      <3>2. files'[cmd[p].path] = files[cmd[p].path] /\ files'[cmd[p].out] = Reads(p)
        BY <1>2, <1>3, WriteMoves
      <3>3. QED
        BY <1>1, <2>3, <3>1, <3>2 DEF CopyInv
    <2>5. QED
      BY <1>1, <1>2, <2>2, <2>3, <2>4, ConsumeOn DEF Consuming
  <1>4. CASE Write(p, Tree(FALSE, "partial")) /\ CopyEnds(p, FALSE)
    <2>1. Touches(p)
      BY <1>1, <1>2, <1>4, TreeType DEF Touches
    <2>2. QED
      BY <1>1, <1>4, <2>1, FailKeeps
  <1>5. CASE Fails(p)
    BY <1>1, <1>5, FailKeeps DEF Fails, Touches
  <1>6. QED
    BY <1>3, <1>4, <1>5 DEF ConsumeFile

LEMMA CreateKeeps ==
  ASSUME IInv, NEW p \in Procs, ConsumeCreate(p)
  PROVE  IInv'
  <1>1. pc[p] = "create" /\ pc[p] \in Consuming /\ UNCHANGED <<db, writer, cmd, todo>>
    BY DEF ConsumeCreate, Consuming
  <1>2. /\ cmd = [q \in Procs |-> cmd[q]] /\ pc \in [Procs -> Locations]
        /\ cmd[p].kind = "consume" /\ cmd[p].out \in Places /\ cmd[p].path \in Places
        /\ files \in [Places -> Trees \cup {Absent}]
        /\ todo \in [Procs -> SUBSET Parts] /\ todo[p] = Parts
        /\ CopyInv(p)
    BY <1>1, FileStep
  <1>3. CASE /\ IF IsDir(cmd[p].out) THEN UNCHANGED <<files, disturbed>>
                                     ELSE Write(p, Tree(TRUE, Absent))
             /\ Goto(p, "list") /\ UNCHANGED <<snap, result>>
    <2>1. Touches(p)
      BY <1>1, <1>2, <1>3, TreeType DEF Touches
    <2>2. pc' = [pc EXCEPT ![p] = "list"] /\ pc'[p] = "list"
      BY <1>2, <1>3 DEF Goto
    <2>3. CopyInv(p)'
      <3> SUFFICES ASSUME cmd[p].out # cmd[p].path, p \notin disturbed' PROVE CopyInv(p)'
        BY <1>1 DEF CopyInv
      <3>1. p \notin disturbed
        BY <1>2, <1>3, WriteMoves
      <3>2. /\ files[cmd[p].path] # Absent /\ files[cmd[p].path].dir
            /\ files[cmd[p].out] = Absent
        BY <1>1, <1>2, <3>1 DEF CopyInv
      <3>3. Write(p, Tree(TRUE, Absent))
        BY <1>3, <3>2 DEF IsDir
      <3>4. files'[cmd[p].path] = files[cmd[p].path] /\ files'[cmd[p].out] = Tree(TRUE, Absent)
        BY <1>2, <3>3, WriteMoves
      <3>5. QED
        BY <1>1, <2>2, <3>2, <3>4 DEF CopyInv
    <2>4. QED
      BY <1>1, <1>2, <1>3, <2>1, <2>2, <2>3, ConsumeOn DEF Consuming
  <1>4. CASE Fails(p)
    BY <1>1, <1>4, FailKeeps DEF Fails, Touches
  <1>5. QED
    BY <1>3, <1>4 DEF ConsumeCreate

LEMMA ListKeeps ==
  ASSUME IInv, NEW p \in Procs, ConsumeList(p)
  PROVE  IInv'
  <1>1. pc[p] = "list" /\ pc[p] \in Consuming /\ UNCHANGED <<db, writer, cmd, todo>>
    BY DEF ConsumeList, Consuming
  <1>2. /\ cmd = [q \in Procs |-> cmd[q]] /\ pc \in [Procs -> Locations]
        /\ cmd[p].kind = "consume" /\ cmd[p].out \in Places /\ cmd[p].path \in Places
        /\ todo \in [Procs -> SUBSET Parts] /\ todo[p] = Parts
        /\ CopyInv(p)
    BY <1>1, FileStep
  <1>3. CASE Goto(p, "entries") /\ UNCHANGED <<snap, result, files, disturbed>>
    <2>1. pc' = [pc EXCEPT ![p] = "entries"] /\ pc'[p] = "entries"
      BY <1>2, <1>3 DEF Goto
    <2>2. CopyInv(p)'
      <3> DEFINE source == files[cmd[p].path]
      <3>1. [e \in Parts |-> IF e \in todo[p] THEN Absent ELSE source.parts[e]] =
              [e \in Parts |-> Absent]
        BY <1>2
      <3> SUFFICES ASSUME cmd[p].out # cmd[p].path, p \notin disturbed PROVE CopyInv(p)'
        BY <1>1, <1>3 DEF CopyInv
      <3>2. /\ source # Absent /\ source.dir
            /\ files[cmd[p].out] = [dir |-> TRUE, parts |-> [e \in Parts |-> Absent]]
        BY <1>1, <1>2 DEF CopyInv, Tree
      <3>3. UNCHANGED <<files, cmd, todo>>
        BY <1>1, <1>3
      <3>4. QED
        BY <2>1, <3>1, <3>2, <3>3 DEF CopyInv
    <2>3. QED
      BY <1>1, <1>2, <1>3, <2>1, <2>2, ConsumeOn DEF Consuming, Touches
  <1>4. CASE Fails(p)
    BY <1>1, <1>4, FailKeeps DEF Fails, Touches
  <1>5. QED
    BY <1>3, <1>4 DEF ConsumeList

LEMMA EntryKeeps ==
  ASSUME IInv, NEW p \in Procs, NEW e \in Parts, ConsumeEntry(p, e)
  PROVE  IInv'
  <1> DEFINE source == files[cmd[p].path]
             out == files[cmd[p].out]
             there == IsDir(cmd[p].path) /\ source.parts[e] # Absent
             l == IF todo[p] = {e} THEN "receipt" ELSE "entries"
             onward == IF todo[p] = {e} THEN CopyEnds(p, TRUE) ELSE UNCHANGED <<pc, snap, result>>
  <1>1. /\ pc[p] = "entries" /\ pc[p] \in Consuming /\ UNCHANGED <<db, writer, cmd>>
        /\ todo' = [todo EXCEPT ![p] = @ \ {e}] /\ e \in todo[p]
    BY DEF ConsumeEntry, Consuming
  <1>2. /\ cmd = [q \in Procs |-> cmd[q]] /\ pc \in [Procs -> Locations]
        /\ cmd[p].kind = "consume" /\ cmd[p].out \in Places /\ cmd[p].path \in Places
        /\ files \in [Places -> Trees \cup {Absent}]
        /\ todo \in [Procs -> SUBSET Parts]
        /\ CopyInv(p)
    BY <1>1, FileStep
  <1>3. /\ todo' \in [Procs -> SUBSET Parts] /\ todo'[p] = todo[p] \ {e}
        /\ \A q \in Procs \ {p} : todo'[q] = todo[q]
    BY <1>1, <1>2
  <1>4. ASSUME onward
        PROVE  /\ pc' = [pc EXCEPT ![p] = l] /\ pc'[p] = l /\ l \in Consuming
               /\ UNCHANGED <<snap, result>>
    BY <1>1, <1>2, <1>4 DEF CopyEnds, Goto, Consuming
  \* The output after an entry that is there, or is not
  <1>5. ASSUME onward, Touches(p), cmd[p].out # cmd[p].path, p \notin disturbed,
               files'[cmd[p].path] = source, IsDir(cmd[p].path),
               files'[cmd[p].out] = [dir |-> TRUE, parts |-> [out.parts EXCEPT ![e] = source.parts[e]]]
        PROVE  CopyInv(p)'
    <2>1. /\ source.dir
          /\ out = [dir |-> TRUE,
                    parts |-> [x \in Parts |-> IF x \in todo[p] THEN Absent ELSE source.parts[x]]]
      BY <1>1, <1>2, <1>5 DEF CopyInv
    <2>2. out.parts = [x \in Parts |-> IF x \in todo[p] THEN Absent ELSE source.parts[x]]
      BY <2>1
    <2>3. [out.parts EXCEPT ![e] = source.parts[e]] =
            [x \in Parts |-> IF x \in todo'[p] THEN Absent ELSE source.parts[x]]
      BY <1>1, <1>3, <2>2
    <2>4. source \in Trees /\ source # Absent
      BY <1>2, <1>5 DEF IsDir
    <2>5. source = [dir |-> source.dir, parts |-> source.parts] /\ source.dir = TRUE
          /\ source.parts \in [Parts -> Places \cup {"partial", Absent}]
      BY <2>1, <2>4, TreeTypes
    <2>6. todo[p] = {e} => files'[cmd[p].out] = source
      <3> SUFFICES ASSUME todo[p] = {e} PROVE files'[cmd[p].out] = source
        OBVIOUS
      <3>1. [x \in Parts |-> IF x \in todo'[p] THEN Absent ELSE source.parts[x]] = source.parts
        BY <1>3, <2>5
      <3>2. QED
        BY <1>5, <2>3, <2>5, <3>1
    <2>7. pc'[p] = l
      BY <1>4, <1>5
    <2>8. CASE todo[p] = {e}
      BY <1>1, <1>5, <2>4, <2>6, <2>7, <2>8 DEF CopyInv
    <2>9. CASE todo[p] # {e}
      <3>1. files'[cmd[p].out] = [dir |-> TRUE,
              parts |-> [x \in Parts |-> IF x \in todo'[p] THEN Absent ELSE source.parts[x]]]
        BY <1>5, <2>3
      <3>2. pc'[p] = "entries"
        BY <2>7, <2>9
      <3>3. QED
        BY <1>1, <1>5, <2>1, <2>4, <3>1, <3>2 DEF CopyInv
    <2>10. QED
      BY <2>8, <2>9
  <1>6. CASE /\ there /\ IsDir(cmd[p].out)
             /\ Write(p, [out EXCEPT !.parts[e] = Reads(p).parts[e]])
             /\ onward
    <2>1. source \in Trees /\ out \in Trees
      BY <1>2, <1>6 DEF IsDir
    <2>2. Reads(p).parts[e] \in Places \cup {"partial", Absent}
      <3>1. Reads(p) \in Trees
        BY <2>1, ReadsType
      <3>2. QED
        BY <3>1, TreeTypes
    <2>3. Touches(p)
      BY <1>1, <1>2, <1>6, <2>1, <2>2, TreeTypes DEF Touches
    <2>4. CopyInv(p)'
      <3> SUFFICES ASSUME cmd[p].out # cmd[p].path, p \notin disturbed' PROVE CopyInv(p)'
        BY <1>1 DEF CopyInv
      <3>1. /\ files'[cmd[p].path] = source /\ p \notin disturbed
            /\ files'[cmd[p].out] = [out EXCEPT !.parts[e] = Reads(p).parts[e]]
        BY <1>2, <1>6, WriteMoves
      <3>2. Reads(p).parts[e] = source.parts[e]
        BY DEF Reads
      <3>3. out.dir = TRUE
        BY <1>6, <2>1, TreeTypes DEF IsDir
      <3>4. files'[cmd[p].out] = [dir |-> TRUE, parts |-> [out.parts EXCEPT ![e] = source.parts[e]]]
        <4> DEFINE y == Reads(p).parts[e]
        <4>1. [out EXCEPT !.parts[e] = y] = [dir |-> out.dir, parts |-> [out.parts EXCEPT ![e] = y]]
          BY <2>1, <2>2, TreeTypes
        <4> HIDE DEF y
        <4>2. files'[cmd[p].out] = [dir |-> TRUE, parts |-> [out.parts EXCEPT ![e] = y]]
          BY <3>1, <3>3, <4>1 DEF y
        <4>3. QED
          BY <3>2, <4>2 DEF y
      <3>5. QED
        BY <1>5, <1>6, <2>3, <3>1, <3>4
    <2>5. l \notin {"entries", "receipt"} => todo'[p] = Parts
      OBVIOUS
    <2> HIDE DEF l
    <2>6. QED
      BY <1>1, <1>2, <1>3, <1>4, <1>6, <2>3, <2>4, <2>5, ConsumeOn
  <1>7. CASE ~there /\ onward /\ UNCHANGED <<files, disturbed>>
    <2>1. Touches(p)
      BY <1>7 DEF Touches
    <2>2. CopyInv(p)'
      <3> SUFFICES ASSUME cmd[p].out # cmd[p].path, p \notin disturbed' PROVE CopyInv(p)'
        BY <1>1 DEF CopyInv
      <3>1. /\ source # Absent /\ source.dir
            /\ out = [dir |-> TRUE,
                      parts |-> [x \in Parts |-> IF x \in todo[p] THEN Absent ELSE source.parts[x]]]
        BY <1>1, <1>2, <1>7 DEF CopyInv
      <3>2. IsDir(cmd[p].path) /\ source.parts[e] = Absent
        BY <1>7, <3>1 DEF IsDir
      <3>3. out.parts = [x \in Parts |-> IF x \in todo[p] THEN Absent ELSE source.parts[x]]
        BY <3>1
      <3>4. [out.parts EXCEPT ![e] = source.parts[e]] = out.parts
        BY <1>1, <3>2, <3>3
      <3>5. files'[cmd[p].out] = [dir |-> TRUE, parts |-> [out.parts EXCEPT ![e] = source.parts[e]]]
        BY <1>7, <3>1, <3>3, <3>4
      <3>6. QED
        BY <1>5, <1>7, <2>1, <3>2, <3>5
    <2>3. l \notin {"entries", "receipt"} => todo'[p] = Parts
      OBVIOUS
    <2> HIDE DEF l
    <2>4. QED
      BY <1>1, <1>2, <1>3, <1>4, <1>7, <2>1, <2>2, <2>3, ConsumeOn
  <1>8. CASE /\ IsDir(cmd[p].out)
             /\ Write(p, [out EXCEPT !.parts[e] = "partial"])
             /\ CopyEnds(p, FALSE)
    <2>1. out \in Trees
      BY <1>2, <1>8 DEF IsDir
    <2>2. Touches(p)
      BY <1>1, <1>2, <1>8, <2>1, TreeTypes DEF Touches
    <2>3. QED
      BY <1>1, <1>8, <2>2, FailKeeps
  <1>9. CASE Fails(p)
    BY <1>1, <1>9, FailKeeps DEF Fails, Touches
  <1>10. QED
    BY <1>6, <1>7, <1>8, <1>9 DEF ConsumeEntry

LEMMA ReceiptKeeps ==
  ASSUME IInv, NEW p \in Procs, ConsumeReceipt(p)
  PROVE  IInv'
  <1>1. /\ pc[p] = "receipt" /\ UNCHANGED <<db, writer, files, cmd, todo, disturbed>>
        /\ \E r \in {"consumed", "failed"} : End(p, r)
    BY DEF ConsumeReceipt
  <1>2. writer # p
    BY <1>1 DEF IInv, Own, Writing
  <1>3. QED
    BY <1>1, <1>2, EndQuietly DEF Touches

-----------------------------------------------------------------------------
(* The inductive invariant                                                 *)

LEMMA InitInv == Init => IInv
  <1> SUFFICES ASSUME Init PROVE IInv
    OBVIOUS
  <1>1. PICK c : db = [Empty EXCEPT !.columns = c]
    BY DEF Init
  <1>2. /\ db.teams = <<>> /\ db.products = <<>> /\ db.versions = <<>> /\ db.lineage = <<>>
        /\ db.columns = c
        /\ db = [columns |-> c, teams |-> <<>>, products |-> <<>>, versions |-> <<>>,
                 lineage |-> <<>>]
    BY <1>1 DEF Empty
  <1>3. Tables(db)
    BY <1>2 DEF Tables
  <1>4. Sound(db)
    BY <1>2 DEF Sound, Indexed, Distinct
  <1>5. RegistryType
    <2>1. files \in [Places -> Trees \cup {Absent}]
      <3>1. PICK kind \in [Places -> Kinds] :
              files = [x \in Places |-> IF kind[x] = Absent THEN Absent ELSE Tree(kind[x], x)]
        BY DEF Init
      <3>2. \A x \in Places : kind[x] \in {TRUE, FALSE, Absent}
        BY <3>1, RegistryAssumption
      <3>3. \A x \in Places : kind[x] # Absent => Tree(kind[x], x) \in Trees
        BY <3>2, TreeType
      <3>4. QED
        BY <3>1, <3>3
    <2>2. QED
      BY <1>3, <1>4, <2>1 DEF RegistryType, Init, Early, Locations
  <1>6. \A p : ~Wrote(p, <<>>)
    BY DEF Wrote
  <1>7. \A p : Unwritten(p, db)
    BY <1>2, <1>6 DEF Unwritten
  <1>8. \A p \in Procs : Own(p)
    BY <1>7, RegistryAssumption DEF Init, Own, Early, Writing, Consuming
  <1>9. \A p \in Procs : CopyInv(p)
    BY DEF Init, CopyInv, Consuming
  <1>10. QED
    BY <1>5, <1>8, <1>9 DEF IInv

LEMMA NextInv == IInv /\ [Next]_vars => IInv'
  <1> SUFFICES ASSUME IInv, [Next]_vars PROVE IInv'
    OBVIOUS
  <1>1. CASE Next
    <2>1. PICK p \in Procs :
            \/ OpenCreate(p) \/ OpenRead(p) \/ OpenWrite(p) \/ Refused(p)
            \/ (\E c \in Serves : ServeBegin(p, c))
            \/ ServeProduct(p) \/ ServeVersion(p) \/ ServeCommit(p) \/ ServeReport(p)
            \/ \E name \in Names : RegisterTeam(p, name)
            \/ \E team \in DOMAIN db.teams : RegisterProduct(p, team)
            \/ \E product \in DOMAIN db.products, label \in Labels, path \in Paths :
                  RegisterVersion(p, product, label, path)
            \/ \E version \in DOMAIN db.versions, path \in Paths : RegisterLineage(p, version, path)
            \/ (\E c \in Consumes : ConsumeCheck(p, c))
            \/ ConsumeRemove(p) \/ ConsumeFile(p) \/ ConsumeCreate(p) \/ ConsumeList(p)
            \/ (\E e \in Parts : ConsumeEntry(p, e)) \/ ConsumeReceipt(p)
            \/ Crash(p)
      BY <1>1, RegistryAssumption DEF Next, Command
    <2>2. CASE OpenCreate(p) \/ OpenRead(p) \/ OpenWrite(p)
      BY <2>2, OpenKeeps, RefusalKeeps
    <2>3. CASE Refused(p) \/ Crash(p)
      BY <2>3, RefusalKeeps
    <2>4. CASE \/ (\E c \in Serves : ServeBegin(p, c))
               \/ ServeProduct(p) \/ ServeVersion(p) \/ ServeCommit(p) \/ ServeReport(p)
      BY <2>4, BeginKeeps, ProductKeeps, VersionKeeps, CommitKeeps, RefusalKeeps
    <2>5. CASE \/ (\E c \in Consumes : ConsumeCheck(p, c))
               \/ ConsumeRemove(p) \/ ConsumeFile(p) \/ ConsumeCreate(p) \/ ConsumeList(p)
               \/ (\E e \in Parts : ConsumeEntry(p, e)) \/ ConsumeReceipt(p)
      BY <2>5, CheckKeeps, RemoveKeeps, FileKeeps, CreateKeeps, ListKeeps, EntryKeeps, ReceiptKeeps
    <2>6. CASE \/ \E name \in Names : RegisterTeam(p, name)
               \/ \E team \in DOMAIN db.teams : RegisterProduct(p, team)
               \/ \E product \in DOMAIN db.products, label \in Labels, path \in Paths :
                     RegisterVersion(p, product, label, path)
               \/ \E version \in DOMAIN db.versions, path \in Paths :
                     RegisterLineage(p, version, path)
      BY <2>6, RegisterKeeps
    <2>7. QED
      BY <2>1, <2>2, <2>3, <2>4, <2>5, <2>6
  <1>2. CASE UNCHANGED vars
    <2>1. UNCHANGED vars
      BY <1>2
    <2>2. RegistryType'
      BY <2>1 DEF vars, IInv, RegistryType
    <2>3. \A p \in Procs : Own(p)'
      BY <2>1 DEF vars, IInv, Own, Staged, Reported, Serves
    <2>4. \A p \in Procs : CopyInv(p)'
      BY <2>1 DEF vars, IInv, CopyInv
    <2>5. QED
      BY <2>2, <2>3, <2>4 DEF IInv
  <1>3. QED
    BY <1>1, <1>2

\* The conjunction of the parts is an invariant of the registry.
THEOREM RegistryInvariant == Spec => []IInv
  <1>1. Init => IInv
    BY InitInv
  <1>2. IInv /\ [Next]_vars => IInv'
    BY NextInv
  <1>3. QED
    BY <1>1, <1>2, PTL DEF Spec

-----------------------------------------------------------------------------
(* What the registry promises                                              *)

\* A product is registered with its team, version and lineage or not at all, and
\* what serve reports is true, for any number of processes that race, fail or die.
THEOREM AllOrNothingHolds == Spec => []ServeAllOrNothing
  <1>1. IInv => ServeAllOrNothing
    <2> SUFFICES ASSUME IInv, NEW p \in Procs, cmd[p].kind = "serve"
                 PROVE  /\ Wrote(p, db.products) <=> Wrote(p, db.versions)
                        /\ Wrote(p, db.teams) => Wrote(p, db.products)
                        /\ Wrote(p, db.lineage) <=>
                              (Wrote(p, db.products) /\ cmd[p].upstream # Absent)
                        /\ result[p] = "published" => Wrote(p, db.products)
                        /\ result[p] = "failed" => ~Wrote(p, db.products)
      BY DEF ServeAllOrNothing
    <2>1. Own(p) /\ pc[p] \in Locations
      BY DEF IInv, RegistryType
    <2>2. pc[p] \notin Early \cup Consuming
      BY <2>1 DEF Own, NoCommand
    <2>3. CASE pc[p] \in Writing
      BY <2>1, <2>3 DEF Own, Unwritten, Writing
    <2>4. CASE pc[p] = "served"
      BY <2>1, <2>4 DEF Own, Written
    <2>5. CASE pc[p] = "end"
      BY <2>1, <2>5 DEF Own, Reported, Unwritten, Written
    <2>6. QED
      BY <2>1, <2>2, <2>3, <2>4, <2>5 DEF Locations
  <1>2. QED
    BY <1>1, RegistryInvariant, PTL

\* However many serves race, none creates a team that is there in any spelling.
THEOREM TeamsOnceHolds == Spec => []TeamsOnce
  <1>1. IInv => TeamsOnce
    <2> SUFFICES ASSUME IInv PROVE TeamsOnce
      OBVIOUS
    <2>1. db.teams \in Seq(Team) /\ Distinct(db.teams)
      BY DEF IInv, RegistryType, Tables, Sound
    <2>2. DOMAIN db.teams = 1..Len(db.teams)
      BY <2>1
    <2>3. QED
      BY <2>1, <2>2 DEF TeamsOnce, Distinct
  <1>2. QED
    BY <1>1, RegistryInvariant, PTL

\* A consume that reports success has written its receipt beside an output that
\* is its source, entry by entry, unless the two are one place or another consume
\* has changed one of them since it began.
THEOREM ReceiptAfterCopyHolds == Spec => ReceiptAfterCopy
  <1> DEFINE Whole(p) ==
        \/ files[cmd[p].out] = files[cmd[p].path] /\ files[cmd[p].out] # Absent
        \/ cmd[p].out = cmd[p].path \/ p \in disturbed
             A == \A p \in Procs : result'[p] = "consumed" /\ result[p] # "consumed" => Whole(p)
  <1>1. IInv /\ [Next]_vars => [A]_vars
    <2> SUFFICES ASSUME IInv, Next, NEW p \in Procs,
                        result'[p] = "consumed", result[p] # "consumed"
                 PROVE  Whole(p)
      OBVIOUS
    <2>1. result = [q \in Procs |-> result[q]]
      BY DEF IInv, RegistryType
    <2>2. ASSUME NEW q \in Procs, NEW r, End(q, r), r # "consumed" PROVE FALSE
      BY <2>1, <2>2 DEF End
    <2>3. ASSUME result' = result PROVE FALSE
      BY <2>3
    <2>4. PICK q \in Procs : ConsumeReceipt(q)
      <3>1. ASSUME NEW q \in Procs,
              \/ OpenCreate(q) \/ OpenRead(q) \/ OpenWrite(q) \/ Refused(q)
              \/ (\E c \in Serves : ServeBegin(q, c))
              \/ ServeProduct(q) \/ ServeVersion(q) \/ ServeCommit(q) \/ ServeReport(q)
            PROVE  FALSE
        BY <2>2, <2>3, <3>1 DEF OpenCreate, OpenRead, OpenWrite, Refused, ServeBegin,
               ServeProduct, ServeVersion, ServeCommit, ServeReport, Rollback
      <3>2. ASSUME NEW q \in Procs,
              \/ \E name \in Names : RegisterTeam(q, name)
              \/ \E team \in DOMAIN db.teams : RegisterProduct(q, team)
              \/ \E product \in DOMAIN db.products, label \in Labels, path \in Paths :
                    RegisterVersion(q, product, label, path)
              \/ \E version \in DOMAIN db.versions, path \in Paths :
                    RegisterLineage(q, version, path)
            PROVE  FALSE
        BY <2>2, <3>2 DEF RegisterTeam, RegisterProduct, RegisterVersion, RegisterLineage, Insert
      <3>3. ASSUME NEW q \in Procs, NEW ok \in BOOLEAN, CopyEnds(q, ok) PROVE FALSE
        BY <2>2, <2>3, <3>3 DEF CopyEnds
      <3>4. ASSUME NEW q \in Procs,
              (\E c \in Consumes : ConsumeCheck(q, c)) \/ ConsumeRemove(q) \/ ConsumeFile(q) \/ Crash(q)
            PROVE  FALSE
        BY <2>2, <2>3, <3>3, <3>4 DEF ConsumeCheck, ConsumeRemove, ConsumeFile, Fails, Crash
      <3>5. ASSUME NEW q \in Procs,
              ConsumeCreate(q) \/ ConsumeList(q) \/ \E e \in Parts : ConsumeEntry(q, e)
            PROVE  FALSE
        BY <2>2, <2>3, <3>3, <3>5 DEF ConsumeCreate, ConsumeList, ConsumeEntry, Fails
      <3>6. QED
        BY <3>1, <3>2, <3>4, <3>5, RegistryAssumption DEF Next, Command
    <2>5. q = p
      BY <2>1, <2>4 DEF ConsumeReceipt, End
    <2>6. pc[p] = "receipt" /\ CopyInv(p)
      BY <2>4, <2>5 DEF ConsumeReceipt, IInv
    <2>7. QED
      BY <2>6 DEF CopyInv, Consuming
  <1>2. QED
    BY <1>1, RegistryInvariant, PTL DEF Spec, ReceiptAfterCopy

-----------------------------------------------------------------------------
(* Lookups                                                                 *)

LEMMA LeastOfOne ==
  ASSUME NEW i \in Nat
  PROVE  Least({i}) = i
  BY DEF Least

\* What the queries return for a version's path, label and product
LEMMA VersionQueries ==
  ASSUME NEW d, Tables(d), Sound(d), NEW i \in 1..Len(d.versions)
  PROVE  /\ i \in Nat /\ d.versions[i] \in Version
         /\ d.versions[i].product \in 1..Len(d.products)
         /\ VersionsAt(d, d.versions[i].path) = {i}
         /\ Labelled(d, d.versions[i].product, d.versions[i].label) = {i}
         /\ i \in VersionsOf(d, d.versions[i].product)
  <1>1. /\ DOMAIN d.versions = 1..Len(d.versions) /\ Len(d.versions) \in Nat
        /\ d.versions[i] \in Version
    BY DEF Tables
  <1>2. VersionsAt(d, d.versions[i].path) = {i}
    BY <1>1 DEF VersionsAt, Ids, Sound, Indexed
  <1>3. Labelled(d, d.versions[i].product, d.versions[i].label) = {i}
    BY <1>1 DEF Labelled, VersionsOf, Ids, Sound, Indexed
  <1>4. i \in VersionsOf(d, d.versions[i].product)
    BY <1>1 DEF VersionsOf, Ids
  <1>5. QED
    BY <1>1, <1>2, <1>3, <1>4 DEF Sound, Indexed

LEMMA ProductAtType ==
  ASSUME NEW d, Tables(d), Sound(d), NEW path
  PROVE  ProductAt(d, path) \in Nat \cup {Absent}
  <1>1. CASE VersionsAt(d, path) = {}
    BY <1>1 DEF ProductAt
  <1>2. CASE VersionsAt(d, path) # {}
    <2>1. DOMAIN d.versions = 1..Len(d.versions) /\ Len(d.versions) \in Nat
      BY DEF Tables
    <2>2. VersionsAt(d, path) \subseteq 1..Len(d.versions)
      BY <2>1 DEF VersionsAt, Ids
    <2>3. VersionsAt(d, path) \subseteq Nat
      BY <2>1, <2>2
    <2>4. Least(VersionsAt(d, path)) \in 1..Len(d.versions)
      BY <1>2, <2>2, <2>3, LeastExists
    <2>5. d.versions[Least(VersionsAt(d, path))].product \in Nat
      BY <2>4, VersionQueries DEF Version
    <2>6. QED
      BY <1>2, <2>5 DEF ProductAt
  <1>3. QED
    BY <1>1, <1>2

LEMMA LineageType ==
  ASSUME NEW d, Tables(d), Sound(d), NEW version
  PROVE  LineageFor(d, version) \in SUBSET (Paths \X (Nat \cup {Absent}))
  <1>1. DOMAIN d.lineage = 1..Len(d.lineage) /\ \A i \in 1..Len(d.lineage) : d.lineage[i] \in Lineage
    BY DEF Tables
  <1>2. \A i \in DOMAIN d.lineage : d.lineage[i].upstream \in Paths
    BY <1>1 DEF Lineage
  <1>3. QED
    BY <1>2, ProductAtType DEF LineageFor, Ids

\* show of a version, whether the product is named by its id or by a path that
\* is no number
LEMMA ShowsVersion ==
  ASSUME NEW d, Tables(d), Sound(d), NEW i \in 1..Len(d.versions), NEW ref,
         \/ ref = d.versions[i].product
         \/ ref = d.versions[i].path /\ Number[ref] = Absent
  PROVE  /\ ProductRef(d, ref) = d.versions[i].product
         /\ ShowProduct(d, ref, d.versions[i].label) =
              [product |-> d.versions[i].product, version |-> i, lineage |-> LineageFor(d, i),
               team |-> d.products[d.versions[i].product].team]
         /\ ShowProduct(d, ref, Absent).version = Greatest(VersionsOf(d, d.versions[i].product))
  <1> DEFINE v == d.versions[i]
             k == v.product
             last == Greatest(VersionsOf(d, k))
  <1>1. /\ i \in Nat /\ v \in Version /\ k \in 1..Len(d.products)
        /\ VersionsAt(d, v.path) = {i} /\ Labelled(d, k, v.label) = {i}
        /\ i \in VersionsOf(d, k)
    BY VersionQueries
  <1>2. /\ v.path \in Paths /\ v.label # Absent /\ k \in Nat /\ k # Absent /\ k \notin Paths
        /\ i # Absent
    BY <1>1, RegistryAssumption DEF Version
  <1>3. DOMAIN d.products = 1..Len(d.products) /\ Len(d.versions) \in Nat
        /\ DOMAIN d.versions = 1..Len(d.versions)
    BY DEF Tables
  <1>4. ProductRef(d, ref) = k
    <2>1. ProductAt(d, v.path) = k
      BY <1>1, LeastOfOne DEF ProductAt
    <2>2. ref = v.path => ProductRef(d, ref) = k
      BY <1>2, <2>1 DEF ProductRef
    <2>3. ProductRef(d, k) = k
      BY <1>1, <1>2, <1>3 DEF ProductRef
    <2>4. QED
      BY <2>2, <2>3
  <1>5. ResolveVersion(d, k, v.label) = i
    BY <1>1, <1>2, LeastOfOne DEF ResolveVersion
  <1>6. ResolveVersion(d, k, Absent) = last /\ last # Absent
    <2>1. VersionsOf(d, k) \subseteq 1..Len(d.versions) /\ VersionsOf(d, k) # {}
      BY <1>1, <1>3 DEF VersionsOf, Ids
    <2>2. last \in 1..Len(d.versions)
      BY <1>3, <2>1, GreatestExists
    <2>3. last # Absent
      BY <1>3, <2>2, RegistryAssumption
    <2>4. QED
      BY <2>1, <2>3 DEF ResolveVersion, Latest
  <1> HIDE DEF v, k, last
  <1>7. ShowProduct(d, ref, v.label) =
          [product |-> k, version |-> i, lineage |-> LineageFor(d, i), team |-> d.products[k].team]
    BY <1>2, <1>4, <1>5 DEF ShowProduct
  <1>8. ShowProduct(d, ref, Absent).version = last
    BY <1>2, <1>4, <1>6 DEF ShowProduct
  <1>9. QED
    BY <1>4, <1>7, <1>8 DEF v, k, last

\* search lists every product once.
LEMMA SearchOnce ==
  ASSUME NEW d, Tables(d)
  PROVE  Cardinality(SearchProducts(d, Absent)) = Len(d.products)
  <1> DEFINE n == Len(d.products)
             newest(i) == IF VersionsOf(d, i) = {} THEN Absent ELSE Greatest(VersionsOf(d, i))
             S == SearchProducts(d, Absent)
             f == [i \in 1..n |-> <<i, newest(i)>>]
  <1>1. n \in Nat /\ DOMAIN d.products = 1..n
    BY DEF Tables
  <1>2. S = {<<i, newest(i)>> : i \in 1..n}
    BY <1>1 DEF SearchProducts
  <1> HIDE DEF newest, S, n
  <1>3. f \in [1..n -> S] /\ \A s \in S : \E i \in 1..n : f[i] = s
    BY <1>2
  <1>4. IsInjective(f)
    BY DEF IsInjective
  <1> HIDE DEF f
  <1>5. f \in Bijection(1..n, S)
    BY <1>3, <1>4 DEF Bijection, Injection, Surjection
  <1>6. ExistsBijection(1..n, S)
    BY <1>5 DEF ExistsBijection
  <1>7. IsFiniteSet(1..n) /\ Cardinality(1..n) = n
    BY <1>1, FS_Interval
  <1>8. Cardinality(S) = n
    BY <1>6, <1>7, FS_Bijection
  <1>9. QED
    BY <1>8 DEF S, n

\* A path that looks like a number is none that a serve registered.
LEMMA ServedPath ==
  ASSUME IInv, NEW i \in 1..Len(db.versions), cmd[db.versions[i].by].kind = "serve"
  PROVE  Number[db.versions[i].path] = Absent
  <1> DEFINE p == db.versions[i].by
  <1>1. DOMAIN db.versions = 1..Len(db.versions) /\ db.versions[i] \in Version
    BY DEF IInv, RegistryType, Tables
  <1>2. p \in Procs /\ Wrote(p, db.versions)
    BY <1>1 DEF Version, Wrote
  <1>3. Own(p) /\ pc[p] \in Locations
    BY <1>2 DEF IInv, RegistryType
  <1>4. Unwritten(p, db) \/ Written(p, db, cmd[p])
    BY <1>3 DEF Own, Locations, NoCommand, Reported
  <1>5. ~Numbered(p, db.versions)
    BY <1>2, <1>4 DEF Unwritten, Written
  <1>6. QED
    BY <1>1, <1>5 DEF Numbered

\* By its product's id and its label, or by any path but a number, show and
\* search agree on a version, after any sequence of registrations.
THEOREM LookupsAgreeHolds == Spec => []LookupsAgree
  <1>1. IInv => LookupsAgree
    <2> SUFFICES ASSUME IInv PROVE LookupsAgree
      OBVIOUS
    <2>1. Tables(db) /\ Sound(db)
      BY DEF IInv, RegistryType
    <2>2. DOMAIN db.versions = 1..Len(db.versions)
      BY <2>1 DEF Tables
    <2>3. ASSUME NEW i \in 1..Len(db.versions)
          PROVE  LET v == db.versions[i] shown == ShowProduct(db, v.product, v.label) IN
                 /\ shown # Absent /\ shown.product = v.product /\ shown.version = i
                 /\ Number[v.path] = Absent \/ cmd[v.by].kind = "serve" =>
                       ShowProduct(db, v.path, v.label) = shown
                 /\ <<v.product, ShowProduct(db, v.product, Absent).version>>
                       \in SearchProducts(db, Absent)
      <3> DEFINE v == db.versions[i]
                 k == v.product
                 shown == [product |-> k, version |-> i, lineage |-> LineageFor(db, i),
                           team |-> db.products[k].team]
      <3>1. /\ ShowProduct(db, k, v.label) = shown
            /\ ShowProduct(db, k, Absent).version = Greatest(VersionsOf(db, k))
            /\ Number[v.path] = Absent => ShowProduct(db, v.path, v.label) = shown
        BY <2>1, ShowsVersion
      <3>2. i \in Nat /\ k \in 1..Len(db.products) /\ i \in VersionsOf(db, k)
        BY <2>1, VersionQueries
      <3>3. /\ DOMAIN db.products = 1..Len(db.products) /\ Len(db.products) \in Nat
            /\ \A j \in 1..Len(db.products) : db.products[j] \in Product
        BY <2>1 DEF Tables
      <3>4. db.products[k].team \in Nat /\ k \in Nat
        BY <3>2, <3>3 DEF Product
      <3>5. LineageFor(db, i) \in SUBSET (Paths \X (Nat \cup {Absent}))
        BY <2>1, LineageType
      <3>6. shown \in ProductDetail
        BY <3>2, <3>4, <3>5 DEF ProductDetail
      <3>7. shown # Absent
        BY <3>6, RegistryAssumption
      <3>8. <<k, Greatest(VersionsOf(db, k))>> \in SearchProducts(db, Absent)
        BY <3>2, <3>3 DEF SearchProducts
      <3>9. shown.product = k /\ shown.version = i
        OBVIOUS
      <3>10. cmd[v.by].kind = "serve" => Number[v.path] = Absent
        BY ServedPath
      <3> HIDE DEF shown
      <3>11. QED
        BY <3>1, <3>7, <3>8, <3>9, <3>10
    <2>4. Cardinality(SearchProducts(db, Absent)) = Len(db.products)
      BY <2>1, SearchOnce
    <2>5. QED
      BY <2>2, <2>3, <2>4 DEF LookupsAgree
  <1>2. QED
    BY <1>1, RegistryInvariant, PTL
==============================================================================
