------------------------- MODULE BrokerServerProofs -------------------------
(***************************************************************************)
(* Proofs about BrokerServer for any calls, accounts, prices and limits.   *)
(*                                                                         *)
(* The inductive invariant says who owns a row of the ledger (LedgerInv),  *)
(* how old an authorization may be (AuthInv), what a drain has reached     *)
(* (DrainInv) and that the fair queue is in order and never leaves a slot  *)
(* idle (QueueInv).  schedule's loop is followed turn by turn: after n     *)
(* turns nobody can be served or n slots are taken.  On top of it the sums *)
(* over the ledger stay bounded (SpendInv): a sum does not depend on the   *)
(* order of its rows, which is shown by looking at a least counterexample. *)
(***************************************************************************)
EXTENDS BrokerServer, FiniteSetTheorems, SequenceTheorems, WellFoundedInduction, TLAPS

BrokerType ==
    /\ DOMAIN rows \subseteq Ids /\ rows \in [DOMAIN rows -> Row]
    /\ paused \in BOOLEAN /\ day \in Nat
    /\ pc \in [Calls -> Locations]
    /\ claims \in [Calls -> 0..MaxAuth]
    /\ reported \in [Calls -> Nat \cup {NoCost}]
    /\ auth \in [Accounts -> 0..MaxAuth]
    /\ draining \in BOOLEAN /\ pausing \in BOOLEAN
    /\ stop \in {"no", "pause", "wait", "checkpoint"}
    /\ life \in 1..MaxLife
    /\ charged \in [Calls -> Nat \cup {NoCost}]
    /\ leftAt \in [Calls -> 0..MaxAuth] /\ receipt \in BOOLEAN

\* Between its reservation and its release a call has a row of its own.
Mid == {"dispatch", "operation", "send", "relay", "settle", "unsettled"}

BeforeSend == {"new", "arrived", "admitted", "waiting", "recheck", "reserve",
               "dispatch", "operation", "send"}

\* The row that a call reserved, and may be charged for, is its own.
Owns(c) == pc[c] \in Mid \/ Sent(c)

RowOf(c) ==
    /\ Id[c] \in DOMAIN rows
    /\ rows[Id[c]].account = Account[c] /\ rows[Id[c]].key = Key[c]
    /\ rows[Id[c]].reserved = Price[c]

\* A row is settled only with what its owner was charged, within the price.
SettledTruly(c) ==
    rows[Id[c]].state = "settled" =>
        Sent(c) /\ rows[Id[c]].cost = charged[c] /\ charged[c] <= Price[c]

CallInv(c) ==
    /\ Owns(c) => RowOf(c) /\ SettledTruly(c)
    /\ pc[c] \in BeforeSend => ~Sent(c)
    /\ pc[c] \in {"relay", "settle"} => Sent(c)
    /\ pc[c] = "settle" => reported[c] = charged[c]
    /\ pc[c] \in Mid \ {"unsettled"} => rows[Id[c]].state # "settled"

\* Two owners share neither a row nor an account's key.
Apart ==
    \A c, e \in Calls :
        /\ Owns(c) /\ Owns(e)
        /\ Id[c] = Id[e] \/ (Account[c] = Account[e] /\ Key[c] = Key[e])
        => c = e

LedgerInv == Apart /\ \A c \in Calls : CallInv(c)

\* Authority only advances, so one that is current after the queue covers the
\* moment the call left it.
AuthInv ==
    \A c \in Calls :
        /\ leftAt[c] <= auth[Account[c]]
        /\ pc[c] \in {"reserve"} \cup Mid \/ Sent(c) => claims[c] >= leftAt[c]

\* After a drain's receipt the run is paused and nothing is outstanding.
DrainInv ==
    /\ stop # "no" => draining
    /\ stop = "checkpoint" => \A c \in Calls : pc[c] \notin InFlight
    /\ receipt => paused /\ Outstanding = {} /\ \A c \in Calls : pc[c] \notin Mid

Holders == {c \in Calls : pc[c] \in Holding}
Waiters == {c \in Calls : pc[c] = "waiting"}
TheQueue == [waiting |-> waiting, active |-> active, granted |-> granted]

-----------------------------------------------------------------------------
(* The fair queue                                                          *)

\* A queue q is in order when B are the calls that hold a slot and W those
\* whose handlers wait in Acquire.
InOrder(q, B, W) ==
    /\ q = [waiting |-> q.waiting, active |-> q.active, granted |-> q.granted]
    /\ q.waiting \in Seq(W)
    /\ \A i, j \in 1..Len(q.waiting) : q.waiting[i] = q.waiting[j] => i = j
    /\ \A i \in 1..Len(q.waiting) : q.waiting[i] \notin q.granted
    /\ q.granted \subseteq W
    /\ q.active = {Account[c] : c \in B \cup q.granted}
    /\ \A c, e \in B \cup q.granted : Account[c] = Account[e] => c = e
    /\ IsFiniteSet(q.active)
    /\ Cardinality(q.active) <= MaxActive

\* No slot is idle while a waiter could use it.
Saturated(q) ==
    \/ Cardinality(q.active) >= MaxActive
    \/ \A i \in 1..Len(q.waiting) : Account[q.waiting[i]] \in q.active

QueueInv == InOrder(TheQueue, Holders, Waiters) /\ Saturated(TheQueue)

IInv == BrokerType /\ LedgerInv /\ AuthInv /\ DrainInv /\ QueueInv

LEMMA LeastNatural ==
  ASSUME NEW T, T \subseteq Nat, T # {}
  PROVE  Min(T) \in T /\ \A y \in T : Min(T) <= y
  <1>1. \E x \in T : \A y \in T : ~ (<<y, x>> \in OpToRel(<, Nat))
    BY NatLessThanWellFounded, WFMin
  <1>2. PICK x \in T : \A y \in T : ~ (<<y, x>> \in OpToRel(<, Nat))
    BY <1>1
  <1>3. \A y \in T : ~(y < x)
    BY <1>2 DEF OpToRel
  <1>4. \A y \in T : x <= y
    BY <1>3
  <1>5. QED
    BY <1>4 DEF Min

\* What is left of a sequence without one of its elements
LEMMA RemoveAtKeeps ==
  ASSUME NEW S, NEW s \in Seq(S), NEW i \in 1..Len(s),
         \A j, k \in 1..Len(s) : s[j] = s[k] => j = k
  PROVE  /\ RemoveAt(s, i) \in Seq(S)
         /\ \A k \in 1..Len(RemoveAt(s, i)) :
               \E j \in 1..Len(s) : j # i /\ RemoveAt(s, i)[k] = s[j]
         /\ \A j, k \in 1..Len(RemoveAt(s, i)) :
               RemoveAt(s, i)[j] = RemoveAt(s, i)[k] => j = k
  <1> DEFINE a == SubSeq(s, 1, i - 1)
             b == SubSeq(s, i + 1, Len(s))
  <1>1. Len(s) \in Nat /\ i \in Nat /\ i >= 1 /\ i <= Len(s)
    OBVIOUS
  <1>2. /\ a \in Seq(S) /\ Len(a) = i - 1
        /\ \A k \in 1..i - 1 : a[k] = s[k]
    BY <1>1
  <1>3. /\ b \in Seq(S) /\ Len(b) = Len(s) - i
        /\ \A k \in 1..Len(s) - i : b[k] = s[k + i]
    BY <1>1
  <1>4. RemoveAt(s, i) = a \o b
    BY DEF RemoveAt
  <1> DEFINE r == a \o b
             at(k) == IF k < i THEN k ELSE k + 1
  <1> HIDE DEF a, b
  <1>5. r \in Seq(S) /\ Len(r) = Len(s) - 1
    <2>0. a \in Seq(S) /\ b \in Seq(S)
      BY <1>2, <1>3
    <2>1. r \in Seq(S) /\ Len(r) = Len(a) + Len(b)
      BY ONLY <2>0
    <2>2. QED
      BY <1>1, <1>2, <1>3, <2>1
  <1>6. ASSUME NEW k \in 1..Len(s) - 1
        PROVE  at(k) \in 1..Len(s) /\ at(k) # i /\ r[k] = s[at(k)]
    <2>1. CASE k < i
      BY <1>1, <1>2, <1>3, <1>6, <2>1
    <2>2. CASE k >= i
      <3>1. r[k] = b[k - (i - 1)]
        BY <1>1, <1>2, <1>3, <1>6, <2>2
      <3>2. k - (i - 1) \in 1..Len(s) - i /\ (k - (i - 1)) + i = k + 1
        BY <1>1, <1>6, <2>2
      <3>3. b[k - (i - 1)] = s[k + 1]
        BY <1>3, <3>2
      <3>4. QED
        BY <1>1, <1>6, <2>2, <3>1, <3>3
    <2>3. k < i \/ k >= i
      BY <1>1, <1>6
    <2>4. QED
      BY <2>1, <2>2, <2>3
  <1>7. \A j, k \in 1..Len(s) - 1 : at(j) = at(k) => j = k
    BY <1>1
  <1> HIDE DEF r, at
  <1>8. r = RemoveAt(s, i)
    BY <1>4 DEF r
  <1>9. \A j, k \in 1..Len(s) - 1 : r[j] = r[k] => j = k
    BY <1>6, <1>7
  <1>10. QED
    BY <1>5, <1>6, <1>8, <1>9

\* One turn of schedule keeps the order; it changes nothing when no waiter can
\* be served, and takes a slot otherwise.
LEMMA GrantKeeps ==
  ASSUME NEW B, NEW W, NEW q, InOrder(q, B, W), B \cap W = {}
  PROVE  /\ InOrder(Grant(q), B, W)
         /\ \/ Grant(q) = q /\ Saturated(q)
            \/ Cardinality(Grant(q).active) = Cardinality(q.active) + 1
  <1> DEFINE eligible == {i \in 1..Len(q.waiting) : Account[q.waiting[i]] \notin q.active}
             at == Min(eligible)
             c == q.waiting[at]
             r == [waiting |-> RemoveAt(q.waiting, at),
                   active |-> q.active \cup {Account[c]},
                   granted |-> q.granted \cup {c}]
  <1>1. CASE Cardinality(q.active) >= MaxActive \/ eligible = {}
    <2>1. Grant(q) = q
      BY <1>1 DEF Grant
    <2>2. Saturated(q)
      BY <1>1 DEF Saturated
    <2>3. QED
      BY <2>1, <2>2
  <1>2. CASE ~(Cardinality(q.active) >= MaxActive \/ eligible = {})
    <2>1. Grant(q) = r
      BY <1>2 DEF Grant
    <2>2. at \in 1..Len(q.waiting) /\ Account[c] \notin q.active
      <3>1. eligible \subseteq Nat /\ eligible # {}
        BY <1>2
      <3>2. at \in eligible
        BY <3>1, LeastNatural
      <3>3. QED
        BY <3>2
    <2> HIDE DEF eligible, at
    <2>3. c \in W /\ c \notin q.granted /\ c \notin B
      BY <2>2 DEF InOrder
    <2>4. /\ RemoveAt(q.waiting, at) \in Seq(W)
          /\ \A k \in 1..Len(RemoveAt(q.waiting, at)) :
                \E j \in 1..Len(q.waiting) : j # at /\ RemoveAt(q.waiting, at)[k] = q.waiting[j]
          /\ \A j, k \in 1..Len(RemoveAt(q.waiting, at)) :
                RemoveAt(q.waiting, at)[j] = RemoveAt(q.waiting, at)[k] => j = k
      BY <2>2, RemoveAtKeeps DEF InOrder
    <2>5. \A k \in 1..Len(RemoveAt(q.waiting, at)) :
             RemoveAt(q.waiting, at)[k] \notin q.granted \cup {c}
      BY <2>2, <2>4 DEF InOrder
    <2>6. /\ IsFiniteSet(r.active)
          /\ Cardinality(r.active) = Cardinality(q.active) + 1
          /\ Cardinality(q.active) \in Nat
      BY <2>2, FS_AddElement, FS_CardinalityType DEF InOrder
    <2>7. Cardinality(r.active) <= MaxActive
      BY <1>2, <2>6, BrokerAssumption
    <2> HIDE DEF c
    <2>8. r.active = {Account[e] : e \in B \cup r.granted}
      BY DEF InOrder
    <2>9. \A d, e \in B \cup r.granted : Account[d] = Account[e] => d = e
      BY <2>2, <2>3 DEF InOrder
    <2>10. r.granted \subseteq W
      BY <2>3 DEF InOrder
    <2>11. InOrder(r, B, W)
      BY <2>4, <2>5, <2>6, <2>7, <2>8, <2>9, <2>10 DEF InOrder
    <2>12. QED
      BY <2>1, <2>6, <2>11
  <1>3. QED
    BY <1>1, <1>2

\* The turns of schedule's loop: the recursive function exists, since the least
\* n up to which it did not would have a predecessor up to which it does.
LEMMA TurnsExist ==
  ASSUME NEW q
  PROVE  \E f : f = [n \in 0..MaxActive |-> IF n = 0 THEN q ELSE Grant(f[n - 1])]
  <1> DEFINE UpTo(k, f) == f = [n \in 0..k |-> IF n = 0 THEN q ELSE Grant(f[n - 1])]
             bad == {k \in Nat : ~\E f : UpTo(k, f)}
  <1>1. MaxActive \in Nat
    BY BrokerAssumption
  <1>2. SUFFICES ASSUME bad # {} PROVE FALSE
    BY <1>1
  <1>3. PICK k \in bad : \A j \in bad : k <= j
    BY <1>2, LeastNatural
  <1>4. CASE k = 0
    <2> DEFINE f == [n \in 0..0 |-> q]
    <2>1. UpTo(0, f)
      OBVIOUS
    <2>2. QED
      BY <1>3, <1>4, <2>1
  <1>5. CASE k # 0
    <2>1. k - 1 \in Nat /\ k - 1 \notin bad /\ k \in Nat
      BY <1>3, <1>5
    <2>2. PICK f : UpTo(k - 1, f)
      BY <2>1
    <2> DEFINE g == [n \in 0..k |-> IF n = k THEN Grant(f[k - 1]) ELSE f[n]]
    <2>3. \A n \in 0..k - 1 : g[n] = f[n] /\ f[n] = IF n = 0 THEN q ELSE Grant(f[n - 1])
      BY <2>1, <2>2
    <2>4. g[k] = Grant(f[k - 1]) /\ g[k - 1] = f[k - 1]
      BY <2>1, <1>5
    <2>5. ASSUME NEW n \in 0..k
          PROVE  g[n] = IF n = 0 THEN q ELSE Grant(g[n - 1])
      <3>1. CASE n = k
        <4> HIDE DEF g
        <4>1. QED
          BY <1>5, <2>4, <3>1
      <3>2. CASE n # k /\ n = 0
        <4>1. n \in 0..k - 1
          BY <2>1, <2>5, <3>2
        <4>2. g[n] = q
          BY <2>3, <3>2, <4>1
        <4>3. QED
          BY <3>2, <4>2
      <3>3. CASE n # k /\ n # 0
        <4>1. n \in 0..k - 1 /\ n - 1 \in 0..k - 1
          BY <2>1, <2>5, <3>3
        <4>2. QED
          BY <2>3, <3>3, <4>1
      <3>4. QED
        BY <3>1, <3>2, <3>3
    <2>6. UpTo(k, g)
      <3>1. g = [n \in 0..k |-> g[n]]
        OBVIOUS
      <3> HIDE DEF g
      <3>2. QED
        BY <2>5, <3>1
    <2>7. QED
      BY <1>3, <2>6
  <1>6. QED
    BY <1>4, <1>5

LEMMA ScheduleTurns ==
  ASSUME NEW q
  PROVE  \E f : /\ f[0] = q
                /\ \A n \in 1..MaxActive : f[n] = Grant(f[n - 1])
                /\ Schedule(q) = f[MaxActive]
  <1> DEFINE f == CHOOSE g : g = [n \in 0..MaxActive |-> IF n = 0 THEN q ELSE Grant(g[n - 1])]
  <1>1. Schedule(q) = f[MaxActive]
    BY DEF Schedule
  <1>2. f = [n \in 0..MaxActive |-> IF n = 0 THEN q ELSE Grant(f[n - 1])]
    BY TurnsExist
  <1> HIDE DEF f
  <1>3. MaxActive \in Nat
    BY BrokerAssumption
  <1>4. f[0] = q
    BY <1>2, <1>3
  <1>5. ASSUME NEW n \in 1..MaxActive
        PROVE  f[n] = Grant(f[n - 1])
    <2>1. n \in 0..MaxActive /\ n # 0
      BY <1>3, <1>5
    <2>2. QED
      BY <1>2, <2>1
  <1>6. QED
    BY <1>1, <1>4, <1>5

\* schedule keeps the order and leaves no slot idle that a waiter could use:
\* after n turns nobody can be served or n slots are taken.
LEMMA ScheduleKeeps ==
  ASSUME NEW B, NEW W, NEW q, InOrder(q, B, W), B \cap W = {}
  PROVE  InOrder(Schedule(q), B, W) /\ Saturated(Schedule(q))
  <1>1. PICK f : /\ f[0] = q
                 /\ \A n \in 1..MaxActive : f[n] = Grant(f[n - 1])
                 /\ Schedule(q) = f[MaxActive]
    BY ScheduleTurns
  <1> DEFINE Good(n) == /\ InOrder(f[n], B, W)
                        /\ Saturated(f[n]) \/ Cardinality(f[n].active) >= n
             bad == {n \in 0..MaxActive : ~Good(n)}
  <1>2. MaxActive \in Nat
    BY BrokerAssumption
  <1>3. bad = {}
    <2>1. SUFFICES ASSUME bad # {} PROVE FALSE
      OBVIOUS
    <2>2. bad \subseteq Nat
      BY <1>2
    <2>3. PICK k \in bad : \A j \in bad : k <= j
      BY <2>1, <2>2, LeastNatural
    <2>4. CASE k = 0
      <3>1. Cardinality(q.active) >= 0
        BY FS_CardinalityType DEF InOrder
      <3>2. Good(0)
        BY <1>1, <3>1
      <3>3. QED
        BY <2>3, <2>4, <3>2
    <2>5. CASE k # 0
      <3>1. k \in 1..MaxActive /\ k - 1 \in 0..MaxActive /\ k - 1 \notin bad
        BY <1>2, <2>3, <2>5
      <3>2. Good(k - 1) /\ f[k] = Grant(f[k - 1])
        BY <1>1, <3>1
      <3>3. InOrder(f[k], B, W)
        BY <3>2, GrantKeeps
      <3>4. Saturated(f[k]) \/ Cardinality(f[k].active) >= k
        <4>1. Cardinality(f[k - 1].active) \in Nat
          BY <3>2, FS_CardinalityType DEF InOrder
        <4>2. CASE f[k] = f[k - 1] /\ Saturated(f[k - 1])
          BY <4>2
        <4>3. CASE Cardinality(f[k].active) = Cardinality(f[k - 1].active) + 1
          <5>1. CASE Cardinality(f[k - 1].active) >= k - 1
            BY <3>1, <4>1, <4>3, <5>1
          <5>2. CASE Saturated(f[k - 1]) /\ ~(Cardinality(f[k - 1].active) >= k - 1)
            <6>1. Grant(f[k - 1]) = f[k - 1]
              BY <5>2 DEF Saturated, Grant
            <6>2. QED
              BY <3>2, <5>2, <6>1
          <5>3. QED
            BY <3>2, <5>1, <5>2
        <4>4. QED
          BY <3>2, <4>2, <4>3, GrantKeeps
      <3>5. QED
        BY <2>3, <3>3, <3>4
    <2>6. QED
      BY <2>4, <2>5
  <1>4. Good(MaxActive)
    BY <1>2, <1>3
  <1>5. QED
    BY <1>1, <1>4 DEF Saturated

-----------------------------------------------------------------------------
(* Steps of a handler and of the ledger                                    *)

LEMMA GoesMoves ==
  ASSUME BrokerType, NEW c \in Calls, NEW from, NEW to \in Locations, Goes(c, from, to)
  PROVE  /\ pc[c] = from /\ pc'[c] = to
         /\ \A e \in Calls \ {c} : pc'[e] = pc[e]
         /\ pc' \in [Calls -> Locations]
  BY DEF BrokerType, Goes

\* Rows are never removed, and keep their account, key, amount and settlement.
RowsQuiet ==
    /\ DOMAIN rows \subseteq DOMAIN rows'
    /\ \A i \in DOMAIN rows :
          /\ rows'[i].account = rows[i].account /\ rows'[i].key = rows[i].key
          /\ rows'[i].reserved = rows[i].reserved /\ rows'[i].cost = rows[i].cost
          /\ rows'[i].state = "settled" <=> rows[i].state = "settled"

RowsType == DOMAIN rows \subseteq Ids /\ rows \in [DOMAIN rows -> Row]

LEMMA UnchangedQuiet ==
  ASSUME rows' = rows
  PROVE  RowsQuiet /\ (RowsType => RowsType')
  BY DEF RowsQuiet, RowsType

LEMMA SetStateQuiet ==
  ASSUME RowsType, NEW i \in DOMAIN rows, NEW s \in States \ {"settled"},
         rows[i].state # "settled", rows' = SetState(i, s)
  PROVE  RowsQuiet /\ RowsType' /\ DOMAIN rows' = DOMAIN rows
  <1>1. /\ DOMAIN rows' = DOMAIN rows
        /\ rows'[i] = [rows[i] EXCEPT !.state = s]
        /\ \A j \in DOMAIN rows \ {i} : rows'[j] = rows[j]
        /\ rows' = [j \in DOMAIN rows |-> rows'[j]]
    BY DEF SetState, RowsType
  <1>2. rows[i] \in Row
    BY DEF RowsType
  <1>3. /\ rows'[i] \in Row /\ rows'[i].state = s
        /\ rows'[i].account = rows[i].account /\ rows'[i].key = rows[i].key
        /\ rows'[i].reserved = rows[i].reserved /\ rows'[i].cost = rows[i].cost
    BY <1>1, <1>2 DEF Row
  <1>4. RowsQuiet
    BY <1>1, <1>3 DEF RowsQuiet
  <1>5. \A j \in DOMAIN rows : rows'[j] \in Row
    BY <1>1, <1>3 DEF RowsType
  <1>6. QED
    BY <1>1, <1>4, <1>5 DEF RowsType

LEMMA InsertQuiet ==
  ASSUME RowsType, NEW c \in Calls, day \in Nat,
         Reservable(Id[c], Account[c], Key[c], Price[c]),
         Insert(Id[c], Account[c], Key[c], Price[c])
  PROVE  /\ RowsQuiet /\ RowsType' /\ day' \in Nat /\ paused' = paused
         /\ RowOf(c)' /\ rows'[Id[c]].state = "reserved"
  <1> DEFINE i == Id[c]
             row == [account |-> Account[c], key |-> Key[c], reserved |-> Price[c],
                     state |-> "reserved", cost |-> 0, day |-> day']
  <1>1. day' \in Nat /\ paused' = paused
    BY AllocationAssumption DEF Insert
  <1>2. /\ i \in Ids /\ i \notin DOMAIN rows
        /\ Price[c] \in 1..RequestLimit
    BY BrokerAssumption, AllocationAssumption DEF Reservable, WithinBudget
  <1>3. row \in Row
    <2>1. 0 \in 0..RequestLimit
      BY AllocationAssumption
    <2>2. QED
      BY <1>1, <1>2, <2>1, BrokerAssumption DEF Row, States
  <1>4. rows' = [j \in DOMAIN rows \cup {i} |-> IF j = i THEN row ELSE rows[j]]
    BY DEF Insert
  <1> HIDE DEF row
  <1>5. /\ DOMAIN rows' = DOMAIN rows \cup {i} /\ rows'[i] = row
        /\ \A j \in DOMAIN rows : rows'[j] = rows[j]
    BY <1>2, <1>4
  <1>6. RowsType'
    BY <1>2, <1>3, <1>4, <1>5 DEF RowsType
  <1>7. RowsQuiet
    BY <1>5 DEF RowsQuiet
  <1>8. RowOf(c)' /\ rows'[i].state = "reserved"
    BY <1>5 DEF RowOf, row
  <1>9. QED
    BY <1>1, <1>6, <1>7, <1>8

LEMMA AllUnknownQuiet ==
  ASSUME RowsType, rows' = AllUnknown
  PROVE  RowsQuiet /\ RowsType' /\ Outstanding' = {} /\ (Outstanding = {} => rows' = rows)
  <1>1. /\ DOMAIN rows' = DOMAIN rows
        /\ rows' = [j \in DOMAIN rows |-> rows'[j]]
        /\ \A j \in DOMAIN rows : rows'[j] = IF j \in Outstanding
                                     THEN [rows[j] EXCEPT !.state = "unknown"] ELSE rows[j]
    BY DEF AllUnknown
  <1>2. ASSUME NEW j \in DOMAIN rows
        PROVE  /\ rows'[j] \in Row
               /\ rows'[j].account = rows[j].account /\ rows'[j].key = rows[j].key
               /\ rows'[j].reserved = rows[j].reserved /\ rows'[j].cost = rows[j].cost
               /\ rows'[j].state = "settled" <=> rows[j].state = "settled"
               /\ rows'[j].state \notin {"reserved", "dispatched"}
    <2>1. rows[j] \in Row
      BY DEF RowsType
    <2>2. CASE j \in Outstanding
      <3>1. rows'[j] = [rows[j] EXCEPT !.state = "unknown"] /\ rows[j].state # "settled"
        BY <1>1, <2>2 DEF Outstanding
      <3>2. QED
        BY <2>1, <3>1 DEF Row, States
    <2>3. CASE j \notin Outstanding
      BY <1>1, <2>1, <2>3 DEF Outstanding
    <2>4. QED
      BY <2>2, <2>3
  <1>3. RowsQuiet
    BY <1>1, <1>2 DEF RowsQuiet
  <1>4. RowsType'
    BY <1>1, <1>2 DEF RowsType
  <1>5. Outstanding' = {}
    BY <1>1, <1>2 DEF Outstanding
  <1>6. Outstanding = {} => rows' = rows
    BY <1>1 DEF RowsType
  <1>7. QED
    BY <1>3, <1>4, <1>5, <1>6

\* A settlement changes one row, which keeps what was reserved.
LEMMA SettleRows ==
  ASSUME RowsType, NEW i \in DOMAIN rows, NEW cost \in Nat,
         cost <= rows[i].reserved,
         rows' = [rows EXCEPT ![i].state = "settled", ![i].cost = cost]
  PROVE  /\ RowsType' /\ DOMAIN rows' = DOMAIN rows
         /\ rows'[i].account = rows[i].account /\ rows'[i].key = rows[i].key
         /\ rows'[i].reserved = rows[i].reserved /\ rows'[i].cost = cost
         /\ \A j \in DOMAIN rows \ {i} : rows'[j] = rows[j]
  <1>1. rows[i] \in Row
    BY DEF RowsType
  <1>2. rows[i].reserved \in 1..RequestLimit /\ cost \in 0..RequestLimit
    BY <1>1, AllocationAssumption DEF Row
  <1>3. /\ DOMAIN rows' = DOMAIN rows
        /\ rows'[i] = [rows[i] EXCEPT !.state = "settled", !.cost = cost]
        /\ \A j \in DOMAIN rows \ {i} : rows'[j] = rows[j]
        /\ rows' = [j \in DOMAIN rows |-> rows'[j]]
    BY DEF RowsType
  <1>4. /\ rows'[i] \in Row
        /\ rows'[i].account = rows[i].account /\ rows'[i].key = rows[i].key
        /\ rows'[i].reserved = rows[i].reserved /\ rows'[i].cost = cost
    BY <1>1, <1>2, <1>3 DEF Row, States
  <1>5. RowsType'
    BY <1>3, <1>4 DEF RowsType
  <1>6. QED
    BY <1>3, <1>4, <1>5

-----------------------------------------------------------------------------
(* LedgerInv                                                               *)

\* A call that does not move keeps its part while the rows keep theirs.
LEMMA OtherCallKeeps ==
  ASSUME NEW e \in Calls, CallInv(e), RowsQuiet,
         pc'[e] = pc[e], charged'[e] = charged[e], reported'[e] = reported[e]
  PROVE  CallInv(e)' /\ (Owns(e)' <=> Owns(e))
  <1>1. (Owns(e)' <=> Owns(e)) /\ (Sent(e)' <=> Sent(e))
    BY DEF Owns, Sent
  <1>2. ASSUME Owns(e)
        PROVE  /\ RowOf(e)' /\ SettledTruly(e)'
               /\ rows'[Id[e]].state = "settled" <=> rows[Id[e]].state = "settled"
    <2>1. RowOf(e) /\ SettledTruly(e)
      BY <1>2 DEF CallInv
    <2>2. RowOf(e)'
      BY <2>1 DEF RowOf, RowsQuiet
    <2>3. rows'[Id[e]].state = "settled" <=> rows[Id[e]].state = "settled"
      BY <2>1 DEF RowOf, RowsQuiet
    <2>4. SettledTruly(e)'
      BY <1>1, <2>1, <2>3 DEF SettledTruly, RowOf, RowsQuiet
    <2>5. QED
      BY <2>2, <2>3, <2>4
  <1>3. QED
    BY <1>1, <1>2 DEF CallInv, Owns

LEMMA CallStep ==
  ASSUME LedgerInv, NEW c \in Calls, RowsQuiet,
         \A e \in Calls \ {c} : /\ pc'[e] = pc[e] /\ charged'[e] = charged[e]
                                /\ reported'[e] = reported[e],
         Owns(c)' => Owns(c), CallInv(c)'
  PROVE  LedgerInv'
  <1>1. \A e \in Calls \ {c} : CallInv(e)' /\ (Owns(e)' <=> Owns(e))
    BY OtherCallKeeps DEF LedgerInv
  <1>2. \A e \in Calls : Owns(e)' => Owns(e)
    BY <1>1
  <1>3. Apart'
    BY <1>2 DEF LedgerInv, Apart
  <1>4. QED
    BY <1>1, <1>3 DEF LedgerInv

LEMMA NoCallStep ==
  ASSUME LedgerInv, RowsQuiet, pc' = pc, charged' = charged, reported' = reported
  PROVE  LedgerInv'
  <1>1. \A e \in Calls : CallInv(e)' /\ (Owns(e)' <=> Owns(e))
    BY OtherCallKeeps DEF LedgerInv
  <1>2. Apart'
    BY <1>1 DEF LedgerInv, Apart
  <1>3. QED
    BY <1>1, <1>2 DEF LedgerInv

\* Steps that go on within the same part of the handler, or leave it
LEMMA PlainMove ==
  ASSUME BrokerType, LedgerInv, NEW c \in Calls, NEW from, NEW to \in Locations,
         Goes(c, from, to), RowsQuiet, charged' = charged,
         \A e \in Calls \ {c} : reported'[e] = reported[e],
         to \notin {"relay", "settle"},
         to \in Mid => from \in Mid,
         to \in BeforeSend => from \in BeforeSend,
         to \in Mid \ {"unsettled"} => from \in Mid \ {"unsettled"}
  PROVE  LedgerInv'
  <1>1. pc[c] = from /\ pc'[c] = to /\ \A e \in Calls \ {c} : pc'[e] = pc[e]
    BY GoesMoves
  <1>2. CallInv(c)
    BY DEF LedgerInv
  <1>3. (Owns(c)' => Owns(c)) /\ (Sent(c)' <=> Sent(c))
    BY <1>1 DEF Owns, Sent
  <1>4. Owns(c) => /\ RowOf(c)'
                   /\ rows'[Id[c]].state = "settled" <=> rows[Id[c]].state = "settled"
    BY <1>2 DEF CallInv, RowOf, RowsQuiet
  <1>5. Owns(c) => SettledTruly(c)'
    BY <1>2, <1>3, <1>4 DEF CallInv, SettledTruly, RowOf, RowsQuiet
  <1>6. to \in Mid \ {"unsettled"} => rows'[Id[c]].state # "settled"
    BY <1>1, <1>2, <1>4 DEF CallInv, Owns
  <1>7. CallInv(c)'
    BY <1>1, <1>2, <1>3, <1>4, <1>5, <1>6 DEF CallInv
  <1>8. QED
    BY <1>1, <1>3, <1>7, CallStep

LEMMA EntryLedger ==
  ASSUME BrokerType, LedgerInv, NEW c \in Calls,
         \/ Arrive(c) \/ Admit(c) \/ Enqueue(c) \/ Proceed(c) \/ LeaveQueue(c)
         \/ Reauthorize(c) \/ StartOperation(c) \/ Release(c)
  PROVE  LedgerInv'
  <1>1. rows' = rows /\ charged' = charged /\ \A e \in Calls \ {c} : reported'[e] = reported[e]
    BY DEF Arrive, Admit, Enqueue, Proceed, LeaveQueue, Reauthorize, StartOperation, Release,
           ledger, history, BrokerType
  <1>2. RowsQuiet
    BY <1>1, UnchangedQuiet
  <1>3. \E from, to : /\ Goes(c, from, to)
                      /\ <<from, to>> \in {<<"new", "arrived">>, <<"arrived", "done">>,
                            <<"arrived", "admitted">>, <<"admitted", "done">>,
                            <<"admitted", "waiting">>, <<"waiting", "recheck">>,
                            <<"waiting", "done">>, <<"recheck", "release">>,
                            <<"recheck", "reserve">>, <<"operation", "send">>,
                            <<"operation", "unsettled">>, <<"release", "done">>}
    <2>1. CASE Arrive(c)
      BY <2>1 DEF Arrive
    <2>2. CASE Admit(c)
      BY <2>2 DEF Admit
    <2>3. CASE Enqueue(c)
      BY <2>3 DEF Enqueue
    <2>4. CASE Proceed(c)
      BY <2>4 DEF Proceed
    <2>5. CASE LeaveQueue(c)
      BY <2>5 DEF LeaveQueue
    <2>6. CASE Reauthorize(c)
      BY <2>6 DEF Reauthorize
    <2>7. CASE StartOperation(c)
      BY <2>7 DEF StartOperation
    <2>8. CASE Release(c)
      BY <2>8 DEF Release
    <2>9. QED
      BY <2>1, <2>2, <2>3, <2>4, <2>5, <2>6, <2>7, <2>8
  <1>4. PICK from, to : /\ Goes(c, from, to)
                        /\ <<from, to>> \in {<<"new", "arrived">>, <<"arrived", "done">>,
                            <<"arrived", "admitted">>, <<"admitted", "done">>,
                            <<"admitted", "waiting">>, <<"waiting", "recheck">>,
                            <<"waiting", "done">>, <<"recheck", "release">>,
                            <<"recheck", "reserve">>, <<"operation", "send">>,
                            <<"operation", "unsettled">>, <<"release", "done">>}
    BY <1>3
  <1>5. /\ to \in Locations /\ to \notin {"relay", "settle"}
        /\ to \in Mid => from \in Mid
        /\ to \in BeforeSend => from \in BeforeSend
        /\ to \in Mid \ {"unsettled"} => from \in Mid \ {"unsettled"}
    BY <1>4 DEF Mid, BeforeSend, Locations, InFlight
  <1>6. QED
    BY <1>1, <1>2, <1>4, <1>5, PlainMove
\* A reservation makes its call the only owner of a new row.
LEMMA ReserveLedger ==
  ASSUME BrokerType, LedgerInv, NEW c \in Calls, Reserve(c)
  PROVE  LedgerInv' /\ RowsType'
  <1>1. charged' = charged /\ reported' = reported /\ RowsType /\ day \in Nat
    BY DEF Reserve, history, BrokerType, RowsType
  <1>2. {"release", "dispatch"} \subseteq Locations
    BY DEF Locations, InFlight
  <1>3. CASE Goes(c, "reserve", "release") /\ UNCHANGED ledger
    <2>1. RowsQuiet /\ RowsType'
      BY <1>1, <1>3, UnchangedQuiet DEF ledger
    <2>2. QED
      BY <1>1, <1>2, <1>3, <2>1, PlainMove DEF Mid, BeforeSend
  <1>4. CASE /\ Goes(c, "reserve", "dispatch") \/ Goes(c, "reserve", "release")
             /\ Reservable(Id[c], Account[c], Key[c], Price[c])
             /\ Insert(Id[c], Account[c], Key[c], Price[c])
    <2>1. RowsQuiet /\ RowsType' /\ RowOf(c)' /\ rows'[Id[c]].state = "reserved"
      BY <1>1, <1>4, InsertQuiet
    <2>2. CASE Goes(c, "reserve", "release")
      BY <1>1, <1>2, <2>1, <2>2, PlainMove DEF Mid, BeforeSend
    <2>3. CASE Goes(c, "reserve", "dispatch")
      <3>1. /\ pc[c] = "reserve" /\ pc'[c] = "dispatch"
            /\ \A e \in Calls \ {c} : pc'[e] = pc[e]
        BY <1>2, <2>3, GoesMoves
      <3>2. ~Sent(c) /\ ~Sent(c)'
        BY <1>1, <3>1 DEF LedgerInv, CallInv, BeforeSend, Sent
      <3>3. CallInv(c)'
        BY <2>1, <3>1, <3>2 DEF CallInv, SettledTruly, Mid, BeforeSend
      <3>4. \A e \in Calls \ {c} : CallInv(e)' /\ (Owns(e)' <=> Owns(e))
        BY <1>1, <2>1, <3>1, OtherCallKeeps DEF LedgerInv
      <3>5. ASSUME NEW e \in Calls \ {c}, Owns(e)
            PROVE  Id[e] # Id[c] /\ ~(Account[e] = Account[c] /\ Key[e] = Key[c])
        <4>1. RowOf(e)
          BY <3>5 DEF LedgerInv, CallInv
        <4>2. Id[c] \notin DOMAIN rows /\ Recorded(Account[c], Key[c]) = {}
          BY <1>4 DEF Reservable
        <4>3. QED
          BY <4>1, <4>2 DEF RowOf, Recorded
      <3>6. Apart'
        BY <3>4, <3>5 DEF LedgerInv, Apart
      <3>7. QED
        BY <2>1, <3>3, <3>4, <3>6 DEF LedgerInv
    <2>4. QED
      BY <1>4, <2>2, <2>3
  <1>5. QED
    BY <1>3, <1>4 DEF Reserve

LEMMA OutcomeLedger ==
  ASSUME BrokerType, LedgerInv, NEW c \in Calls, DispatchCall(c) \/ MarkUnknown(c)
  PROVE  LedgerInv' /\ RowsType'
  <1>1. charged' = charged /\ reported' = reported /\ RowsType
    BY DEF DispatchCall, MarkUnknown, history, BrokerType, RowsType
  <1>2. \E from, to : /\ Goes(c, from, to)
                      /\ <<from, to>> \in {<<"dispatch", "operation">>,
                            <<"dispatch", "unsettled">>, <<"unsettled", "release">>}
    BY DEF DispatchCall, MarkUnknown
  <1>3. PICK from, to : /\ Goes(c, from, to)
                        /\ <<from, to>> \in {<<"dispatch", "operation">>,
                              <<"dispatch", "unsettled">>, <<"unsettled", "release">>}
    BY <1>2
  <1>4. /\ to \in Locations /\ from \in Mid /\ to \notin {"relay", "settle"}
        /\ to \in BeforeSend => from \in BeforeSend
        /\ to \in Mid \ {"unsettled"} => from \in Mid \ {"unsettled"}
    BY <1>3 DEF Mid, BeforeSend, Locations, InFlight
  <1>5. Id[c] \in DOMAIN rows
    BY <1>3, <1>4 DEF Goes, LedgerInv, CallInv, Owns, RowOf
  <1>6. \/ rows' = rows
        \/ /\ rows[Id[c]].state # "settled"
           /\ rows' = SetState(Id[c], "dispatched") \/ rows' = SetState(Id[c], "unknown")
    BY DEF DispatchCall, MarkUnknown, Dispatch, Unknown, ledger
  <1>7. RowsQuiet /\ RowsType'
    BY <1>1, <1>5, <1>6, UnchangedQuiet, SetStateQuiet DEF States
  <1>8. QED
    BY <1>1, <1>3, <1>4, <1>7, PlainMove

\* What the provider charges before the row is settled.
LEMMA SendLedger ==
  ASSUME BrokerType, LedgerInv, NEW c \in Calls, Send(c)
  PROVE  LedgerInv'
  <1>1. /\ RowsQuiet /\ rows' = rows /\ reported' = reported
        /\ \A e \in Calls \ {c} : charged'[e] = charged[e]
    BY UnchangedQuiet DEF Send, ledger, BrokerType
  <1>2. {"relay", "unsettled"} \subseteq Locations
    BY DEF Locations, InFlight
  <1>3. CASE Goes(c, "send", "unsettled") /\ UNCHANGED charged
    BY <1>1, <1>2, <1>3, PlainMove DEF Mid, BeforeSend
  <1>4. CASE /\ Goes(c, "send", "relay") \/ Goes(c, "send", "unsettled")
             /\ \E x \in Charges(c) : charged' = [charged EXCEPT ![c] = x]
    <2>1. /\ pc[c] = "send" /\ pc'[c] \in {"relay", "unsettled"}
          /\ \A e \in Calls \ {c} : pc'[e] = pc[e]
      BY <1>2, <1>4, GoesMoves
    <2>2. Sent(c)'
      <3>1. PICK x \in Charges(c) : charged' = [charged EXCEPT ![c] = x]
        BY <1>4
      <3>2. Price[c] \in Nat
        BY BrokerAssumption
      <3>3. x \in Nat
        BY <3>2 DEF Charges
      <3>4. QED
        BY <3>1, <3>3, BrokerAssumption DEF Sent, BrokerType
    <2>3. Owns(c) /\ RowOf(c) /\ rows[Id[c]].state # "settled"
      BY <2>1 DEF LedgerInv, CallInv, Owns, Mid
    <2>4. RowOf(c)' /\ rows'[Id[c]].state # "settled"
      BY <1>1, <2>3 DEF RowOf
    <2>5. CallInv(c)'
      BY <2>1, <2>2, <2>4 DEF CallInv, SettledTruly, BeforeSend
    <2>6. QED
      BY <1>1, <2>1, <2>3, <2>5, CallStep
  <1>5. QED
    BY <1>3, <1>4 DEF Send

LEMMA RelayLedger ==
  ASSUME BrokerType, LedgerInv, NEW c \in Calls, Relay(c)
  PROVE  LedgerInv'
  <1>1. /\ RowsQuiet /\ rows' = rows /\ charged' = charged
        /\ \A e \in Calls \ {c} : reported'[e] = reported[e]
    BY UnchangedQuiet DEF Relay, ledger, history, BrokerType
  <1>2. {"settle", "unsettled"} \subseteq Locations
    BY DEF Locations, InFlight
  <1>3. CASE Goes(c, "relay", "unsettled") /\ UNCHANGED reported
    BY <1>1, <1>2, <1>3, PlainMove DEF Mid, BeforeSend
  <1>4. CASE /\ Goes(c, "relay", "settle")
             /\ reported' = [reported EXCEPT ![c] = charged[c]]
    <2>1. /\ pc[c] = "relay" /\ pc'[c] = "settle" /\ reported'[c] = charged[c]
          /\ \A e \in Calls \ {c} : pc'[e] = pc[e]
      BY <1>2, <1>4, GoesMoves DEF BrokerType
    <2>2. /\ Owns(c) /\ RowOf(c) /\ Sent(c) /\ rows[Id[c]].state # "settled"
      BY <2>1 DEF LedgerInv, CallInv, Owns, Mid
    <2>3. RowOf(c)' /\ rows'[Id[c]].state # "settled" /\ Sent(c)'
      BY <1>1, <2>2 DEF RowOf, Sent
    <2>4. CallInv(c)'
      BY <1>1, <2>1, <2>3 DEF CallInv, SettledTruly, BeforeSend
    <2>5. QED
      BY <1>1, <2>1, <2>2, <2>4, CallStep
  <1>5. QED
    BY <1>3, <1>4 DEF Relay
\* A settlement records what the call was charged; it touches no other row,
\* for no other owner has this id.
LEMMA SettleLedger ==
  ASSUME BrokerType, LedgerInv, NEW c \in Calls, SettleCall(c)
  PROVE  LedgerInv' /\ RowsType' /\ paused' \in BOOLEAN
  <1>1. charged' = charged /\ reported' = reported /\ RowsType /\ paused \in BOOLEAN
    BY DEF SettleCall, history, BrokerType, RowsType
  <1>2. {"release", "unsettled"} \subseteq Locations
    BY DEF Locations, InFlight
  <1>3. PICK to \in {"release", "unsettled"} : Goes(c, "settle", to)
    BY DEF SettleCall
  <1>4. /\ pc[c] = "settle" /\ pc'[c] = to /\ \A e \in Calls \ {c} : pc'[e] = pc[e]
    BY <1>2, <1>3, GoesMoves
  <1>5. /\ Owns(c) /\ RowOf(c) /\ Sent(c) /\ reported[c] = charged[c]
        /\ rows[Id[c]].state # "settled"
    BY <1>4 DEF LedgerInv, CallInv, Owns, Mid
  <1>6. \/ rows' = rows /\ paused' \in {paused, TRUE}
        \/ /\ ~(reported[c] > rows[Id[c]].reserved) /\ paused' = paused
           /\ rows' = [rows EXCEPT ![Id[c]].state = "settled", ![Id[c]].cost = reported[c]]
    BY DEF SettleCall, Settle, ledger
  <1>7. CASE rows' = rows
    <2>1. RowsQuiet /\ RowsType'
      BY <1>1, <1>7, UnchangedQuiet
    <2>2. LedgerInv'
      BY <1>1, <1>2, <1>3, <2>1, PlainMove DEF Mid, BeforeSend
    <2>3. QED
      BY <1>1, <1>6, <2>1, <2>2
  <1>8. CASE /\ ~(reported[c] > rows[Id[c]].reserved) /\ paused' = paused
             /\ rows' = [rows EXCEPT ![Id[c]].state = "settled", ![Id[c]].cost = reported[c]]
    <2>1. /\ charged[c] \in Nat /\ Price[c] \in Nat /\ rows[Id[c]].reserved = Price[c]
          /\ Id[c] \in DOMAIN rows
      BY <1>5, BrokerAssumption DEF BrokerType, Sent, RowOf
    <2>2. charged[c] <= Price[c] /\ reported[c] \in Nat /\ reported[c] <= rows[Id[c]].reserved
      BY <1>5, <1>8, <2>1
    <2>3. /\ RowsType' /\ DOMAIN rows' = DOMAIN rows
          /\ rows'[Id[c]].account = rows[Id[c]].account /\ rows'[Id[c]].key = rows[Id[c]].key
          /\ rows'[Id[c]].reserved = rows[Id[c]].reserved /\ rows'[Id[c]].cost = reported[c]
          /\ \A j \in DOMAIN rows \ {Id[c]} : rows'[j] = rows[j]
      BY <1>1, <1>8, <2>1, <2>2, SettleRows
    <2>4. RowOf(c)' /\ SettledTruly(c)' /\ Sent(c)'
      BY <1>1, <1>5, <2>2, <2>3 DEF RowOf, SettledTruly, Sent
    <2>5. CallInv(c)'
      BY <1>3, <1>4, <2>4 DEF CallInv, BeforeSend, Mid
    <2>6. \A e \in Calls \ {c} : /\ Owns(e)' <=> Owns(e)
                                 /\ Sent(e)' <=> Sent(e)
      BY <1>1, <1>4 DEF Owns, Sent
    <2>7. ASSUME NEW e \in Calls \ {c}
          PROVE  CallInv(e)'
      <3>1. CallInv(e)
        BY DEF LedgerInv
      <3>2. CASE Owns(e)
        <4>1. Id[e] # Id[c] /\ RowOf(e) /\ SettledTruly(e)
          BY <1>5, <3>1, <3>2 DEF LedgerInv, Apart, CallInv
        <4>2. rows'[Id[e]] = rows[Id[e]] /\ Id[e] \in DOMAIN rows'
          BY <2>3, <4>1 DEF RowOf
        <4>3. RowOf(e)' /\ SettledTruly(e)'
          BY <1>1, <4>1, <4>2 DEF RowOf, SettledTruly, Sent
        <4>4. QED
          BY <1>1, <1>4, <2>6, <3>1, <4>2, <4>3 DEF CallInv
      <3>3. CASE ~Owns(e)
        BY <1>1, <1>4, <2>6, <3>1, <3>3 DEF CallInv, Owns
      <3>4. QED
        BY <3>2, <3>3
    <2>8. Apart'
      BY <1>5, <2>6 DEF LedgerInv, Apart
    <2>9. QED
      BY <1>1, <1>8, <2>3, <2>5, <2>7, <2>8 DEF LedgerInv
  <1>9. QED
    BY <1>6, <1>7, <1>8

LEMMA ControlLedger ==
  ASSUME BrokerType, LedgerInv,
         \/ \E a \in Accounts : Revoke(a)
         \/ Midnight
         \/ \E p \in Stops : BeginStop(p)
         \/ PauseRun \/ Join \/ WriteReceipt \/ Start
  PROVE  LedgerInv' /\ RowsType'
  <1>1. pc' = pc /\ charged' = charged /\ reported' = reported /\ RowsType
    BY DEF Revoke, Midnight, BeginStop, PauseRun, Join, WriteReceipt, Start, history,
           BrokerType, RowsType
  <1>2. rows' = rows \/ rows' = AllUnknown
    BY DEF Revoke, Midnight, BeginStop, PauseRun, Join, WriteReceipt, Start, ledger,
           Pause, Checkpoint, OpenRun
  <1>3. RowsQuiet /\ RowsType'
    BY <1>1, <1>2, UnchangedQuiet, AllUnknownQuiet
  <1>4. QED
    BY <1>1, <1>3, NoCallStep

\* A dead process leaves the rows to the next one.
LEMMA ExitLedger ==
  ASSUME BrokerType, LedgerInv, Exit
  PROVE  LedgerInv' /\ RowsType'
  <1>1. /\ rows' = rows /\ charged' = charged /\ RowsType
        /\ \A c \in Calls : pc'[c] = IF pc[c] = "new" THEN "new" ELSE "done"
    BY DEF Exit, ledger, BrokerType, RowsType
  <1>2. ASSUME NEW c \in Calls
        PROVE  CallInv(c)' /\ (Owns(c)' => Owns(c))
    <2>1. (Sent(c)' <=> Sent(c)) /\ (Owns(c)' <=> Sent(c))
      BY <1>1 DEF Sent, Owns, Mid
    <2>2. CallInv(c)
      BY DEF LedgerInv
    <2>3. pc'[c] \in BeforeSend => ~Sent(c)
      BY <1>1, <2>2 DEF CallInv, BeforeSend
    <2>4. RowOf(c) => RowOf(c)'
      BY <1>1 DEF RowOf
    <2>5. SettledTruly(c) => SettledTruly(c)'
      BY <1>1, <2>1 DEF SettledTruly
    <2>6. pc'[c] \notin Mid
      BY <1>1 DEF Mid
    <2>7. QED
      BY <2>1, <2>2, <2>3, <2>4, <2>5, <2>6 DEF CallInv, Owns, Mid
  <1>3. Apart'
    BY <1>2 DEF LedgerInv, Apart
  <1>4. RowsType'
    BY <1>1, UnchangedQuiet
  <1>5. QED
    BY <1>2, <1>3, <1>4 DEF LedgerInv

-----------------------------------------------------------------------------
(* The types                                                               *)

\* The part of the types that a handler's step touches beyond the rows
LEMMA CallType ==
  ASSUME BrokerType, LedgerInv, NEW c \in Calls,
         Arrive(c) \/ Admit(c) \/ Handle(c) \/ LeaveQueue(c)
  PROVE  LedgerInv' /\ BrokerType'
  <1>1. RowsType /\ NoCost \notin Nat /\ MaxAuth \in Nat
    BY BrokerAssumption DEF BrokerType, RowsType
  <1>2. Account[c] \in Accounts /\ auth[Account[c]] \in 0..MaxAuth /\ Price[c] \in Nat
    BY BrokerAssumption DEF BrokerType
  <1>3. auth' = auth /\ draining' = draining /\ stop' = stop /\ pausing' = pausing /\ life' = life
        /\ receipt' = receipt
    BY DEF Arrive, Admit, Handle, LeaveQueue, Enqueue, Proceed, Reauthorize, Reserve,
           DispatchCall, StartOperation, Send, Relay, SettleCall, MarkUnknown, Release,
           server, history
  <1>4. pc' \in [Calls -> Locations]
    <2>1. {"new", "arrived", "done", "admitted", "waiting", "recheck", "reserve", "dispatch",
           "operation", "send", "relay", "settle", "unsettled", "release"} \subseteq Locations
      BY DEF Locations, InFlight
    <2>2. ASSUME NEW from, NEW to \in Locations, Goes(c, from, to)
          PROVE  pc' \in [Calls -> Locations]
      BY <2>2, GoesMoves
    <2>3. QED
      BY <2>1, <2>2
      DEF Arrive, Admit, Handle, LeaveQueue, Enqueue, Proceed, Reauthorize, Reserve,
          DispatchCall, StartOperation, Send, Relay, SettleCall, MarkUnknown, Release
  <1>5. claims' \in [Calls -> 0..MaxAuth] /\ leftAt' \in [Calls -> 0..MaxAuth]
    <2>1. \/ claims' = claims \/ claims' = [claims EXCEPT ![c] = auth[Account[c]]]
          \/ claims' = [claims EXCEPT ![c] = 0]
      BY DEF Arrive, Admit, Handle, LeaveQueue, Enqueue, Proceed, Reauthorize, Reserve,
             DispatchCall, StartOperation, Send, Relay, SettleCall, MarkUnknown, Release
    <2>2. \/ leftAt' = leftAt \/ leftAt' = [leftAt EXCEPT ![c] = auth[Account[c]]]
          \/ leftAt' = [leftAt EXCEPT ![c] = 0]
      BY DEF Arrive, Admit, Handle, LeaveQueue, Enqueue, Proceed, Reauthorize, Reserve,
             DispatchCall, StartOperation, Send, Relay, SettleCall, MarkUnknown, Release,
             history
    <2>3. 0 \in 0..MaxAuth
      BY <1>1
    <2>4. claims' \in [Calls -> 0..MaxAuth]
      BY <1>2, <2>1, <2>3 DEF BrokerType
    <2>5. leftAt' \in [Calls -> 0..MaxAuth]
      BY <1>2, <2>2, <2>3 DEF BrokerType
    <2>6. QED
      BY <2>4, <2>5
  <1>6. /\ charged' \in [Calls -> Nat \cup {NoCost}]
        /\ reported' \in [Calls -> Nat \cup {NoCost}]
    <2>1. \/ charged' = charged \/ \E x \in Charges(c) : charged' = [charged EXCEPT ![c] = x]
      BY DEF Arrive, Admit, Handle, LeaveQueue, Enqueue, Proceed, Reauthorize, Reserve,
             DispatchCall, StartOperation, Send, Relay, SettleCall, MarkUnknown, Release,
             history
    <2>2. \/ reported' = reported \/ reported' = [reported EXCEPT ![c] = charged[c]]
          \/ reported' = [reported EXCEPT ![c] = NoCost]
      BY DEF Arrive, Admit, Handle, LeaveQueue, Enqueue, Proceed, Reauthorize, Reserve,
             DispatchCall, StartOperation, Send, Relay, SettleCall, MarkUnknown, Release
    <2>3. \A x \in Charges(c) : x \in Nat
      BY <1>2 DEF Charges
    <2>4. charged' \in [Calls -> Nat \cup {NoCost}]
      BY <2>1, <2>3 DEF BrokerType
    <2>5. reported' \in [Calls -> Nat \cup {NoCost}]
      BY <2>2 DEF BrokerType
    <2>6. QED
      BY <2>4, <2>5
  <1>7. LedgerInv' /\ RowsType' /\ paused' \in BOOLEAN /\ day' \in Nat
    <2>1. CASE \/ Arrive(c) \/ Admit(c) \/ Enqueue(c) \/ Proceed(c) \/ LeaveQueue(c)
               \/ Reauthorize(c) \/ StartOperation(c) \/ Release(c)
      <3>1. rows' = rows /\ paused' = paused /\ day' = day
        BY <2>1 DEF Arrive, Admit, Enqueue, Proceed, LeaveQueue, Reauthorize, StartOperation,
               Release, ledger
      <3>2. LedgerInv'
        BY <2>1, EntryLedger
      <3>3. RowsType'
        BY <1>1, <3>1, UnchangedQuiet
      <3>4. QED
        BY <3>1, <3>2, <3>3 DEF BrokerType
    <2>2. CASE Send(c) \/ Relay(c)
      <3>1. rows' = rows /\ paused' = paused /\ day' = day
        BY <2>2 DEF Send, Relay, ledger
      <3>2. QED
        BY <1>1, <2>2, <3>1, SendLedger, RelayLedger, UnchangedQuiet DEF BrokerType
    <2>3. CASE Reserve(c)
      <3>1. paused' = paused /\ day' \in Nat
        BY <1>1, <2>3, InsertQuiet DEF Reserve, ledger, BrokerType
      <3>2. QED
        BY <2>3, <3>1, ReserveLedger DEF BrokerType
    <2>4. CASE DispatchCall(c) \/ MarkUnknown(c)
      <3>1. paused' = paused /\ day' = day
        BY <2>4 DEF DispatchCall, MarkUnknown, Dispatch, Unknown, ledger
      <3>2. QED
        BY <2>4, <3>1, OutcomeLedger DEF BrokerType
    <2>5. CASE SettleCall(c)
      <3>1. day' = day
        BY <2>5 DEF SettleCall, Settle, ledger
      <3>2. QED
        BY <2>5, <3>1, SettleLedger DEF BrokerType
    <2>6. QED
      BY <2>1, <2>2, <2>3, <2>4, <2>5 DEF Handle
  <1>8. BrokerType'
    BY <1>3, <1>4, <1>5, <1>6, <1>7 DEF BrokerType, RowsType
  <1>9. QED
    BY <1>7, <1>8
LEMMA ControlType ==
  ASSUME BrokerType, LedgerInv,
         \/ \E a \in Accounts : Revoke(a)
         \/ Midnight
         \/ \E p \in Stops : BeginStop(p)
         \/ PauseRun \/ Join \/ WriteReceipt \/ Exit \/ Start
  PROVE  LedgerInv' /\ BrokerType'
  <1>1. LedgerInv' /\ RowsType'
    BY ControlLedger, ExitLedger
  <1>2. MaxAuth \in Nat /\ MaxLife \in Nat \ {0} /\ Stops \subseteq BOOLEAN /\ MaxDay \in Nat
    BY BrokerAssumption, AllocationAssumption
  <1>3. CASE \E a \in Accounts : Revoke(a)
    <2>1. PICK a \in Accounts : Revoke(a)
      BY <1>3
    <2>2. auth' \in [Accounts -> 0..MaxAuth]
      <3>1. auth[a] \in 0..MaxAuth /\ auth[a] < MaxAuth
        BY <2>1 DEF Revoke, BrokerType
      <3>2. auth[a] + 1 \in 0..MaxAuth
        BY <1>2, <3>1
      <3>3. QED
        BY <2>1, <3>2 DEF Revoke, BrokerType
    <2>3. QED
      BY <1>1, <2>1, <2>2 DEF Revoke, BrokerType, RowsType, ledger, server, history
  <1>4. CASE Midnight
    BY <1>1, <1>4 DEF Midnight, BrokerType, RowsType, server, history
  <1>5. CASE \E p \in Stops : BeginStop(p)
    BY <1>1, <1>2, <1>5 DEF BeginStop, StopsAt, BrokerType, RowsType, ledger, history
  <1>6. CASE PauseRun
    BY <1>1, <1>6 DEF PauseRun, Pause, StopsAt, BrokerType, RowsType, ledger, history
  <1>7. CASE Join
    BY <1>1, <1>7 DEF Join, StopsAt, BrokerType, RowsType, ledger, history
  <1>8. CASE WriteReceipt
    <2>1. receipt \in BOOLEAN /\ pausing \in BOOLEAN /\ paused \in BOOLEAN
      BY DEF BrokerType
    <2>2. /\ receipt' = (receipt \/ pausing) \/ receipt' = receipt
          /\ paused' = (paused \/ pausing) \/ paused' = paused
      BY <1>8 DEF WriteReceipt, Checkpoint, ledger
    <2>3. receipt' \in BOOLEAN /\ paused' \in BOOLEAN
      BY <2>1, <2>2
    <2>4. day' = day
      BY <1>8 DEF WriteReceipt, Checkpoint, ledger
    <2>5. QED
      BY <1>1, <1>8, <2>3, <2>4 DEF WriteReceipt, StopsAt, BrokerType, RowsType
  <1>9. CASE Exit
    <2>1. {"new", "done"} \subseteq Locations /\ 0 \in 0..MaxAuth
      BY <1>2 DEF Locations
    <2>2. pc' \in [Calls -> Locations]
      BY <1>9, <2>1 DEF Exit
    <2>3. life' \in 1..MaxLife
      BY <1>2, <1>9 DEF Exit, BrokerType
    <2>4. QED
      BY <1>1, <1>9, <2>1, <2>2, <2>3 DEF Exit, BrokerType, RowsType, ledger
  <1>10. CASE Start
    <2>1. life' \in 1..MaxLife
      BY <1>2, <1>10 DEF Start, BrokerType
    <2>2. QED
      BY <1>1, <1>10, <2>1 DEF Start, OpenRun, BrokerType, RowsType, history
  <1>11. QED
    BY <1>3, <1>4, <1>5, <1>6, <1>7, <1>8, <1>9, <1>10

-----------------------------------------------------------------------------
(* Authority                                                               *)

LEMMA AuthKept ==
  ASSUME BrokerType, LedgerInv, AuthInv, BrokerType', Next
  PROVE  AuthInv'
  <1>1. MaxAuth \in Nat /\ Account \in [Calls -> Accounts]
    BY BrokerAssumption
  <1>2. \A e \in Calls : /\ leftAt[e] \in Nat /\ claims[e] \in Nat /\ auth[Account[e]] \in Nat
                         /\ Account[e] \in Accounts
    BY <1>1 DEF BrokerType
  <1>3. ASSUME NEW c \in Calls, Arrive(c) \/ Admit(c) \/ Handle(c) \/ LeaveQueue(c)
        PROVE  AuthInv'
    <2>1. auth' = auth
      BY <1>3 DEF Arrive, Admit, Handle, LeaveQueue, Enqueue, Proceed, Reauthorize, Reserve,
             DispatchCall, StartOperation, Send, Relay, SettleCall, MarkUnknown, Release
    <2>2. ASSUME NEW e \in Calls \ {c}
          PROVE  /\ leftAt'[e] = leftAt[e] /\ claims'[e] = claims[e]
                 /\ pc'[e] = pc[e] /\ charged'[e] = charged[e]
      BY <1>3 DEF Arrive, Admit, Handle, LeaveQueue, Enqueue, Proceed, Reauthorize, Reserve,
             DispatchCall, StartOperation, Send, Relay, SettleCall, MarkUnknown, Release,
             history, Goes, BrokerType
    <2>3. /\ leftAt'[c] <= auth[Account[c]]
          /\ pc'[c] \in {"reserve"} \cup Mid \/ Sent(c)' => claims'[c] >= leftAt'[c]
      <3>1. pc[c] \in BeforeSend => ~Sent(c)
        BY DEF LedgerInv, CallInv
      <3>2. CASE Arrive(c) \/ Admit(c) \/ Enqueue(c) \/ LeaveQueue(c)
        <4>1. leftAt' = leftAt /\ charged' = charged
          BY <3>2 DEF Arrive, Admit, Enqueue, LeaveQueue, history
        <4>2. /\ pc[c] \in {"new", "arrived", "admitted", "waiting"}
              /\ pc'[c] \in {"arrived", "admitted", "waiting", "done"}
          BY <3>2 DEF Arrive, Admit, Enqueue, LeaveQueue, Goes, BrokerType
        <4>3. QED
          BY <3>1, <4>1, <4>2 DEF AuthInv, Mid, BeforeSend, Sent
      <3>3. CASE Proceed(c)
        <4>1. charged' = charged /\ leftAt'[c] = auth[Account[c]]
          BY <3>3 DEF Proceed, BrokerType
        <4>2. pc[c] = "waiting" /\ pc'[c] = "recheck"
          BY <3>3 DEF Proceed, Goes, BrokerType
        <4>3. QED
          BY <1>2, <3>1, <4>1, <4>2 DEF Mid, BeforeSend, Sent
      <3>4. CASE Reauthorize(c)
        <4>1. charged' = charged /\ leftAt' = leftAt /\ claims' = claims
          BY <3>4 DEF Reauthorize, history
        <4>2. /\ pc[c] = "recheck"
              /\ \/ pc'[c] = "release"
                 \/ pc'[c] = "reserve" /\ auth[Account[c]] = claims[c]
          BY <3>4 DEF Reauthorize, Goes, BrokerType
        <4>3. leftAt[c] <= auth[Account[c]]
          BY DEF AuthInv
        <4>4. ~Sent(c)'
          BY <3>1, <4>1, <4>2 DEF BeforeSend, Sent
        <4>5. QED
          BY <1>2, <4>1, <4>2, <4>3, <4>4 DEF Mid
      <3>5. CASE \/ Reserve(c) \/ DispatchCall(c) \/ StartOperation(c) \/ Send(c)
                 \/ Relay(c) \/ SettleCall(c) \/ MarkUnknown(c)
        <4>1. leftAt' = leftAt /\ claims' = claims
          BY <3>5 DEF Reserve, DispatchCall, StartOperation, Send, Relay, SettleCall,
                 MarkUnknown, history
        <4>2. pc[c] \in {"reserve"} \cup Mid
          BY <3>5 DEF Reserve, DispatchCall, StartOperation, Send, Relay, SettleCall,
                 MarkUnknown, Goes, Mid
        <4>3. QED
          BY <4>1, <4>2 DEF AuthInv
      <3>6. CASE Release(c)
        <4>1. leftAt'[c] = 0 /\ claims'[c] = 0
          BY <3>6 DEF Release, BrokerType
        <4>2. QED
          BY <1>2, <4>1
      <3>7. QED
        BY <1>3, <3>2, <3>3, <3>4, <3>5, <3>6 DEF Handle
    <2>4. \A e \in Calls \ {c} : Sent(e)' <=> Sent(e)
      BY <2>2 DEF Sent
    <2>5. QED
      BY <2>1, <2>2, <2>3, <2>4 DEF AuthInv
  <1>4. CASE \E a \in Accounts : Revoke(a)
    <2>1. /\ leftAt' = leftAt /\ claims' = claims /\ pc' = pc /\ charged' = charged
      BY <1>4 DEF Revoke, history
    <2>2. \A e \in Calls : auth'[Account[e]] >= auth[Account[e]]
      BY <1>1, <1>2, <1>4 DEF Revoke, BrokerType
    <2>3. \A e \in Calls : auth'[Account[e]] \in Nat
      BY <1>1 DEF BrokerType
    <2>4. \A e \in Calls : leftAt[e] <= auth'[Account[e]]
      BY <1>2, <2>2, <2>3 DEF AuthInv
    <2>5. QED
      BY <2>1, <2>4 DEF AuthInv, Sent
  <1>5. CASE \/ Midnight \/ (\E p \in Stops : BeginStop(p)) \/ PauseRun \/ Join
             \/ WriteReceipt \/ Start
    <2>1. leftAt' = leftAt /\ claims' = claims /\ pc' = pc /\ charged' = charged /\ auth' = auth
      BY <1>5 DEF Midnight, BeginStop, PauseRun, Join, WriteReceipt, Start, history
    <2>2. QED
      BY <2>1 DEF AuthInv, Sent
  <1>6. CASE Exit
    <2>1. /\ \A e \in Calls : leftAt'[e] = 0 /\ claims'[e] = 0
          /\ auth' = auth
      BY <1>6 DEF Exit
    <2>2. QED
      BY <1>2, <2>1 DEF AuthInv
  <1>7. QED
    BY <1>3, <1>4, <1>5, <1>6 DEF Next

-----------------------------------------------------------------------------
(* Drain                                                                   *)

\* With a receipt written no step of a handler changes a row.
LEMMA CallReceipt ==
  ASSUME BrokerType, DrainInv, NEW c \in Calls,
         Arrive(c) \/ Admit(c) \/ Handle(c) \/ LeaveQueue(c), receipt
  PROVE  rows' = rows /\ paused' = paused /\ pc'[c] \notin Mid
  <1>1. paused /\ pc[c] \notin Mid
    BY DEF DrainInv
  <1>2. ~(DispatchCall(c) \/ StartOperation(c) \/ Send(c) \/ Relay(c) \/ SettleCall(c)
          \/ MarkUnknown(c))
    BY <1>1 DEF DispatchCall, StartOperation, Send, Relay, SettleCall, MarkUnknown, Goes, Mid
  <1>3. CASE Reserve(c)
    BY <1>1, <1>3 DEF Reserve, Reservable, WithinBudget, Goes, Mid, ledger, BrokerType
  <1>4. CASE \/ Arrive(c) \/ Admit(c) \/ Enqueue(c) \/ Proceed(c) \/ LeaveQueue(c)
             \/ Reauthorize(c) \/ Release(c)
    BY <1>4 DEF Arrive, Admit, Enqueue, Proceed, LeaveQueue, Reauthorize, Release, Goes, Mid,
           ledger, BrokerType
  <1>5. QED
    BY <1>2, <1>3, <1>4 DEF Handle

LEMMA DrainKept ==
  ASSUME BrokerType, DrainInv, Next
  PROVE  DrainInv' /\ (receipt => rows' = rows)
  <1>1. ASSUME NEW c \in Calls, Arrive(c) \/ Admit(c) \/ Handle(c) \/ LeaveQueue(c)
        PROVE  DrainInv' /\ (receipt => rows' = rows)
    <2>1. stop' = stop /\ draining' = draining /\ receipt' = receipt
      BY <1>1 DEF Arrive, Admit, Handle, LeaveQueue, Enqueue, Proceed, Reauthorize, Reserve,
             DispatchCall, StartOperation, Send, Relay, SettleCall, MarkUnknown, Release,
             server, history
    <2>2. \A e \in Calls \ {c} : pc'[e] = pc[e]
      BY <1>1 DEF Arrive, Admit, Handle, LeaveQueue, Enqueue, Proceed, Reauthorize, Reserve,
             DispatchCall, StartOperation, Send, Relay, SettleCall, MarkUnknown, Release,
             Goes, BrokerType
    <2>3. pc'[c] \in InFlight => pc[c] \in InFlight \/ ~draining
      <3>1. CASE Arrive(c) \/ Admit(c)
        BY <3>1 DEF Arrive, Admit, Goes, InFlight, BrokerType
      <3>2. CASE Handle(c) \/ LeaveQueue(c)
        BY <3>2 DEF Handle, LeaveQueue, Enqueue, Proceed, Reauthorize, Reserve,
               DispatchCall, StartOperation, Send, Relay, SettleCall, MarkUnknown, Release,
               Goes, InFlight
      <3>3. QED
        BY <1>1, <3>1, <3>2
    <2>4. receipt => rows' = rows /\ paused' = paused /\ pc'[c] \notin Mid
      BY <1>1, CallReceipt
    <2>5. receipt => Outstanding' = Outstanding
      BY <2>4 DEF Outstanding
    <2>6. stop' = "checkpoint" => \A e \in Calls : pc'[e] \notin InFlight
      BY <2>1, <2>2, <2>3 DEF DrainInv
    <2>7. receipt' => paused' /\ Outstanding' = {} /\ \A e \in Calls : pc'[e] \notin Mid
      BY <2>1, <2>2, <2>4, <2>5 DEF DrainInv
    <2>8. QED
      BY <2>1, <2>4, <2>6, <2>7 DEF DrainInv
  <1>2. CASE (\E a \in Accounts : Revoke(a)) \/ Midnight
    <2>1. /\ stop' = stop /\ draining' = draining /\ receipt' = receipt /\ rows' = rows
          /\ paused' = paused /\ pc' = pc
      BY <1>2 DEF Revoke, Midnight, ledger, server, history
    <2>2. QED
      BY <2>1 DEF DrainInv, Outstanding
  <1>3. CASE (\E p \in Stops : BeginStop(p)) \/ PauseRun \/ Join
    <2>1. /\ receipt' = receipt /\ rows' = rows /\ paused' \in {paused, TRUE} /\ pc' = pc
      BY <1>3 DEF BeginStop, PauseRun, Join, Pause, ledger, history
    <2>2. draining' = draining \/ draining' = TRUE
      BY <1>3 DEF BeginStop, PauseRun, Join
    <2>3. stop' # "no" => draining'
      BY <1>3 DEF BeginStop, PauseRun, Join, StopsAt, DrainInv
    <2>4. stop' = "checkpoint" => \A c \in Calls : pc[c] \notin InFlight
      BY <1>3 DEF BeginStop, PauseRun, Join, StopsAt
    <2>5. QED
      BY <2>1, <2>3, <2>4 DEF DrainInv, Outstanding
  <1>4. CASE WriteReceipt
    <2>1. \A c \in Calls : pc[c] \notin InFlight
      BY <1>4 DEF WriteReceipt, StopsAt, DrainInv
    <2>2. \A c \in Calls : pc[c] \notin Mid
      BY <2>1 DEF InFlight, Mid
    <2>3. pc' = pc /\ stop' = "no"
      BY <1>4 DEF WriteReceipt, StopsAt
    <2>4. RowsType
      BY DEF BrokerType, RowsType
    <2>5. CASE rows' = AllUnknown /\ paused' = (paused \/ pausing)
               /\ receipt' = (receipt \/ pausing)
      <3>1. Outstanding' = {} /\ (Outstanding = {} => rows' = rows)
        BY <2>4, <2>5, AllUnknownQuiet
      <3>2. QED
        BY <2>2, <2>3, <2>5, <3>1 DEF DrainInv
    <2>6. CASE rows' = AllUnknown /\ paused' = (paused \/ pausing) /\ receipt' = receipt
      <3>1. Outstanding' = {} /\ (Outstanding = {} => rows' = rows)
        BY <2>4, <2>6, AllUnknownQuiet
      <3>2. QED
        BY <2>2, <2>3, <2>6, <3>1 DEF DrainInv
    <2>7. CASE rows' = rows /\ paused' = paused /\ receipt' = receipt
      BY <2>2, <2>3, <2>7 DEF DrainInv, Outstanding
    <2>8. QED
      BY <1>4, <2>5, <2>6, <2>7 DEF WriteReceipt, Checkpoint, ledger
  <1>5. CASE Exit
    <2>1. /\ receipt' = receipt /\ rows' = rows /\ paused' = paused /\ stop' = "no"
          /\ \A c \in Calls : pc'[c] \in {"new", "done"}
      BY <1>5 DEF Exit, ledger
    <2>2. QED
      BY <2>1 DEF DrainInv, Outstanding, Mid
  <1>6. CASE Start
    <2>1. /\ receipt' = receipt /\ rows' = AllUnknown /\ paused' = paused /\ stop' = stop
          /\ draining' = draining /\ pc' = pc
      BY <1>6 DEF Start, OpenRun, history
    <2>2. Outstanding' = {} /\ (Outstanding = {} => rows' = rows)
      BY <2>1, AllUnknownQuiet DEF BrokerType, RowsType
    <2>3. QED
      BY <2>1, <2>2 DEF DrainInv
  <1>7. QED
    BY <1>1, <1>2, <1>3, <1>4, <1>5, <1>6 DEF Next
-----------------------------------------------------------------------------
(* QueueInv                                                                *)

\* What is left of a sequence when a caller has left it
LEMMA RemoveFirstKeeps ==
  ASSUME NEW S, NEW s \in Seq(S), NEW e,
         \A j, k \in 1..Len(s) : s[j] = s[k] => j = k
  PROVE  /\ RemoveFirst(s, e) \in Seq(S)
         /\ \A k \in 1..Len(RemoveFirst(s, e)) :
               \E j \in 1..Len(s) : s[j] # e /\ RemoveFirst(s, e)[k] = s[j]
         /\ \A j, k \in 1..Len(RemoveFirst(s, e)) :
               RemoveFirst(s, e)[j] = RemoveFirst(s, e)[k] => j = k
  <1> DEFINE I == {i \in 1..Len(s) : s[i] = e}
             at == Min(I)
  <1>1. CASE I = {}
    <2>1. RemoveFirst(s, e) = s /\ \A k \in 1..Len(s) : s[k] # e
      BY <1>1 DEF RemoveFirst
    <2>2. QED
      BY <2>1
  <1>2. CASE I # {}
    <2>1. at \in I
      <3>1. I \subseteq Nat
        OBVIOUS
      <3>2. QED
        BY <1>2, <3>1, LeastNatural
    <2>2. SelectInSeq(s, LAMBDA v : v = e) = at
      BY <1>2 DEF SelectInSeq
    <2>3. \E i \in 1..Len(s) : s[i] = e
      BY <1>2
    <2>4. RemoveFirst(s, e) = RemoveAt(s, at)
      BY <2>2, <2>3 DEF RemoveFirst
    <2>5. at \in 1..Len(s) /\ s[at] = e
      BY <2>1
    <2> HIDE DEF at, I
    <2>6. /\ RemoveAt(s, at) \in Seq(S)
          /\ \A k \in 1..Len(RemoveAt(s, at)) :
                \E j \in 1..Len(s) : j # at /\ RemoveAt(s, at)[k] = s[j]
          /\ \A j, k \in 1..Len(RemoveAt(s, at)) :
                RemoveAt(s, at)[j] = RemoveAt(s, at)[k] => j = k
      BY <2>5, RemoveAtKeeps
    <2>7. \A j \in 1..Len(s) : j # at => s[j] # e
      BY <2>5
    <2>8. \A k \in 1..Len(RemoveAt(s, at)) :
             \E j \in 1..Len(s) : s[j] # e /\ RemoveAt(s, at)[k] = s[j]
      BY <2>6, <2>7
    <2>9. QED
      BY <2>4, <2>6, <2>8
  <1>3. QED
    BY <1>1, <1>2

\* A sequence whose elements are all in T
LEMMA SeqWithin ==
  ASSUME NEW S, NEW T, NEW s \in Seq(S), \A i \in 1..Len(s) : s[i] \in T
  PROVE  s \in Seq(T)
  <1>1. s \in [1..Len(s) -> T] /\ Len(s) \in Nat
    BY LenProperties
  <1>2. QED
    BY <1>1

\* The holder of a slot gives it back.
LEMMA GiveBack ==
  ASSUME NEW B, NEW W, NEW q, InOrder(q, B, W), B \cap W = {},
         NEW c \in B \cup q.granted
  PROVE  InOrder([waiting |-> q.waiting, active |-> q.active \ {Account[c]},
                  granted |-> q.granted \ {c}], B \ {c}, W \ {c})
  <1> DEFINE r == [waiting |-> q.waiting, active |-> q.active \ {Account[c]},
                   granted |-> q.granted \ {c}]
  <1>1. \A i \in 1..Len(q.waiting) : q.waiting[i] \in W \ {c}
    BY DEF InOrder
  <1>2. r.waiting \in Seq(W \ {c})
    BY <1>1, SeqWithin DEF InOrder
  <1>3. r.active = {Account[e] : e \in (B \ {c}) \cup r.granted}
    BY DEF InOrder
  <1>4. IsFiniteSet(r.active) /\ Cardinality(r.active) <= MaxActive
    <2>1. /\ IsFiniteSet(r.active) /\ Cardinality(r.active) <= Cardinality(q.active)
          /\ Cardinality(q.active) \in Nat
      BY FS_Subset, FS_CardinalityType DEF InOrder
    <2>2. Cardinality(r.active) \in Nat
      BY <2>1, FS_CardinalityType
    <2>3. QED
      BY <2>1, <2>2, BrokerAssumption DEF InOrder
  <1>5. QED
    BY <1>2, <1>3, <1>4 DEF InOrder

LEMMA QueueStays ==
  ASSUME QueueInv, Holders' = Holders, Waiters' = Waiters, UNCHANGED queue
  PROVE  QueueInv'
  <1>1. TheQueue' = TheQueue
    BY DEF TheQueue, queue
  <1>2. QED
    BY <1>1 DEF QueueInv

LEMMA QueueScheduled ==
  ASSUME NEW q, InOrder(q, Holders', Waiters'), QueueBecomes(Schedule(q))
  PROVE  QueueInv'
  <1>1. Holders' \cap Waiters' = {}
    BY DEF Holders, Waiters, Holding, Queueing
  <1>2. InOrder(Schedule(q), Holders', Waiters') /\ Saturated(Schedule(q))
    BY <1>1, ScheduleKeeps
  <1>3. TheQueue' = Schedule(q)
    BY <1>2 DEF TheQueue, QueueBecomes, InOrder
  <1>4. QED
    BY <1>2, <1>3 DEF QueueInv

LEMMA EnqueueQueue ==
  ASSUME BrokerType, QueueInv, NEW c \in Calls, Enqueue(c)
  PROVE  QueueInv'
  <1>1. CASE Goes(c, "admitted", "done") /\ UNCHANGED queue
    <2>1. Holders' = Holders /\ Waiters' = Waiters
      BY <1>1 DEF Goes, BrokerType, Holders, Waiters, Holding, InFlight, Queueing
    <2>2. QED
      BY <1>1, <2>1, QueueStays
  <1>2. CASE /\ Goes(c, "admitted", "waiting")
             /\ QueueBecomes(Schedule([waiting |-> Append(waiting, c), active |-> active,
                                       granted |-> granted]))
    <2> DEFINE r == [waiting |-> Append(waiting, c), active |-> active, granted |-> granted]
    <2>1. Holders' = Holders /\ Waiters' = Waiters \cup {c} /\ c \notin Waiters
      BY <1>2 DEF Goes, BrokerType, Holders, Waiters, Holding, InFlight, Queueing
    <2>2. InOrder(TheQueue, Holders, Waiters)
      BY DEF QueueInv
    <2>3. /\ waiting \in Seq(Waiters) /\ granted \subseteq Waiters
          /\ \A i, j \in 1..Len(waiting) : waiting[i] = waiting[j] => i = j
          /\ \A i \in 1..Len(waiting) : waiting[i] \notin granted
      BY <2>2 DEF InOrder, TheQueue
    <2>4. \A i \in 1..Len(waiting) : waiting[i] \in Waiters
      BY <2>3
    <2>5. /\ Append(waiting, c) \in Seq(Waiters \cup {c})
          /\ Len(Append(waiting, c)) = Len(waiting) + 1 /\ Len(waiting) \in Nat
          /\ \A i \in 1..Len(waiting) : Append(waiting, c)[i] = waiting[i]
          /\ Append(waiting, c)[Len(waiting) + 1] = c
      <3>1. waiting \in Seq(Waiters \cup {c})
        BY <2>3, <2>4, SeqWithin
      <3>2. QED
        BY ONLY <3>1
    <2>6. \A i, j \in 1..Len(waiting) + 1 :
             Append(waiting, c)[i] = Append(waiting, c)[j] => i = j
      BY <2>1, <2>3, <2>4, <2>5
    <2>7. \A i \in 1..Len(waiting) + 1 : Append(waiting, c)[i] \notin granted
      BY <2>1, <2>3, <2>4, <2>5
    <2>8. InOrder(r, Holders, Waiters \cup {c})
      BY <2>2, <2>3, <2>5, <2>6, <2>7 DEF InOrder, TheQueue
    <2>9. QED
      BY <1>2, <2>1, <2>8, QueueScheduled
  <1>3. QED
    BY <1>1, <1>2 DEF Enqueue

LEMMA ProceedQueue ==
  ASSUME BrokerType, QueueInv, NEW c \in Calls, Proceed(c)
  PROVE  QueueInv'
  <1>1. c \in granted /\ granted' = granted \ {c} /\ waiting' = waiting /\ active' = active
    BY DEF Proceed
  <1>2. Goes(c, "waiting", "recheck")
    BY DEF Proceed
  <1>3. Holders' = Holders \cup {c} /\ Waiters' = Waiters \ {c}
    BY <1>2 DEF Goes, BrokerType, Holders, Waiters, Holding, InFlight, Queueing
  <1>4. InOrder(TheQueue, Holders, Waiters) /\ Saturated(TheQueue)
    BY DEF QueueInv
  <1>5. /\ waiting \in Seq(Waiters) /\ granted \subseteq Waiters
        /\ \A i \in 1..Len(waiting) : waiting[i] \notin granted
    BY <1>4 DEF InOrder, TheQueue
  <1>6. \A i \in 1..Len(waiting) : waiting[i] \in Waiters \ {c}
    BY <1>1, <1>5
  <1>7. waiting' \in Seq(Waiters')
    BY <1>1, <1>3, <1>5, <1>6, SeqWithin
  <1>8. Holders' \cup granted' = Holders \cup granted
    BY <1>1, <1>3
  <1>9. active' = {Account[e] : e \in Holders' \cup granted'}
    <2>1. active = {Account[e] : e \in Holders \cup granted}
      BY <1>4 DEF InOrder, TheQueue
    <2>2. QED
      BY <1>1, <1>8, <2>1
  <1>10. \A d, e \in Holders' \cup granted' : Account[d] = Account[e] => d = e
    <2>1. \A d, e \in Holders \cup granted : Account[d] = Account[e] => d = e
      BY <1>4 DEF InOrder, TheQueue
    <2>2. QED
      BY <1>8, <2>1
  <1>11. InOrder(TheQueue, Holders, Waiters)'
    BY <1>1, <1>3, <1>4, <1>5, <1>7, <1>9, <1>10 DEF InOrder, TheQueue
  <1>12. Saturated(TheQueue)'
    BY <1>1, <1>4 DEF Saturated, TheQueue
  <1>13. QED
    BY <1>11, <1>12 DEF QueueInv

LEMMA LeaveQueueQueue ==
  ASSUME BrokerType, QueueInv, NEW c \in Calls, LeaveQueue(c)
  PROVE  QueueInv'
  <1>1. Goes(c, "waiting", "done")
    BY DEF LeaveQueue
  <1>2. Holders' = Holders /\ Waiters' = Waiters \ {c} /\ c \notin Holders
    BY <1>1 DEF Goes, BrokerType, Holders, Waiters, Holding, InFlight, Queueing
  <1>3. InOrder(TheQueue, Holders, Waiters) /\ Holders \cap Waiters = {}
    BY DEF QueueInv, Holders, Waiters, Holding, Queueing
  <1>4. CASE c \in granted
    <2> DEFINE r == [waiting |-> waiting, active |-> active \ {Account[c]},
                     granted |-> granted \ {c}]
    <2>1. Holders \ {c} = Holders
      BY <1>2
    <2>2. InOrder(r, Holders \ {c}, Waiters \ {c})
      BY <1>3, <1>4, GiveBack DEF TheQueue
    <2>3. InOrder(r, Holders', Waiters')
      BY <1>2, <2>1, <2>2
    <2>4. QueueBecomes(Schedule(r))
      BY <1>4 DEF LeaveQueue
    <2>5. QED
      BY <2>3, <2>4, QueueScheduled
  <1>5. CASE c \notin granted
    <2> DEFINE s == RemoveFirst(waiting, c)
               r == [waiting |-> s, active |-> active, granted |-> granted]
    <2>1. /\ waiting \in Seq(Waiters) /\ granted \subseteq Waiters
          /\ \A i, j \in 1..Len(waiting) : waiting[i] = waiting[j] => i = j
          /\ \A i \in 1..Len(waiting) : waiting[i] \notin granted
      BY <1>3 DEF InOrder, TheQueue
    <2>2. /\ s \in Seq(Waiters)
          /\ \A k \in 1..Len(s) : \E j \in 1..Len(waiting) : waiting[j] # c /\ s[k] = waiting[j]
          /\ \A j, k \in 1..Len(s) : s[j] = s[k] => j = k
      BY <2>1, RemoveFirstKeeps
    <2>3. QueueBecomes(Schedule(r))
      BY <1>5 DEF LeaveQueue
    <2> HIDE DEF s
    <2>4. \A k \in 1..Len(s) : s[k] \in Waiters \ {c} /\ s[k] \notin granted
      BY <2>1, <2>2
    <2>5. s \in Seq(Waiters \ {c})
      BY <2>2, <2>4, SeqWithin
    <2>6. granted \subseteq Waiters \ {c}
      BY <1>5, <2>1
    <2>7. InOrder(r, Holders, Waiters \ {c})
      BY <1>3, <2>2, <2>4, <2>5, <2>6 DEF InOrder, TheQueue
    <2>8. InOrder(r, Holders', Waiters')
      BY <1>2, <2>7
    <2>9. QED
      BY <2>3, <2>8, QueueScheduled
  <1>6. QED
    BY <1>4, <1>5

LEMMA ReleaseQueue ==
  ASSUME BrokerType, QueueInv, NEW c \in Calls, Release(c)
  PROVE  QueueInv'
  <1>1. Goes(c, "release", "done")
    BY DEF Release
  <1>2. Holders' = Holders \ {c} /\ Waiters' = Waiters /\ c \in Holders /\ c \notin Waiters
    BY <1>1 DEF Goes, BrokerType, Holders, Waiters, Holding, InFlight, Queueing
  <1>3. InOrder(TheQueue, Holders, Waiters) /\ Holders \cap Waiters = {}
    BY DEF QueueInv, Holders, Waiters, Holding, Queueing
  <1>4. granted \ {c} = granted /\ Waiters \ {c} = Waiters
    BY <1>2, <1>3 DEF InOrder, TheQueue
  <1> DEFINE r == [waiting |-> waiting, active |-> active \ {Account[c]}, granted |-> granted]
  <1>5. InOrder([waiting |-> waiting, active |-> active \ {Account[c]},
                 granted |-> granted \ {c}], Holders \ {c}, Waiters \ {c})
    BY <1>2, <1>3, GiveBack DEF TheQueue
  <1>6. InOrder(r, Holders', Waiters')
    BY <1>2, <1>4, <1>5
  <1>7. QueueBecomes(Schedule(r))
    BY DEF Release, ReleaseSlot
  <1>8. QED
    BY <1>6, <1>7, QueueScheduled

LEMMA QueueKept ==
  ASSUME BrokerType, QueueInv, Next
  PROVE  QueueInv'
  <1>1. ASSUME NEW c \in Calls,
               \/ Arrive(c) \/ Admit(c) \/ Reauthorize(c) \/ Reserve(c) \/ DispatchCall(c)
               \/ StartOperation(c) \/ Send(c) \/ Relay(c) \/ SettleCall(c) \/ MarkUnknown(c)
        PROVE  QueueInv'
    <2>1. UNCHANGED queue
      BY <1>1 DEF Arrive, Admit, Reauthorize, Reserve, DispatchCall, StartOperation, Send,
             Relay, SettleCall, MarkUnknown
    <2>2. /\ \A e \in Calls \ {c} : pc'[e] = pc[e]
          /\ \/ /\ pc[c] \in {"new", "arrived", "admitted", "done"}
                /\ pc'[c] \in {"new", "arrived", "admitted", "done"}
             \/ pc[c] \in Holding /\ pc'[c] \in Holding
      BY <1>1 DEF Arrive, Admit, Reauthorize, Reserve, DispatchCall, StartOperation, Send,
             Relay, SettleCall, MarkUnknown, Goes, Holding, InFlight, Queueing, BrokerType
    <2>3. Holders' = Holders /\ Waiters' = Waiters
      BY <2>2 DEF Holders, Waiters, Holding, InFlight, Queueing
    <2>4. QED
      BY <2>1, <2>3, QueueStays
  <1>2. ASSUME NEW c \in Calls, Arrive(c) \/ Admit(c) \/ Handle(c) \/ LeaveQueue(c)
        PROVE  QueueInv'
    BY <1>1, <1>2, EnqueueQueue, ProceedQueue, LeaveQueueQueue, ReleaseQueue DEF Handle
  <1>3. CASE \/ \E a \in Accounts : Revoke(a)
             \/ Midnight
             \/ \E p \in Stops : BeginStop(p)
             \/ PauseRun \/ Join \/ WriteReceipt \/ Start
    <2>1. pc' = pc /\ UNCHANGED queue
      BY <1>3 DEF Revoke, Midnight, BeginStop, PauseRun, Join, WriteReceipt, Start
    <2>2. Holders' = Holders /\ Waiters' = Waiters
      BY <2>1 DEF Holders, Waiters
    <2>3. QED
      BY <2>1, <2>2, QueueStays
  <1>4. CASE Exit
    <2>1. /\ waiting' = <<>> /\ active' = {} /\ granted' = {}
          /\ \A c \in Calls : pc'[c] \in {"new", "done"}
      BY <1>4 DEF Exit
    <2>2. Holders' = {} /\ Waiters' = {}
      BY <2>1 DEF Holders, Waiters, Holding, InFlight, Queueing
    <2>3. IsFiniteSet({}) /\ Cardinality({}) = 0 /\ MaxActive \in Nat
      BY FS_EmptySet, BrokerAssumption
    <2>4. QED
      BY <2>1, <2>2, <2>3 DEF QueueInv, InOrder, Saturated, TheQueue
  <1>5. QED
    BY <1>2, <1>3, <1>4 DEF Next
-----------------------------------------------------------------------------
(* The inductive invariant                                                 *)

LEMMA InitInv == Init => IInv
  <1> SUFFICES ASSUME Init PROVE IInv
    OBVIOUS
  <1> USE BrokerAssumption DEF Init, LedgerInit
  <1>1. MaxAuth \in Nat /\ MaxActive \in Nat /\ MaxLife \in Nat \ {0} /\ NoCost \notin Nat
    OBVIOUS
  <1>2. BrokerType
    <2>1. DOMAIN rows = {} /\ rows \in [DOMAIN rows -> Row]
      OBVIOUS
    <2>2. "new" \in Locations /\ 0 \in 0..MaxAuth /\ 1 \in 1..MaxLife
      BY <1>1 DEF Locations
    <2>3. QED
      BY <2>1, <2>2 DEF BrokerType
  <1>3. LedgerInv
    BY DEF LedgerInv, Apart, CallInv, Owns, Sent, Mid
  <1>4. AuthInv
    <2>1. \A c \in Calls : leftAt[c] = 0 /\ claims[c] = 0 /\ auth[Account[c]] = 0
      OBVIOUS
    <2>2. QED
      BY <2>1 DEF AuthInv
  <1>5. DrainInv
    BY DEF DrainInv
  <1>6. QueueInv
    <2>1. Holders = {} /\ Waiters = {}
      BY DEF Holders, Waiters, Holding, InFlight, Queueing
    <2>2. IsFiniteSet({}) /\ Cardinality({}) = 0
      BY FS_EmptySet
    <2>3. QED
      BY <1>1, <2>1, <2>2 DEF QueueInv, InOrder, Saturated, TheQueue
  <1>7. QED
    BY <1>2, <1>3, <1>4, <1>5, <1>6 DEF IInv

LEMMA NextInv == IInv /\ [Next]_vars => IInv'
  <1> SUFFICES ASSUME IInv, [Next]_vars PROVE IInv'
    OBVIOUS
  <1>1. CASE Next
    <2>1. BrokerType /\ LedgerInv /\ AuthInv /\ DrainInv /\ QueueInv
      BY DEF IInv
    <2>2. BrokerType' /\ LedgerInv'
      BY <1>1, <2>1, CallType, ControlType DEF Next
    <2>3. AuthInv' /\ DrainInv' /\ QueueInv'
      BY <1>1, <2>1, <2>2, AuthKept, DrainKept, QueueKept
    <2>4. QED
      BY <2>2, <2>3 DEF IInv
  <1>2. CASE UNCHANGED vars
    <2>1. UNCHANGED vars
      BY <1>2
    <2>2. QED
      BY <2>1 DEF vars, IInv, BrokerType, LedgerInv, Apart, CallInv, Owns, RowOf, SettledTruly,
             Sent, AuthInv, DrainInv, Outstanding, QueueInv, TheQueue, Holders, Waiters
  <1>3. QED
    BY <1>1, <1>2

\* The conjunction of the parts is an invariant of the broker.
THEOREM BrokerInvariant == Spec => []IInv
  <1>1. Init => IInv
    BY InitInv
  <1>2. IInv /\ [Next]_vars => IInv'
    BY NextInv
  <1>3. QED
    BY <1>1, <1>2, PTL DEF Spec

-----------------------------------------------------------------------------
(* What the broker promises                                                *)

\* The variables keep their types, through crashes and restarts.
THEOREM BrokerTypeCorrect == Spec => []TypeOK
  <1>1. IInv => TypeOK
    <2> SUFFICES ASSUME IInv PROVE TypeOK
      OBVIOUS
    <2>1. BrokerType /\ InOrder(TheQueue, Holders, Waiters)
      BY DEF IInv, QueueInv
    <2>2. /\ waiting \in Seq(Waiters) /\ granted \subseteq Waiters
          /\ active = {Account[c] : c \in Holders \cup granted}
      BY <2>1 DEF InOrder, TheQueue
    <2>3. Waiters \subseteq Calls /\ Holders \subseteq Calls
      BY DEF Waiters, Holders
    <2>4. \A i \in DOMAIN waiting : waiting[i] \in Calls
      <3>1. DOMAIN waiting = 1..Len(waiting)
        BY <2>2
      <3>2. QED
        BY <2>2, <2>3, <3>1
    <2>5. active \subseteq Accounts /\ granted \subseteq Calls
      BY <2>2, <2>3, BrokerAssumption
    <2>6. QED
      BY <2>1, <2>4, <2>5 DEF TypeOK, LedgerTypeOK, BrokerType
  <1>2. QED
    BY <1>1, BrokerInvariant, PTL

\* Of the calls with one account's idempotency key at most one is ever sent to
\* the provider, over retries, crashes and restarts: a second one finds the
\* first one's row and ends in Reserve.
THEOREM SentOnceHolds == Spec => []SentOnce
  <1>1. IInv => SentOnce
    BY DEF IInv, LedgerInv, Apart, Owns, SentOnce
  <1>2. QED
    BY <1>1, BrokerInvariant, PTL

\* The ledger's exposure covers every charge within its reservation, and no
\* charge above it is settled, whatever crash, cancellation or lost answer came
\* between Send and Settle.
THEOREM ChargesCoveredHolds == Spec => []ChargesCovered
  <1>1. IInv => ChargesCovered
    <2> SUFFICES ASSUME IInv, NEW c \in Calls, Sent(c)
                 PROVE  /\ charged[c] <= Price[c] =>
                              Id[c] \in DOMAIN rows /\ charged[c] <= Spent(rows[Id[c]])
                        /\ charged[c] > Price[c] => rows[Id[c]].state # "settled"
      BY DEF ChargesCovered
    <2>1. RowOf(c) /\ SettledTruly(c)
      BY DEF IInv, LedgerInv, CallInv, Owns
    <2>2. charged[c] \in Nat /\ Price[c] \in Nat
      BY BrokerAssumption DEF IInv, BrokerType, Sent
    <2>3. QED
      BY <2>1, <2>2 DEF RowOf, SettledTruly, Spent
  <1>2. QED
    BY <1>1, BrokerInvariant, PTL

\* What is sent was authorized at or after the moment the call left the queue.
THEOREM FreshAuthorityHolds == Spec => []SentWithFreshAuthority
  <1>1. IInv => SentWithFreshAuthority
    BY DEF IInv, AuthInv, SentWithFreshAuthority
  <1>2. QED
    BY <1>1, BrokerInvariant, PTL

\* Slots of the fair queue are neither leaked nor given twice, and none is idle
\* while a waiter could use it, for any number of callers and slots.
THEOREM QueueSoundHolds == Spec => []QueueSound
  <1>1. IInv => QueueSound
    <2> SUFFICES ASSUME IInv PROVE QueueSound
      OBVIOUS
    <2>1. InOrder(TheQueue, Holders, Waiters) /\ Saturated(TheQueue)
      BY DEF IInv, QueueInv
    <2>2. /\ waiting \in Seq(Waiters)
          /\ active = {Account[c] : c \in Holders \cup granted}
          /\ \A c, e \in Holders \cup granted : Account[c] = Account[e] => c = e
          /\ IsFiniteSet(active) /\ Cardinality(active) <= MaxActive
          /\ \/ Cardinality(active) >= MaxActive
             \/ \A i \in 1..Len(waiting) : Account[waiting[i]] \in active
      BY <2>1 DEF InOrder, Saturated, TheQueue
    <2>3. Cardinality(active) \in Nat /\ MaxActive \in Nat
      BY <2>2, FS_CardinalityType, BrokerAssumption
    <2>4. DOMAIN waiting = 1..Len(waiting)
      BY <2>2
    <2>5. (\E i \in DOMAIN waiting : Account[waiting[i]] \notin active)
             => Cardinality(active) = MaxActive
      BY <2>2, <2>3, <2>4
    <2>6. QED
      BY <2>2, <2>5 DEF QueueSound, Holders
  <1>2. QED
    BY <1>1, BrokerInvariant, PTL

\* Once a drain's receipt is written no step changes the rows it describes:
\* the run is paused, no handler is between Reserve and release, and nothing
\* is outstanding for a restart to mark.
THEOREM ReceiptFinal == Spec => ReceiptIsFinal
  <1>1. IInv /\ [Next]_vars => [receipt => rows' = rows]_rows
    <2> SUFFICES ASSUME IInv, [Next]_vars PROVE [receipt => rows' = rows]_rows
      OBVIOUS
    <2>1. CASE Next
      BY <2>1, DrainKept DEF IInv
    <2>2. CASE UNCHANGED vars
      BY <2>2 DEF vars
    <2>3. QED
      BY <2>1, <2>2
  <1>2. QED
    BY <1>1, BrokerInvariant, PTL DEF Spec, ReceiptIsFinal

-----------------------------------------------------------------------------
(* Sums over the ledger                                                    *)

\* The element a sum takes next
Pick(s) == CHOOSE x \in s : TRUE

\* g sums the weights w over every subset of S
Adds(w, S, g) ==
    g = [s \in SUBSET S |-> IF s = {} THEN 0 ELSE w[Pick(s)] + g[s \ {Pick(s)}]]

\* Exposure of the rows r, for any table
ExposureIn(r, which) == MapThenSumSet(LAMBDA i : Spent(r[i]), which)

\* The summing function exists, since it can be extended from the subsets of
\* one size to those of the next.
LEMMA SumsExist ==
  ASSUME NEW S, IsFiniteSet(S), NEW w
  PROVE  \E g : Adds(w, S, g)
  <1> DEFINE Small(k) == {t \in SUBSET S : Cardinality(t) <= k}
             Step(g, s) == IF s = {} THEN 0 ELSE w[Pick(s)] + g[s \ {Pick(s)}]
             UpTo(k, g) == g = [s \in Small(k) |-> Step(g, s)]
             bad == {k \in Nat : ~\E g : UpTo(k, g)}
  <1>1. \A s \in SUBSET S : /\ IsFiniteSet(s) /\ Cardinality(s) \in Nat
                            /\ Cardinality(s) <= Cardinality(S)
                            /\ Cardinality(s) = 0 <=> s = {}
    BY FS_Subset, FS_CardinalityType, FS_EmptySet
  <1>2. ASSUME NEW s \in SUBSET S, s # {}
        PROVE  /\ s \ {Pick(s)} \in SUBSET S
               /\ Cardinality(s \ {Pick(s)}) = Cardinality(s) - 1
    <2>1. Pick(s) \in s
      BY <1>2 DEF Pick
    <2>2. QED
      BY <1>1, <2>1, FS_RemoveElement
  <1>3. bad = {}
    <2>1. SUFFICES ASSUME bad # {} PROVE FALSE
      OBVIOUS
    <2>2. PICK k \in bad : \A j \in bad : k <= j
      BY <2>1, LeastNatural
    <2>3. CASE k = 0
      <3> DEFINE g == [s \in Small(0) |-> 0]
      <3>1. \A s \in Small(0) : s = {}
        BY <1>1
      <3>2. UpTo(0, g)
        <4> HIDE DEF Small
        <4>1. \A s \in Small(0) : g[s] = Step(g, s)
          BY <3>1
        <4>2. g = [s \in Small(0) |-> g[s]]
          OBVIOUS
        <4> HIDE DEF g, Step
        <4>3. QED
          BY <4>1, <4>2
      <3>3. QED
        BY <2>2, <2>3, <3>2
    <2>4. CASE k # 0
      <3>1. k - 1 \in Nat /\ k - 1 \notin bad /\ k \in Nat
        <4> HIDE DEF UpTo
        <4>1. QED
          BY <2>2, <2>4
      <3>2. PICK f : UpTo(k - 1, f)
        BY <3>1
      <3> DEFINE g == [s \in Small(k) |-> IF s \in Small(k - 1) THEN f[s] ELSE Step(f, s)]
      <3>3. \A s \in Small(k - 1) : f[s] = Step(f, s)
        BY <3>2
      <3>4. Small(k - 1) \subseteq Small(k)
        BY <1>1, <3>1
      <3>5. ASSUME NEW s \in Small(k), s # {}
            PROVE  s \ {Pick(s)} \in Small(k - 1)
        BY <1>1, <1>2, <3>1, <3>5
      <3>6. ASSUME NEW s \in Small(k - 1) PROVE g[s] = f[s]
        BY <3>4, <3>6
      <3>7. ASSUME NEW s \in Small(k) PROVE g[s] = Step(f, s)
        BY <3>3, <3>7
      <3> HIDE DEF Small
      <3>8. ASSUME NEW s \in Small(k) PROVE Step(f, s) = Step(g, s)
        <4> HIDE DEF g
        <4>1. s # {} => g[s \ {Pick(s)}] = f[s \ {Pick(s)}]
          BY <3>5, <3>6, <3>8
        <4>2. QED
          BY <4>1
      <3>9. UpTo(k, g)
        <4>1. g = [s \in Small(k) |-> g[s]]
          OBVIOUS
        <4> HIDE DEF g, Step
        <4>2. QED
          BY <3>7, <3>8, <4>1
      <3>10. QED
        BY <2>2, <3>9
    <2>5. QED
      BY <2>3, <2>4
  <1>4. PICK g : UpTo(Cardinality(S), g)
    BY <1>1, <1>3
  <1>5. Small(Cardinality(S)) = SUBSET S
    BY <1>1
  <1>6. QED
    BY <1>4, <1>5 DEF Adds

\* A sum is a natural number, and any element can be taken first.
LEMMA SumTakesAny ==
  ASSUME NEW S, IsFiniteSet(S), NEW w, NEW g, Adds(w, S, g),
         \A i \in S : w[i] \in Nat
  PROVE  \A T \in SUBSET S : /\ g[T] \in Nat
                             /\ T = {} => g[T] = 0
                             /\ \A x \in T : g[T] = w[x] + g[T \ {x}]
  <1> DEFINE Good(T) == /\ g[T] \in Nat
                        /\ T = {} => g[T] = 0
                        /\ \A x \in T : g[T] = w[x] + g[T \ {x}]
             bad == {k \in Nat : \E T \in SUBSET S : Cardinality(T) = k /\ ~Good(T)}
  <1>1. \A s \in SUBSET S : /\ IsFiniteSet(s) /\ Cardinality(s) \in Nat
    BY FS_Subset, FS_CardinalityType
  <1>2. SUFFICES ASSUME bad # {} PROVE FALSE
    BY <1>1
  <1>3. PICK k \in bad : \A j \in bad : k <= j
    BY <1>2, LeastNatural
  <1>4. PICK T \in SUBSET S : Cardinality(T) = k /\ ~Good(T)
    BY <1>3
  <1>5. ASSUME NEW U \in SUBSET T, U # T PROVE Good(U)
    <2>1. U \in SUBSET S /\ Cardinality(U) <= k /\ Cardinality(U) # k /\ k \in Nat
      BY <1>1, <1>4, <1>5, FS_Subset
    <2>2. Cardinality(U) \in Nat /\ Cardinality(U) \notin bad
      BY <1>1, <1>3, <2>1
    <2> HIDE DEF Good
    <2>3. QED
      BY <2>1, <2>2
  <1>6. g[T] = IF T = {} THEN 0 ELSE w[Pick(T)] + g[T \ {Pick(T)}]
    BY DEF Adds
  <1>7. CASE T = {}
    BY <1>4, <1>6, <1>7
  <1>8. CASE T # {}
    <2> DEFINE p == Pick(T)
    <2>1. p \in T
      BY <1>8 DEF Pick
    <2>2. g[T] = w[p] + g[T \ {p}]
      BY <1>6, <1>8
    <2> HIDE DEF p
    <2>3. Good(T \ {p})
      BY <1>5, <2>1
    <2>4. g[T \ {p}] \in Nat /\ \A x \in T : w[x] \in Nat
      BY <2>3
    <2>5. ASSUME NEW x \in T, x # p
          PROVE  g[T] = w[x] + g[T \ {x}]
      <3>1. Good(T \ {x}) /\ Good((T \ {p}) \ {x})
        BY <1>5, <2>1, <2>5
      <3>2. g[T \ {p}] = w[x] + g[(T \ {p}) \ {x}]
        BY <2>3, <2>5
      <3>3. g[T \ {x}] = w[p] + g[(T \ {x}) \ {p}]
        BY <2>1, <2>5, <3>1
      <3>4. g[(T \ {x}) \ {p}] = g[(T \ {p}) \ {x}]
        <4>1. (T \ {x}) \ {p} = (T \ {p}) \ {x}
          OBVIOUS
        <4>2. QED
          BY <4>1
      <3>5. g[(T \ {p}) \ {x}] \in Nat /\ w[x] \in Nat /\ w[p] \in Nat
        BY <2>1, <2>4, <3>1
      <3> HIDE DEF Good
      <3>6. QED
        BY ONLY <2>2, <3>2, <3>3, <3>4, <3>5
    <2>6. g[T] \in Nat
      BY <2>1, <2>2, <2>4
    <2>7. Good(T)
      BY <1>8, <2>2, <2>5, <2>6
    <2>8. QED
      BY <1>4, <2>7
  <1>9. QED
    BY <1>7, <1>8

\* Sums grow with the weights.
LEMMA SumsOfWeights ==
  ASSUME NEW S, NEW T, IsFiniteSet(S), IsFiniteSet(T), NEW w, NEW v, NEW g, NEW h,
         Adds(w, S, g), Adds(v, T, h),
         \A i \in S : w[i] \in Nat, \A i \in T : v[i] \in Nat,
         \A i \in S \cap T : w[i] <= v[i]
  PROVE  \A U \in SUBSET (S \cap T) : g[U] <= h[U]
  <1> DEFINE bad == {k \in Nat : \E U \in SUBSET (S \cap T) :
                                   Cardinality(U) = k /\ ~(g[U] <= h[U])}
  <1>1. \A U \in SUBSET (S \cap T) : IsFiniteSet(U) /\ Cardinality(U) \in Nat
    BY FS_Subset, FS_CardinalityType
  <1>2. \A U \in SUBSET S : /\ g[U] \in Nat
                            /\ U = {} => g[U] = 0
                            /\ \A x \in U : g[U] = w[x] + g[U \ {x}]
    BY SumTakesAny
  <1>3. \A U \in SUBSET T : /\ h[U] \in Nat
                            /\ U = {} => h[U] = 0
                            /\ \A x \in U : h[U] = v[x] + h[U \ {x}]
    BY SumTakesAny
  <1>4. SUFFICES ASSUME bad # {} PROVE FALSE
    BY <1>1
  <1>5. PICK k \in bad : \A j \in bad : k <= j
    BY <1>4, LeastNatural
  <1>6. PICK U \in SUBSET (S \cap T) : Cardinality(U) = k /\ ~(g[U] <= h[U])
    BY <1>5
  <1>7. PICK x \in U : TRUE
    <2>1. g[{}] = 0 /\ h[{}] = 0
      <3>1. {} \in SUBSET S /\ {} \in SUBSET T
        OBVIOUS
      <3>2. QED
        BY ONLY <1>2, <1>3, <3>1
    <2>2. U # {}
      BY <1>6, <2>1
    <2>3. QED
      BY <2>2
  <1>8. Cardinality(U \ {x}) = k - 1 /\ k - 1 \in Nat /\ k \in Nat
    <2>1. IsFiniteSet(U) /\ U \ {x} \in SUBSET (S \cap T)
      BY <1>1
    <2>2. Cardinality(U \ {x}) = k - 1
      BY <1>6, <1>7, <2>1, FS_RemoveElement
    <2>3. Cardinality(U \ {x}) \in Nat
      BY <1>1, <2>1
    <2>4. QED
      BY <2>2, <2>3
  <1>9. g[U \ {x}] <= h[U \ {x}]
    BY <1>5, <1>8
  <1>10. g[U] = w[x] + g[U \ {x}] /\ h[U] = v[x] + h[U \ {x}]
    <2>1. U \in SUBSET S /\ U \in SUBSET T /\ x \in U
      BY <1>7
    <2>2. QED
      BY <1>2, <1>3, <2>1
  <1>11. /\ g[U \ {x}] \in Nat /\ h[U \ {x}] \in Nat
         /\ w[x] \in Nat /\ v[x] \in Nat /\ w[x] <= v[x]
    <2>1. U \ {x} \in SUBSET S /\ U \ {x} \in SUBSET T /\ x \in S \cap T
      BY <1>7
    <2>2. QED
      BY <1>2, <1>3, <2>1
  <1>12. QED
    BY <1>6, <1>9, <1>10, <1>11

\* Sums grow with the set.
LEMMA SumsOfSets ==
  ASSUME NEW S, NEW T, IsFiniteSet(T), S \subseteq T, NEW v, NEW h,
         Adds(v, T, h), \A i \in T : v[i] \in Nat
  PROVE  h[S] <= h[T]
  <1> DEFINE bad == {k \in Nat : \E U \in SUBSET T :
                                   S \subseteq U /\ Cardinality(U) = k /\ ~(h[S] <= h[U])}
  <1>1. \A U \in SUBSET T : IsFiniteSet(U) /\ Cardinality(U) \in Nat
    BY FS_Subset, FS_CardinalityType
  <1>2. \A U \in SUBSET T : h[U] \in Nat /\ \A x \in U : h[U] = v[x] + h[U \ {x}]
    BY SumTakesAny
  <1>3. SUFFICES ASSUME bad # {} PROVE FALSE
    BY <1>1
  <1>4. PICK k \in bad : \A j \in bad : k <= j
    BY <1>3, LeastNatural
  <1>5. PICK U \in SUBSET T : S \subseteq U /\ Cardinality(U) = k /\ ~(h[S] <= h[U])
    BY <1>4
  <1>6. PICK x \in U : x \notin S
    <2>1. h[S] \in Nat
      BY <1>2
    <2>2. U # S
      BY <1>5, <2>1
    <2>3. QED
      BY <1>5, <2>2
  <1>7. Cardinality(U \ {x}) = k - 1 /\ k - 1 \in Nat /\ k \in Nat
    <2>1. IsFiniteSet(U) /\ U \ {x} \in SUBSET T
      BY <1>1
    <2>2. Cardinality(U \ {x}) = k - 1
      BY <1>5, <1>6, <2>1, FS_RemoveElement
    <2>3. Cardinality(U \ {x}) \in Nat
      BY <1>1, <2>1
    <2>4. QED
      BY <2>2, <2>3
  <1>8. h[S] <= h[U \ {x}]
    BY <1>4, <1>5, <1>6, <1>7
  <1>9. h[U] = v[x] + h[U \ {x}]
    BY <1>2, <1>6
  <1>10. h[S] \in Nat /\ h[U \ {x}] \in Nat /\ v[x] \in Nat
    BY <1>2, <1>6
  <1>11. QED
    BY <1>5, <1>8, <1>9, <1>10

\* The exposure of a set of rows is such a sum.
LEMMA ExposureAdds ==
  ASSUME NEW r, NEW S, IsFiniteSet(S)
  PROVE  \E g : Adds([i \in S |-> Spent(r[i])], S, g) /\ ExposureIn(r, S) = g[S]
  <1> DEFINE w == [i \in S |-> Spent(r[i])]
             Sum(g) == g = [s \in SUBSET S |->
                          IF s = {} THEN 0
                          ELSE Spent(r[Pick(s)]) + g[s \ {Pick(s)}]]
             f == CHOOSE g : Sum(g)
  <1>1. ExposureIn(r, S) = f[S]
    BY DEF ExposureIn, MapThenSumSet, MapThenFoldSet, Pick
  <1>2. ASSUME NEW g PROVE Sum(g) <=> Adds(w, S, g)
    <2>1. \A s \in SUBSET S : s # {} => w[Pick(s)] = Spent(r[Pick(s)])
      <3>1. \A s \in SUBSET S : s # {} => Pick(s) \in S
        BY DEF Pick
      <3>2. QED
        BY <3>1
    <2> HIDE DEF w
    <2>2. [s \in SUBSET S |-> IF s = {} THEN 0 ELSE Spent(r[Pick(s)]) + g[s \ {Pick(s)}]]
          = [s \in SUBSET S |-> IF s = {} THEN 0 ELSE w[Pick(s)] + g[s \ {Pick(s)}]]
      BY <2>1
    <2>3. QED
      BY <2>2 DEF Adds
  <1>3. \E g : Sum(g)
    BY <1>2, SumsExist
  <1>4. Sum(f)
    BY <1>3
  <1> HIDE DEF f, w, Sum
  <1>5. Adds(w, S, f)
    BY <1>2, <1>4
  <1>6. QED
    BY <1>1, <1>5 DEF w

\* Exposure grows with the rows, and a new row adds what it reserves.
LEMMA ExposureGrows ==
  ASSUME NEW q, NEW r, NEW S, NEW T, IsFiniteSet(T), S \subseteq T,
         \A i \in S : Spent(q[i]) \in Nat /\ Spent(q[i]) <= Spent(r[i]),
         \A i \in T : Spent(r[i]) \in Nat
  PROVE  ExposureIn(q, S) \in Nat /\ ExposureIn(r, T) \in Nat /\ ExposureIn(q, S) <= ExposureIn(r, T)
  <1> DEFINE w == [i \in S |-> Spent(q[i])]
             v == [i \in T |-> Spent(r[i])]
  <1>1. IsFiniteSet(S)
    BY FS_Subset
  <1>2. PICK g : Adds(w, S, g) /\ ExposureIn(q, S) = g[S]
    BY <1>1, ExposureAdds
  <1>3. PICK h : Adds(v, T, h) /\ ExposureIn(r, T) = h[T]
    BY ExposureAdds
  <1>4. (\A i \in S : w[i] \in Nat /\ w[i] <= v[i]) /\ \A i \in T : v[i] \in Nat
    OBVIOUS
  <1> HIDE DEF w, v
  <1>5. g[S] <= h[S]
    <2>1. S \cap T = S
      OBVIOUS
    <2>2. QED
      BY <1>1, <1>2, <1>3, <1>4, <2>1, SumsOfWeights
  <1>6. h[S] <= h[T]
    BY <1>3, <1>4, SumsOfSets
  <1>7. g[S] \in Nat /\ h[S] \in Nat /\ h[T] \in Nat
    BY <1>1, <1>2, <1>3, <1>4, SumTakesAny
  <1>8. QED
    BY <1>2, <1>3, <1>5, <1>6, <1>7

LEMMA ExposureOfMore ==
  ASSUME NEW r, NEW S, NEW x, IsFiniteSet(S), x \notin S,
         \A i \in S \cup {x} : Spent(r[i]) \in Nat
  PROVE  ExposureIn(r, S \cup {x}) = Spent(r[x]) + ExposureIn(r, S)
  <1> DEFINE T == S \cup {x}
             v == [i \in T |-> Spent(r[i])]
             w == [i \in S |-> Spent(r[i])]
  <1>1. IsFiniteSet(T) /\ S \subseteq T /\ T \ {x} = S /\ x \in T
    BY FS_AddElement
  <1>2. PICK g : Adds(w, S, g) /\ ExposureIn(r, S) = g[S]
    BY ExposureAdds
  <1>3. PICK h : Adds(v, T, h) /\ ExposureIn(r, T) = h[T]
    BY <1>1, ExposureAdds
  <1>4. /\ \A i \in S : w[i] \in Nat /\ w[i] = v[i]
        /\ \A i \in T : v[i] \in Nat
        /\ v[x] = Spent(r[x])
    OBVIOUS
  <1> HIDE DEF w, v, T
  <1>5. h[T] = v[x] + h[S]
    <2>1. \A U \in SUBSET T : /\ h[U] \in Nat
                              /\ U = {} => h[U] = 0
                              /\ \A y \in U : h[U] = v[y] + h[U \ {y}]
      BY <1>1, <1>3, <1>4, SumTakesAny
    <2>2. T \in SUBSET T
      OBVIOUS
    <2>3. h[T] = v[x] + h[T \ {x}]
      BY <1>1, <2>1, <2>2
    <2>4. QED
      BY <1>1, <2>3
  <1>6. h[S] = g[S]
    <2>1. S \cap T = S /\ T \cap S = S
      BY <1>1
    <2>2. \A i \in S : w[i] <= v[i] /\ v[i] <= w[i]
      BY <1>1, <1>4
    <2>3. g[S] <= h[S] /\ h[S] <= g[S]
      BY <1>1, <1>2, <1>3, <1>4, <2>1, <2>2, SumsOfWeights
    <2>4. g[S] \in Nat /\ h[S] \in Nat
      BY <1>1, <1>2, <1>3, <1>4, SumTakesAny
    <2>5. QED
      BY <2>3, <2>4
  <1>7. QED
    BY <1>1, <1>2, <1>3, <1>4, <1>5, <1>6 DEF T

\* A step lowers what rows count for, or is one reservation.
SpendsLess ==
    /\ DOMAIN rows' = DOMAIN rows
    /\ \A i \in DOMAIN rows :
          /\ rows'[i].account = rows[i].account /\ rows'[i].day = rows[i].day
          /\ Spent(rows'[i]) <= Spent(rows[i])

SpendInv == IsFiniteSet(DOMAIN rows) /\ ExposureBounded

\* Rows of an account on one day
RowsOn(r, a, d) == {i \in DOMAIN r : r[i].account = a /\ r[i].day = d}

LEMMA SpentNatural ==
  ASSUME NEW r, r \in [DOMAIN r -> Row]
  PROVE  \A i \in DOMAIN r : Spent(r[i]) \in Nat
  <1>1. ASSUME NEW i \in DOMAIN r PROVE Spent(r[i]) \in Nat
    <2>1. r[i] \in Row
      OBVIOUS
    <2>2. r[i].cost \in Nat /\ r[i].reserved \in Nat
      BY <2>1, AllocationAssumption DEF Row
    <2>3. QED
      BY <2>2 DEF Spent
  <1>2. QED
    BY <1>1

LEMMA ExposureBoundedIn ==
  /\ ExposureBounded <=>
        /\ ExposureIn(rows, DOMAIN rows) <= Amount
        /\ \A a \in Accounts, d \in 0..MaxDay : ExposureIn(rows, RowsOn(rows, a, d)) <= DailyLimit
  /\ ExposureBounded' <=>
        /\ ExposureIn(rows', DOMAIN rows') <= Amount
        /\ \A a \in Accounts, d \in 0..MaxDay : ExposureIn(rows', RowsOn(rows', a, d)) <= DailyLimit
  BY DEF ExposureBounded, TotalExposure, Exposure, ExposureIn, RowsOn, MapThenSumSet, MapThenFoldSet

\* Every step does one of the two.
LEMMA StepSpends ==
  ASSUME IInv, [Next]_vars
  PROVE  \/ SpendsLess
         \/ \E c \in Calls : /\ Reservable(Id[c], Account[c], Key[c], Price[c])
                             /\ Insert(Id[c], Account[c], Key[c], Price[c])
  <1>1. RowsType /\ BrokerType /\ LedgerInv
    BY DEF IInv, BrokerType, RowsType
  <1>2. \A i \in DOMAIN rows : rows[i] \in Row /\ Spent(rows[i]) \in Nat
    BY <1>1, SpentNatural DEF RowsType
  <1>3. ASSUME rows' = rows PROVE SpendsLess
    BY <1>2, <1>3 DEF SpendsLess
  <1>4. ASSUME NEW i \in DOMAIN rows, NEW s \in States \ {"settled"},
               rows[i].state # "settled", rows' = SetState(i, s)
        PROVE  SpendsLess
    <2>1. /\ DOMAIN rows' = DOMAIN rows
          /\ rows'[i] = [rows[i] EXCEPT !.state = s]
          /\ \A j \in DOMAIN rows \ {i} : rows'[j] = rows[j]
      BY <1>1, <1>4 DEF SetState, RowsType
    <2>2. /\ rows'[i].account = rows[i].account /\ rows'[i].day = rows[i].day
          /\ rows'[i].state = s /\ rows'[i].reserved = rows[i].reserved
      BY <1>2, <2>1 DEF Row
    <2>3. Spent(rows'[i]) = Spent(rows[i])
      BY <1>4, <2>2 DEF Spent
    <2>4. \A j \in DOMAIN rows : Spent(rows'[j]) = Spent(rows[j])
      BY <2>1, <2>3
    <2>5. \A j \in DOMAIN rows : Spent(rows'[j]) <= Spent(rows[j])
      BY <1>2, <2>4
    <2>6. QED
      BY <2>1, <2>2, <2>5 DEF SpendsLess
  <1>5. CASE rows' = AllUnknown
    <2>1. /\ DOMAIN rows' = DOMAIN rows
          /\ \A j \in DOMAIN rows : rows'[j] = IF j \in Outstanding
                                       THEN [rows[j] EXCEPT !.state = "unknown"] ELSE rows[j]
      BY <1>5 DEF AllUnknown
    <2>2. ASSUME NEW j \in DOMAIN rows
          PROVE  /\ rows'[j].account = rows[j].account /\ rows'[j].day = rows[j].day
                 /\ Spent(rows'[j]) = Spent(rows[j])
      <3>1. CASE j \in Outstanding
        <4>1. rows'[j] = [rows[j] EXCEPT !.state = "unknown"] /\ rows[j].state # "settled"
          BY <2>1, <3>1 DEF Outstanding
        <4>2. QED
          BY <1>2, <4>1 DEF Row, Spent
      <3>2. CASE j \notin Outstanding
        BY <2>1, <3>2
      <3>3. QED
        BY <3>1, <3>2
    <2>3. QED
      BY <1>2, <2>1, <2>2 DEF SpendsLess
  <1>6. ASSUME NEW c \in Calls, Reserve(c)
        PROVE  rows' = rows \/ (/\ Reservable(Id[c], Account[c], Key[c], Price[c])
                                /\ Insert(Id[c], Account[c], Key[c], Price[c]))
    BY <1>6 DEF Reserve, ledger
  <1>7. ASSUME NEW c \in Calls, DispatchCall(c) \/ MarkUnknown(c)
        PROVE  SpendsLess
    <2>1. pc[c] \in Mid
      BY <1>7 DEF DispatchCall, MarkUnknown, Goes, Mid
    <2>2. Id[c] \in DOMAIN rows
      BY <1>1, <2>1 DEF LedgerInv, CallInv, Owns, RowOf
    <2>3. \/ rows' = rows
          \/ /\ rows[Id[c]].state # "settled"
             /\ rows' = SetState(Id[c], "dispatched") \/ rows' = SetState(Id[c], "unknown")
      BY <1>7 DEF DispatchCall, MarkUnknown, Dispatch, Unknown, ledger
    <2>4. {"dispatched", "unknown"} \subseteq States \ {"settled"}
      BY DEF States
    <2>5. QED
      BY <1>3, <1>4, <2>2, <2>3, <2>4
  <1>8. ASSUME NEW c \in Calls, SettleCall(c)
        PROVE  SpendsLess
    <2>1. pc[c] = "settle"
      BY <1>8 DEF SettleCall, Goes
    <2>2. RowOf(c) /\ Sent(c) /\ reported[c] = charged[c] /\ rows[Id[c]].state # "settled"
      BY <1>1, <2>1 DEF LedgerInv, CallInv, Owns, Mid
    <2>3. reported[c] \in Nat /\ Id[c] \in DOMAIN rows
      BY <1>1, <2>2, BrokerAssumption DEF BrokerType, Sent, RowOf
    <2>4. \/ rows' = rows
          \/ /\ ~(reported[c] > rows[Id[c]].reserved)
             /\ rows' = [rows EXCEPT ![Id[c]].state = "settled", ![Id[c]].cost = reported[c]]
      BY <1>8 DEF SettleCall, Settle, ledger
    <2>5. CASE rows' # rows
      <3>1. /\ DOMAIN rows' = DOMAIN rows
            /\ rows'[Id[c]] = [rows[Id[c]] EXCEPT !.state = "settled", !.cost = reported[c]]
            /\ \A j \in DOMAIN rows \ {Id[c]} : rows'[j] = rows[j]
        BY <1>1, <2>3, <2>4, <2>5 DEF RowsType
      <3>2. /\ rows'[Id[c]].account = rows[Id[c]].account /\ rows'[Id[c]].day = rows[Id[c]].day
            /\ rows'[Id[c]].state = "settled" /\ rows'[Id[c]].cost = reported[c]
        BY <1>2, <2>3, <3>1 DEF Row
      <3>3. rows[Id[c]].reserved \in Nat /\ reported[c] <= rows[Id[c]].reserved
        BY <1>2, <2>3, <2>4, <2>5, AllocationAssumption DEF Row
      <3>4. Spent(rows'[Id[c]]) = reported[c] /\ Spent(rows[Id[c]]) = rows[Id[c]].reserved
        BY <2>2, <3>2 DEF Spent
      <3>5. \A j \in DOMAIN rows \ {Id[c]} : Spent(rows'[j]) = Spent(rows[j])
        BY <3>1
      <3>6. \A j \in DOMAIN rows : Spent(rows'[j]) <= Spent(rows[j])
        BY <1>2, <3>3, <3>4, <3>5
      <3>7. QED
        BY <3>1, <3>2, <3>6 DEF SpendsLess
    <2>6. QED
      BY <1>3, <2>5
  <1>9. ASSUME NEW c \in Calls, Arrive(c) \/ Admit(c) \/ LeaveQueue(c) \/ Enqueue(c) \/ Proceed(c)
                  \/ Reauthorize(c) \/ StartOperation(c) \/ Send(c) \/ Relay(c) \/ Release(c)
        PROVE  rows' = rows
    BY <1>9 DEF Arrive, Admit, LeaveQueue, Enqueue, Proceed, Reauthorize, StartOperation, Send,
                Relay, Release, ledger
  <1>10. ASSUME \/ \E a \in Accounts : Revoke(a)
                \/ Midnight
                \/ \E p \in Stops : BeginStop(p)
                \/ PauseRun \/ Join \/ WriteReceipt \/ Exit \/ Start
         PROVE  rows' = rows \/ rows' = AllUnknown
    BY <1>10 DEF Revoke, Midnight, BeginStop, PauseRun, Join, WriteReceipt, Exit, Start, ledger,
             Pause, Checkpoint, OpenRun
  <1>11. CASE UNCHANGED vars
    BY <1>3, <1>11 DEF vars
  <1>12. CASE Next
    BY <1>3, <1>5, <1>6, <1>7, <1>8, <1>9, <1>10, <1>12 DEF Next, Handle
  <1>13. QED
    BY <1>11, <1>12

\* What was allowed stays allowed when every row counts for no more.
LEMMA LessSpends ==
  ASSUME RowsType, RowsType', SpendInv, SpendsLess
  PROVE  SpendInv'
  <1>1. /\ \A i \in DOMAIN rows : Spent(rows[i]) \in Nat /\ Spent(rows'[i]) \in Nat
                                  /\ Spent(rows'[i]) <= Spent(rows[i])
        /\ DOMAIN rows' = DOMAIN rows /\ IsFiniteSet(DOMAIN rows)
    <2>1. \A i \in DOMAIN rows : Spent(rows[i]) \in Nat
      BY SpentNatural DEF RowsType
    <2>2. \A i \in DOMAIN rows' : Spent(rows'[i]) \in Nat
      BY SpentNatural DEF RowsType
    <2>3. QED
      BY <2>1, <2>2 DEF SpendsLess, SpendInv
  <1>2. /\ ExposureIn(rows, DOMAIN rows) <= Amount
        /\ \A a \in Accounts, d \in 0..MaxDay : ExposureIn(rows, RowsOn(rows, a, d)) <= DailyLimit
    BY ExposureBoundedIn DEF SpendInv
  <1>3. ASSUME NEW S, S \subseteq DOMAIN rows
        PROVE  /\ ExposureIn(rows, S) \in Nat /\ ExposureIn(rows', S) \in Nat
               /\ ExposureIn(rows', S) <= ExposureIn(rows, S)
    <2>1. IsFiniteSet(S)
      BY <1>1, <1>3, FS_Subset
    <2>2. \A i \in S : Spent(rows[i]) \in Nat /\ Spent(rows'[i]) \in Nat
                       /\ Spent(rows'[i]) <= Spent(rows[i])
      BY <1>1, <1>3
    <2>3. QED
      BY <2>1, <2>2, ExposureGrows
  <1>4. \A a, d : RowsOn(rows', a, d) = RowsOn(rows, a, d) /\ RowsOn(rows, a, d) \subseteq DOMAIN rows
    BY <1>1 DEF SpendsLess, RowsOn
  <1>5. Amount \in Nat /\ DailyLimit \in Nat
    BY AllocationAssumption
  <1>6. ExposureIn(rows', DOMAIN rows') <= Amount
    <2>1. /\ ExposureIn(rows, DOMAIN rows) \in Nat /\ ExposureIn(rows', DOMAIN rows) \in Nat
          /\ ExposureIn(rows', DOMAIN rows) <= ExposureIn(rows, DOMAIN rows)
      BY <1>3
    <2>2. QED
      BY <1>1, <1>2, <1>5, <2>1
  <1>7. ASSUME NEW a \in Accounts, NEW d \in 0..MaxDay
        PROVE  ExposureIn(rows', RowsOn(rows', a, d)) <= DailyLimit
    <2> DEFINE S == RowsOn(rows, a, d)
    <2>1. /\ ExposureIn(rows, S) \in Nat /\ ExposureIn(rows', S) \in Nat
          /\ ExposureIn(rows', S) <= ExposureIn(rows, S)
      BY <1>3, <1>4
    <2>2. ExposureIn(rows, S) <= DailyLimit /\ RowsOn(rows', a, d) = S
      BY <1>2, <1>4
    <2> HIDE DEF S
    <2>3. QED
      BY <1>5, <2>1, <2>2
  <1>8. QED
    BY <1>1, <1>6, <1>7, ExposureBoundedIn DEF SpendInv

\* A reservation adds its amount to the total and to the days its stamp can
\* name, each of which had room for it.
LEMMA ReserveSpends ==
  ASSUME RowsType, RowsType', SpendInv, day \in Nat, NEW c \in Calls,
         Reservable(Id[c], Account[c], Key[c], Price[c]),
         Insert(Id[c], Account[c], Key[c], Price[c])
  PROVE  SpendInv'
  <1> DEFINE i == Id[c]
             a == Account[c]
  <1>1. /\ DOMAIN rows' = DOMAIN rows \cup {i} /\ i \notin DOMAIN rows
        /\ \A j \in DOMAIN rows : rows'[j] = rows[j]
        /\ rows'[i] = [account |-> a, key |-> Key[c], reserved |-> Price[c],
                       state |-> "reserved", cost |-> 0, day |-> day']
    BY DEF Insert, Reservable
  <1>2. rows'[i].account = a /\ rows'[i].day = day' /\ Spent(rows'[i]) = Price[c]
    BY <1>1 DEF Spent
  <1>3. Price[c] \in Nat /\ a \in Accounts /\ Amount \in Nat /\ DailyLimit \in Nat /\ day' >= day
        /\ day' \in Nat
    BY BrokerAssumption, AllocationAssumption DEF Insert
  <1> DEFINE late == {j \in DOMAIN rows : rows[j].account = a /\ rows[j].day >= day}
  <1>4. /\ Price[c] <= Amount - ExposureIn(rows, DOMAIN rows)
        /\ Price[c] <= DailyLimit - ExposureIn(rows, late)
    BY DEF Reservable, WithinBudget, TotalExposure, DailyExposure, Exposure, ExposureIn
  <1>5. /\ ExposureIn(rows, DOMAIN rows) <= Amount
        /\ \A b \in Accounts, d \in 0..MaxDay : ExposureIn(rows, RowsOn(rows, b, d)) <= DailyLimit
    BY ExposureBoundedIn DEF SpendInv
  <1>6. IsFiniteSet(DOMAIN rows) /\ \A j \in DOMAIN rows : Spent(rows[j]) \in Nat
    BY SpentNatural DEF SpendInv, RowsType
  <1>7. ASSUME NEW S, S \subseteq DOMAIN rows
        PROVE  /\ IsFiniteSet(S) /\ ExposureIn(rows, S) \in Nat /\ ExposureIn(rows', S) \in Nat
               /\ ExposureIn(rows', S) <= ExposureIn(rows, S)
               /\ ExposureIn(rows', S \cup {i}) = Price[c] + ExposureIn(rows', S)
    <2>1. IsFiniteSet(S)
      BY <1>6, <1>7, FS_Subset
    <2>2. \A j \in S : Spent(rows[j]) \in Nat /\ Spent(rows'[j]) \in Nat
                       /\ Spent(rows'[j]) <= Spent(rows[j])
      BY <1>1, <1>6, <1>7
    <2>3. i \notin S /\ \A j \in S \cup {i} : Spent(rows'[j]) \in Nat
      BY <1>1, <1>2, <1>3, <1>7, <2>2
    <2>4. ExposureIn(rows', S \cup {i}) = Spent(rows'[i]) + ExposureIn(rows', S)
      BY <2>1, <2>3, ExposureOfMore
    <2>5. QED
      BY <1>2, <2>1, <2>2, <2>4, ExposureGrows
  <1>8. ExposureIn(rows', DOMAIN rows') <= Amount
    <2>1. /\ ExposureIn(rows, DOMAIN rows) \in Nat /\ ExposureIn(rows', DOMAIN rows) \in Nat
          /\ ExposureIn(rows', DOMAIN rows) <= ExposureIn(rows, DOMAIN rows)
          /\ ExposureIn(rows', DOMAIN rows \cup {i}) = Price[c] + ExposureIn(rows', DOMAIN rows)
      BY <1>7
    <2>2. QED
      BY <1>1, <1>3, <1>4, <2>1
  <1>9. ASSUME NEW b \in Accounts, NEW d \in 0..MaxDay
        PROVE  ExposureIn(rows', RowsOn(rows', b, d)) <= DailyLimit
    <2> DEFINE S == RowsOn(rows, b, d)
    <2>1. S \subseteq DOMAIN rows
      BY DEF RowsOn
    <2>2. /\ ExposureIn(rows, S) \in Nat /\ ExposureIn(rows', S) \in Nat
          /\ ExposureIn(rows', S) <= ExposureIn(rows, S)
          /\ ExposureIn(rows', S \cup {i}) = Price[c] + ExposureIn(rows', S)
      BY <1>7, <2>1
    <2>3. ExposureIn(rows, S) <= DailyLimit
      BY <1>5
    <2>4. CASE b = a /\ d = day'
      <3>1. RowsOn(rows', b, d) = S \cup {i}
        BY <1>1, <1>2, <2>4 DEF RowsOn
      <3>2. S \subseteq late /\ late \subseteq DOMAIN rows
        BY <1>3, <2>4 DEF RowsOn
      <3>3. IsFiniteSet(late) /\ ExposureIn(rows, late) \in Nat
        BY <1>7, <3>2
      <3>4. \A j \in late : Spent(rows[j]) \in Nat
        BY <1>6, <3>2
      <3>5. \A j \in S : Spent(rows[j]) \in Nat /\ Spent(rows[j]) <= Spent(rows[j])
        BY <3>2, <3>4
      <3> HIDE DEF S, late
      <3>6. ExposureIn(rows, S) <= ExposureIn(rows, late)
        BY <3>2, <3>3, <3>4, <3>5, ExposureGrows
      <3>7. QED
        BY <1>3, <1>4, <2>2, <3>1, <3>3, <3>6
    <2>5. CASE ~(b = a /\ d = day')
      <3>1. RowsOn(rows', b, d) = S
        BY <1>1, <1>2, <2>5 DEF RowsOn
      <3> HIDE DEF S
      <3>2. QED
        BY <1>3, <2>2, <2>3, <3>1
    <2>6. QED
      BY <2>4, <2>5
  <1>10. IsFiniteSet(DOMAIN rows')
    BY <1>1, <1>6, FS_AddElement
  <1>11. QED
    BY <1>8, <1>9, <1>10, ExposureBoundedIn DEF SpendInv

\* Nothing is spent at first.
LEMMA InitSpends == Init => SpendInv
  <1> SUFFICES ASSUME Init PROVE SpendInv
    OBVIOUS
  <1>1. DOMAIN rows = {} /\ IsFiniteSet({})
    BY FS_EmptySet DEF Init, LedgerInit
  <1>2. PICK g : Adds([i \in {} |-> Spent(rows[i])], {}, g) /\ ExposureIn(rows, {}) = g[{}]
    BY <1>1, ExposureAdds
  <1>3. g[{}] = 0
    BY <1>2 DEF Adds
  <1>4. \A a, d : RowsOn(rows, a, d) = {}
    BY <1>1 DEF RowsOn
  <1>5. 0 <= Amount /\ 0 <= DailyLimit
    BY AllocationAssumption
  <1>6. QED
    BY <1>1, <1>2, <1>3, <1>4, <1>5, ExposureBoundedIn DEF SpendInv

\* Reservations and settled costs stay within the signed amount, and within
\* an account's limit on every day, whatever Reserve's second look at the
\* clock, unknown outcomes, refused charges and restarts do.
THEOREM ExposureHolds == Spec => []ExposureBounded
  <1>1. Init => SpendInv
    BY InitSpends
  <1>2. IInv /\ IInv' /\ SpendInv /\ [Next]_vars => SpendInv'
    <2> SUFFICES ASSUME IInv, IInv', SpendInv, [Next]_vars PROVE SpendInv'
      OBVIOUS
    <2>1. RowsType /\ RowsType' /\ day \in Nat
      BY DEF IInv, BrokerType, RowsType
    <2>2. CASE SpendsLess
      BY <2>1, <2>2, LessSpends
    <2>3. ASSUME NEW c \in Calls, Reservable(Id[c], Account[c], Key[c], Price[c]),
                 Insert(Id[c], Account[c], Key[c], Price[c])
          PROVE  SpendInv'
      BY <2>1, <2>3, ReserveSpends
    <2>4. QED
      BY <2>2, <2>3, StepSpends
  <1>3. SpendInv => ExposureBounded
    BY DEF SpendInv
  <1>4. QED
    BY <1>1, <1>2, <1>3, BrokerInvariant, PTL DEF Spec
=============================================================================
