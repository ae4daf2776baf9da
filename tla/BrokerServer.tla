---------------------------- MODULE BrokerServer ----------------------------
(***************************************************************************)
(* The model broker (web_demo/internal/broker): requests of workspaces     *)
(* pass admission, the fair queue, a second authorization, the spending    *)
(* ledger and the provider, while capabilities are revoked, callers leave, *)
(* operators drain the run and the process dies and is started again.      *)
(*                                                                         *)
(* A call is one POST of /v1/chat/completions; a retry is another call     *)
(* with the same account and idempotency key.  The provider is external:   *)
(* it charges something once it has the request, and may or may not say    *)
(* what.                                                                   *)
(***************************************************************************)
EXTENDS RunLedger, SequencesExt

CONSTANTS Calls,
          Id, Account, Key, Price,  \* what each call carries, and its ReserveCost
          MaxActive,      \* accounts in flight, 3 in the code
          MaxPerAccount,  \* waiting calls of an account, 2 in the code
          MaxWaiting,     \* waiting calls, 64 in the code
          MaxAuth,        \* bound on revocations
          MaxLife,        \* bound on exits and starts of the process together
          Stops,          \* TRUE: a Drain may be asked for; FALSE: a Shutdown
          OverCharge,     \* the provider may charge more than was reserved
          NoCost

ASSUME BrokerAssumption ==
    /\ Id \in [Calls -> Ids] /\ Account \in [Calls -> Accounts]
    /\ Key \in [Calls -> IdemKeys]
    /\ Price \in [Calls -> Nat \ {0}]
    /\ {MaxActive, MaxPerAccount, MaxWaiting, MaxAuth} \subseteq Nat
    /\ MaxLife \in Nat \ {0}
    /\ Stops \subseteq BOOLEAN
    /\ OverCharge \in BOOLEAN
    /\ NoCost \notin Nat

VARIABLES
    pc,         \* where the handler of each call is
    claims,     \* the auth version its capability was checked at
    reported,   \* the cost the provider's stream reported
    waiting,    \* Queue.waiting
    active,     \* Queue.active
    granted,    \* waiters whose ready channel is closed
    auth,       \* current auth version of each account
    draining,   \* Server.draining
    stop,       \* what Drain or Shutdown is doing
    pausing,    \* it is a Drain
    life,       \* starts and exits so far; the process is up when odd

\* History
    charged,    \* what the provider charged, NoCost if it never got the request
    leftAt,     \* account's auth version when the call left the queue
    receipt     \* a Drain's receipt has been written

vars == <<rows, paused, day, pc, claims, reported, waiting, active,
          granted, auth, draining, stop, pausing, life, charged, leftAt, receipt>>
queue == <<waiting, active, granted>>
server == <<draining, stop, pausing, life>>
history == <<charged, leftAt, receipt>>

Up == life % 2 = 1

\* Handlers counted by the WaitGroup, from admit to finished().
InFlight == {"admitted", "waiting", "recheck", "reserve", "dispatch", "operation",
             "send", "relay", "settle", "unsettled", "release"}

Queueing == {"admitted", "waiting"}

\* Handlers that hold a queue slot.
Holding == InFlight \ Queueing

Locations == InFlight \cup {"new", "arrived", "done"}

Init ==
    /\ LedgerInit
    /\ pc = [c \in Calls |-> "new"]
    /\ claims = [c \in Calls |-> 0]
    /\ reported = [c \in Calls |-> NoCost]
    /\ waiting = <<>> /\ active = {} /\ granted = {}
    /\ auth = [a \in Accounts |-> 0]
    /\ draining = FALSE /\ stop = "no" /\ pausing = FALSE
    /\ life = 1
    /\ charged = [c \in Calls |-> NoCost]
    /\ leftAt = [c \in Calls |-> 0]
    /\ receipt = FALSE

Goes(c, from, to) == Up /\ pc[c] = from /\ pc' = [pc EXCEPT ![c] = to]

-----------------------------------------------------------------------------
(* The fair queue                                                          *)

\* One turn of schedule's loop: the oldest waiter whose account is idle.
Grant(q) ==
    LET eligible == {i \in 1..Len(q.waiting) : Account[q.waiting[i]] \notin q.active}
    IN IF Cardinality(q.active) >= MaxActive \/ eligible = {} THEN q
       ELSE LET at == Min(eligible) c == q.waiting[at] IN
            [waiting |-> RemoveAt(q.waiting, at),
             active |-> q.active \cup {Account[c]},
             granted |-> q.granted \cup {c}]

\* schedule
Schedule(q) == LET turn[n \in 0..MaxActive] == IF n = 0 THEN q ELSE Grant(turn[n - 1])
               IN turn[MaxActive]

QueueBecomes(q) ==
    /\ waiting' = q.waiting /\ active' = q.active /\ granted' = q.granted

\* Mutant: giving a slot back does not look for a waiter.
ReleaseSlotQuietly(c) ==
    QueueBecomes([waiting |-> waiting, active |-> active \ {Account[c]},
                  granted |-> granted])

\* delete(q.active, account); q.schedule()
ReleaseSlot(c) ==
    QueueBecomes(Schedule([waiting |-> waiting, active |-> active \ {Account[c]},
                           granted |-> granted]))

-----------------------------------------------------------------------------
(* A request                                                               *)

\* Workspace: the capability and the control plane's authority are checked.
Arrive(c) ==
    /\ Goes(c, "new", "arrived")
    /\ claims' = [claims EXCEPT ![c] = auth[Account[c]]]
    /\ UNCHANGED <<reported, auth>>
    /\ UNCHANGED ledger /\ UNCHANGED queue /\ UNCHANGED server /\ UNCHANGED history

\* admit
Admit(c) ==
    /\ Goes(c, "arrived", IF draining THEN "done" ELSE "admitted")
    /\ UNCHANGED <<claims, reported, auth>>
    /\ UNCHANGED ledger /\ UNCHANGED queue /\ UNCHANGED server /\ UNCHANGED history

\* Queue.Acquire up to its select
Enqueue(c) ==
    /\ LET mine == {i \in 1..Len(waiting) : Account[waiting[i]] = Account[c]} IN
       \/ /\ Cardinality(mine) >= MaxPerAccount \/ Len(waiting) >= MaxWaiting
          /\ Goes(c, "admitted", "done")
          /\ UNCHANGED queue
       \/ /\ Cardinality(mine) < MaxPerAccount /\ Len(waiting) < MaxWaiting
          /\ Goes(c, "admitted", "waiting")
          /\ QueueBecomes(Schedule([waiting |-> Append(waiting, c), active |-> active,
                                    granted |-> granted]))
    /\ UNCHANGED <<claims, reported, auth>>
    /\ UNCHANGED ledger /\ UNCHANGED server /\ UNCHANGED history

\* <-w.ready
Proceed(c) ==
    /\ Goes(c, "waiting", "recheck")
    /\ c \in granted
    /\ granted' = granted \ {c}
    /\ leftAt' = [leftAt EXCEPT ![c] = auth[Account[c]]]
    /\ UNCHANGED <<claims, reported, auth, waiting, active, charged, receipt>>
    /\ UNCHANGED ledger /\ UNCHANGED server

\* Mutant: a caller that leaves just as it is granted keeps the slot.
LeaveQueueKeepsSlot(c) ==
    /\ Goes(c, "waiting", "done")
    /\ QueueBecomes([waiting |-> RemoveFirst(waiting, c),
                     active |-> active, granted |-> granted \ {c}])
    /\ UNCHANGED <<claims, reported, auth>>
    /\ UNCHANGED ledger /\ UNCHANGED server /\ UNCHANGED history

\* <-ctx.Done(): the caller left, 120 s are over or stop cancelled the call.
\* select may take this branch although the waiter was granted.
LeaveQueue(c) ==
    /\ Goes(c, "waiting", "done")
    /\ IF c \in granted
       THEN QueueBecomes(Schedule([waiting |-> waiting, active |-> active \ {Account[c]},
                                   granted |-> granted \ {c}]))
       ELSE QueueBecomes(Schedule([waiting |-> RemoveFirst(waiting, c),
                                   active |-> active, granted |-> granted]))
    /\ UNCHANGED <<claims, reported, auth>>
    /\ UNCHANGED ledger /\ UNCHANGED server /\ UNCHANGED history

\* Mutant: the authorization made before the queue is trusted.
ReauthorizeNever(c) ==
    /\ Goes(c, "recheck", "reserve")
    /\ UNCHANGED <<claims, reported, auth>>
    /\ UNCHANGED ledger /\ UNCHANGED queue /\ UNCHANGED server /\ UNCHANGED history

\* authorize again, then the research event; either may fail.
Reauthorize(c) ==
    /\ \/ Goes(c, "recheck", "release")
       \/ auth[Account[c]] = claims[c] /\ Goes(c, "recheck", "reserve")
    /\ UNCHANGED <<claims, reported, auth>>
    /\ UNCHANGED ledger /\ UNCHANGED queue /\ UNCHANGED server /\ UNCHANGED history

\* Run.Reserve: a recorded key or an exhausted budget ends the call, and so
\* does any database error; a failing commit may still be durable.
Reserve(c) ==
    /\ \/ Goes(c, "reserve", "release") /\ UNCHANGED ledger
       \/ /\ Goes(c, "reserve", "dispatch") \/ Goes(c, "reserve", "release")
          /\ Reservable(Id[c], Account[c], Key[c], Price[c])
          /\ Insert(Id[c], Account[c], Key[c], Price[c])
    /\ UNCHANGED <<claims, reported, auth>>
    /\ UNCHANGED queue /\ UNCHANGED server /\ UNCHANGED history

\* Run.Dispatch; from here on the deferred Unknown runs unless settled.
DispatchCall(c) ==
    /\ \/ Goes(c, "dispatch", "operation") /\ Dispatch(Id[c])
       \/ Goes(c, "dispatch", "unsettled") /\ (Dispatch(Id[c]) \/ UNCHANGED ledger)
    /\ UNCHANGED <<claims, reported, auth>>
    /\ UNCHANGED queue /\ UNCHANGED server /\ UNCHANGED history

\* Operations.Set: the workspace's activity lease
StartOperation(c) ==
    /\ Goes(c, "operation", "send") \/ Goes(c, "operation", "unsettled")
    /\ UNCHANGED <<claims, reported, auth>>
    /\ UNCHANGED ledger /\ UNCHANGED queue /\ UNCHANGED server /\ UNCHANGED history

Charges(c) == 0..(IF OverCharge THEN Price[c] + 1 ELSE Price[c])

\* Provider.Send.  On an error, a refusal or a done context the request may
\* or may not have reached the provider.  The caller leaving, /cancel and the
\* authority check that repeats every 5 s end the context, so they show as
\* the failure of this or a later step.
Send(c) ==
    /\ \/ /\ Goes(c, "send", "unsettled")
          /\ UNCHANGED charged
       \/ /\ Goes(c, "send", "relay") \/ Goes(c, "send", "unsettled")
          /\ \E x \in Charges(c) : charged' = [charged EXCEPT ![c] = x]
    /\ UNCHANGED <<claims, reported, auth, leftAt, receipt>>
    /\ UNCHANGED ledger /\ UNCHANGED queue /\ UNCHANGED server

\* Relay: a complete stream with the cost, one without, or a broken one.
Relay(c) ==
    /\ \/ Goes(c, "relay", "settle") /\ reported' = [reported EXCEPT ![c] = charged[c]]
       \/ Goes(c, "relay", "unsettled") /\ UNCHANGED reported
    /\ UNCHANGED <<claims, auth>>
    /\ UNCHANGED ledger /\ UNCHANGED queue /\ UNCHANGED server /\ UNCHANGED history

\* Run.Settle; an error may be reported whether or not it committed.
SettleCall(c) ==
    /\ \/ /\ Goes(c, "settle", "release")
          /\ reported[c] <= rows[Id[c]].reserved
          /\ Settle(Id[c], reported[c])
       \/ /\ Goes(c, "settle", "unsettled")
          /\ Settle(Id[c], reported[c]) \/ UNCHANGED ledger
    /\ UNCHANGED <<claims, reported, auth>>
    /\ UNCHANGED queue /\ UNCHANGED server /\ UNCHANGED history

\* The deferred Run.Unknown, whose error is ignored.
MarkUnknown(c) ==
    /\ Goes(c, "unsettled", "release")
    /\ Unknown(Id[c]) \/ UNCHANGED ledger
    /\ UNCHANGED <<claims, reported, auth>>
    /\ UNCHANGED queue /\ UNCHANGED server /\ UNCHANGED history

\* release() and finished(); the handler's local values are gone with it.
Release(c) ==
    /\ Goes(c, "release", "done")
    /\ ReleaseSlot(c)
    /\ claims' = [claims EXCEPT ![c] = 0]
    /\ leftAt' = [leftAt EXCEPT ![c] = 0]
    /\ reported' = [reported EXCEPT ![c] = NoCost]
    /\ UNCHANGED <<auth, charged, receipt>>
    /\ UNCHANGED ledger /\ UNCHANGED server

\* The control plane disables the account or resets its workspace.
Revoke(a) ==
    /\ auth[a] < MaxAuth
    /\ auth' = [auth EXCEPT ![a] = @ + 1]
    /\ UNCHANGED <<pc, claims, reported>>
    /\ UNCHANGED ledger /\ UNCHANGED queue /\ UNCHANGED server /\ UNCHANGED history

Midnight ==
    /\ day < MaxDay
    /\ day' = day + 1
    /\ UNCHANGED <<rows, paused, pc, claims, reported, auth>>
    /\ UNCHANGED queue /\ UNCHANGED server /\ UNCHANGED history

-----------------------------------------------------------------------------
(* Drain and Shutdown                                                      *)

StopsAt(from, to) == Up /\ stop = from /\ stop' = to

\* stop: admission ends and every pending context is cancelled; what a done
\* context makes fail may fail at any time, see LeaveQueue and Send.
BeginStop(pause) ==
    /\ StopsAt("no", IF pause THEN "pause" ELSE "wait")
    /\ pausing' = pause
    /\ draining' = TRUE
    /\ UNCHANGED <<pc, claims, reported, auth, life>>
    /\ UNCHANGED ledger /\ UNCHANGED queue /\ UNCHANGED history

PauseRun ==
    /\ \/ StopsAt("pause", "wait") /\ Pause
       \/ StopsAt("pause", "no") /\ (Pause \/ UNCHANGED ledger)
    /\ UNCHANGED <<pc, claims, reported, auth, draining, pausing, life>>
    /\ UNCHANGED queue /\ UNCHANGED history

\* Mutant: the checkpoint does not wait for the handlers.
JoinAtOnce ==
    /\ StopsAt("wait", "checkpoint")
    /\ UNCHANGED <<pc, claims, reported, auth, draining, pausing, life>>
    /\ UNCHANGED ledger /\ UNCHANGED queue /\ UNCHANGED history

\* requests.Wait(), or the 30 s are over
Join ==
    /\ \/ StopsAt("wait", "checkpoint") /\ \A c \in Calls : pc[c] \notin InFlight
       \/ StopsAt("wait", "no") /\ \E c \in Calls : pc[c] \in InFlight
    /\ UNCHANGED <<pc, claims, reported, auth, draining, pausing, life>>
    /\ UNCHANGED ledger /\ UNCHANGED queue /\ UNCHANGED history

\* Run.Drain or Run.Checkpoint, then WriteDrainReceipt.
WriteReceipt ==
    /\ StopsAt("checkpoint", "no")
    /\ \/ Checkpoint(pausing) /\ receipt' = (receipt \/ pausing)
       \/ (Checkpoint(pausing) \/ UNCHANGED ledger) /\ UNCHANGED receipt
    /\ UNCHANGED <<pc, claims, reported, auth, draining, pausing, life,
                   charged, leftAt>>
    /\ UNCHANGED queue

-----------------------------------------------------------------------------
(* Process life                                                            *)

\* The process ends, after a Shutdown or by dying.
Exit ==
    /\ Up /\ life < MaxLife
    /\ life' = life + 1
    /\ pc' = [c \in Calls |-> IF pc[c] = "new" THEN "new" ELSE "done"]
    /\ claims' = [c \in Calls |-> 0] /\ leftAt' = [c \in Calls |-> 0]
    /\ reported' = [c \in Calls |-> NoCost]
    /\ waiting' = <<>> /\ active' = {} /\ granted' = {}
    /\ draining' = FALSE /\ stop' = "no" /\ pausing' = FALSE
    /\ UNCHANGED <<auth, charged, receipt>>
    /\ UNCHANGED ledger

\* OpenRun and NewServer
Start ==
    /\ ~Up /\ life < MaxLife
    /\ life' = life + 1
    /\ OpenRun
    /\ UNCHANGED <<pc, claims, reported, auth, draining, stop, pausing>>
    /\ UNCHANGED queue /\ UNCHANGED history

\* A handler's own steps once it is admitted.
Handle(c) ==
    \/ Enqueue(c) \/ Proceed(c) \/ Reauthorize(c) \/ Reserve(c)
    \/ DispatchCall(c) \/ StartOperation(c) \/ Send(c) \/ Relay(c) \/ SettleCall(c)
    \/ MarkUnknown(c) \/ Release(c)

Next ==
    \/ \E c \in Calls : Arrive(c) \/ Admit(c) \/ Handle(c) \/ LeaveQueue(c)
    \/ \E a \in Accounts : Revoke(a)
    \/ Midnight
    \/ \E p \in Stops : BeginStop(p)
    \/ PauseRun \/ Join \/ WriteReceipt
    \/ Exit \/ Start

Spec == Init /\ [][Next]_vars

\* Handlers run.  Nobody is assumed to leave and no timeout to expire.
FairSpec == Spec /\ \A c \in Calls : WF_vars(Handle(c))
-----------------------------------------------------------------------------
(* Properties                                                              *)

Sent(c) == charged[c] # NoCost

\* The types of the variables
TypeOK ==
    /\ LedgerTypeOK
    /\ pc \in [Calls -> Locations]
    /\ claims \in [Calls -> 0..MaxAuth]
    /\ \A c \in Calls : reported[c] \in Nat \cup {NoCost}
    /\ \A i \in DOMAIN waiting : waiting[i] \in Calls
    /\ active \subseteq Accounts /\ granted \subseteq Calls
    /\ auth \in [Accounts -> 0..MaxAuth]
    /\ draining \in BOOLEAN /\ pausing \in BOOLEAN
    /\ stop \in {"no", "pause", "wait", "checkpoint"}
    /\ life \in 1..MaxLife
    /\ charged \in [Calls -> Nat \cup {NoCost}]
    /\ leftAt \in [Calls -> 0..MaxAuth] /\ receipt \in BOOLEAN

\* Reservations and settled costs together never exceed the signed amount, nor
\* an account's share of a day its daily limit, although the day may change
\* inside Reserve and unknown outcomes pile up over restarts.
ExposureBounded ==
    /\ TotalExposure <= Amount
    /\ \A a \in Accounts, d \in 0..MaxDay :
          Exposure({i \in DOMAIN rows : rows[i].account = a /\ rows[i].day = d}) <= DailyLimit

\* The account's total for every request the provider may have charged for
\* is in the ledger: after any crash, cancellation or lost answer the row's
\* exposure still covers the charge; and a charge above its reservation is
\* never settled.
ChargesCovered ==
    \A c \in Calls :
        /\ Sent(c) /\ charged[c] <= Price[c] =>
            Id[c] \in DOMAIN rows /\ charged[c] <= Spent(rows[Id[c]])
        /\ Sent(c) /\ charged[c] > Price[c] => rows[Id[c]].state # "settled"

\* "request already recorded; never replayed": of the calls that carry one
\* account's idempotency key, at most one reaches the provider.
SentOnce ==
    \A c, e \in Calls :
        Sent(c) /\ Sent(e) /\ Account[c] = Account[e] /\ Key[c] = Key[e] => c = e

\* No revocation that happened before a call left the queue is overlooked:
\* what is sent carries the authority current at that moment.
SentWithFreshAuthority == \A c \in Calls : Sent(c) => claims[c] >= leftAt[c]

\* Slots are neither leaked nor given twice, and none is idle while a waiter
\* could use it.
QueueSound ==
    LET holders == {c \in Calls : pc[c] \in Holding} \cup granted IN
    /\ active = {Account[c] : c \in holders}
    /\ \A c, e \in holders : Account[c] = Account[e] => c = e
    /\ Cardinality(active) <= MaxActive
    /\ (\E i \in DOMAIN waiting : Account[waiting[i]] \notin active)
          => Cardinality(active) = MaxActive

\* A drain receipt is final: once one is written no request, restart or late
\* answer changes the ledger it describes.
ReceiptIsFinal == [][receipt => rows' = rows]_rows

\* Every waiting call gets its turn, without relying on anyone giving up.
WaitersServed == \A c \in Calls : pc[c] = "waiting" ~> pc[c] # "waiting"
=============================================================================
