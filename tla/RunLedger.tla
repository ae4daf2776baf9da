----------------------------- MODULE RunLedger -----------------------------
(***************************************************************************)
(* The spending ledger of one run (web_demo/internal/budget/run.go and     *)
(* drain.go): a SQLite database of requests against one signed allocation. *)
(* Each method is one transaction on the only connection, so it is one     *)
(* step; the operators below give its effect on the tables, and            *)
(* BrokerServer says who calls it when.                                    *)
(***************************************************************************)
EXTENDS Integers, FiniteSets, FiniteSetsExt

CONSTANTS Ids,           \* request ids, chosen by the client or the adapter
          Accounts,
          IdemKeys,      \* idempotency keys
          Amount,        \* Allocation.Amount
          RequestLimit,  \* Allocation.RequestLimit
          DailyLimit,    \* Allocation.UserDailyLimit
          MaxDay         \* bound on midnights

\* Allocation.Validate
ASSUME AllocationAssumption ==
    /\ Amount \in Nat \ {0}
    /\ RequestLimit \in 1..Amount
    /\ DailyLimit \in 1..Amount
    /\ MaxDay \in Nat

VARIABLES
    rows,    \* table requests: the recorded ids and their rows
    paused,  \* run_allocations.state = 'paused'
    day      \* today, UTC

ledger == <<rows, paused, day>>

States == {"reserved", "dispatched", "unknown", "settled"}

Row == [account: Accounts, key: IdemKeys, reserved: 1..RequestLimit,
        state: States, cost: 0..RequestLimit, day: Nat]

LedgerInit ==
    /\ rows = [i \in {} |-> 0]
    /\ paused = FALSE
    /\ day = 0

\* CASE WHEN state='settled' THEN cost ELSE reserved END
Spent(row) == IF row.state = "settled" THEN row.cost ELSE row.reserved

Exposure(which) == MapThenSumSet(LAMBDA i : Spent(rows[i]), which)

TotalExposure == Exposure(DOMAIN rows)

DailyExposure(a, d) ==
    Exposure({i \in DOMAIN rows : rows[i].account = a /\ rows[i].day >= d})

\* The row of an account's idempotency key, UNIQUE(account_id,idempotency_key)
Recorded(a, k) == {i \in DOMAIN rows : rows[i].account = a /\ rows[i].key = k}

-----------------------------------------------------------------------------
(* Reserve                                                                 *)

\* Mutant: the daily limit is not looked at.
WithinBudgetNoDaily(a, amount) ==
    /\ amount <= RequestLimit
    /\ ~paused
    /\ amount <= Amount - TotalExposure

WithinBudget(a, amount) ==
    /\ amount <= RequestLimit
    /\ ~paused
    /\ amount <= Amount - TotalExposure
    /\ amount <= DailyLimit - DailyExposure(a, day)

\* Mutant: a key that has been used before reserves again.
ReservableAgain(i, a, k, amount) ==
    /\ i \notin DOMAIN rows
    /\ WithinBudget(a, amount)

\* A new row: neither the key nor the id is recorded.
Reservable(i, a, k, amount) ==
    /\ Recorded(a, k) = {}
    /\ i \notin DOMAIN rows
    /\ WithinBudget(a, amount)

\* The INSERT.  The clock is read again for created_at, so midnight may pass
\* between the daily check and the stamp.
Insert(i, a, k, amount) ==
    /\ day' \in day..(IF day < MaxDay THEN day + 1 ELSE day)
    /\ rows' = [j \in DOMAIN rows \cup {i} |->
          IF j = i THEN [account |-> a, key |-> k, reserved |-> amount,
                         state |-> "reserved", cost |-> 0, day |-> day']
          ELSE rows[j]]
    /\ UNCHANGED paused

-----------------------------------------------------------------------------
(* The other transactions                                                  *)

SetState(i, s) == [rows EXCEPT ![i].state = s]

Dispatch(i) ==
    /\ rows[i].state = "reserved"
    /\ rows' = SetState(i, "dispatched")
    /\ UNCHANGED <<paused, day>>

\* WHERE state IN ('reserved','dispatched','unknown')
Unknown(i) ==
    /\ rows' = IF rows[i].state = "settled" THEN rows ELSE SetState(i, "unknown")
    /\ UNCHANGED <<paused, day>>

\* Mutant: a charge above the reservation is settled like any other.
SettleAny(i, cost) ==
    /\ rows' = [rows EXCEPT ![i].state = "settled", ![i].cost = cost]
    /\ UNCHANGED <<paused, day>>

\* A charge above the reservation pauses the run and leaves the row alone.
Settle(i, cost) ==
    /\ rows[i].state # "settled"
    /\ IF cost > rows[i].reserved
       THEN paused' = TRUE /\ UNCHANGED rows
       ELSE /\ rows' = [rows EXCEPT ![i].state = "settled", ![i].cost = cost]
            /\ UNCHANGED paused
    /\ UNCHANGED day

Outstanding == {i \in DOMAIN rows : rows[i].state \in {"reserved", "dispatched"}}

AllUnknown ==
    [i \in DOMAIN rows |-> IF i \in Outstanding
                           THEN [rows[i] EXCEPT !.state = "unknown"] ELSE rows[i]]

\* Mutant: a restart drops what had no outcome yet.
OpenRunForgets ==
    /\ rows' = [i \in DOMAIN rows \ Outstanding |-> rows[i]]
    /\ UNCHANGED <<paused, day>>

\* OpenRun: "never replay or release any outstanding request".
OpenRun ==
    /\ rows' = AllUnknown
    /\ UNCHANGED <<paused, day>>

Pause == paused' = TRUE /\ UNCHANGED <<rows, day>>

\* checkpoint: Drain pauses, a plain Checkpoint keeps the admission state.
Checkpoint(pause) ==
    /\ rows' = AllUnknown
    /\ paused' = (paused \/ pause)
    /\ UNCHANGED day

LedgerTypeOK ==
    /\ DOMAIN rows \subseteq Ids
    /\ \A i \in DOMAIN rows : rows[i] \in Row
    /\ paused \in BOOLEAN
    /\ day \in Nat
=============================================================================
