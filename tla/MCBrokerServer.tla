--------------------------- MODULE MCBrokerServer ---------------------------
(* Calls of two accounts.  In MCRetryKey the first two carry the same      *)
(* idempotency key, as a retry does, under ids of their own.               *)
EXTENDS BrokerServer, TLC

CONSTANTS c1, c2, c3, a1, a2

MCThreeCalls == {c1, c2, c3}
MCAccounts == {a1, a2}
MCId == [c \in Calls |-> CASE c = c1 -> "i1" [] c = c2 -> "i2" [] OTHER -> "i3"]
MCOwnKey == [c \in Calls |-> CASE c = c1 -> "k1" [] c = c2 -> "k2" [] OTHER -> "k3"]
MCRetryKey == [c \in Calls |-> IF c = c3 THEN "k2" ELSE "k1"]
MCAccount == [c \in Calls |-> IF c = c3 THEN a2 ELSE a1]
MCOneAccount == [c \in Calls |-> a1]
MCPrice == [c \in Calls |-> 1]
=============================================================================
