----------------------- MODULE OperationJournalProofs -----------------------
(***************************************************************************)
(* Proofs about OperationJournal for any number of operations, any         *)
(* retention and any number of recoveries.                                 *)
(*                                                                         *)
(* One inductive invariant, IInv, follows each operation through the       *)
(* worker's protocol: the intent is whole before the mutation starts and   *)
(* until a definite outcome is durable; an outcome file holds what         *)
(* execute_* returned; and what it returned, once there is something,      *)
(* agrees with the effect.  Operations disturb one another only through    *)
(* prune_completed, which takes outcome files that have no intent beside   *)
(* them, and an unknown outcome always has one.                            *)
(***************************************************************************)
EXTENDS OperationJournal, TLAPS

\* What an OperationState says of the effect.
Agrees(s, e) ==
    /\ s \in {"committed", "committed_with_followup_error"} => e
    /\ s = "failed_before_commit" => ~e

\* The invariant of one operation.
Own(o) ==
    /\ pc[o] \in {"new", "intent", "refused", "execute"} => ~effect[o]
    /\ pc[o] \in {"execute", "outcome", "write", "rename", "remove"} =>
          pend[o] = "whole"
    /\ pc[o] \in {"outcome", "write", "rename", "remove", "done"} =>
          Agrees(state[o], effect[o])
    /\ closed[o] => pc[o] \in {"remove", "done", "crashed"}
    /\ fin[o] # "absent" =>
          /\ pc[o] \in {"remove", "done", "crashed"}
          /\ fin[o] = state[o]
          /\ Agrees(state[o], effect[o])
    /\ pc[o] = "remove" => closed[o] = (state[o] # "outcome_unknown")
    /\ effect[o] /\ ~closed[o] => pend[o] = "whole"
    /\ fin[o] = "outcome_unknown" => pend[o] = "whole"
    /\ pc[o] = "refused" => shown[o] = "no mutation started"
    /\ pc[o] = "done" =>
          \/ shown[o] = state[o]
          \/ state[o] = "committed" /\ shown[o] = "committed_with_followup_error"
    /\ pc[o] \notin {"refused", "done"} => shown[o] = "nothing"

IInv == TypeOK /\ \A o \in Ops : Own(o)

-----------------------------------------------------------------------------
(* The protocol, step by step                                              *)

\* An operation whose record a step leaves alone keeps its invariant.
LEMMA OwnStable ==
  ASSUME NEW o \in Ops, Own(o),
         pend'[o] = pend[o], fin'[o] = fin[o], pc'[o] = pc[o],
         effect'[o] = effect[o], state'[o] = state[o], shown'[o] = shown[o],
         closed'[o] = closed[o]
  PROVE  Own(o)'
  BY DEF Own, Agrees

\* Pruning takes outcome files without an intent and changes no other.
LEMMA PruningSound ==
  ASSUME TypeOK, NEW q \in Ops
  PROVE  /\ AfterPruning \in [Ops -> States \cup {"absent"}]
         /\ \/ AfterPruning[q] = fin[q]
            \/ AfterPruning[q] = "absent" /\ pend[q] = "absent"
  BY DEF AfterPruning, Pruned, Completed, TypeOK

LEMMA RecordIntentKeeps ==
  ASSUME IInv, NEW o \in Ops, RecordIntent(o)
  PROVE  IInv'
  <1>1. TypeOK'
    BY PruningSound, ZenonT(60) DEF IInv, TypeOK, RecordIntent, recovery, Locations
  <1>2. ASSUME NEW q \in Ops, q # o
        PROVE  Own(q)'
    <2>1. Own(q)
      BY DEF IInv
    <2>2. /\ pend'[q] = pend[q] /\ pc'[q] = pc[q] /\ effect'[q] = effect[q]
          /\ state'[q] = state[q] /\ shown'[q] = shown[q] /\ closed'[q] = closed[q]
          /\ fin'[q] = fin[q] \/ fin'[q] = "absent"
      BY <1>2, PruningSound, ZenonT(60) DEF IInv, TypeOK, RecordIntent, recovery
    <2>3. QED
      BY <2>1, <2>2 DEF Own, Agrees
  <1>3. Own(o)'
    <2>1. Own(o)
      BY DEF IInv
    <2>2. /\ pc[o] = "new" /\ pc'[o] \in {"intent", "refused"}
          /\ effect'[o] = effect[o] /\ state'[o] = state[o] /\ closed'[o] = closed[o]
          /\ fin'[o] = fin[o] \/ fin'[o] = "absent"
          /\ pc'[o] = "intent" => shown'[o] = shown[o]
          /\ pc'[o] = "refused" => shown'[o] = "no mutation started"
      BY PruningSound, ZenonT(60) DEF IInv, TypeOK, RecordIntent, recovery
    <2>3. QED
      BY <2>1, <2>2 DEF Own, Agrees
  <1>4. QED
    BY <1>1, <1>2, <1>3 DEF IInv

LEMMA WriteIntentKeeps ==
  ASSUME IInv, NEW o \in Ops, WriteIntent(o)
  PROVE  IInv'
  <1>1. TypeOK'
    BY ZenonT(60) DEF IInv, TypeOK, WriteIntent, recovery, Locations, States
  <1>2. ASSUME NEW q \in Ops, q # o
        PROVE  Own(q)'
    BY <1>2, OwnStable DEF IInv, TypeOK, WriteIntent, recovery
  <1>3. Own(o)'
    <2>1. Own(o)
      BY DEF IInv
    <2>2. /\ pc[o] = "intent"
          /\ \/ pc'[o] = "execute" /\ pend'[o] = "whole" /\ shown'[o] = shown[o]
             \/ /\ pc'[o] = "refused" /\ shown'[o] = "no mutation started"
                /\ pend'[o] \in {pend[o], "whole"}
          /\ fin'[o] = fin[o] /\ effect'[o] = effect[o]
          /\ state'[o] = state[o] /\ closed'[o] = closed[o]
      BY ZenonT(60) DEF IInv, TypeOK, WriteIntent, recovery
    <2>3. QED
      BY <2>1, <2>2 DEF Own, Agrees
  <1>4. QED
    BY <1>1, <1>2, <1>3 DEF IInv

LEMMA ExecuteKeeps ==
  ASSUME IInv, NEW o \in Ops, Execute(o)
  PROVE  IInv'
  <1> PICK e \in BOOLEAN, s \in States :
             /\ Agrees(s, e)
             /\ effect' = [effect EXCEPT ![o] = e]
             /\ state' = [state EXCEPT ![o] = s]
    BY DEF Execute, Agrees
  <1>1. TypeOK'
    BY DEF IInv, TypeOK, Execute, recovery, Locations
  <1>2. ASSUME NEW q \in Ops, q # o
        PROVE  Own(q)'
    BY <1>2, OwnStable DEF IInv, TypeOK, Execute, recovery
  <1>3. Own(o)'
    <2>1. Own(o)
      BY DEF IInv
    <2>2. /\ pc[o] = "execute" /\ pc'[o] = "outcome"
          /\ pend'[o] = pend[o] /\ fin'[o] = fin[o] /\ shown'[o] = shown[o] /\ closed'[o] = closed[o]
          /\ Agrees(state'[o], effect'[o])
      <3>1. effect'[o] = e /\ state'[o] = s
        BY DEF IInv, TypeOK
      <3>2. QED
        BY <3>1 DEF IInv, TypeOK, Execute, recovery
    <2>3. QED
      BY <2>1, <2>2 DEF Own, Agrees
  <1>4. QED
    BY <1>1, <1>2, <1>3 DEF IInv

LEMMA CreateOutcomeKeeps ==
  ASSUME IInv, NEW o \in Ops, CreateOutcome(o)
  PROVE  IInv'
  <1>1. TypeOK'
    BY ZenonT(60) DEF IInv, TypeOK, CreateOutcome, JournalError, Answers, recovery, Locations, States
  <1>2. ASSUME NEW q \in Ops, q # o
        PROVE  Own(q)'
    BY <1>2, OwnStable DEF IInv, TypeOK, CreateOutcome, JournalError, Answers, recovery
  <1>3. Own(o)'
    <2>1. Own(o)
      BY DEF IInv
    <2>2. /\ pc[o] = "outcome" /\ pc'[o] \in {"write", "done"}
          /\ pc'[o] # "done" => shown'[o] = shown[o]
          /\ pc'[o] = "done" =>
                \/ shown'[o] = state[o]
                \/ state[o] = "committed" /\ shown'[o] = "committed_with_followup_error"
          /\ pend'[o] = pend[o] /\ fin'[o] = fin[o] /\ effect'[o] = effect[o]
          /\ state'[o] = state[o] /\ closed'[o] = closed[o]
      BY DEF IInv, TypeOK, CreateOutcome, JournalError, Answers, recovery
    <2>3. QED
      BY <2>1, <2>2 DEF Own, Agrees
  <1>4. QED
    BY <1>1, <1>2, <1>3 DEF IInv

LEMMA WriteOutcomeKeeps ==
  ASSUME IInv, NEW o \in Ops, WriteOutcome(o)
  PROVE  IInv'
  <1>1. TypeOK'
    BY ZenonT(60) DEF IInv, TypeOK, WriteOutcome, JournalError, Answers, recovery, Locations, States
  <1>2. ASSUME NEW q \in Ops, q # o
        PROVE  Own(q)'
    BY <1>2, OwnStable DEF IInv, TypeOK, WriteOutcome, JournalError, Answers, recovery
  <1>3. Own(o)'
    <2>1. Own(o)
      BY DEF IInv
    <2>2. /\ pc[o] = "write" /\ pc'[o] \in {"rename", "done"}
          /\ pc'[o] # "done" => shown'[o] = shown[o]
          /\ pc'[o] = "done" =>
                \/ shown'[o] = state[o]
                \/ state[o] = "committed" /\ shown'[o] = "committed_with_followup_error"
          /\ pend'[o] = pend[o] /\ fin'[o] = fin[o] /\ effect'[o] = effect[o]
          /\ state'[o] = state[o] /\ closed'[o] = closed[o]
      BY DEF IInv, TypeOK, WriteOutcome, JournalError, Answers, recovery
    <2>3. QED
      BY <2>1, <2>2 DEF Own, Agrees
  <1>4. QED
    BY <1>1, <1>2, <1>3 DEF IInv

LEMMA RenameOutcomeKeeps ==
  ASSUME IInv, NEW o \in Ops, RenameOutcome(o)
  PROVE  IInv'
  <1>1. TypeOK'
    BY ZenonT(60) DEF IInv, TypeOK, RenameOutcome, JournalError, Answers, recovery, Locations, States
  <1>2. ASSUME NEW q \in Ops, q # o
        PROVE  Own(q)'
    BY <1>2, OwnStable, ZenonT(60) DEF IInv, TypeOK, RenameOutcome, JournalError, Answers, recovery
  <1>3. Own(o)'
    <2>1. Own(o)
      BY DEF IInv
    <2>2. /\ pc[o] = "rename" /\ pc'[o] \in {"remove", "done"}
          /\ pc'[o] # "done" => shown'[o] = shown[o]
          /\ pc'[o] = "done" =>
                \/ shown'[o] = state[o]
                \/ state[o] = "committed" /\ shown'[o] = "committed_with_followup_error"
          /\ pend'[o] = pend[o] /\ effect'[o] = effect[o] /\ state'[o] = state[o]
          /\ \/ fin'[o] = state[o] /\ closed'[o] = (state[o] # "outcome_unknown")
             \/ fin'[o] = fin[o] /\ closed'[o] = closed[o] /\ pc'[o] = "done"
      BY ZenonT(60) DEF IInv, TypeOK, RenameOutcome, JournalError, Answers, recovery
    <2>3. QED
      BY <2>1, <2>2 DEF Own, Agrees
  <1>4. QED
    BY <1>1, <1>2, <1>3 DEF IInv

LEMMA RemovePendingKeeps ==
  ASSUME IInv, NEW o \in Ops, RemovePending(o)
  PROVE  IInv'
  <1>1. TypeOK'
    BY ZenonT(60) DEF IInv, TypeOK, RemovePending, JournalError, Answers, recovery, Locations, States
  <1>2. ASSUME NEW q \in Ops, q # o
        PROVE  Own(q)'
    BY <1>2, OwnStable DEF IInv, TypeOK, RemovePending, JournalError, Answers, recovery
  <1>3. Own(o)'
    <2>1. Own(o)
      BY DEF IInv
    <2>2. /\ pc[o] = "remove" /\ pc'[o] = "done"
          /\ \/ shown'[o] = state[o]
             \/ state[o] = "committed" /\ shown'[o] = "committed_with_followup_error"
          /\ fin'[o] = fin[o] /\ effect'[o] = effect[o]
          /\ state'[o] = state[o] /\ closed'[o] = closed[o]
          /\ \/ pend'[o] = pend[o]
             \/ pend'[o] = "absent" /\ state[o] # "outcome_unknown"
      BY DEF IInv, TypeOK, RemovePending, JournalError, Answers, recovery
    <2>3. QED
      BY <2>1, <2>2 DEF Own, Agrees
  <1>4. QED
    BY <1>1, <1>2, <1>3 DEF IInv

LEMMA CrashKeeps ==
  ASSUME IInv, NEW o \in Ops, Crash(o)
  PROVE  IInv'
  <1>1. TypeOK'
    BY DEF IInv, TypeOK, Crash, recovery, Locations, States
  <1>2. ASSUME NEW q \in Ops, q # o
        PROVE  Own(q)'
    BY <1>2, OwnStable DEF IInv, TypeOK, Crash, recovery
  <1>3. Own(o)'
    <2>1. Own(o)
      BY DEF IInv
    <2>2. /\ pc[o] \notin {"new", "done", "refused", "crashed"} /\ pc'[o] = "crashed"
          /\ pend'[o] = pend[o] /\ fin'[o] = fin[o] /\ state'[o] = state[o]
          /\ shown'[o] = shown[o] /\ closed'[o] = closed[o]
          /\ effect'[o] = effect[o] \/ pc[o] = "execute"
      BY DEF IInv, TypeOK, Crash, recovery
    <2>3. QED
      BY <2>1, <2>2 DEF Own, Agrees
  <1>4. QED
    BY <1>1, <1>2, <1>3 DEF IInv

LEMMA RecoveryKeeps ==
  ASSUME IInv, RecoverList \/ RecoverRead
  PROVE  IInv'
  <1>1. TypeOK'
    <2>1. CASE RecoverList
      <3>1. recoveries' \in 0..MaxRecoveries
        <4>1. recoveries \in 0..MaxRecoveries
          BY DEF IInv, TypeOK
        <4>2. recoveries < MaxRecoveries /\ recoveries' = recoveries + 1
          BY <2>1 DEF RecoverList
        <4>3. QED
          BY <4>1, <4>2, JournalAssumption
      <3>2. listed' \subseteq Ops
        BY <2>1 DEF RecoverList
      <3>3. QED
        BY <2>1, <3>1, <3>2 DEF IInv, TypeOK, RecoverList
    <2>2. CASE RecoverRead
      BY <2>2 DEF IInv, TypeOK, RecoverRead
    <2>3. QED
      BY <2>1, <2>2
  <1>2. ASSUME NEW q \in Ops
        PROVE  Own(q)'
    BY <1>2, OwnStable DEF IInv, RecoverList, RecoverRead
  <1>3. QED
    BY <1>1, <1>2 DEF IInv

LEMMA InitInv == Init => IInv
  BY JournalAssumption DEF Init, IInv, TypeOK, Own, Agrees, Locations, States

LEMMA NextInv == IInv /\ [Next]_vars => IInv'
  <1> SUFFICES ASSUME IInv, [Next]_vars
               PROVE  IInv'
    OBVIOUS
  <1>1. ASSUME NEW o \in Ops, RecordIntent(o)
        PROVE  IInv'
    BY <1>1, RecordIntentKeeps
  <1>2. ASSUME NEW o \in Ops, WriteIntent(o)
        PROVE  IInv'
    BY <1>2, WriteIntentKeeps
  <1>3. ASSUME NEW o \in Ops, Execute(o)
        PROVE  IInv'
    BY <1>3, ExecuteKeeps
  <1>4. ASSUME NEW o \in Ops, CreateOutcome(o)
        PROVE  IInv'
    BY <1>4, CreateOutcomeKeeps
  <1>5. ASSUME NEW o \in Ops, WriteOutcome(o)
        PROVE  IInv'
    BY <1>5, WriteOutcomeKeeps
  <1>6. ASSUME NEW o \in Ops, RenameOutcome(o)
        PROVE  IInv'
    BY <1>6, RenameOutcomeKeeps
  <1>7. ASSUME NEW o \in Ops, RemovePending(o)
        PROVE  IInv'
    BY <1>7, RemovePendingKeeps
  <1>8. ASSUME NEW o \in Ops, Crash(o)
        PROVE  IInv'
    BY <1>8, CrashKeeps
  <1>9. CASE RecoverList \/ RecoverRead
    BY <1>9, RecoveryKeeps
  <1>10. CASE UNCHANGED vars
    <2>1. TypeOK'
      BY <1>10 DEF IInv, TypeOK, vars
    <2>2. ASSUME NEW q \in Ops
          PROVE  Own(q)'
      BY <1>10, OwnStable DEF IInv, vars
    <2>3. QED
      BY <2>1, <2>2 DEF IInv
  <1>11. QED
    BY <1>1, <1>2, <1>3, <1>4, <1>5, <1>6, <1>7, <1>8, <1>9, <1>10 DEF Next

LEMMA InvHolds == Spec => []IInv
  BY InitInv, NextInv, PTL DEF Spec

-----------------------------------------------------------------------------
(* Results                                                                 *)

\* The variables of the journal, its workers and its recoveries keep their
\* types, however the steps of the sessions interleave.
THEOREM JournalTypeCorrect == Spec => []TypeOK
  <1>1. IInv => TypeOK
    BY DEF IInv
  <1>2. QED
    BY <1>1, InvHolds, PTL

\* Whatever dies or fails between record_recoverable_intent and the end of
\* record_outcome, an operation that may have changed the project has a
\* readable .pending file until a definite outcome is durable.
THEOREM IntentHolds == Spec => []EffectHasIntent
  <1>1. IInv => EffectHasIntent
    BY DEF IInv, Own, EffectHasIntent
  <1>2. QED
    BY <1>1, InvHolds, PTL

\* What record_outcome wrote and what the worker answered to the UI is what
\* happened: no effect is called a clean failure, no failure a commit.
THEOREM JournalTruthfulHolds == Spec => []JournalTruthful
  <1>1. IInv => JournalTruthful
    BY DEF IInv, TypeOK, Own, Agrees, JournalTruthful, States
  <1>2. QED
    BY <1>1, InvHolds, PTL

\* No step, and prune_completed least of all, drops the outcome file or the
\* intent of an operation whose outcome is unknown.
THEOREM UnknownKept == Spec => UnknownIsKept
  <1> DEFINE Kept == \A o \in Ops : fin[o] = "outcome_unknown" =>
                        fin'[o] = fin[o] /\ pend'[o] = "whole"
  <1>1. ASSUME IInv, [Next]_vars
        PROVE  [Kept]_vars
    <2> SUFFICES ASSUME Next, NEW q \in Ops, fin[q] = "outcome_unknown"
                 PROVE  fin'[q] = fin[q] /\ pend'[q] = "whole"
      BY <1>1
    <2>1. pend[q] = "whole" /\ pc[q] \in {"remove", "done", "crashed"} /\ state[q] = fin[q]
      BY <1>1 DEF IInv, Own
    <2>2. ASSUME NEW o \in Ops, RecordIntent(o)
          PROVE  fin'[q] = fin[q] /\ pend'[q] = "whole"
      BY <1>1, <2>1, <2>2, PruningSound DEF IInv, TypeOK, RecordIntent
    <2>3. ASSUME NEW o \in Ops,
                 WriteIntent(o) \/ Execute(o) \/ CreateOutcome(o) \/ WriteOutcome(o)
          PROVE  fin'[q] = fin[q] /\ pend'[q] = "whole"
      BY <1>1, <2>1, <2>3 DEF IInv, TypeOK, WriteIntent, Execute, CreateOutcome, WriteOutcome
    <2>4. ASSUME NEW o \in Ops, RenameOutcome(o) \/ RemovePending(o) \/ Crash(o)
          PROVE  fin'[q] = fin[q] /\ pend'[q] = "whole"
      BY <1>1, <2>1, <2>4 DEF IInv, TypeOK, RenameOutcome, RemovePending, Crash
    <2>5. CASE RecoverList \/ RecoverRead
      BY <2>1, <2>5 DEF RecoverList, RecoverRead
    <2>6. QED
      BY <2>2, <2>3, <2>4, <2>5 DEF Next
  <1>2. QED
    BY <1>1, InvHolds, PTL DEF Spec, UnknownIsKept
=============================================================================
