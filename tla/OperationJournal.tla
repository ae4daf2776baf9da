-------------------------- MODULE OperationJournal --------------------------
(***************************************************************************)
(* The private operation journal (mesh_core operation_journal.rs) as the   *)
(* TUI's mutation worker uses it (confirm_review and recover in mesh_tui): *)
(* intent, mutation, outcome, and recovery after a crash.  All TUI         *)
(* sessions of a user share one journal directory.                         *)
(*                                                                         *)
(* Operation ids sort by creation time, so they are numbers here.  What    *)
(* the mutation itself does is in PeerPublication and StageWorkflow; here  *)
(* it takes effect or not and reports an OperationState accordingly.       *)
(***************************************************************************)
EXTENDS Naturals, FiniteSets

CONSTANTS NOps,   \* number of operations
          Keep,   \* completed records prune_completed keeps (100 in the code)
          MaxRecoveries  \* bound on :recover runs

ASSUME JournalAssumption == NOps \in Nat /\ Keep \in Nat /\ MaxRecoveries \in Nat

Ops == 1..NOps

VARIABLES
    pend,      \* <id>.pending: "absent", "torn" or "whole"
    tmpf,      \* .<id>.tmp
    fin,       \* state recorded in <id>.json, or "absent"
    pc,        \* where each operation is
    effect,    \* the mutation took effect
    state,     \* the OperationState execute_* returned
    shown,     \* what the user was shown
    closed,    \* history: record_outcome made a definite outcome durable
    listed,    \* the .pending files the running recovery found in read_dir
    report,    \* "idle", "reading", "failed" or "reported"
    seen,      \* operations the last successful recovery reported
    recoveries \* number of recoveries started

vars == <<pend, tmpf, fin, pc, effect, state, shown, closed, listed, report,
          seen, recoveries>>
files == <<pend, tmpf, fin>>
recovery == <<listed, report, seen, recoveries>>

States == {"committed", "failed_before_commit", "committed_with_followup_error",
           "outcome_unknown"}

Locations == {"new", "intent", "execute", "outcome", "write", "rename", "remove",
              "done", "refused", "crashed"}

Init ==
    /\ pend = [o \in Ops |-> "absent"]
    /\ tmpf = [o \in Ops |-> "absent"]
    /\ fin = [o \in Ops |-> "absent"]
    /\ pc = [o \in Ops |-> "new"]
    /\ effect = [o \in Ops |-> FALSE]
    /\ state = [o \in Ops |-> "outcome_unknown"]
    /\ shown = [o \in Ops |-> "nothing"]
    /\ closed = [o \in Ops |-> FALSE]
    /\ listed = {} /\ report = "idle" /\ seen = {} /\ recoveries = 0

-----------------------------------------------------------------------------
(* record_recoverable_intent                                               *)

\* Mutant: completed records are those with an outcome file.
CompletedAll == {o \in Ops : fin[o] # "absent"}

\* <id>.json files without an <id>.pending beside them
Completed == {o \in Ops : fin[o] # "absent" /\ pend[o] = "absent"}

\* prune_completed: the oldest completed records beyond Keep.
Pruned ==
    LET rank(o) == Cardinality({q \in Completed : q <= o})
        surplus == IF Cardinality(Completed) > Keep
                   THEN Cardinality(Completed) - Keep ELSE 0
    IN {o \in Completed : rank(o) <= surplus}

AfterPruning == [q \in Ops |-> IF q \in Pruned THEN "absent" ELSE fin[q]]

\* Pruning, then create_new of the pending file.  Ids are handed out in order.
RecordIntent(o) ==
    /\ pc[o] = "new"
    /\ \A q \in Ops : q < o => pc[q] # "new"
    /\ \/ /\ fin' = AfterPruning
          /\ pend' = [pend EXCEPT ![o] = "torn"]
          /\ pc' = [pc EXCEPT ![o] = "intent"]
          /\ UNCHANGED shown
       \/ /\ pc' = [pc EXCEPT ![o] = "refused"]       \* directory or prune error
          /\ shown' = [shown EXCEPT ![o] = "no mutation started"]
          /\ fin' \in {fin, AfterPruning}
          /\ UNCHANGED pend
    /\ UNCHANGED <<tmpf, effect, state, closed>> /\ UNCHANGED recovery

\* Mutant: the worker goes on when the intent could not be written.
WriteIntentAnyway(o) ==
    /\ pc[o] = "intent"
    /\ \/ pend' = [pend EXCEPT ![o] = "whole"] /\ UNCHANGED shown
       \/ UNCHANGED pend /\ shown' = [shown EXCEPT ![o] = "no mutation started"]
    /\ pc' = [pc EXCEPT ![o] = "execute"]
    /\ UNCHANGED <<tmpf, fin, effect, state, closed>> /\ UNCHANGED recovery

\* write_all, sync_all and sync_directory; an error leaves the file as it is
\* and no mutation starts.
WriteIntent(o) ==
    /\ pc[o] = "intent"
    /\ \/ /\ pend' = [pend EXCEPT ![o] = "whole"]
          /\ pc' = [pc EXCEPT ![o] = "execute"]
          /\ UNCHANGED shown
       \/ /\ pend' \in {pend, [pend EXCEPT ![o] = "whole"]}
          /\ pc' = [pc EXCEPT ![o] = "refused"]
          /\ shown' = [shown EXCEPT ![o] = "no mutation started"]
    /\ UNCHANGED <<tmpf, fin, effect, state, closed>> /\ UNCHANGED recovery

\* execute_publication, execute_stage or execute_withdrawal
Execute(o) ==
    /\ pc[o] = "execute"
    /\ \E e \in BOOLEAN, s \in States :
          /\ s \in {"committed", "committed_with_followup_error"} => e
          /\ s = "failed_before_commit" => ~e
          /\ effect' = [effect EXCEPT ![o] = e]
          /\ state' = [state EXCEPT ![o] = s]
    /\ pc' = [pc EXCEPT ![o] = "outcome"]
    /\ UNCHANGED <<pend, tmpf, fin, shown, closed>> /\ UNCHANGED recovery

-----------------------------------------------------------------------------
(* record_outcome                                                          *)

\* The worker's answer to the UI; a journal error turns "committed" into
\* "committed with a follow-up error".
Answers(o, journalled) ==
    /\ pc' = [pc EXCEPT ![o] = "done"]
    /\ shown' = [shown EXCEPT ![o] =
          IF ~journalled /\ state[o] = "committed"
          THEN "committed_with_followup_error" ELSE state[o]]

JournalError(o) ==
    /\ Answers(o, FALSE)
    /\ UNCHANGED <<effect, state>>

\* create_new of .<id>.tmp
CreateOutcome(o) ==
    /\ pc[o] = "outcome"
    /\ UNCHANGED <<pend, fin, closed>> /\ UNCHANGED recovery
    /\ \/ /\ tmpf' = [tmpf EXCEPT ![o] = "torn"]
          /\ pc' = [pc EXCEPT ![o] = "write"]
          /\ UNCHANGED <<effect, state, shown>>
       \/ UNCHANGED tmpf /\ JournalError(o)

WriteOutcome(o) ==
    /\ pc[o] = "write"
    /\ UNCHANGED <<pend, fin, closed>> /\ UNCHANGED recovery
    /\ \/ /\ tmpf' = [tmpf EXCEPT ![o] = "whole"]
          /\ pc' = [pc EXCEPT ![o] = "rename"]
          /\ UNCHANGED <<effect, state, shown>>
       \/ UNCHANGED tmpf /\ JournalError(o)

\* rename to <id>.json and sync the directory
RenameOutcome(o) ==
    /\ pc[o] = "rename"
    /\ UNCHANGED pend /\ UNCHANGED recovery
    /\ \/ /\ fin' = [fin EXCEPT ![o] = state[o]]
          /\ tmpf' = [tmpf EXCEPT ![o] = "absent"]
          /\ closed' = [closed EXCEPT ![o] = state[o] # "outcome_unknown"]
          /\ \/ pc' = [pc EXCEPT ![o] = "remove"] /\ UNCHANGED <<effect, state, shown>>
             \/ JournalError(o)
       \/ UNCHANGED <<fin, tmpf, closed>> /\ JournalError(o)

\* Mutant: the pending file is removed whatever the outcome.
RemovePendingAlways(o) ==
    /\ pc[o] = "remove"
    /\ pend' = [pend EXCEPT ![o] = "absent"]
    /\ Answers(o, TRUE)
    /\ UNCHANGED <<tmpf, fin, effect, state, closed>> /\ UNCHANGED recovery

\* An unknown outcome keeps its pending file.
RemovePending(o) ==
    /\ pc[o] = "remove"
    /\ UNCHANGED <<tmpf, fin, closed>> /\ UNCHANGED recovery
    /\ \/ /\ state[o] = "outcome_unknown"
          /\ Answers(o, TRUE)
          /\ UNCHANGED <<pend, effect, state>>
       \/ /\ state[o] # "outcome_unknown"
          /\ pend' = [pend EXCEPT ![o] = "absent"]
          /\ \/ Answers(o, TRUE) /\ UNCHANGED <<effect, state>>
             \/ JournalError(o)                      \* the last directory sync
       \/ UNCHANGED pend /\ JournalError(o)

\* The session's process dies in the middle of the mutation or its
\* bookkeeping; a mutation under way may have taken effect.
Crash(o) ==
    /\ pc[o] \notin {"new", "done", "refused", "crashed"}
    /\ pc' = [pc EXCEPT ![o] = "crashed"]
    /\ effect' \in IF pc[o] = "execute"
                   THEN {effect, [effect EXCEPT ![o] = TRUE]} ELSE {effect}
    /\ UNCHANGED <<pend, tmpf, fin, state, shown, closed>> /\ UNCHANGED recovery

-----------------------------------------------------------------------------
(* recover: pending() lists the directory, then reads file by file.  Any   *)
(* file that is gone or does not parse fails the whole recovery.           *)

RecoverList ==
    /\ report # "reading"
    /\ recoveries < MaxRecoveries
    /\ recoveries' = recoveries + 1
    /\ listed' = {o \in Ops : pend[o] # "absent"}
    /\ report' = "reading"
    /\ UNCHANGED seen
    /\ UNCHANGED <<pend, tmpf, fin, pc, effect, state, shown, closed>>

RecoverRead ==
    /\ report = "reading"
    /\ \/ /\ \A o \in listed : pend[o] = "whole"
          /\ report' = "reported"
          /\ seen' = listed
       \/ /\ \E o \in listed : pend[o] # "whole"
          /\ report' = "failed"
          /\ seen' = {}
    /\ listed' = {}
    /\ UNCHANGED <<pend, tmpf, fin, pc, effect, state, shown, closed, recoveries>>

Next ==
    \/ \E o \in Ops :
          \/ RecordIntent(o) \/ WriteIntent(o) \/ Execute(o) \/ CreateOutcome(o)
          \/ WriteOutcome(o) \/ RenameOutcome(o) \/ RemovePending(o) \/ Crash(o)
    \/ RecoverList \/ RecoverRead

Spec == Init /\ [][Next]_vars
-----------------------------------------------------------------------------
(* Properties                                                              *)

\* The types of the variables
TypeOK ==
    /\ pend \in [Ops -> {"absent", "torn", "whole"}]
    /\ tmpf \in [Ops -> {"absent", "torn", "whole"}]
    /\ fin \in [Ops -> States \cup {"absent"}]
    /\ pc \in [Ops -> Locations]
    /\ effect \in [Ops -> BOOLEAN]
    /\ state \in [Ops -> States]
    /\ shown \in [Ops -> States \cup {"nothing", "no mutation started"}]
    /\ closed \in [Ops -> BOOLEAN]
    /\ listed \subseteq Ops
    /\ report \in {"idle", "reading", "failed", "reported"}
    /\ seen \subseteq Ops
    /\ recoveries \in 0..MaxRecoveries

\* Whatever dies or fails, an operation that may have changed the project has
\* a readable intent in the journal until a definite outcome is durable.
EffectHasIntent ==
    \A o \in Ops : effect[o] /\ ~closed[o] => pend[o] = "whole"

\* What the journal and the screen say is what happened: no committed
\* operation is shown or recorded as a clean failure, none that had no effect
\* as committed.
JournalTruthful ==
    \A o \in Ops :
        /\ fin[o] = "committed" => effect[o]
        /\ fin[o] = "failed_before_commit" => ~effect[o]
        /\ shown[o] \in {"committed", "committed_with_followup_error"} => effect[o]
        /\ shown[o] \in {"failed_before_commit", "no mutation started"} => ~effect[o]

\* Retention (prune_completed) and later operations never drop the record of
\* an operation whose outcome is still unknown, nor its intent.
UnknownIsKept ==
    [][\A o \in Ops : fin[o] = "outcome_unknown" =>
          fin'[o] = fin[o] /\ pend'[o] = "whole"]_vars
=============================================================================
