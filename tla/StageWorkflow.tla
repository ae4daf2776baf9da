---------------------------- MODULE StageWorkflow ----------------------------
(***************************************************************************)
(* Staging a registered version to a client-owned destination: stage and   *)
(* preflight_stage of peer_access.rs, and prepare_stage, execute_stage and *)
(* reconcile of interactive_operations.rs.                                 *)
(*                                                                         *)
(* Every operation stages the same pinned version to the same destination. *)
(* A file is known by the operation that made it and by its bytes, which   *)
(* is what path_state (inode, times) and the digest tell apart.  The bytes *)
(* stand for the whole inventory.  A rename that reports an error may have *)
(* taken effect.                                                           *)
(***************************************************************************)
EXTENDS Naturals, FiniteSets

CONSTANTS Ops,           \* staging operations
          Bytes,         \* contents of the provider's asset, all of one size
          Registered,    \* the bytes the manifest's digest was computed from
          HasDigest,     \* the inventory records a sha256
          MaxRevision,   \* bound on manifest changes
          OneAtATime,    \* at most one operation works on the destination
          Somebody,      \* whoever made the output that was there before
          Absent         \* no file

File == [by: Ops \cup {Somebody}, bytes: Bytes]

\* What a receipt says: who wrote it, and the revision it was resolved at.
Receipt == [by: Ops \cup {Somebody}, rev: Nat]

ASSUME StageAssumption ==
    /\ Registered \in Bytes
    /\ HasDigest \in BOOLEAN
    /\ OneAtATime \in BOOLEAN
    /\ MaxRevision \in Nat
    /\ Somebody \notin Ops /\ Absent \notin Ops /\ Absent # Somebody
    /\ Absent \notin Bytes /\ Absent \notin File /\ Absent \notin Receipt

VARIABLES
    src,       \* bytes of the provider's asset
    revision,  \* revision of the provider's manifest
    active,    \* the version has not been withdrawn
    out,       \* the destination
    rcpt,      \* its .feam-receipt.json
    pc, want,  \* where each operation is, and what it reviewed or resolved
    tmp,       \* .feam-stage-<nonce>
    tmpRcpt,   \* .feam-stage-<nonce>.receipt
    bak,       \* .feam-stage-backup-<nonce>
    had,       \* had_output
    result     \* the OperationState reported

vars == <<src, revision, active, out, rcpt, pc, want, tmp, tmpRcpt, bak, had, result>>
dest == <<out, rcpt>>

Want == [rev: Nat, overwrite: BOOLEAN, reviewed: BOOLEAN,
         out: File \cup {Absent}, rcpt: Receipt \cup {Absent}]

Working == {"preflight", "copy", "receipt", "backup", "swap", "commit", "clean"}

Locations == {"new", "review", "done", "crashed"} \cup Working

Outcomes == {"none", "committed", "failed_before_commit", "outcome_unknown",
             "committed_with_followup_error"}

NoWant == [out |-> Absent, rcpt |-> Absent,
           rev |-> 0, overwrite |-> FALSE, reviewed |-> FALSE]

Init ==
    /\ src \in Bytes
    /\ revision = 1
    /\ active = TRUE
    /\ \/ out = Absent /\ rcpt = Absent
       \/ /\ \E b \in Bytes : out = [by |-> Somebody, bytes |-> b]
          /\ rcpt \in {Absent, [by |-> Somebody, rev |-> 1]}
    /\ pc = [o \in Ops |-> "new"]
    /\ want = [o \in Ops |-> NoWant]
    /\ tmp = [o \in Ops |-> Absent]
    /\ tmpRcpt = [o \in Ops |-> Absent]
    /\ bak = [o \in Ops |-> Absent]
    /\ had = [o \in Ops |-> FALSE]
    /\ result = [o \in Ops |-> "none"]

-----------------------------------------------------------------------------
(* The provider                                                            *)

RewriteAsset ==
    /\ \E b \in (Bytes \cup {Absent}) \ {src} : src' = b
    /\ UNCHANGED <<revision, active, out, rcpt, pc, want, tmp, tmpRcpt, bak, had, result>>

\* Another product is published, or this version is withdrawn.
ChangeManifest ==
    /\ revision < MaxRevision
    /\ revision' = revision + 1
    /\ active' \in {active, FALSE}
    /\ UNCHANGED <<src, out, rcpt, pc, want, tmp, tmpRcpt, bak, had, result>>

-----------------------------------------------------------------------------
(* Review and preconditions                                                *)

\* resolve: an active record whose asset is there with the recorded size.
\* The digest is not verified (verify_integrity is FALSE).
Resolves == active /\ src # Absent

\* preflight_stage; aliases and links are left out.
Preflight(overwrite) == (out = Absent \/ overwrite) /\ src # Absent

Busy(o) == pc[o] \in {"review"} \cup Working

Starts(o, at, w) ==
    /\ pc[o] = "new"
    /\ OneAtATime => \A q \in Ops : ~Busy(q)
    /\ pc' = [pc EXCEPT ![o] = at]
    /\ want' = [want EXCEPT ![o] = w]
    /\ UNCHANGED <<src, revision, active, out, rcpt, tmp, tmpRcpt, bak, had, result>>

\* prepare_stage
PrepareStage(o, overwrite) ==
    /\ Resolves
    /\ Preflight(overwrite)
    /\ Starts(o, "review", [out |-> out, rcpt |-> rcpt, rev |-> revision,
                            overwrite |-> overwrite, reviewed |-> TRUE])

\* consume --project: resolve, then stage at once.
Consume(o, overwrite) ==
    /\ Resolves
    /\ Starts(o, "preflight", [out |-> Absent, rcpt |-> Absent, rev |-> revision,
                               overwrite |-> overwrite, reviewed |-> FALSE])

\* Mutant: reconcile does not compare the receipt with the one reviewed.
ReconcileAnyReceipt(o, f, r) ==
    IF /\ f # Absent /\ r # Absent
       /\ r.rev = want[o].rev
       /\ f.bytes = Registered
       /\ HasDigest
    THEN "committed" ELSE "outcome_unknown"

\* reconcile(Stage): a receipt other than the one reviewed, for this revision
\* and inventory, and an output with the recorded size and digest.
Reconcile(o, f, r) ==
    IF /\ f # Absent /\ r # Absent
       /\ r # want[o].rcpt
       /\ r.rev = want[o].rev
       /\ f.bytes = Registered
       /\ HasDigest
    THEN "committed" ELSE "outcome_unknown"

\* An error inside stage: the temporaries are removed (removal errors are
\* ignored) and the operation reports PeerError::Io.  execute_stage then looks
\* at what is on disk.
StageError(o) ==
    /\ pc' = [pc EXCEPT ![o] = "done"]
    /\ tmp' \in {tmp, [tmp EXCEPT ![o] = Absent]}
    /\ tmpRcpt' \in {tmpRcpt, [tmpRcpt EXCEPT ![o] = Absent]}
    /\ result' = [result EXCEPT ![o] =
          IF want[o].reviewed /\ Reconcile(o, out', rcpt') = "committed"
          THEN "committed_with_followup_error" ELSE "outcome_unknown"]
    /\ UNCHANGED <<src, revision, active, want, had>>

FailsBeforeCommit(o) ==
    /\ pc' = [pc EXCEPT ![o] = "done"]
    /\ result' = [result EXCEPT ![o] = "failed_before_commit"]
    /\ UNCHANGED <<src, revision, active, out, rcpt, want, tmp, tmpRcpt, bak, had>>

Continues(o, at) ==
    /\ pc' = [pc EXCEPT ![o] = at]
    /\ UNCHANGED <<src, revision, active, want, result>>

\* execute_stage: the project configuration may have changed (Conflict), then
\* destination and receipt are compared with the review, then resolve again.
ExecuteStage(o) ==
    /\ pc[o] = "review"
    /\ \/ FailsBeforeCommit(o)
       \/ /\ out = want[o].out /\ rcpt = want[o].rcpt
          /\ Resolves /\ revision = want[o].rev
          /\ Continues(o, "preflight")
          /\ UNCHANGED <<out, rcpt, tmp, tmpRcpt, bak, had>>

PreflightStage(o) ==
    /\ pc[o] = "preflight"
    /\ \/ /\ Preflight(want[o].overwrite)
          /\ Continues(o, "copy")
          /\ UNCHANGED <<out, rcpt, tmp, tmpRcpt, bak, had>>
       \/ /\ ~Preflight(want[o].overwrite)
          /\ FailsBeforeCommit(o)

-----------------------------------------------------------------------------
(* stage                                                                   *)

\* Mutant: an asset that is not there is skipped.
CopyAssetsSkips(o) ==
    /\ pc[o] = "copy"
    /\ tmp' = [tmp EXCEPT ![o] = src]
    /\ Continues(o, "receipt")
    /\ UNCHANGED <<out, rcpt, bak, tmpRcpt, had>>

CopyAssets(o) ==
    /\ pc[o] = "copy"
    /\ UNCHANGED <<out, rcpt, bak>>
    /\ \/ /\ src # Absent
          /\ tmp' = [tmp EXCEPT ![o] = src]
          /\ Continues(o, "receipt")
          /\ UNCHANGED <<tmpRcpt, had>>
       \/ StageError(o)

WriteReceipt(o) ==
    /\ pc[o] = "receipt"
    /\ UNCHANGED <<out, rcpt, bak>>
    /\ \/ /\ tmpRcpt' = [tmpRcpt EXCEPT ![o] = [by |-> o, rev |-> want[o].rev]]
          /\ Continues(o, "backup")
          /\ UNCHANGED <<tmp, had>>
       \/ StageError(o)

\* Mutant: the old output is removed instead of being set aside.
BackupOutputRemoves(o) ==
    /\ pc[o] = "backup"
    /\ UNCHANGED <<rcpt, bak>>
    /\ \/ /\ out' = Absent
          /\ had' = [had EXCEPT ![o] = out # Absent]
          /\ Continues(o, "swap")
          /\ UNCHANGED <<tmp, tmpRcpt>>
       \/ out # Absent /\ UNCHANGED out /\ StageError(o)

\* if had_output { rename(out, backup) }
BackupOutput(o) ==
    /\ pc[o] = "backup"
    /\ UNCHANGED rcpt
    /\ \/ /\ out = Absent
          /\ had' = [had EXCEPT ![o] = FALSE]
          /\ Continues(o, "swap")
          /\ UNCHANGED <<out, tmp, tmpRcpt, bak>>
       \/ /\ out # Absent
          /\ out' = Absent
          /\ bak' = [bak EXCEPT ![o] = out]
          /\ had' = [had EXCEPT ![o] = TRUE]
          /\ Continues(o, "swap")
          /\ UNCHANGED <<tmp, tmpRcpt>>
       \/ /\ out # Absent
          /\ \/ UNCHANGED <<out, bak>>
             \/ out' = Absent /\ bak' = [bak EXCEPT ![o] = out]
          /\ StageError(o)

\* "let _ = rename(backup, out)" when there was an output: f is what the
\* failed step left at the destination.
RestoresBackup(o, f) ==
    \/ out' = f /\ UNCHANGED bak
    \/ had[o] /\ out' = bak[o] /\ bak' = [bak EXCEPT ![o] = Absent]

NewOutput(o) == [by |-> o, bytes |-> tmp[o]]

\* rename(temporary, out)
SwapOutput(o) ==
    /\ pc[o] = "swap"
    /\ UNCHANGED rcpt
    /\ \/ /\ out' = NewOutput(o)
          /\ tmp' = [tmp EXCEPT ![o] = Absent]
          /\ Continues(o, "commit")
          /\ UNCHANGED <<tmpRcpt, bak, had>>
       \/ /\ \E f \in {out, NewOutput(o)} : RestoresBackup(o, f)
          /\ StageError(o)

\* Mutant: a receipt that could not be put in place is ignored.
CommitReceiptIgnored(o) ==
    /\ pc[o] = "commit"
    /\ UNCHANGED <<out, tmp, bak, had>>
    /\ \/ rcpt' = tmpRcpt[o] /\ tmpRcpt' = [tmpRcpt EXCEPT ![o] = Absent]
       \/ UNCHANGED <<rcpt, tmpRcpt>>
    /\ Continues(o, "clean")

\* rename(temporary_receipt, receipt_path); on error remove_any(out), which
\* may fail, and the backup goes back.
CommitReceipt(o) ==
    /\ pc[o] = "commit"
    /\ \/ /\ rcpt' = tmpRcpt[o]
          /\ tmpRcpt' = [tmpRcpt EXCEPT ![o] = Absent]
          /\ Continues(o, "clean")
          /\ UNCHANGED <<out, tmp, bak, had>>
       \/ /\ rcpt' \in {rcpt, tmpRcpt[o]}
          /\ \E f \in {out, Absent} : RestoresBackup(o, f)
          /\ StageError(o)

\* if had_output { remove_any(backup)? }; its failure is reported as an error
\* although output and receipt are in place.
RemoveBackup(o) ==
    /\ pc[o] = "clean"
    /\ UNCHANGED dest
    /\ \/ /\ bak' = [bak EXCEPT ![o] = Absent]
          /\ pc' = [pc EXCEPT ![o] = "done"]
          /\ result' = [result EXCEPT ![o] = "committed"]
          /\ UNCHANGED <<src, revision, active, want, tmp, tmpRcpt, had>>
       \/ /\ had[o]
          /\ UNCHANGED bak
          /\ StageError(o)

\* The process dies; files stay as they are.
Crash(o) ==
    /\ Busy(o)
    /\ pc' = [pc EXCEPT ![o] = "crashed"]
    /\ UNCHANGED <<src, revision, active, out, rcpt, want, tmp, tmpRcpt, bak, had, result>>

Step(o) ==
    \/ \E w \in BOOLEAN : PrepareStage(o, w) \/ Consume(o, w)
    \/ ExecuteStage(o) \/ PreflightStage(o) \/ CopyAssets(o) \/ WriteReceipt(o)
    \/ BackupOutput(o) \/ SwapOutput(o) \/ CommitReceipt(o) \/ RemoveBackup(o)
    \/ Crash(o)

Next == RewriteAsset \/ ChangeManifest \/ \E o \in Ops : Step(o)

Spec == Init /\ [][Next]_vars
-----------------------------------------------------------------------------
(* Properties                                                              *)

\* The types of the variables
TypeOK ==
    /\ src \in Bytes \cup {Absent}
    /\ revision \in Nat
    /\ active \in BOOLEAN
    /\ out \in File \cup {Absent}
    /\ rcpt \in Receipt \cup {Absent}
    /\ pc \in [Ops -> Locations]
    /\ want \in [Ops -> Want]
    /\ tmp \in [Ops -> Bytes \cup {Absent}]
    /\ tmpRcpt \in [Ops -> Receipt \cup {Absent}]
    /\ bak \in [Ops -> File \cup {Absent}]
    /\ had \in [Ops -> BOOLEAN]
    /\ result \in [Ops -> Outcomes]

InPlace(o) == out # Absent /\ out.by = o /\ rcpt # Absent /\ rcpt.by = o

\* The output that was at the destination before any staging still exists,
\* there or in a backup.
OldOutputKept ==
    \/ out # Absent /\ out.by = Somebody
    \/ \E o \in Ops : bak[o] # Absent /\ bak[o].by = Somebody

\* "An old destination must survive a failed overwrite": whatever fails or
\* dies, the old output is given up only by an operation whose own output and
\* receipt are in place.
OldOutputSurvives ==
    [][OldOutputKept /\ ~OldOutputKept' =>
          \E o \in Ops : pc[o] = "clean" /\ InPlace(o)]_vars

\* An operation that reports success put both its output and its receipt in
\* place; one that reports a clean failure left neither; and an unknown outcome
\* is upgraded to "committed with a follow-up error" only when this operation's
\* own receipt and the registered bytes are in place, so an earlier staging of
\* the same version is not taken for it.
StageOutcomeTruthful ==
    [][\A o \in Ops : result'[o] # result[o] =>
          /\ result'[o] = "committed" => InPlace(o)'
          /\ result'[o] = "failed_before_commit" =>
                /\ out' = out /\ rcpt' = rcpt
                /\ (out # Absent => out.by # o) /\ (rcpt # Absent => rcpt.by # o)
          /\ result'[o] = "committed_with_followup_error" =>
                rcpt'.by = o /\ out'.bytes = Registered]_vars
=============================================================================
