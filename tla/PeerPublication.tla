--------------------------- MODULE PeerPublication ---------------------------
(***************************************************************************)
(* Publication and withdrawal of product versions by several processes     *)
(* that share one provider project: mesh_core/src/services/peer_access.rs  *)
(* (publish_reviewed, withdraw_with_precondition, ManifestLock) and the    *)
(* review-bound callers of interactive_operations.rs.                      *)
(*                                                                         *)
(* A process is one feam CLI call, TUI worker or pipeline helper.  Asset   *)
(* files belong to the provider's users and may be rewritten at any time.  *)
(* A request declares one asset, which stands for the loop over assets.    *)
(***************************************************************************)
EXTENDS Integers, FiniteSets

CONSTANTS Procs,        \* processes working on the provider project
          Keys,         \* product/version pairs, each with its asset file
          Contents,     \* byte contents an asset file can have
          Inspectable,  \* contents the Parquet/GeoTIFF inspectors accept
          Sizes,        \* file sizes
          Size,         \* size of each content
          Reasons,      \* withdrawal reasons
          MaxRecords,   \* records that fit in MAX_MANIFEST_BYTES
          StatMayFail,  \* Path::exists() may answer FALSE for a present file
          Missing,      \* an asset path with no regular file behind it
          NoDigest,     \* digest_opt_out: no sha256 recorded
          NoReason, NoRecord, NoOne, Orphan

AnyRevision == -1       \* expected_manifest_revision: None

ASSUME PeerAssumption ==
    /\ Keys # {}
    /\ Inspectable \subseteq Contents
    /\ Sizes \subseteq Nat /\ Sizes # {}
    /\ Size \in [Contents -> Sizes]
    /\ MaxRecords \in Nat
    /\ StatMayFail \in BOOLEAN
    /\ Missing \notin Contents
    /\ NoDigest \notin Contents
    /\ NoOne \notin Procs /\ Orphan \notin Procs /\ NoOne # Orphan

VARIABLES
    asset,     \* the bytes now at each version's declared asset path
    revision,  \* revision of serving/manifest.json, 0 when the file is absent
    recs,      \* its version records
    lock,      \* who created .feam-manifest.lock: a live process, Orphan, NoOne
    pc,        \* where each process is
    op,        \* the request (and reviewed preconditions) it is executing
    cand,      \* the candidate validate_publication computed
    snap,      \* the manifest it read while holding the lock
    result,    \* the OperationState it reports
    touched,   \* its asset was rewritten between two of its passes over it
    applied    \* history: its rename replaced the manifest

vars == <<asset, revision, recs, lock, pc, op, cand, snap, result, touched, applied>>

-----------------------------------------------------------------------------
(* Records and helpers                                                     *)

Candidate == [size: Sizes, digest: Contents \cup {NoDigest}]

Log == INSTANCE PublicationLog WITH Candidates <- Candidate

Record == Log!Record

ASSUME NoRecordAssumption == NoRecord \notin Record

RecordMap == [Keys -> Record \cup {NoRecord}]

OperationFields == [cand: Candidate,                \* inventory_fingerprint
                    kind: {"publish", "withdraw"}, key: Keys, optout: BOOLEAN,
                    reason: Reasons \cup {NoReason},
                    rev: Nat \cup {AnyRevision},    \* expected_manifest_revision
                    src: Contents \cup {Missing}]   \* source_state

Operation == {o \in OperationFields : o.kind = "withdraw" => o.reason \in Reasons}

Locations == {"idle", "review", "inspect", "digest", "lock", "locked",
              "recheck", "rehash", "write", "unlock", "done", "crashed"}

Critical == {"locked", "recheck", "rehash", "write", "unlock"}

Outcomes == {"none", "committed", "failed_before_commit", "outcome_unknown"}

SomeCandidate == [size |-> CHOOSE s \in Sizes : TRUE, digest |-> NoDigest]

\* A request with no reviewed precondition.
Unreviewed(kind, k, optout, why) ==
    [cand |-> SomeCandidate, kind |-> kind, key |-> k, optout |-> optout,
     reason |-> why, rev |-> AnyRevision, src |-> Missing]

NoOp == Unreviewed("publish", CHOOSE k \in Keys : TRUE, FALSE, NoReason)

EmptyManifest == [recs |-> [k \in Keys |-> NoRecord], rev |-> 0]

\* validate_publication of a file that keeps the bytes c throughout
CandidateFor(c, optout) ==
    [size |-> Size[c], digest |-> IF optout THEN NoDigest ELSE c]

\* What sha256_file reads.  A file that is rewritten before or during the pass
\* gives any bytes: the old ones, the new ones or a mixture.
Hashed(p) == IF touched[p] THEN Contents ELSE {asset[op[p].key]} \ {Missing}

\* Mutant: recheck_candidate trusts the digest and skips the size.
SameSizeAnyway(c, candidate) == c # Missing

\* recheck_candidate, first pass: metadata
SameSize(c, candidate) == c # Missing /\ Size[c] = candidate.size

\* recheck_candidate, second pass, when a digest was recorded
SameDigest(c, candidate) == candidate.digest # NoDigest => c = candidate.digest

RecordCount(r) == Cardinality({k \in Keys : r[k] # NoRecord})

Reviewed(p) == op[p].rev # AnyRevision

Moves(p, from, to) == /\ pc[p] = from
                      /\ pc' = [pc EXCEPT ![p] = to]

\* Mutant: outcome_state takes a filesystem error for a clean failure.
IoOutcomeFailed == "failed_before_commit"

\* outcome_state of PeerError::Io
IoOutcome == "outcome_unknown"

\* The call returns with outcome o; a held lock is dropped on the way out.
Returns(p, o) ==
    /\ result' = [result EXCEPT ![p] = o]
    /\ pc' = [pc EXCEPT ![p] = IF pc[p] \in Critical THEN "unlock" ELSE "done"]

Fails(p) == Returns(p, "failed_before_commit")

Begins(p, o, at) ==
    /\ pc[p] = "idle"
    /\ pc' = [pc EXCEPT ![p] = at]
    /\ op' = [op EXCEPT ![p] = o]
    /\ UNCHANGED <<asset, revision, recs, lock, cand, snap, result, touched, applied>>

Init ==
    /\ asset \in [Keys -> Contents \cup {Missing}]
    /\ revision = 0
    /\ recs = [k \in Keys |-> NoRecord]
    /\ lock = NoOne
    /\ pc = [p \in Procs |-> "idle"]
    /\ op = [p \in Procs |-> NoOp]
    /\ cand = [p \in Procs |-> SomeCandidate]
    /\ snap = [p \in Procs |-> EmptyManifest]
    /\ result = [p \in Procs |-> "none"]
    /\ touched = [p \in Procs |-> FALSE]
    /\ applied = [p \in Procs |-> FALSE]

-----------------------------------------------------------------------------
(* Requests                                                                *)

\* A provider's user rewrites or removes an asset file.
RewriteAsset(k) ==
    /\ \E c \in (Contents \cup {Missing}) \ {asset[k]} :
          asset' = [asset EXCEPT ![k] = c]
    /\ touched' = [p \in Procs |->
           touched[p] \/ (op[p].key = k /\ pc[p] \in {"digest", "rehash"})]
    /\ UNCHANGED <<revision, recs, lock, pc, op, cand, snap, result, applied>>

\* publish: the CLI call, with no reviewed precondition.
Publish(p, k, optout) ==
    Begins(p, Unreviewed("publish", k, optout, NoReason), "inspect")

\* withdraw: the CLI call.  Nothing is read before the lock is taken.
Withdraw(p, k, why) ==
    Begins(p, Unreviewed("withdraw", k, FALSE, why), "lock")

\* prepare_publication: validate, then bind the candidate and the revision.
PreparePublication(p, k, optout) ==
    /\ asset[k] \in Inspectable
    /\ Begins(p, [Unreviewed("publish", k, optout, NoReason) EXCEPT
                     !.rev = revision, !.src = asset[k],
                     !.cand = CandidateFor(asset[k], optout)], "review")

\* prepare_withdrawal: the version must resolve (active, asset of its size).
PrepareWithdrawal(p, k, why) ==
    /\ recs[k] # NoRecord
    /\ recs[k].life = "active"
    /\ asset[k] # Missing
    /\ Size[asset[k]] = recs[k].cand.size
    /\ Begins(p, [Unreviewed("withdraw", k, FALSE, why) EXCEPT !.rev = revision],
              "review")

\* execute_publication / execute_withdrawal: the project is reopened and its
\* configuration compared (it may have changed: Conflict), then for a
\* publication the source state.
ExecuteReviewed(p) ==
    /\ pc[p] = "review"
    /\ \/ Fails(p)
       \/ /\ op[p].kind = "publish" => asset[op[p].key] = op[p].src
          /\ pc' = [pc EXCEPT ![p] =
                       IF op[p].kind = "publish" THEN "inspect" ELSE "lock"]
          /\ UNCHANGED result
    /\ UNCHANGED <<asset, revision, recs, lock, op, cand, snap, touched, applied>>

-----------------------------------------------------------------------------
(* validate_publication: the size and format are read first, the digest in *)
(* a second pass over the file.                                            *)

Inspect(p) ==
    /\ pc[p] = "inspect"
    /\ LET c == asset[op[p].key] IN
         \/ /\ c \in Inspectable
            /\ cand' = [cand EXCEPT ![p] = CandidateFor(c, TRUE)]
            /\ touched' = [touched EXCEPT ![p] = FALSE]
            /\ pc' = [pc EXCEPT ![p] = "digest"]
            /\ UNCHANGED result
         \/ /\ c \notin Inspectable
            /\ Fails(p)
            /\ UNCHANGED <<cand, touched>>
    /\ UNCHANGED <<asset, revision, recs, lock, op, snap, applied>>

\* Mutant: a digest that could not be computed is recorded all the same.
DigestUnchecked(p) ==
    /\ pc[p] = "digest"
    /\ cand' = [cand EXCEPT ![p].digest = asset[op[p].key]]
    /\ pc' = [pc EXCEPT ![p] = "lock"]
    /\ touched' = [touched EXCEPT ![p] = FALSE]
    /\ UNCHANGED <<asset, revision, recs, lock, op, snap, result, applied>>

Digest(p) ==
    /\ pc[p] = "digest"
    /\ \/ /\ op[p].optout
          /\ UNCHANGED <<cand, result>>
          /\ pc' = [pc EXCEPT ![p] = "lock"]
       \/ /\ ~op[p].optout
          /\ \E c \in Hashed(p) : cand' = [cand EXCEPT ![p].digest = c]
          /\ pc' = [pc EXCEPT ![p] = "lock"]
          /\ UNCHANGED result
       \/ /\ ~op[p].optout
          /\ asset[op[p].key] = Missing         \* File::open fails: PeerError::Io
          /\ Returns(p, IoOutcome)
          /\ UNCHANGED cand
    /\ touched' = [touched EXCEPT ![p] = FALSE]
    /\ UNCHANGED <<asset, revision, recs, lock, op, snap, applied>>

-----------------------------------------------------------------------------
(* ManifestLock                                                            *)

\* Mutant: the lock file is opened without create_new.
AcquireLockShared(p) ==
    /\ pc[p] = "lock"
    /\ lock' = p
    /\ pc' = [pc EXCEPT ![p] = "locked"]
    /\ UNCHANGED <<asset, revision, recs, op, cand, snap, result, touched, applied>>

\* create_new succeeds; writing or syncing the pid line may still fail, which
\* returns before the guard exists and leaves the file behind.
AcquireLock(p) ==
    /\ pc[p] = "lock"
    /\ lock = NoOne
    /\ \/ /\ lock' = p
          /\ pc' = [pc EXCEPT ![p] = "locked"]
          /\ UNCHANGED result
       \/ /\ lock' = Orphan
          /\ Returns(p, IoOutcome)
    /\ UNCHANGED <<asset, revision, recs, op, cand, snap, touched, applied>>

\* Mutant: the acquire loop has no deadline.
LockTimeoutNever(p) == FALSE

\* The lock file existed for the whole 30 s: LockTimeout.
LockTimeout(p) ==
    /\ pc[p] = "lock"
    /\ lock # NoOne
    /\ Fails(p)
    /\ UNCHANGED <<asset, revision, recs, lock, op, cand, snap, touched, applied>>

\* Drop for ManifestLock; a failed remove_file is ignored.
DropLock(p) ==
    /\ Moves(p, "unlock", "done")
    /\ lock' \in {NoOne, Orphan}
    /\ snap' = [snap EXCEPT ![p] = EmptyManifest]
    /\ touched' = [touched EXCEPT ![p] = FALSE]
    /\ UNCHANGED <<asset, revision, recs, op, cand, result, applied>>

\* Stale-lock recovery is an explicit operator action.
ClearStaleLock ==
    /\ lock = Orphan
    /\ lock' = NoOne
    /\ UNCHANGED <<asset, revision, recs, pc, op, cand, snap, result, touched, applied>>

-----------------------------------------------------------------------------
(* The critical section                                                    *)

\* read_or_empty_manifest / read_manifest_at, whose first test is path.exists()
ManifestView(seen) ==
    IF seen THEN [recs |-> recs, rev |-> revision] ELSE EmptyManifest

\* Mutant: the reviewed inventory is not compared.
ConflictingAnyInventory(p, m) ==
    \/ op[p].kind = "withdraw" /\ m.rev = 0
    \/ Reviewed(p) /\ op[p].rev # m.rev

\* The early returns before the manifest is used: another inventory than the
\* reviewed one, nothing to withdraw from, another revision than reviewed.
Conflicting(p, m) ==
    \/ op[p].kind = "publish" /\ Reviewed(p) /\ cand[p] # op[p].cand
    \/ op[p].kind = "withdraw" /\ m.rev = 0
    \/ Reviewed(p) /\ op[p].rev # m.rev

ReadManifest(p) ==
    /\ pc[p] = "locked"
    /\ \E seen \in {TRUE, ~StatMayFail} :
         LET m == ManifestView(seen) IN
         \/ /\ Conflicting(p, m)
            /\ Fails(p)
            /\ UNCHANGED snap
         \/ /\ ~Conflicting(p, m)
            /\ snap' = [snap EXCEPT ![p] = m]
            /\ pc' = [pc EXCEPT ![p] = "recheck"]
            /\ UNCHANGED result
    /\ UNCHANGED <<asset, revision, recs, lock, op, cand, touched, applied>>

\* The publisher's recheck_candidate reads the size, then the digest; the
\* file may be rewritten between the two.
RecheckSize(p) ==
    /\ pc[p] = "recheck" /\ op[p].kind = "publish"
    /\ \/ /\ SameSize(asset[op[p].key], cand[p])
          /\ pc' = [pc EXCEPT ![p] = "rehash"]
          /\ touched' = [touched EXCEPT ![p] = FALSE]
          /\ UNCHANGED result
       \/ /\ ~SameSize(asset[op[p].key], cand[p])
          /\ Fails(p)
          /\ UNCHANGED touched
    /\ UNCHANGED <<asset, revision, recs, lock, op, cand, snap, applied>>

\* Mutant: a version that is already in the manifest is published again.
UnusedAnyway(p) == TRUE

\* The duplicate test
Unused(p) == snap[p].recs[op[p].key] = NoRecord

RecheckDigest(p) ==
    /\ pc[p] = "rehash"
    /\ \E c \in Hashed(p) :
         \/ /\ SameDigest(c, cand[p]) /\ Unused(p)
            /\ pc' = [pc EXCEPT ![p] = "write"]
            /\ UNCHANGED result
         \/ /\ ~(SameDigest(c, cand[p]) /\ Unused(p))
            /\ Fails(p)
    /\ UNCHANGED <<asset, revision, recs, lock, op, cand, snap, touched, applied>>

\* The withdrawer's lookup of an active record
FindActive(p) ==
    /\ pc[p] = "recheck" /\ op[p].kind = "withdraw"
    /\ LET r == snap[p].recs[op[p].key] IN
         \/ /\ r # NoRecord /\ r.life = "active"
            /\ pc' = [pc EXCEPT ![p] = "write"]
            /\ UNCHANGED result
         \/ /\ ~(r # NoRecord /\ r.life = "active")
            /\ Fails(p)
    /\ UNCHANGED <<asset, revision, recs, lock, op, cand, snap, touched, applied>>

NewRecords(p) ==
    LET k == op[p].key IN
    [snap[p].recs EXCEPT ![k] =
        IF op[p].kind = "publish" THEN Log!Published(cand[p])
                                  ELSE Log!Withdrawn(@, op[p].reason)]

\* write_manifest_atomic: the size limit, then temp file, sync and rename.  An
\* I/O error may be reported whether or not the rename took effect.
WriteManifest(p) ==
    /\ pc[p] = "write"
    /\ \/ /\ RecordCount(NewRecords(p)) > MaxRecords
          /\ Fails(p)
          /\ UNCHANGED <<revision, recs, applied>>
       \/ /\ RecordCount(NewRecords(p)) <= MaxRecords
          /\ Returns(p, IoOutcome)
          /\ UNCHANGED <<revision, recs, applied>>
       \/ /\ RecordCount(NewRecords(p)) <= MaxRecords
          /\ \/ Returns(p, "committed")
             \/ Returns(p, IoOutcome)
          /\ revision' = snap[p].rev + 1
          /\ recs' = NewRecords(p)
          /\ applied' = [applied EXCEPT ![p] = TRUE]
    /\ UNCHANGED <<asset, lock, op, cand, snap, touched>>

\* Any other filesystem error in the call: PeerError::Io.
IoError(p) ==
    /\ pc[p] \in {"lock", "inspect", "digest", "locked", "recheck", "rehash"}
    /\ Returns(p, IoOutcome)
    /\ UNCHANGED <<asset, revision, recs, lock, op, cand, snap, touched, applied>>

-----------------------------------------------------------------------------
(* Process life                                                            *)

\* The process dies.  What it held in memory is gone, its lock file stays.
Crash(p) ==
    /\ pc[p] \notin {"idle", "crashed"}
    /\ pc' = [pc EXCEPT ![p] = "crashed"]
    /\ result' = [result EXCEPT ![p] = "none"]
    /\ lock' = IF lock = p THEN Orphan ELSE lock
    /\ snap' = [snap EXCEPT ![p] = EmptyManifest]
    /\ touched' = [touched EXCEPT ![p] = FALSE]
    /\ UNCHANGED <<asset, revision, recs, op, cand, applied>>

\* The caller takes the result (or starts again after a crash, or discards
\* the review).
Finish(p) ==
    /\ pc[p] \in {"done", "crashed", "review"}
    /\ pc' = [pc EXCEPT ![p] = "idle"]
    /\ op' = [op EXCEPT ![p] = NoOp]
    /\ cand' = [cand EXCEPT ![p] = SomeCandidate]
    /\ snap' = [snap EXCEPT ![p] = EmptyManifest]
    /\ result' = [result EXCEPT ![p] = "none"]
    /\ touched' = [touched EXCEPT ![p] = FALSE]
    /\ applied' = [applied EXCEPT ![p] = FALSE]
    /\ UNCHANGED <<asset, revision, recs, lock>>

\* The steps of a call once it has been started.
Progress(p) ==
    \/ Inspect(p) \/ Digest(p) \/ AcquireLock(p) \/ LockTimeout(p)
    \/ ReadManifest(p) \/ RecheckSize(p) \/ RecheckDigest(p) \/ FindActive(p)
    \/ WriteManifest(p) \/ DropLock(p)

CallStep(p) == Progress(p) \/ IoError(p)

Request(p) ==
    \/ \E k \in Keys, o \in BOOLEAN : Publish(p, k, o) \/ PreparePublication(p, k, o)
    \/ \E k \in Keys, w \in Reasons : Withdraw(p, k, w) \/ PrepareWithdrawal(p, k, w)
    \/ ExecuteReviewed(p)
    \/ Finish(p)

Next ==
    \/ \E k \in Keys : RewriteAsset(k)
    \/ \E p \in Procs : Request(p) \/ CallStep(p) \/ Crash(p)
    \/ ClearStaleLock

Spec == Init /\ [][Next]_vars

\* A started call runs until it returns: its loop sleeps and retries, and
\* gives up after the lock timeout.  No error is relied upon.
FairSpec == Spec /\ \A p \in Procs : WF_vars(Progress(p))
-----------------------------------------------------------------------------
(* Properties                                                              *)

\* The types of the variables
TypeOK ==
    /\ asset \in [Keys -> Contents \cup {Missing}]
    /\ revision \in Nat
    /\ recs \in RecordMap
    /\ lock \in Procs \cup {NoOne, Orphan}
    /\ pc \in [Procs -> Locations]
    /\ op \in [Procs -> Operation]
    /\ cand \in [Procs -> Candidate]
    /\ snap \in [Procs -> [rev: Nat, recs: RecordMap]]
    /\ result \in [Procs -> Outcomes]
    /\ touched \in [Procs -> BOOLEAN]
    /\ applied \in [Procs -> BOOLEAN]

\* The manifest file behaves as the append-only log readers rely on, whatever
\* the interleaving of publishers, withdrawers, crashes and lock timeouts.
ImplementsLog == Log!LogSpec

\* What a manifest that includes p's change must show.
EffectPresent(p) ==
    LET r == recs[op[p].key] IN
    /\ r # NoRecord
    /\ op[p].kind = "publish" => r.cand = cand[p]
    /\ op[p].kind = "withdraw" => r.life = "withdrawn" /\ r.reason = op[p].reason

\* No lost update: once a call's rename took effect, its change stays in the
\* manifest, also when the call reported an error or died.
NoLostCommit == \A p \in Procs : applied[p] => EffectPresent(p)

\* outcome_state never claims more than happened: "committed" only after the
\* rename, "failed_before_commit" only without it.
OutcomeTruthful ==
    \A p \in Procs :
        /\ result[p] = "committed" => applied[p]
        /\ result[p] = "failed_before_commit" => ~applied[p]

\* A reviewed operation changes exactly the manifest revision the reviewer
\* saw, and a reviewed publication records exactly the reviewed inventory.
ReviewBinding ==
    [][\A p \in Procs : applied'[p] /\ ~applied[p] /\ Reviewed(p) =>
          /\ revision = op[p].rev
          /\ op[p].kind = "publish" => recs'[op[p].key].cand = op[p].cand]_vars

\* The size and the digest a publication records describe the same bytes,
\* although validate_publication reads them in two passes over a file that may
\* change before, between and during them, unless it changes once more between
\* the two passes of recheck_candidate under the lock.
DigestMatchesSize ==
    [][\A p \in Procs :
          applied'[p] /\ ~applied[p] /\ op[p].kind = "publish" /\ ~touched[p] =>
              LET c == recs'[op[p].key].cand
              IN  c.digest # NoDigest => c.size = Size[c.digest]]_vars

\* A started call returns (or its process dies): a lock file left behind by a
\* dead process delays other calls, it does not hang them.
CallsReturn ==
    \A p \in Procs :
        pc[p] \notin {"idle", "review", "done", "crashed"}
            ~> pc[p] \in {"done", "crashed"}
=============================================================================
