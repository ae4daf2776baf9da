-------------------------- MODULE PeerAccessProofs --------------------------
(***************************************************************************)
(* Proofs about the two sides of peer_access.rs: a project that publishes  *)
(* (PeerPublication) and a consumer that lists and resolves what its peers *)
(* have published (PeerCatalog).                                           *)
(*                                                                         *)
(* Publication, for any number of processes, versions and contents.  Type  *)
(* correctness holds outright.  Everything that relates the manifest to    *)
(* the calls rests on one inductive invariant, IInv: who is in the         *)
(* critical section created the lock file, so the manifest it read is      *)
(* still the one on disk when it writes.  That needs the premise           *)
(* ~StatMayFail: path.exists() answers truthfully.                         *)
(*                                                                         *)
(* The catalog, for any configuration, items and limits.  PagesInv says    *)
(* that a page's cursor and the listing read so far are no newer than the  *)
(* files, and that equal revisions mean equal manifests; ResolveInv says   *)
(* what the two looks of a resolve have established.                       *)
(***************************************************************************)
EXTENDS PeerPublication, PeerCatalog, FiniteSetTheorems, WellFoundedInduction, TLAPS

\* What is settled about p's call when its recheck has passed.
Checked(p) ==
    LET r == recs[op[p].key] IN
    /\ op[p].kind = "publish" => r = NoRecord
    /\ op[p].kind = "withdraw" => r # NoRecord /\ r.life = "active"

\* The invariant of one process.  The critical section is exclusive; the
\* manifest read under the lock is the one on disk and the one reviewed; a
\* call has no result before it returns and no effect before it writes.
Own(p) ==
    /\ pc[p] \in Critical => lock = p
    /\ pc[p] = "rehash" => op[p].kind = "publish"
    /\ pc[p] \in {"recheck", "rehash", "write"} =>
          /\ snap[p].rev = revision
          /\ snap[p].recs = recs
          /\ Reviewed(p) => op[p].rev = revision
          /\ Reviewed(p) /\ op[p].kind = "publish" => cand[p] = op[p].cand
    /\ pc[p] = "write" => Checked(p)
    /\ result[p] # "none" => pc[p] \in {"unlock", "done"}
    /\ applied[p] => pc[p] \in {"unlock", "done", "crashed"} /\ EffectPresent(p)
    /\ result[p] = "committed" => applied[p]
    /\ result[p] = "failed_before_commit" => ~applied[p]

IInv == TypeOK /\ \A p \in Procs : Own(p)

\* What the passes over its asset have told a publisher.
PassInv ==
    \A p \in Procs :
        /\ pc[p] = "rehash" /\ ~touched[p] => SameSize(asset[op[p].key], cand[p])
        /\ pc[p] = "write" /\ op[p].kind = "publish" /\ ~touched[p]
              /\ cand[p].digest # NoDigest => cand[p].size = Size[cand[p].digest]

-----------------------------------------------------------------------------

LEMMA NoOpType == NoOp \in Operation /\ SomeCandidate \in Candidate
  <1>1. (CHOOSE s \in Sizes : TRUE) \in Sizes
    BY PeerAssumption
  <1>2. SomeCandidate \in Candidate
    BY <1>1 DEF SomeCandidate, Candidate
  <1>3. (CHOOSE k \in Keys : TRUE) \in Keys
    BY PeerAssumption
  <1>4. QED
    BY <1>2, <1>3 DEF NoOp, Unreviewed, Operation, OperationFields, AnyRevision

LEMMA EmptyManifestType == EmptyManifest \in [rev: Nat, recs: RecordMap]
  BY DEF EmptyManifest, RecordMap

LEMMA UnreviewedType ==
  ASSUME NEW kind \in {"publish", "withdraw"}, NEW k \in Keys,
         NEW o \in BOOLEAN, NEW w \in Reasons \cup {NoReason},
         kind = "withdraw" => w \in Reasons
  PROVE  Unreviewed(kind, k, o, w) \in Operation
  BY NoOpType DEF Unreviewed, Operation, OperationFields, AnyRevision

LEMMA CandidateForType ==
  ASSUME NEW c \in Contents, NEW o \in BOOLEAN
  PROVE  CandidateFor(c, o) \in Candidate
  BY PeerAssumption DEF CandidateFor, Candidate

\* The records a call is about to write are well formed.
LEMMA NewRecordsType ==
  ASSUME TypeOK, NEW p \in Procs,
         op[p].kind = "withdraw" => snap[p].recs[op[p].key] # NoRecord
  PROVE  NewRecords(p) \in RecordMap
  <1> DEFINE k == op[p].key
  <1>1. op[p] \in Operation /\ k \in Keys /\ cand[p] \in Candidate
    BY DEF TypeOK, Operation, OperationFields
  <1>2. snap[p].recs \in RecordMap
    BY DEF TypeOK
  <1>3. Log!Published(cand[p]) \in Record
    BY <1>1 DEF Log!Published, Log!Record, Record
  <1>4. ASSUME op[p].kind # "publish"
        PROVE  Log!Withdrawn(snap[p].recs[k], op[p].reason) \in Record
    <2>1. op[p].kind = "withdraw"
      BY <1>1, <1>4 DEF Operation, OperationFields
    <2>2. snap[p].recs[k] \in Record
      BY <1>1, <1>2, <2>1 DEF RecordMap
    <2>3. QED
      BY <1>1, <2>2 DEF Log!Withdrawn, Log!Record, Record, Operation, OperationFields
  <1>5. QED
    BY <1>1, <1>2, <1>3, <1>4 DEF NewRecords, RecordMap
-----------------------------------------------------------------------------
(* Type correctness                                                        *)

\* A withdrawal that reached its write found the record in the manifest.
FoundInv ==
    \A p \in Procs :
        /\ pc[p] = "rehash" => op[p].kind = "publish"
        /\ pc[p] = "write" /\ op[p].kind = "withdraw" =>
              snap[p].recs[op[p].key] # NoRecord

TypeInv == TypeOK /\ FoundInv

\* A step that leaves another process where it was leaves its facts alone.
LEMMA BeginsType ==
  ASSUME TypeInv, NEW p \in Procs, NEW o \in Operation,
         NEW step \in {"review", "inspect", "lock"}, Begins(p, o, step)
  PROVE  TypeInv'
  <1>1. TypeOK'
    BY DEF TypeInv, TypeOK, Begins, Locations
  <1>2. FoundInv'
    BY DEF TypeInv, TypeOK, FoundInv, Begins
  <1>3. QED
    BY <1>1, <1>2 DEF TypeInv

LEMMA RequestType ==
  ASSUME TypeInv, NEW p \in Procs, Request(p)
  PROVE  TypeInv'
  <1>1. ASSUME NEW k \in Keys, NEW o \in BOOLEAN, Publish(p, k, o)
        PROVE  TypeInv'
    <2>1. Unreviewed("publish", k, o, NoReason) \in Operation
      BY UnreviewedType
    <2>2. QED
      BY <1>1, <2>1, BeginsType DEF Publish
  <1>2. ASSUME NEW k \in Keys, NEW w \in Reasons, Withdraw(p, k, w)
        PROVE  TypeInv'
    <2>1. Unreviewed("withdraw", k, FALSE, w) \in Operation
      BY UnreviewedType
    <2>2. QED
      BY <1>2, <2>1, BeginsType DEF Withdraw
  <1>3. ASSUME NEW k \in Keys, NEW o \in BOOLEAN, PreparePublication(p, k, o)
        PROVE  TypeInv'
    <2> DEFINE u == Unreviewed("publish", k, o, NoReason)
               r == [u EXCEPT !.rev = revision, !.src = asset[k],
                              !.cand = CandidateFor(asset[k], o)]
    <2>1. u \in Operation
      BY UnreviewedType
    <2>2. asset[k] \in Contents /\ revision \in Nat
      BY <1>3, PeerAssumption DEF PreparePublication, TypeInv, TypeOK
    <2>3. CandidateFor(asset[k], o) \in Candidate
      BY <2>2, CandidateForType
    <2>4. r \in Operation
      <3> HIDE DEF u
      <3> QED BY <2>1, <2>2, <2>3 DEF Operation, OperationFields
    <2>5. Begins(p, r, "review")
      BY <1>3 DEF PreparePublication
    <2>6. QED
      <3> HIDE DEF r
      <3> QED BY <2>4, <2>5, BeginsType
  <1>4. ASSUME NEW k \in Keys, NEW w \in Reasons, PrepareWithdrawal(p, k, w)
        PROVE  TypeInv'
    <2> DEFINE u == Unreviewed("withdraw", k, FALSE, w)
               r == [u EXCEPT !.rev = revision]
    <2>1. u \in Operation
      BY UnreviewedType
    <2>2. r \in Operation
      <3> HIDE DEF u
      <3> QED BY <2>1 DEF Operation, OperationFields, TypeInv, TypeOK
    <2>3. Begins(p, r, "review")
      BY <1>4 DEF PrepareWithdrawal
    <2>4. QED
      <3> HIDE DEF r
      <3> QED BY <2>2, <2>3, BeginsType
  <1>5. CASE ExecuteReviewed(p)
    BY <1>5 DEF TypeInv, TypeOK, FoundInv, ExecuteReviewed, Fails, Returns,
                Critical, Locations, Outcomes
  <1>6. CASE Finish(p)
    BY <1>6, NoOpType, EmptyManifestType
       DEF TypeInv, TypeOK, FoundInv, Finish, Locations, Outcomes
  <1>7. QED
    BY <1>1, <1>2, <1>3, <1>4, <1>5, <1>6 DEF Request

LEMMA CallStepType ==
  ASSUME TypeInv, NEW p \in Procs, CallStep(p)
  PROVE  TypeInv'
  <1> USE DEF TypeInv, TypeOK, FoundInv, Locations, Outcomes
  <1>1. CASE Inspect(p)
    <2>1. ASSUME asset[op[p].key] \in Inspectable
          PROVE  CandidateFor(asset[op[p].key], TRUE) \in Candidate
      BY <2>1, PeerAssumption, CandidateForType
    <2>2. QED
      BY <1>1, <2>1, ZenonT(60) DEF Inspect, Fails, Returns, Critical
  <1>2. CASE Digest(p)
    <2>1. op[p].key \in Keys
      BY DEF Operation, OperationFields
    <2>2. ASSUME NEW c \in Hashed(p)
          PROVE  [cand[p] EXCEPT !.digest = c] \in Candidate
      <3>1. c \in Contents
        BY <2>1, <2>2 DEF Hashed
      <3>2. QED
        BY <3>1 DEF Candidate
    <2>3. cand' \in [Procs -> Candidate]
      BY <1>2, <2>2 DEF Digest
    <2>4. QED
      BY <1>2, <2>3 DEF Digest, Returns, Critical, IoOutcome
  <1>3. CASE AcquireLock(p)
    BY <1>3 DEF AcquireLock, Returns, Critical, IoOutcome
  <1>4. CASE LockTimeout(p)
    BY <1>4 DEF LockTimeout, Fails, Returns, Critical
  <1>5. CASE ReadManifest(p)
    <2>1. \A present : ManifestView(present) \in [rev: Nat, recs: RecordMap]
      BY EmptyManifestType DEF ManifestView
    <2>2. snap' \in [Procs -> [rev: Nat, recs: RecordMap]]
      BY <1>5, <2>1 DEF ReadManifest
    <2>3. /\ pc' \in [Procs -> Locations]
          /\ \A q \in Procs : pc'[q] \in {"rehash", "write"} => q # p /\ pc'[q] = pc[q]
      BY <1>5 DEF ReadManifest, Fails, Returns, Critical
    <2>4. result' \in [Procs -> Outcomes]
      BY <1>5 DEF ReadManifest, Fails, Returns
    <2>5. \A q \in Procs : q # p => snap'[q] = snap[q]
      BY <1>5 DEF ReadManifest
    <2>6. QED
      BY <1>5, <2>2, <2>3, <2>4, <2>5 DEF ReadManifest
  <1>6. CASE RecheckSize(p) \/ RecheckDigest(p) \/ FindActive(p)
    BY <1>6 DEF RecheckSize, RecheckDigest, FindActive, Fails, Returns, Critical
  <1>7. CASE WriteManifest(p)
    <2>1. NewRecords(p) \in RecordMap
      BY <1>7, NewRecordsType DEF WriteManifest
    <2>2. snap[p].rev + 1 \in Nat
      OBVIOUS
    <2>3. QED
      BY <1>7, <2>1, <2>2
         DEF WriteManifest, Fails, Returns, Critical, IoOutcome
  <1>8. CASE DropLock(p)
    BY <1>8, EmptyManifestType DEF DropLock, Moves
  <1>9. CASE IoError(p)
    BY <1>9 DEF IoError, Returns, Critical, IoOutcome
  <1>10. QED
    BY <1>1, <1>2, <1>3, <1>4, <1>5, <1>6, <1>7, <1>8, <1>9 DEF CallStep, Progress

LEMMA TypeInvStep == TypeInv /\ [Next]_vars => TypeInv'
  <1> SUFFICES ASSUME TypeInv, [Next]_vars PROVE TypeInv'
    OBVIOUS
  <1>1. ASSUME NEW k \in Keys, RewriteAsset(k) PROVE TypeInv'
    BY <1>1 DEF RewriteAsset, TypeInv, TypeOK, FoundInv
  <1>2. ASSUME NEW p \in Procs, Crash(p) PROVE TypeInv'
    BY <1>2, EmptyManifestType
       DEF Crash, TypeInv, TypeOK, FoundInv, Locations, Outcomes
  <1>3. CASE ClearStaleLock
    BY <1>3 DEF ClearStaleLock, TypeInv, TypeOK, FoundInv
  <1>4. CASE UNCHANGED vars
    BY <1>4 DEF vars, TypeInv, TypeOK, FoundInv
  <1>5. QED
    BY <1>1, <1>2, <1>3, <1>4, RequestType, CallStepType DEF Next

\* Every variable keeps its type: in particular a candidate's digest is one of
\* the file's contents, never the digest of a file that could not be read.
THEOREM TypeCorrect == Spec => []TypeOK
  <1>1. Init => TypeInv
    BY NoOpType, EmptyManifestType
       DEF Init, TypeInv, TypeOK, FoundInv, Locations, Outcomes, RecordMap
  <1>2. QED
    BY <1>1, TypeInvStep, PTL DEF Spec, TypeInv
-----------------------------------------------------------------------------
(* The inductive invariant                                                 *)

\* p's own variables.
ownVars(p) == <<pc[p], op[p], cand[p], snap[p], result[p], applied[p]>>

\* What a step may leave alone for Own(q) to stay: q's variables, the manifest
\* and, if q is in the critical section, the lock.
LEMMA OwnFrame ==
  ASSUME NEW q \in Procs, Own(q), UNCHANGED ownVars(q),
         UNCHANGED <<revision, recs>>,
         pc[q] \in Critical => lock' = q
  PROVE  Own(q)'
  <1>1. /\ pc'[q] = pc[q] /\ op'[q] = op[q] /\ cand'[q] = cand[q]
        /\ snap'[q] = snap[q] /\ result'[q] = result[q]
        /\ applied'[q] = applied[q]
    BY DEF ownVars
  <1>2. Checked(q)' <=> Checked(q)
    BY <1>1 DEF Checked
  <1>3. EffectPresent(q)' <=> EffectPresent(q)
    BY <1>1 DEF EffectPresent
  <1>4. Reviewed(q)' <=> Reviewed(q)
    BY <1>1 DEF Reviewed
  <1>5. QED
    BY <1>1, <1>2, <1>3, <1>4 DEF Own, Critical

\* A step that changes neither the manifest nor another process's variables,
\* and takes or releases the lock only for p, need only keep Own(p).
LEMMA LocalStep ==
  ASSUME IInv, NEW p \in Procs, TypeOK', UNCHANGED <<revision, recs>>,
         \A q \in Procs : q # p => UNCHANGED ownVars(q),
         lock' = lock \/ lock \in {p, NoOne, Orphan},
         Own(p)'
  PROVE  IInv'
  <1>1. ASSUME NEW q \in Procs, q # p PROVE Own(q)'
    <2>1. Own(q)
      BY DEF IInv
    <2>2. pc[q] \in Critical => lock' = q
      BY <1>1, <2>1, PeerAssumption DEF Own
    <2>3. QED
      BY <1>1, <2>1, <2>2, OwnFrame
  <1>2. QED
    BY <1>1 DEF IInv

\* Outside its critical section a call with nothing applied is unconstrained.
LEMMA OwnOutside ==
  ASSUME NEW p \in Procs, ~applied'[p], pc'[p] \notin Critical,
         result'[p] \in {"none", "failed_before_commit", "outcome_unknown"},
         result'[p] # "none" => pc'[p] = "done"
  PROVE  Own(p)'
  BY DEF Own, Critical

LEMMA RequestKeeps ==
  ASSUME IInv, NEW p \in Procs, Request(p), TypeOK'
  PROVE  IInv'
  <1>1. UNCHANGED <<revision, recs, lock>>
    BY DEF Request, Publish, Withdraw, PreparePublication, PrepareWithdrawal,
           Begins, ExecuteReviewed, Finish
  <1>2. \A q \in Procs : q # p => UNCHANGED ownVars(q)
    BY ZenonT(60) DEF Request, Publish, Withdraw, PreparePublication, PrepareWithdrawal,
           Begins, ExecuteReviewed, Fails, Returns, Finish, ownVars, IInv, TypeOK
  <1>3. Own(p) /\ TypeOK
    BY DEF IInv
  <1>4. ASSUME NEW o, NEW step \in {"review", "inspect", "lock"}, Begins(p, o, step)
        PROVE  Own(p)'
    <2>1. ~applied[p] /\ result[p] = "none"
      BY <1>3, <1>4 DEF Own, Begins
    <2>2. ~applied'[p] /\ result'[p] = "none" /\ pc'[p] = step
      BY <1>3, <1>4, <2>1 DEF Begins, TypeOK
    <2>3. QED
      BY <2>2, OwnOutside DEF Critical
  <1>5. ASSUME ExecuteReviewed(p) PROVE Own(p)'
    <2>1. ~applied'[p] /\ result[p] = "none"
      BY <1>3, <1>5 DEF Own, ExecuteReviewed
    <2>2. /\ pc'[p] \in {"done", "inspect", "lock"}
          /\ result'[p] \in {"none", "failed_before_commit"}
          /\ result'[p] # "none" => pc'[p] = "done"
      BY <1>3, <1>5, <2>1 DEF ExecuteReviewed, Fails, Returns, TypeOK, Critical
    <2>3. pc'[p] \notin Critical
      BY <2>2 DEF Critical
    <2>4. QED
      BY <2>1, <2>2, <2>3, OwnOutside
  <1>6. ASSUME Finish(p) PROVE Own(p)'
    <2>1. ~applied'[p] /\ result'[p] = "none" /\ pc'[p] = "idle"
      BY <1>3, <1>6 DEF Finish, TypeOK
    <2>2. pc'[p] \notin Critical
      BY <2>1 DEF Critical
    <2>3. QED
      BY <2>1, <2>2, OwnOutside
  <1>7. Own(p)'
    BY <1>4, <1>5, <1>6 DEF Request, Publish, Withdraw, PreparePublication,
                            PrepareWithdrawal
  <1>8. QED
    BY <1>1, <1>2, <1>7, LocalStep

LEMMA CallStepOthers ==
  ASSUME TypeOK, NEW p \in Procs, CallStep(p)
  PROVE  \A q \in Procs : q # p => UNCHANGED ownVars(q)
  BY DEF CallStep, Progress, Inspect, Digest, AcquireLock, LockTimeout, ReadManifest,
         RecheckSize, RecheckDigest, FindActive, WriteManifest, DropLock, Moves, IoError,
         Fails, Returns,
         ownVars, TypeOK

\* A call that fails or hits an I/O error before its write returns with the
\* lock still held if it had it, and with nothing applied.
LEMMA OwnReturns ==
  ASSUME TypeOK, NEW p \in Procs, Own(p), ~applied[p], NEW o,
         o \in {"failed_before_commit", "outcome_unknown"}, Returns(p, o),
         UNCHANGED <<lock, applied>>
  PROVE  Own(p)'
  <1>1. result'[p] = o /\ ~applied'[p]
    BY DEF Returns, TypeOK
  <1>2. pc'[p] \in {"unlock", "done"} /\ (pc'[p] = "unlock" => lock' = p)
    BY DEF Returns, TypeOK, Own
  <1>3. QED
    BY <1>1, <1>2 DEF Own, Critical

LEMMA NotApplied ==
  ASSUME NEW p \in Procs, Own(p), pc[p] \notin {"unlock", "done", "crashed"}
  PROVE  ~applied[p] /\ result[p] = "none"
  BY DEF Own

\* The steps outside the critical section, and the lock operations.
LEMMA EntryOwn ==
  ASSUME TypeOK, NEW p \in Procs, Own(p),
         \/ Inspect(p) \/ Digest(p) \/ AcquireLock(p) \/ LockTimeout(p)
         \/ IoError(p) \/ DropLock(p)
  PROVE  Own(p)'
  <1>1. ASSUME Inspect(p) PROVE Own(p)'
    <2>1. ~applied[p] /\ result[p] = "none"
      BY <1>1, NotApplied DEF Inspect
    <2>2. CASE asset[op[p].key] \in Inspectable
      <3>1. ~applied'[p] /\ result'[p] = "none" /\ pc'[p] = "digest"
        BY <1>1, <2>1, <2>2 DEF Inspect, TypeOK
      <3>2. QED
        BY <3>1 DEF Own, Critical
    <2>3. CASE asset[op[p].key] \notin Inspectable
      BY <1>1, <2>1, <2>3, OwnReturns DEF Inspect, Fails
    <2>4. QED
      BY <2>2, <2>3
  <1>2. ASSUME Digest(p) PROVE Own(p)'
    <2>1. ~applied[p] /\ result[p] = "none"
      BY <1>2, NotApplied DEF Digest
    <2>2. CASE Returns(p, IoOutcome)
      BY <1>2, <2>1, <2>2, OwnReturns DEF Digest, IoOutcome
    <2>3. CASE ~Returns(p, IoOutcome)
      <3>1. ~applied'[p] /\ result'[p] = "none" /\ pc'[p] = "lock"
        BY <1>2, <2>1, <2>3 DEF Digest, TypeOK
      <3>2. QED
        BY <3>1 DEF Own, Critical
    <2>4. QED
      BY <2>2, <2>3
  <1>3. ASSUME AcquireLock(p) PROVE Own(p)'
    <2>1. ~applied'[p] /\ result[p] = "none"
      BY <1>3, NotApplied DEF AcquireLock
    <2>2. \/ result'[p] = "none" /\ pc'[p] = "locked" /\ lock' = p
          \/ result'[p] = "outcome_unknown" /\ pc'[p] = "done"
      BY <1>3, <2>1 DEF AcquireLock, Returns, IoOutcome, TypeOK, Critical
    <2>3. QED
      BY <2>1, <2>2 DEF Own, Critical
  <1>4. ASSUME LockTimeout(p) PROVE Own(p)'
    BY <1>4, NotApplied, OwnReturns DEF LockTimeout, Fails
  <1>5. ASSUME IoError(p) PROVE Own(p)'
    BY <1>5, NotApplied, OwnReturns DEF IoError, IoOutcome
  <1>6. ASSUME DropLock(p) PROVE Own(p)'
    <2>1. pc'[p] = "done" /\ pc[p] = "unlock"
      BY <1>6 DEF DropLock, Moves, TypeOK
    <2>2. EffectPresent(p)' <=> EffectPresent(p)
      BY <1>6 DEF DropLock, EffectPresent
    <2>3. result'[p] = result[p] /\ applied'[p] = applied[p]
      BY <1>6 DEF DropLock
    <2>4. QED
      BY <2>1, <2>2, <2>3 DEF Own, Critical
  <1>7. QED
    BY <1>1, <1>2, <1>3, <1>4, <1>5, <1>6

\* The manifest is read, and compared with what was reviewed, under the lock.
LEMMA ReadOwn ==
  ASSUME ~StatMayFail, TypeOK, NEW p \in Procs, Own(p), ReadManifest(p)
  PROVE  Own(p)'
  <1> DEFINE m == ManifestView(TRUE)
  <1>1. pc[p] = "locked" /\ lock = p /\ ~applied[p] /\ result[p] = "none"
    BY NotApplied DEF ReadManifest, Own, Critical
  <1>2. CASE Conflicting(p, m)
    <2>1. Fails(p) /\ UNCHANGED <<lock, applied>>
      BY <1>2 DEF ReadManifest
    <2>2. QED
      BY <1>1, <2>1, OwnReturns DEF Fails
  <1>3. CASE ~Conflicting(p, m)
    <2>1. snap'[p] = m /\ pc'[p] = "recheck" /\ result'[p] = "none"
      BY <1>1, <1>3 DEF ReadManifest, TypeOK
    <2>2. UNCHANGED <<revision, recs, lock, op, cand, applied>>
      BY DEF ReadManifest
    <2>3. m.rev = revision /\ m.recs = recs
      BY DEF ManifestView
    <2>4. /\ Reviewed(p) => op[p].rev = revision
          /\ Reviewed(p) /\ op[p].kind = "publish" => cand[p] = op[p].cand
      BY <1>3, <2>3 DEF Conflicting
    <2>5. Reviewed(p)' <=> Reviewed(p)
      BY <2>2 DEF Reviewed
    <2>6. QED
      BY <1>1, <2>1, <2>2, <2>3, <2>4, <2>5 DEF Own, Critical
  <1>4. QED
    BY <1>2, <1>3

LEMMA RecheckOwn ==
  ASSUME TypeOK, NEW p \in Procs, Own(p), RecheckSize(p) \/ RecheckDigest(p) \/ FindActive(p)
  PROVE  Own(p)'
  <1>1. pc[p] \in {"recheck", "rehash"} /\ lock = p /\ ~applied[p] /\ result[p] = "none"
    BY NotApplied DEF RecheckSize, RecheckDigest, FindActive, Own, Critical
  <1>2. UNCHANGED <<revision, recs, lock, op, cand, snap, applied>>
    BY DEF RecheckSize, RecheckDigest, FindActive
  <1>3. CASE Fails(p)
    BY <1>1, <1>2, <1>3, OwnReturns DEF Fails
  <1>4. CASE ~Fails(p)
    <2>1. /\ result'[p] = "none" /\ pc'[p] \in {"rehash", "write"}
          /\ pc'[p] = "rehash" => op[p].kind = "publish"
          /\ pc'[p] = "write" => Checked(p)
      BY <1>1, <1>4 DEF RecheckSize, RecheckDigest, FindActive, Unused, Own, Checked, TypeOK
    <2>2. (Checked(p)' <=> Checked(p)) /\ (Reviewed(p)' <=> Reviewed(p))
      BY <1>2 DEF Checked, Reviewed
    <2>3. QED
      BY <1>1, <1>2, <2>1, <2>2 DEF Own, Critical
  <1>5. QED
    BY <1>3, <1>4

\* What a successful rename does to the manifest: one step of the log.
LEMMA WriteEffect ==
  ASSUME TypeOK, NEW p \in Procs, Own(p), WriteManifest(p),
         ~(UNCHANGED <<revision, recs>>)
  PROVE  LET k == op[p].key IN
         /\ k \in Keys
         /\ Checked(p)
         /\ revision' = revision + 1
         /\ recs' = [recs EXCEPT ![k] = recs'[k]]
         /\ recs'[k] \in Record
         /\ op[p].kind = "publish" => recs'[k] = Log!Published(cand[p])
         /\ op[p].kind = "withdraw" =>
               recs'[k] = Log!Withdrawn(recs[k], op[p].reason)
  <1> DEFINE k == op[p].key
  <1>1. k \in Keys /\ op[p].kind \in {"publish", "withdraw"}
    BY DEF TypeOK, Operation, OperationFields
  <1>2. snap[p].rev = revision /\ snap[p].recs = recs /\ Checked(p)
    BY DEF WriteManifest, Own
  <1>3. revision' = revision + 1 /\ recs' = NewRecords(p)
    BY <1>2 DEF WriteManifest
  <1>4. recs \in [Keys -> Record \cup {NoRecord}]
    BY DEF TypeOK, RecordMap
  <1>5. NewRecords(p) \in RecordMap
    BY <1>2, NewRecordsType DEF Checked
  <1>6. /\ op[p].kind = "publish" => NewRecords(p)[k] = Log!Published(cand[p])
        /\ op[p].kind = "withdraw" =>
              NewRecords(p)[k] = Log!Withdrawn(recs[k], op[p].reason)
        /\ NewRecords(p) = [recs EXCEPT ![k] = NewRecords(p)[k]]
    BY <1>1, <1>2, <1>4 DEF NewRecords
  <1>7. NewRecords(p)[k] \in Record
    <2>1. CASE op[p].kind = "publish"
      BY <1>6, <2>1 DEF Log!Published, TypeOK, Record, Log!Record
    <2>2. CASE op[p].kind = "withdraw"
      <3>1. recs[k] \in Record
        BY <1>1, <1>2, <1>4, <2>2 DEF Checked
      <3>2. QED
        BY <1>6, <2>2, <3>1
           DEF Log!Withdrawn, TypeOK, Operation, OperationFields, Record, Log!Record
    <2>3. QED
      BY <1>1, <2>1, <2>2
  <1>8. QED
    BY <1>1, <1>2, <1>3, <1>6, <1>7

\* The rename keeps every change that was applied before it.
LEMMA WriteKeepsEffects ==
  ASSUME TypeOK, NEW p \in Procs, Own(p), WriteManifest(p),
         ~(UNCHANGED <<revision, recs>>),
         NEW q \in Procs, q # p, EffectPresent(q)
  PROVE  EffectPresent(q)'
  <1> DEFINE k == op[p].key
             j == op[q].key
  <1>1. op' = op /\ cand' = cand
    BY DEF WriteManifest
  <1>2. recs \in [Keys -> Record \cup {NoRecord}] /\ j \in Keys
    BY DEF TypeOK, RecordMap, Operation, OperationFields
  <1>3. op[p].kind \in {"publish", "withdraw"}
    BY DEF TypeOK, Operation, OperationFields
  <1>4. CASE j # k
    <2>1. recs'[j] = recs[j]
      BY <1>2, <1>4, WriteEffect
    <2>2. QED
      BY <1>1, <2>1 DEF EffectPresent
  <1>5. CASE j = k
    <2>1. op[p].kind = "withdraw"
      BY <1>3, <1>5, WriteEffect DEF EffectPresent, Checked
    <2>2. recs[j].life = "active" /\ recs'[j] = Log!Withdrawn(recs[j], op[p].reason)
      BY <1>5, <2>1, WriteEffect DEF Checked
    <2>3. op[q].kind # "withdraw"
      BY <2>2 DEF EffectPresent
    <2>4. recs'[j] # NoRecord
      BY <1>5, WriteEffect, NoRecordAssumption
    <2>5. recs'[j].cand = recs[j].cand
      BY <2>2 DEF Log!Withdrawn
    <2>6. QED
      BY <1>1, <2>3, <2>4, <2>5 DEF EffectPresent
  <1>6. QED
    BY <1>4, <1>5

LEMMA WriteKeeps ==
  ASSUME IInv, NEW p \in Procs, WriteManifest(p), TypeOK'
  PROVE  IInv'
  <1> USE CallStepOthers DEF CallStep, Progress
  <1>1. TypeOK /\ Own(p) /\ \A q \in Procs : Own(q)
    BY DEF IInv
  <1>2. pc[p] = "write" /\ lock = p /\ lock' = lock /\ ~applied[p]
    BY <1>1, NotApplied DEF WriteManifest, Own, Critical
  <1>3. \A q \in Procs : q # p => UNCHANGED ownVars(q)
    BY <1>1
  <1>4. CASE UNCHANGED <<revision, recs>>
    <2>1. UNCHANGED applied /\ (Fails(p) \/ Returns(p, IoOutcome))
      <3>1. snap[p].rev + 1 # revision
        BY <1>1, <1>2 DEF Own, TypeOK
      <3>2. QED
        BY <1>4, <3>1 DEF WriteManifest
    <2>2. Own(p)'
      BY <1>1, <1>2, <2>1, OwnReturns DEF Fails, IoOutcome
    <2>3. QED
      BY <1>2, <1>3, <1>4, <2>2, LocalStep
  <1>5. CASE ~UNCHANGED <<revision, recs>>
    <2> DEFINE k == op[p].key
    <2>1. /\ applied'[p]
          /\ result'[p] \in {"committed", "outcome_unknown"}
          /\ pc'[p] = "unlock"
          /\ UNCHANGED <<op, cand>>
      BY <1>1, <1>2, <1>5 DEF WriteManifest, Returns, Critical, IoOutcome, TypeOK
    <2>0. /\ k \in Keys
          /\ Checked(p)
          /\ recs' = [recs EXCEPT ![k] = recs'[k]]
          /\ recs'[k] # NoRecord
          /\ op[p].kind = "publish" => recs'[k] = Log!Published(cand[p])
          /\ op[p].kind = "withdraw" =>
                recs'[k] = Log!Withdrawn(recs[k], op[p].reason)
      BY <1>1, <1>5, WriteEffect, NoRecordAssumption
    <2>2. EffectPresent(p)'
      <3>1. op[p].kind = "publish" => recs'[k].cand = cand[p]
        BY <2>0 DEF Log!Published
      <3>2. op[p].kind = "withdraw" =>
               recs'[k].life = "withdrawn" /\ recs'[k].reason = op[p].reason
        BY <2>0 DEF Log!Withdrawn
      <3>3. QED
        BY <2>0, <2>1, <3>1, <3>2 DEF EffectPresent
    <2>3. Own(p)'
      BY <1>2, <2>1, <2>2 DEF Own, Critical
    <2>4. ASSUME NEW q \in Procs, q # p PROVE Own(q)'
      <3>1. pc[q] \notin Critical /\ Own(q)
        BY <1>1, <1>2, <2>4 DEF Own
      <3>2. /\ pc'[q] = pc[q] /\ result'[q] = result[q]
            /\ applied'[q] = applied[q]
        BY <1>3, <2>4 DEF ownVars
      <3>3. applied[q] => EffectPresent(q)'
        BY <1>1, <1>5, <2>4, <3>1, WriteKeepsEffects DEF Own
      <3>4. QED
        BY <3>1, <3>2, <3>3 DEF Own, Critical
    <2>5. QED
      BY <2>3, <2>4 DEF IInv
  <1>6. QED
    BY <1>4, <1>5

\* Each step of the specification preserves the inductive invariant.
LEMMA IInvStep ==
  ASSUME ~StatMayFail, IInv, [Next]_vars
  PROVE  IInv'
  <1>1. TypeInv
    BY DEF IInv, TypeInv, FoundInv, Own, Checked
  <1>2. TypeOK' /\ TypeOK
    BY <1>1, TypeInvStep DEF TypeInv
  <1>3. ASSUME NEW k \in Keys, RewriteAsset(k) PROVE IInv'
    <2>1. \A q \in Procs : UNCHANGED ownVars(q)
      BY <1>3 DEF RewriteAsset, ownVars
    <2>2. \A q \in Procs : Own(q)'
      BY <1>3, <2>1, OwnFrame DEF RewriteAsset, IInv, Own
    <2>3. QED
      BY <1>2, <2>2 DEF IInv
  <1>4. ASSUME NEW p \in Procs, CallStep(p) PROVE IInv'
    <2>1. Own(p)
      BY DEF IInv
    <2>2. CASE WriteManifest(p)
      BY <1>2, <2>2, WriteKeeps
    <2>3. CASE ~WriteManifest(p)
      <3>1. UNCHANGED <<revision, recs>>
        BY <1>4, <2>3 DEF CallStep, Progress, Inspect, Digest, AcquireLock, LockTimeout,
                          ReadManifest, RecheckSize, RecheckDigest, FindActive, DropLock, IoError
      <3>2. lock' = lock \/ lock \in {p, NoOne, Orphan}
        BY <1>4, <2>1, <2>3
           DEF CallStep, Progress, Inspect, Digest, AcquireLock, LockTimeout, ReadManifest,
               RecheckSize, RecheckDigest, FindActive, DropLock, Moves, IoError, Own, Critical
      <3>3. Own(p)'
        BY <1>2, <1>4, <2>1, <2>3, EntryOwn, ReadOwn, RecheckOwn DEF CallStep, Progress
      <3>4. QED
        BY <1>2, <1>4, <3>1, <3>2, <3>3, CallStepOthers, LocalStep
    <2>4. QED
      BY <2>2, <2>3
  <1>5. ASSUME NEW p \in Procs, Crash(p) PROVE IInv'
    <2>1. \A q \in Procs : q # p => UNCHANGED ownVars(q)
      BY <1>2, <1>5 DEF Crash, ownVars, TypeOK
    <2>2. pc'[p] = "crashed" /\ result'[p] = "none" /\ applied'[p] = applied[p]
      BY <1>2, <1>5 DEF Crash, TypeOK
    <2>3. EffectPresent(p)' <=> EffectPresent(p)
      BY <1>5 DEF Crash, EffectPresent
    <2>4. Own(p)'
      BY <2>2, <2>3 DEF IInv, Own, Critical
    <2>5. lock' = lock \/ lock \in {p, NoOne, Orphan}
      BY <1>5 DEF Crash
    <2>6. QED
      BY <1>2, <1>5, <2>1, <2>4, <2>5, LocalStep DEF Crash
  <1>6. CASE ClearStaleLock
    <2>1. \A q \in Procs : UNCHANGED ownVars(q) /\ pc[q] \notin Critical
      BY <1>6, PeerAssumption DEF ClearStaleLock, ownVars, IInv, Own
    <2>2. \A q \in Procs : Own(q)'
      BY <1>6, <2>1, OwnFrame DEF ClearStaleLock, IInv
    <2>3. QED
      BY <1>2, <2>2 DEF IInv
  <1>7. CASE UNCHANGED vars
    <2>1. \A q \in Procs : UNCHANGED ownVars(q)
      BY <1>7 DEF vars, ownVars
    <2>2. \A q \in Procs : Own(q)'
      BY <1>7, <2>1, OwnFrame DEF vars, IInv, Own
    <2>3. QED
      BY <1>2, <2>2 DEF IInv
  <1>8. QED
    BY <1>2, <1>3, <1>4, <1>5, <1>6, <1>7, RequestKeeps DEF Next

LEMMA IInvInit == Init => IInv
  <1>1. Init => TypeOK
    BY NoOpType, EmptyManifestType
       DEF Init, TypeOK, Locations, Outcomes, RecordMap
  <1>2. Init => \A p \in Procs : Own(p)
    BY DEF Init, Own, Critical
  <1>3. QED
    BY <1>1, <1>2 DEF IInv

LEMMA IInvAlways == ASSUME ~StatMayFail PROVE Spec => []IInv
  <1>1. IInv /\ [Next]_vars => IInv'
    BY IInvStep
  <1>2. QED
    BY <1>1, IInvInit, PTL DEF Spec
-----------------------------------------------------------------------------
(* The results                                                             *)

\* Once a call's rename took effect its change stays in serving/manifest.json,
\* whatever other publishers, withdrawers, crashes and lock timeouts do.
THEOREM NoLostCommitHolds == ASSUME ~StatMayFail PROVE Spec => []NoLostCommit
  <1>1. IInv => NoLostCommit
    BY DEF IInv, Own, NoLostCommit
  <1>2. QED
    BY <1>1, IInvAlways, PTL

\* outcome_state says "committed" only of a call whose rename took effect and
\* "failed before commit" only of one whose rename did not.
THEOREM OutcomeTruthfulHolds ==
  ASSUME ~StatMayFail PROVE Spec => []OutcomeTruthful
  <1>1. IInv => OutcomeTruthful
    BY DEF IInv, Own, OutcomeTruthful
  <1>2. QED
    BY <1>1, IInvAlways, PTL

\* Only a call that is writing its manifest sets its applied flag.
LEMMA AppliedByStep ==
  ASSUME TypeOK, [Next]_vars, NEW p \in Procs, applied'[p], ~applied[p]
  PROVE  WriteManifest(p)
  <1>1. applied' # applied
    OBVIOUS
  <1>2. PICK q \in Procs : Finish(q) \/ WriteManifest(q)
    BY <1>1, ZenonT(60)
       DEF Next, vars, RewriteAsset, ClearStaleLock, Crash, Request, Publish,
           Withdraw, PreparePublication, PrepareWithdrawal, Begins,
           ExecuteReviewed, CallStep, Progress, Inspect, Digest, AcquireLock,
           LockTimeout, ReadManifest, RecheckSize, RecheckDigest, FindActive, DropLock, IoError
  <1>3. CASE Finish(q)
    BY <1>3 DEF Finish, TypeOK
  <1>4. CASE WriteManifest(q)
    BY <1>4 DEF WriteManifest, TypeOK
  <1>5. QED
    BY <1>2, <1>3, <1>4

\* and then the manifest changes.
LEMMA AppliedByWrite ==
  ASSUME IInv, [Next]_vars, NEW p \in Procs, applied'[p], ~applied[p]
  PROVE  WriteManifest(p) /\ ~UNCHANGED <<revision, recs>>
  <1>1. TypeOK /\ Own(p)
    BY DEF IInv
  <1>2. WriteManifest(p)
    BY <1>1, AppliedByStep
  <1>3. snap[p].rev = revision /\ revision \in Nat
    BY <1>1, <1>2 DEF WriteManifest, Own, TypeOK
  <1>4. revision' = revision + 1
    BY <1>1, <1>2, <1>3 DEF WriteManifest, TypeOK
  <1>5. QED
    BY <1>2, <1>3, <1>4

\* A step of the call p itself, for the passes over p's asset
LEMMA PassOfCall ==
  ASSUME TypeInv, PassInv, NEW p \in Procs, CallStep(p)
  PROVE  PassInv'
  <1> USE DEF TypeInv, TypeOK
  <1>1. UNCHANGED <<asset, op>>
    BY DEF CallStep, Progress, Inspect, Digest, AcquireLock, LockTimeout, ReadManifest,
           RecheckSize, RecheckDigest, FindActive, WriteManifest, DropLock, IoError
  <1>2. ASSUME NEW q \in Procs, q # p
        PROVE  pc'[q] = pc[q] /\ touched'[q] = touched[q] /\ cand'[q] = cand[q]
    BY <1>2 DEF CallStep, Progress, Inspect, Digest, AcquireLock, LockTimeout, ReadManifest,
                RecheckSize, RecheckDigest, FindActive, WriteManifest, DropLock, Moves,
                IoError, Fails, Returns
  <1>3. CASE RecheckSize(p)
    <2>1. pc'[p] = "rehash" => SameSize(asset[op[p].key], cand[p])
      BY <1>3 DEF RecheckSize, Fails, Returns, Critical
    <2>2. pc'[p] # "write" /\ cand' = cand
      BY <1>3 DEF RecheckSize, Fails, Returns, Critical
    <2>3. QED
      BY <1>1, <1>2, <2>1, <2>2 DEF PassInv, SameSize
  <1>4. CASE RecheckDigest(p)
    <2>1. UNCHANGED <<cand, touched>> /\ pc'[p] # "rehash" /\ pc[p] = "rehash"
      BY <1>4 DEF RecheckDigest, Fails, Returns, Critical
    <2>2. ASSUME pc'[p] = "write", ~touched[p], cand[p].digest # NoDigest
          PROVE  cand[p].size = Size[cand[p].digest]
      <3>1. PICK c \in Hashed(p) : SameDigest(c, cand[p])
        BY <1>4, <2>2 DEF RecheckDigest, Fails, Returns, Critical
      <3>2. c = asset[op[p].key] /\ c = cand[p].digest
        BY <2>2, <3>1 DEF Hashed, SameDigest
      <3>3. QED
        BY <2>1, <2>2, <3>2 DEF PassInv, SameSize
    <2>3. QED
      BY <1>1, <1>2, <2>1, <2>2 DEF PassInv, SameSize
  <1>5. CASE ~RecheckSize(p) /\ ~RecheckDigest(p)
    <2>1. pc'[p] # "rehash" /\ (pc'[p] = "write" => op[p].kind = "withdraw")
      BY <1>5 DEF CallStep, Progress, Inspect, Digest, AcquireLock, LockTimeout, ReadManifest,
                  FindActive, WriteManifest, DropLock, Moves, IoError, Fails, Returns, Critical
    <2>2. QED
      BY <1>1, <1>2, <2>1 DEF PassInv, SameSize
  <1>6. QED
    BY <1>3, <1>4, <1>5

LEMMA PassStep == TypeInv /\ PassInv /\ [Next]_vars => PassInv'
  <1> SUFFICES ASSUME TypeInv, PassInv, [Next]_vars PROVE PassInv'
    OBVIOUS
  <1> USE DEF TypeInv, TypeOK
  <1>1. ASSUME NEW k \in Keys, RewriteAsset(k) PROVE PassInv'
    <2>1. \A q \in Procs : ~touched'[q] /\ pc[q] = "rehash" =>
             ~touched[q] /\ asset'[op[q].key] = asset[op[q].key]
      BY <1>1 DEF RewriteAsset, Operation, OperationFields
    <2>2. \A q \in Procs : ~touched'[q] => ~touched[q]
      BY <1>1 DEF RewriteAsset
    <2>3. UNCHANGED <<pc, op, cand>>
      BY <1>1 DEF RewriteAsset
    <2>4. QED
      BY <2>1, <2>2, <2>3 DEF PassInv, SameSize
  <1>2. ASSUME NEW p \in Procs, Request(p) \/ Crash(p) PROVE PassInv'
    <2>1. asset' = asset
      BY <1>2 DEF Request, Publish, Withdraw, PreparePublication, PrepareWithdrawal, Begins,
                  ExecuteReviewed, Finish, Crash
    <2>2. pc'[p] \notin {"rehash", "write"}
      BY <1>2 DEF Request, Publish, Withdraw, PreparePublication, PrepareWithdrawal, Begins,
                  ExecuteReviewed, Fails, Returns, Critical, Finish, Crash
    <2>3. \A q \in Procs : q # p =>
             /\ pc'[q] = pc[q] /\ op'[q] = op[q] /\ cand'[q] = cand[q] /\ touched'[q] = touched[q]
      BY <1>2 DEF Request, Publish, Withdraw, PreparePublication, PrepareWithdrawal, Begins,
                  ExecuteReviewed, Fails, Returns, Finish, Crash
    <2>4. QED
      BY <2>1, <2>2, <2>3 DEF PassInv, SameSize
  <1>3. CASE ClearStaleLock \/ UNCHANGED vars
    BY <1>3 DEF ClearStaleLock, vars, PassInv, SameSize
  <1>4. QED
    BY <1>1, <1>2, <1>3, PassOfCall DEF Next

\* The recheck under the lock makes the size and the digest of a new record
\* describe the same bytes, although they were read in two passes, unless the
\* file is rewritten again during the recheck itself.
THEOREM DigestMatchesSizeHolds == Spec => DigestMatchesSize
  <1> DEFINE Matched ==
        \A p \in Procs :
          applied'[p] /\ ~applied[p] /\ op[p].kind = "publish" /\ ~touched[p] =>
              LET c == recs'[op[p].key].cand
              IN  c.digest # NoDigest => c.size = Size[c.digest]
  <1>1. TypeInv /\ PassInv /\ [Next]_vars => Matched
    <2> SUFFICES ASSUME TypeInv, PassInv, [Next]_vars, NEW p \in Procs,
                        applied'[p], ~applied[p], op[p].kind = "publish", ~touched[p],
                        recs'[op[p].key].cand.digest # NoDigest
                 PROVE  recs'[op[p].key].cand.size = Size[recs'[op[p].key].cand.digest]
      OBVIOUS
    <2>1. TypeOK
      BY DEF TypeInv
    <2>2. WriteManifest(p)
      BY <2>1, AppliedByStep
    <2>3. recs' = NewRecords(p) /\ pc[p] = "write"
      BY <2>1, <2>2 DEF WriteManifest, TypeOK
    <2>4. op[p].key \in Keys /\ snap[p].recs \in RecordMap
      BY <2>1 DEF TypeOK, Operation, OperationFields
    <2>5. recs'[op[p].key].cand = cand[p]
      BY <2>3, <2>4 DEF NewRecords, RecordMap, Log!Published
    <2>6. QED
      BY <2>3, <2>5 DEF PassInv
  <1>2. Init => TypeInv /\ PassInv
    BY NoOpType, EmptyManifestType
       DEF Init, TypeInv, TypeOK, FoundInv, Locations, Outcomes, RecordMap, PassInv
  <1>3. QED
    BY <1>1, <1>2, TypeInvStep, PassStep, PTL DEF Spec, DigestMatchesSize

\* A reviewed publication or withdrawal changes exactly the revision that was
\* reviewed, and records exactly the reviewed inventory.
THEOREM ReviewBindingHolds == ASSUME ~StatMayFail PROVE Spec => ReviewBinding
  <1> DEFINE Bound ==
        \A p \in Procs : applied'[p] /\ ~applied[p] /\ Reviewed(p) =>
            /\ revision = op[p].rev
            /\ op[p].kind = "publish" => recs'[op[p].key].cand = op[p].cand
  <1>1. IInv /\ [Next]_vars => Bound
    <2> SUFFICES ASSUME IInv, [Next]_vars, NEW p \in Procs,
                        applied'[p], ~applied[p], Reviewed(p)
                 PROVE  /\ revision = op[p].rev
                        /\ op[p].kind = "publish" =>
                              recs'[op[p].key].cand = op[p].cand
      OBVIOUS
    <2>1. TypeOK /\ Own(p)
      BY DEF IInv
    <2>2. WriteManifest(p) /\ ~UNCHANGED <<revision, recs>>
      BY AppliedByWrite
    <2>3. /\ op[p].rev = revision
          /\ op[p].kind = "publish" => cand[p] = op[p].cand
      BY <2>1, <2>2 DEF WriteManifest, Own
    <2>4. op[p].kind = "publish" => recs'[op[p].key] = Log!Published(cand[p])
      BY <2>1, <2>2, WriteEffect
    <2>5. QED
      BY <2>3, <2>4 DEF Log!Published
  <1>2. QED
    BY <1>1, IInvAlways, PTL DEF Spec, ReviewBinding

\* The lock file, the re-read under it and the rename make serving/manifest.json
\* an append-only log: every step of every process is one log step or none.
THEOREM ManifestImplementsLog == ASSUME ~StatMayFail PROVE Spec => ImplementsLog
  <1>1. Init => Log!LogInit
    BY DEF Init, Log!LogInit
  <1>2. IInv /\ [Next]_vars => [Log!LogNext]_(Log!logVars)
    <2> SUFFICES ASSUME IInv, [Next]_vars, ~UNCHANGED <<revision, recs>>
                 PROVE  Log!LogNext
      BY DEF Log!logVars
    <2>1. PICK p \in Procs : WriteManifest(p)
      BY ZenonT(60) DEF Next, vars, RewriteAsset, ClearStaleLock, Crash, Request, Publish,
             Withdraw, PreparePublication, PrepareWithdrawal, Begins,
             ExecuteReviewed, Finish, CallStep, Progress, Inspect, Digest, AcquireLock,
             LockTimeout, ReadManifest, RecheckSize, RecheckDigest, FindActive, DropLock, IoError
    <2>2. TypeOK /\ Own(p)
      BY DEF IInv
    <2> DEFINE k == op[p].key
    <2>3. k \in Keys /\ op[p] \in Operation /\ cand[p] \in Candidate
      BY <2>2 DEF TypeOK, Operation, OperationFields
    <2>4. CASE op[p].kind = "publish"
      <3>1. Log!PublishVersion(k, cand[p])
        BY <2>1, <2>2, <2>4, WriteEffect DEF Log!PublishVersion, Checked
      <3>2. QED
        BY <2>3, <3>1 DEF Log!LogNext
    <2>5. CASE op[p].kind = "withdraw"
      <3>1. Log!WithdrawVersion(k, op[p].reason)
        BY <2>1, <2>2, <2>5, WriteEffect DEF Log!WithdrawVersion, Checked
      <3>2. QED
        BY <2>3, <2>5, <3>1 DEF Log!LogNext, Operation
    <2>6. QED
      BY <2>3, <2>4, <2>5 DEF Operation, OperationFields
  <1>3. QED
    BY <1>1, <1>2, IInvAlways, PTL DEF Spec, ImplementsLog, Log!LogSpec

-----------------------------------------------------------------------------
(* Increasing sequences                                                    *)

Increasing(s) == \A i, j \in DOMAIN s : i < j => s[i] < s[j]

Elems(s) == {s[i] : i \in DOMAIN s}

\* s lists the numbers of S in order.
Lists(s, S) == s \in Seq(Nat) /\ Increasing(s) /\ Elems(s) = S

\* Every nonempty set of naturals has a least element.
LEMMA LeastOf ==
  ASSUME NEW T, T \subseteq Nat, T # {}
  PROVE  \E x \in T : \A y \in T : x <= y
  <1>1. PICK x \in T : \A y \in T : ~ (<<y, x>> \in OpToRel(<, Nat))
    BY NatLessThanWellFounded, WFMin
  <1>2. \A y \in T : ~(y < x)
    BY <1>1 DEF OpToRel
  <1>3. QED
    BY <1>2

\* A finite set can be put in order: its least element goes before the rest.
LEMMA CanBeSorted ==
  ASSUME NEW S, S \subseteq Nat, IsFiniteSet(S)
  PROVE  \E s \in [1..Cardinality(S) -> S] : Increasing(s)
  <1> DEFINE Fine(T) == \E s \in [1..Cardinality(T) -> T] : Increasing(s)
             bad == {k \in Nat : \E T \in SUBSET S : Cardinality(T) = k /\ ~Fine(T)}
  <1>1. \A T \in SUBSET S : IsFiniteSet(T) /\ Cardinality(T) \in Nat
    BY FS_Subset, FS_CardinalityType
  <1>2. SUFFICES ASSUME bad # {} PROVE FALSE
    BY <1>1
  <1>3. PICK k \in bad : \A j \in bad : k <= j
    <2> HIDE DEF Fine
    <2>1. QED
      BY <1>2, LeastOf
  <1>4. PICK T \in SUBSET S : Cardinality(T) = k /\ ~Fine(T)
    BY <1>3
  <1>5. CASE T = {}
    <2>1. k = 0
      BY <1>4, <1>5, FS_EmptySet
    <2>2. <<>> \in [1..0 -> {}] /\ Increasing(<<>>)
      BY DEF Increasing
    <2>3. QED
      BY <1>4, <1>5, <2>1, <2>2
  <1>6. CASE T # {}
    <2>1. PICK x \in T : \A y \in T : x <= y
      BY <1>6, LeastOf
    <2> DEFINE U == T \ {x}
    <2>2. Cardinality(U) = k - 1 /\ k - 1 \in Nat /\ k \in Nat /\ U \in SUBSET S
      <3>1. IsFiniteSet(T) /\ U \in SUBSET S
        BY <1>1
      <3>2. Cardinality(U) = k - 1
        BY <1>4, <2>1, <3>1, FS_RemoveElement
      <3>3. Cardinality(U) \in Nat /\ k \in Nat
        BY <1>1, <1>3, <3>1
      <3>4. QED
        BY <3>1, <3>2, <3>3
    <2>3. Fine(U)
      <3> HIDE DEF Fine, U
      <3>1. k - 1 \notin bad
        BY <1>3, <2>2
      <3>2. QED
        BY <2>2, <3>1
    <2>4. PICK s \in [1..(k - 1) -> U] : Increasing(s)
      BY <2>2, <2>3
    <2> DEFINE t == [i \in 1..k |-> IF i = 1 THEN x ELSE s[i - 1]]
    <2>5. \A i \in 1..k : i # 1 => i - 1 \in 1..(k - 1) /\ s[i - 1] \in U
      BY <2>2, <2>4
    <2>6. t \in [1..k -> T]
      BY <2>1, <2>5
    <2>7. Increasing(t)
      <3>1. SUFFICES ASSUME NEW i \in 1..k, NEW j \in 1..k, i < j PROVE t[i] < t[j]
        BY DEF Increasing
      <3>2. j # 1 /\ t[j] = s[j - 1] /\ j - 1 \in 1..(k - 1)
        BY <2>2, <2>5, <3>1
      <3>3. CASE i = 1
        <4>1. s[j - 1] \in T /\ s[j - 1] # x
          BY <2>5, <3>2
        <4>2. s[j - 1] \in Nat /\ x \in Nat /\ x <= s[j - 1]
          BY <2>1, <4>1
        <4>3. QED
          BY <3>2, <3>3, <4>1, <4>2
      <3>4. CASE i # 1
        <4>1. t[i] = s[i - 1] /\ i - 1 \in 1..(k - 1) /\ i - 1 < j - 1
          BY <2>2, <2>5, <3>1, <3>4
        <4>2. QED
          BY <2>4, <3>2, <4>1 DEF Increasing
      <3>5. QED
        BY <3>3, <3>4
    <2>8. QED
      BY <1>4, <2>6, <2>7
  <1>7. QED
    BY <1>5, <1>6

\* Sorted lists its set.
LEMMA SortedLists ==
  ASSUME NEW S, S \subseteq Nat, IsFiniteSet(S)
  PROVE  Lists(Sorted(S), S)
  <1> DEFINE n == Cardinality(S)
             s == Sorted(S)
  <1>1. n \in Nat /\ IsFiniteSet(1..n) /\ Cardinality(1..n) = n
    BY FS_CardinalityType, FS_Interval
  <1>2. s \in [1..n -> S] /\ Increasing(s)
    BY CanBeSorted DEF Sorted, Increasing
  <1> HIDE DEF s
  <1>3. s \in Injection(1..n, S)
    <2>1. \A a, b \in 1..n : s[a] \in Nat /\ (a < b => s[a] < s[b])
      BY <1>2 DEF Increasing
    <2>2. \A a, b \in 1..n : s[a] = s[b] => a = b
      BY <1>1, <2>1
    <2>3. QED
      BY <1>2, <2>2 DEF Injection, IsInjective
  <1>4. s \in Surjection(1..n, S)
    BY <1>1, <1>3, FS_Injection
  <1>5. Elems(s) = S
    <2>1. \A x \in S : \E i \in 1..n : s[i] = x
      BY <1>4 DEF Surjection
    <2>2. DOMAIN s = 1..n /\ \A i \in 1..n : s[i] \in S
      BY <1>2
    <2> HIDE DEF n
    <2>3. QED
      BY <2>1, <2>2 DEF Elems
  <1>6. s \in Seq(Nat)
    <2>1. s \in [1..n -> Nat]
      BY <1>2
    <2> HIDE DEF n
    <2>2. QED
      BY <1>1, <2>1
  <1>7. QED
    BY <1>2, <1>5, <1>6 DEF Lists, s

\* There is only one way to list a set.
LEMMA ListsOnce ==
  ASSUME NEW S, NEW a, NEW b, Lists(a, S), Lists(b, S)
  PROVE  a = b
  <1>1. ASSUME NEW c, NEW d, Lists(c, S), Lists(d, S), NEW k \in DOMAIN c,
               \A i \in DOMAIN c : i < k => i \in DOMAIN d /\ c[i] = d[i],
               k \in DOMAIN d
        PROVE  d[k] <= c[k]
    <2>1. c \in Seq(Nat) /\ d \in Seq(Nat) /\ c[k] \in Elems(d)
      BY <1>1 DEF Lists, Elems
    <2>2. PICK j \in DOMAIN d : d[j] = c[k]
      BY <2>1 DEF Elems
    <2>3. /\ DOMAIN c = 1..Len(c) /\ DOMAIN d = 1..Len(d) /\ Len(c) \in Nat /\ Len(d) \in Nat
          /\ c[k] \in Nat /\ d[k] \in Nat
      BY <1>1, <2>1
    <2>4. SUFFICES ASSUME c[k] < d[k] PROVE FALSE
      BY <2>3
    <2>5. j < k
      <3>1. SUFFICES ASSUME k < j \/ k = j PROVE FALSE
        BY <1>1, <2>2, <2>3
      <3>2. k < j => d[k] < d[j]
        BY <1>1, <2>2 DEF Lists, Increasing
      <3>3. QED
        BY <2>2, <2>3, <2>4, <3>1, <3>2
    <2>6. j \in DOMAIN c
      BY <1>1, <2>2, <2>3, <2>5
    <2>7. c[j] = d[j] /\ c[j] < c[k]
      BY <1>1, <2>5, <2>6 DEF Lists, Increasing
    <2>8. QED
      BY <2>2, <2>3, <2>7
  <1>2. ASSUME NEW c, NEW d, Lists(c, S), Lists(d, S), NEW k \in DOMAIN c,
               \A i \in DOMAIN c : i < k => i \in DOMAIN d /\ c[i] = d[i]
        PROVE  k \in DOMAIN d
    <2>1. c \in Seq(Nat) /\ d \in Seq(Nat) /\ c[k] \in Elems(d)
      BY <1>2 DEF Lists, Elems
    <2>2. PICK j \in DOMAIN d : d[j] = c[k]
      BY <2>1 DEF Elems
    <2>3. /\ DOMAIN c = 1..Len(c) /\ DOMAIN d = 1..Len(d) /\ Len(c) \in Nat /\ Len(d) \in Nat
          /\ c[k] \in Nat
      BY <1>2, <2>1
    <2>4. SUFFICES ASSUME k > Len(d) PROVE FALSE
      BY <1>2, <2>3
    <2>5. j \in DOMAIN c /\ j < k
      BY <1>2, <2>2, <2>3, <2>4
    <2>6. c[j] = d[j] /\ c[j] < c[k]
      BY <1>2, <2>5 DEF Lists, Increasing
    <2>7. QED
      BY <2>2, <2>3, <2>6
  <1>3. /\ a \in Seq(Nat) /\ b \in Seq(Nat) /\ DOMAIN a = 1..Len(a) /\ DOMAIN b = 1..Len(b)
        /\ Len(a) \in Nat /\ Len(b) \in Nat
    BY DEF Lists
  <1>4. ASSUME NEW c, NEW d, Lists(c, S), Lists(d, S)
        PROVE  \A k \in DOMAIN c : k \in DOMAIN d /\ c[k] = d[k]
    <2> DEFINE bad == {k \in DOMAIN c : ~(k \in DOMAIN d /\ c[k] = d[k])}
    <2>1. /\ c \in Seq(Nat) /\ d \in Seq(Nat) /\ DOMAIN c = 1..Len(c) /\ DOMAIN d = 1..Len(d)
          /\ Len(c) \in Nat /\ Len(d) \in Nat
      BY <1>4 DEF Lists
    <2>2. SUFFICES ASSUME bad # {} PROVE FALSE
      OBVIOUS
    <2>3. PICK k \in bad : \A j \in bad : k <= j
      <3>1. bad \subseteq Nat
        BY <2>1
      <3> HIDE DEF bad
      <3>2. QED
        BY <2>2, <3>1, LeastOf
    <2>4. \A i \in DOMAIN c : i < k => i \in DOMAIN d /\ c[i] = d[i]
      BY <2>1, <2>3
    <2>5. k \in DOMAIN c /\ k \in DOMAIN d
      BY <1>2, <1>4, <2>3, <2>4
    <2>6. d[k] <= c[k]
      BY <1>1, <1>4, <2>4, <2>5
    <2>7. c[k] <= d[k]
      <3>1. \A i \in DOMAIN d : i < k => i \in DOMAIN c /\ d[i] = c[i]
        <4>1. \A i \in DOMAIN d : i < k => i \in DOMAIN c
          BY <2>1, <2>5
        <4>2. QED
          BY <2>4, <4>1
      <3>2. QED
        BY <1>1, <1>4, <2>5, <3>1
    <2>8. c[k] \in Nat /\ d[k] \in Nat
      BY <2>1, <2>5
    <2>9. QED
      BY <2>3, <2>5, <2>6, <2>7, <2>8
  <1>5. Len(a) = Len(b)
    <2>1. Len(a) <= Len(b)
      <3>1. Len(a) # 0 => Len(a) \in DOMAIN b
        BY <1>3, <1>4
      <3>2. QED
        BY <1>3, <3>1
    <2>2. Len(b) <= Len(a)
      <3>1. Len(b) # 0 => Len(b) \in DOMAIN a
        BY <1>3, <1>4
      <3>2. QED
        BY <1>3, <3>1
    <2>3. Len(a) \in Nat /\ Len(b) \in Nat
      BY <1>3
    <2>4. QED
      BY <2>1, <2>2, <2>3
  <1>6. QED
    BY <1>3, <1>4, <1>5

\* A page takes the first k elements of a list, and k names the last of them.
LEMMA PageLists ==
  ASSUME NEW S, NEW rest, Lists(rest, S), NEW k \in 1..Len(rest)
  PROVE  LET page == SubSeq(rest, 1, k)
         IN  /\ Lists(page, {x \in S : x <= rest[k]})
             /\ Last(page) = rest[k] /\ rest[k] \in S
  <1> DEFINE page == SubSeq(rest, 1, k)
  <1>1. rest \in Seq(Nat) /\ DOMAIN rest = 1..Len(rest) /\ Len(rest) \in Nat
    BY DEF Lists
  <1>2. /\ page \in Seq(Nat) /\ Len(page) = k /\ DOMAIN page = 1..k
        /\ \A i \in 1..k : page[i] = rest[i] /\ i \in DOMAIN rest
    BY <1>1
  <1> HIDE DEF page
  <1>3. Increasing(page)
    BY <1>2 DEF Lists, Increasing
  <1>4. Elems(page) = {x \in S : x <= rest[k]}
    <2>1. ASSUME NEW x \in Elems(page) PROVE x \in S /\ x <= rest[k]
      <3>1. PICK i \in 1..k : x = rest[i] /\ i \in DOMAIN rest
        BY <1>2, <2>1 DEF Elems
      <3>2. i = k \/ rest[i] < rest[k]
        BY <1>1, <3>1 DEF Lists, Increasing
      <3>3. rest[i] \in Nat /\ rest[k] \in Nat
        BY <1>1, <3>1
      <3>4. QED
        BY <3>1, <3>2, <3>3 DEF Lists, Elems
    <2>2. ASSUME NEW x \in S, x <= rest[k] PROVE x \in Elems(page)
      <3>1. PICK i \in DOMAIN rest : rest[i] = x
        BY DEF Lists, Elems
      <3>2. rest[i] \in Nat /\ rest[k] \in Nat /\ k \in DOMAIN rest
        BY <1>1, <3>1
      <3>3. k < i => rest[k] < rest[i]
        BY <3>1, <3>2 DEF Lists, Increasing
      <3>4. i \in 1..k
        BY <1>1, <2>2, <3>1, <3>2, <3>3
      <3>5. QED
        BY <1>2, <3>1, <3>4 DEF Elems
    <2>3. QED
      BY <2>1, <2>2
  <1>5. rest[k] \in S
    BY <1>1 DEF Lists, Elems
  <1>6. QED
    BY <1>2, <1>3, <1>4, <1>5 DEF Lists, Last, page

\* A list followed by a list of larger numbers.
LEMMA ListsJoin ==
  ASSUME NEW S, NEW T, NEW a, NEW b, Lists(a, S), Lists(b, T),
         \A x \in S, y \in T : x < y
  PROVE  Lists(a \o b, S \cup T)
  <1>1. /\ a \in Seq(Nat) /\ b \in Seq(Nat) /\ DOMAIN a = 1..Len(a) /\ DOMAIN b = 1..Len(b)
        /\ Len(a) \in Nat /\ Len(b) \in Nat
    BY DEF Lists
  <1> DEFINE c == a \o b
  <1>2. /\ c \in Seq(Nat) /\ DOMAIN c = 1..(Len(a) + Len(b))
        /\ \A i \in DOMAIN c : c[i] = IF i <= Len(a) THEN a[i] ELSE b[i - Len(a)]
    BY <1>1
  <1> HIDE DEF c
  <1>3. \A i \in DOMAIN c : \/ i <= Len(a) /\ i \in DOMAIN a /\ c[i] = a[i] /\ c[i] \in S
                            \/ /\ i > Len(a) /\ i - Len(a) \in DOMAIN b
                               /\ c[i] = b[i - Len(a)] /\ c[i] \in T
    <2>1. \A i \in DOMAIN c : \/ i <= Len(a) /\ i \in DOMAIN a /\ c[i] = a[i]
                              \/ i > Len(a) /\ i - Len(a) \in DOMAIN b /\ c[i] = b[i - Len(a)]
      BY <1>1, <1>2
    <2>2. (\A i \in DOMAIN a : a[i] \in S) /\ (\A i \in DOMAIN b : b[i] \in T)
      BY DEF Lists, Elems
    <2>3. QED
      BY <2>1, <2>2
  <1>4. Increasing(c)
    <2>1. SUFFICES ASSUME NEW i \in DOMAIN c, NEW j \in DOMAIN c, i < j PROVE c[i] < c[j]
      BY DEF Increasing
    <2>2. i \in Nat /\ j \in Nat
      BY <1>1, <1>2
    <2>3. CASE j <= Len(a)
      <3>1. i <= Len(a) /\ i \in DOMAIN a /\ c[i] = a[i] /\ j \in DOMAIN a /\ c[j] = a[j]
        BY <1>1, <1>3, <2>1, <2>2, <2>3
      <3>2. QED
        BY <2>1, <3>1 DEF Lists, Increasing
    <2>4. CASE i > Len(a)
      <3>1. /\ i - Len(a) \in DOMAIN b /\ c[i] = b[i - Len(a)]
            /\ j - Len(a) \in DOMAIN b /\ c[j] = b[j - Len(a)]
            /\ i - Len(a) < j - Len(a)
        BY <1>1, <1>3, <2>1, <2>2, <2>4
      <3>2. QED
        BY <3>1 DEF Lists, Increasing
    <2>5. CASE i <= Len(a) /\ j > Len(a)
      <3>1. c[i] \in S /\ c[j] \in T
        BY <1>1, <1>3, <2>2, <2>5
      <3>2. QED
        BY <3>1
    <2>6. QED
      BY <1>1, <2>2, <2>3, <2>4, <2>5
  <1>5. Elems(c) = S \cup T
    <2>1. Elems(c) \subseteq S \cup T
      BY <1>3 DEF Elems
    <2>2. ASSUME NEW x \in S PROVE x \in Elems(c)
      <3>1. PICK i \in DOMAIN a : a[i] = x
        BY DEF Lists, Elems
      <3>2. i \in DOMAIN c /\ c[i] = x
        BY <1>1, <1>2, <3>1
      <3>3. QED
        BY <3>2 DEF Elems
    <2>3. ASSUME NEW x \in T PROVE x \in Elems(c)
      <3>1. PICK i \in DOMAIN b : b[i] = x
        BY DEF Lists, Elems
      <3>2. i \in 1..Len(b)
        BY <1>1, <3>1
      <3>3. /\ i + Len(a) \in 1..(Len(a) + Len(b))
            /\ ~(i + Len(a) <= Len(a)) /\ (i + Len(a)) - Len(a) = i
        BY <1>1, <3>2
      <3>4. i + Len(a) \in DOMAIN c /\ c[i + Len(a)] = x
        BY <1>2, <3>1, <3>3
      <3>5. QED
        BY <3>4 DEF Elems
    <2>4. QED
      BY <2>1, <2>2, <2>3
  <1>6. QED
    BY <1>2, <1>4, <1>5 DEF Lists, c

LEMMA EmptyLists == Lists(<<>>, {})
  BY DEF Lists, Increasing, Elems

-----------------------------------------------------------------------------
(* The pages of a query                                                    *)

\* What a reader finds in a directory, given the files
ReadAt(rv, lf, d, n) ==
    IF d = Nowhere THEN Unavailable
    ELSE IF rv[d] = 0 THEN Unavailable
    ELSE [rev |-> rv[d], ok |-> Owner[d] = n,
          size |-> Cardinality({i \in Items : lf[d][i] # "none"}),
          active |-> IF Owner[d] = n THEN {i \in ItemsOf(n) : lf[d][i] = "active"} ELSE {}]

\* What one look at a directory's manifest says of a later one: the revision
\* tells whether anything has changed.
Older(m, k) == m.rev <= k.rev /\ (m.rev = k.rev => m = k)

Reading == {"list", "page"}

FilesInv ==
    /\ rev \in [Dirs -> Nat]
    /\ life \in [Dirs -> [Items -> {"none", "active", "withdrawn"}]]
    /\ route \in [Spaces -> Dirs \cup {Nowhere}]
    /\ moved \in BOOLEAN /\ pages \in Nat

PlaceInv ==
    /\ at \in Reading \cup {"idle", "manifest", "asset", "refresh"}
    /\ at = "idle" => seen = NoView
    /\ at = "list" => /\ todo \in Seq(Spaces) /\ todo # <<>>
                      /\ DOMAIN seen \cup Elems(todo) = Spaces
    /\ at = "page" => DOMAIN seen = Spaces
    /\ at \in {"manifest", "asset", "refresh"} => pages = 0 /\ cursor = NoCursor
    /\ at \in Reading /\ cursor = NoCursor => pages = 0 /\ got = <<>>

\* What the pages so far hold of a namespace's manifest, up to the cursor
Shown(m, a) == {i \in m.active \cap Wanted : i <= a}
GotOf(g, n) == {i \in Elems(g) : Space[i] = n}
Covers(g, c, n, m) ==
    /\ c.fingerprint[1][n][1] <= m.rev
    /\ c.fingerprint[1][n][1] = m.rev => GotOf(g, n) = Shown(m, c.after)

\* A cursor stands for the pages before it as long as no manifest moves on.
CursorInv ==
    cursor # NoCursor /\ ~moved =>
        /\ cursor.after \in Nat /\ Lists(got, Elems(got))
        /\ \A i \in Elems(got) : i \in Items /\ Space[i] \in Spaces /\ i <= cursor.after
        /\ cursor.fingerprint[2] \in [Spaces -> Dirs \cup {Nowhere}]
        /\ \A n \in Spaces : /\ cursor.fingerprint[1][n][1] \in Nat
                             /\ Covers(got, cursor, n, ReadAt(rev, life, cursor.fingerprint[2][n], n))

\* During a call: what was there at its start, what it has read and what is
\* there now follow each other.
CallInv ==
    at \in Reading /\ ~moved =>
        /\ DOMAIN began = Spaces /\ DOMAIN seen \subseteq Spaces
        /\ \A n \in Spaces : /\ began[n].rev \in Nat
                             /\ Older(began[n], ReadAt(rev, life, route[n], n))
        /\ \A n \in DOMAIN seen : /\ seen[n].rev \in Nat /\ seen[n].active \subseteq ItemsOf(n)
                                  /\ Older(began[n], seen[n])
                                  /\ Older(seen[n], ReadAt(rev, life, route[n], n))
        /\ cursor # NoCursor /\ cursor.fingerprint[2] = route =>
              \A n \in Spaces : Covers(got, cursor, n, began[n])

PagesInv == FilesInv /\ PlaceInv /\ CursorInv /\ CallInv /\ PagesAreOneInstant

LEMMA ReadsFile ==
  ASSUME NEW d, NEW n
  PROVE  ManifestAt(d, n) = ReadAt(rev, life, d, n)
  BY DEF ManifestAt, ReadAt

LEMMA InKept ==
  ASSUME NEW view, NEW i
  PROVE  i \in Kept(view) <=> i \in Wanted /\ \E n \in DOMAIN view : i \in view[n].active
  BY DEF Kept

LEMMA ReadType ==
  ASSUME FilesInv, NEW d \in Dirs \cup {Nowhere}, NEW n
  PROVE  /\ ReadAt(rev, life, d, n).rev \in Nat
         /\ ReadAt(rev, life, d, n).active \subseteq ItemsOf(n)
  BY DEF FilesInv, ReadAt, Unavailable

LEMMA OlderTwice ==
  ASSUME NEW m, NEW k, NEW l, m.rev \in Nat, k.rev \in Nat, l.rev \in Nat,
         Older(m, k), Older(k, l)
  PROVE  Older(m, l)
  BY DEF Older

LEMMA OlderSelf ==
  ASSUME NEW m, m.rev \in Nat
  PROVE  Older(m, m)
  BY DEF Older

LEMMA CoversLater ==
  ASSUME NEW g, NEW c, NEW n, NEW m, NEW k, m.rev \in Nat, k.rev \in Nat,
         c.fingerprint[1][n][1] \in Nat, Covers(g, c, n, m), Older(m, k)
  PROVE  Covers(g, c, n, k)
  <1>1. CASE m.rev = k.rev
    BY <1>1 DEF Older
  <1>2. CASE m.rev # k.rev
    BY <1>2 DEF Older, Covers
  <1>3. QED
    BY <1>1, <1>2

\* A publication or withdrawal raises the revision of what it changes.
LEMMA ChangeGrows ==
  ASSUME FilesInv, NEW d \in Dirs, NEW i \in Items, NEW from, NEW to \in {"active", "withdrawn"},
         Change(d, i, from, to)
  PROVE  /\ FilesInv'
         /\ \A e \in Dirs \cup {Nowhere} : \A n :
               Older(ReadAt(rev, life, e, n), ReadAt(rev', life', e, n))
  <1>1. /\ rev' = [rev EXCEPT ![d] = @ + 1]
        /\ life' = [life EXCEPT ![d][i] = to]
        /\ route' = route /\ moved' = moved /\ pages' = pages
    BY DEF Change, query
  <1>2. /\ rev' \in [Dirs -> Nat] /\ rev'[d] = rev[d] + 1
        /\ \A e \in Dirs \ {d} : rev'[e] = rev[e] /\ life'[e] = life[e]
    BY <1>1 DEF FilesInv
  <1>3. life' \in [Dirs -> [Items -> {"none", "active", "withdrawn"}]]
    BY <1>1 DEF FilesInv
  <1>4. FilesInv'
    BY <1>1, <1>2, <1>3 DEF FilesInv
  <1>5. ASSUME NEW e \in Dirs \cup {Nowhere}, NEW n
        PROVE  Older(ReadAt(rev, life, e, n), ReadAt(rev', life', e, n))
    <2>1. ReadAt(rev, life, e, n).rev \in Nat
      BY ReadType
    <2>2. CASE e = Nowhere \/ e # d
      <3>1. e = Nowhere => ReadAt(rev', life', e, n) = ReadAt(rev, life, e, n)
        BY DEF ReadAt
      <3>2. e # Nowhere => rev'[e] = rev[e] /\ life'[e] = life[e]
        BY <1>2, <2>2
      <3>3. e # Nowhere => ReadAt(rev', life', e, n) = ReadAt(rev, life, e, n)
        BY <3>2 DEF ReadAt
      <3>4. QED
        BY <2>1, <3>1, <3>3, OlderSelf
    <2>3. CASE e # Nowhere /\ e = d
      <3>1. rev[d] \in Nat /\ rev'[d] = rev[d] + 1
        BY <1>2 DEF FilesInv
      <3>2. ReadAt(rev', life', e, n).rev = rev[d] + 1
        BY <2>3, <3>1 DEF ReadAt
      <3>3. ReadAt(rev, life, e, n).rev = rev[d]
        BY <2>3, <3>1 DEF ReadAt, Unavailable
      <3>4. QED
        BY <3>1, <3>2, <3>3 DEF Older
    <2>4. QED
      BY <2>2, <2>3
  <1>6. QED
    BY <1>4, <1>5

LEMMA FilesKept ==
  ASSUME FilesInv, [CatalogNext]_catalogVars
  PROVE  FilesInv'
  <1>1. ASSUME Provider PROVE FilesInv'
    <2>1. PICK d \in Dirs : \E i \in ItemsOf(Owner[d]) :
             Change(d, i, "none", "active") \/ Change(d, i, "active", "withdrawn")
      BY <1>1 DEF Provider
    <2>2. PICK i \in Items :
             Change(d, i, "none", "active") \/ Change(d, i, "active", "withdrawn")
      BY <2>1 DEF ItemsOf
    <2>3. QED
      BY <2>2, ChangeGrows
  <1>2. ASSUME NEW n \in Spaces, NEW d \in Dirs \cup {Nowhere}, Repoint(n, d) PROVE FilesInv'
    <2>1. route' \in [Spaces -> Dirs \cup {Nowhere}] /\ rev' = rev /\ life' = life /\ pages' = pages
      BY <1>2 DEF Repoint, FilesInv
    <2>2. moved' \in BOOLEAN
      BY <1>2 DEF Repoint, FilesInv
    <2>3. QED
      BY <2>1, <2>2 DEF FilesInv
  <1>3. ASSUME Consumer \/ UNCHANGED catalogVars PROVE FilesInv'
    <2>1. rev' = rev /\ life' = life /\ route' = route
      BY <1>3 DEF Consumer, StartPage, ListNamespace, MakePage, StartResolve, ResolveManifest,
                  ResolveAsset, StartRefresh, RefreshNamespace, WriteCache, files, catalogVars
    <2>2. \/ moved' = moved /\ pages' = pages
          \/ moved' = FALSE /\ pages' = 0
          \/ moved' = moved /\ pages' = pages + 1
      BY <1>3 DEF Consumer, StartPage, ListNamespace, MakePage, StartResolve, ResolveManifest,
                  ResolveAsset, StartRefresh, RefreshNamespace, WriteCache, query, catalogVars, NewQuery
    <2>3. pages' \in Nat
      BY <2>2 DEF FilesInv
    <2>4. moved' \in BOOLEAN
      <3>1. moved' = moved \/ moved' = FALSE
        BY <2>2
      <3>2. QED
        BY <3>1 DEF FilesInv
    <2>5. QED
      BY <2>1, <2>3, <2>4 DEF FilesInv
  <1>4. QED
    BY <1>1, <1>2, <1>3 DEF CatalogNext

\* Whatever ends or is no query leaves no cursor and no page.
LEMMA NoQueryPages ==
  ASSUME FilesInv', at' \in {"idle", "manifest", "asset", "refresh"}, pages' = 0, cursor' = NoCursor,
         at' = "idle" => seen' = NoView
  PROVE  PagesInv'
  <1>1. PlaceInv'
    BY DEF PlaceInv, Reading, NoView, NoCursor
  <1>2. CursorInv' /\ CallInv'
    BY DEF CursorInv, CallInv, Reading, NoCursor
  <1>3. PagesAreOneInstant'
    BY DEF PagesAreOneInstant, Finished
  <1>4. QED
    BY <1>1, <1>2, <1>3 DEF PagesInv

LEMMA ProviderPages ==
  ASSUME PagesInv, NEW d \in Dirs, NEW i \in Items, NEW from, NEW to \in {"active", "withdrawn"},
         Change(d, i, from, to)
  PROVE  PagesInv'
  <1>1. /\ FilesInv' /\ FilesInv
        /\ \A e \in Dirs \cup {Nowhere} : \A n :
               Older(ReadAt(rev, life, e, n), ReadAt(rev', life', e, n))
    BY ChangeGrows DEF PagesInv
  <1>2. \A e \in Dirs \cup {Nowhere} : \A n : /\ ReadAt(rev, life, e, n).rev \in Nat
                                              /\ ReadAt(rev', life', e, n).rev \in Nat
    <2>1. ASSUME NEW e \in Dirs \cup {Nowhere}, NEW n
          PROVE  ReadAt(rev, life, e, n).rev \in Nat /\ ReadAt(rev', life', e, n).rev \in Nat
      BY <1>1 DEF FilesInv, ReadAt, Unavailable
    <2>2. QED
      BY <2>1
  <1>3. /\ route' = route /\ at' = at /\ todo' = todo /\ seen' = seen /\ got' = got
        /\ cursor' = cursor /\ pages' = pages /\ moved' = moved /\ began' = began
    BY DEF Change, call, query
  <1>4. PlaceInv'
    BY <1>3 DEF PagesInv, PlaceInv, NoView, NoCursor
  <1>5. CursorInv'
    <2>1. SUFFICES ASSUME cursor # NoCursor, ~moved
                   PROVE  \A n \in Spaces : Covers(got, cursor, n,
                                    ReadAt(rev', life', cursor.fingerprint[2][n], n))
      BY <1>3 DEF PagesInv, CursorInv, NoCursor
    <2>2. TAKE n \in Spaces
    <2>3. /\ cursor.fingerprint[2][n] \in Dirs \cup {Nowhere}
          /\ cursor.fingerprint[1][n][1] \in Nat
          /\ Covers(got, cursor, n, ReadAt(rev, life, cursor.fingerprint[2][n], n))
      BY <2>1 DEF PagesInv, CursorInv
    <2>4. QED
      BY <1>1, <1>2, <2>3, CoversLater
  <1>6. CallInv'
    <2>1. SUFFICES ASSUME at \in Reading, ~moved
                   PROVE  /\ \A n \in Spaces : Older(began[n], ReadAt(rev', life', route[n], n))
                          /\ \A n \in DOMAIN seen : Older(seen[n], ReadAt(rev', life', route[n], n))
      BY <1>3 DEF PagesInv, CallInv, NoCursor
    <2>2. \A n \in Spaces : route[n] \in Dirs \cup {Nowhere}
      BY <1>1 DEF FilesInv
    <2>3. ASSUME NEW n \in Spaces PROVE Older(began[n], ReadAt(rev', life', route[n], n))
      <3>1. began[n].rev \in Nat /\ Older(began[n], ReadAt(rev, life, route[n], n))
        BY <2>1 DEF PagesInv, CallInv
      <3>2. QED
        BY <1>1, <1>2, <2>2, <3>1, OlderTwice
    <2>4. ASSUME NEW n \in DOMAIN seen PROVE Older(seen[n], ReadAt(rev', life', route[n], n))
      <3>1. seen[n].rev \in Nat /\ Older(seen[n], ReadAt(rev, life, route[n], n)) /\ n \in Spaces
        BY <2>1 DEF PagesInv, CallInv
      <3>2. QED
        BY <1>1, <1>2, <2>2, <3>1, OlderTwice
    <2>5. QED
      BY <2>3, <2>4
  <1>7. PagesAreOneInstant'
    BY <1>3 DEF PagesInv, PagesAreOneInstant, Finished, Matches, Sorted, Kept, NoCursor
  <1>8. QED
    BY <1>1, <1>4, <1>5, <1>6, <1>7 DEF PagesInv

LEMMA RepointPages ==
  ASSUME PagesInv, FilesInv', NEW n \in Spaces, NEW d \in Dirs \cup {Nowhere}, Repoint(n, d)
  PROVE  PagesInv'
  <1>1. /\ rev' = rev /\ life' = life /\ at' = at /\ todo' = todo /\ seen' = seen /\ got' = got
        /\ cursor' = cursor /\ pages' = pages /\ began' = began
        /\ at \in Reading => moved'
        /\ at \notin Reading => (moved' <=> moved)
        /\ moved => moved'
    BY DEF Repoint, call, Reading
  <1>2. PlaceInv'
    BY <1>1 DEF PagesInv, PlaceInv, NoView, NoCursor
  <1>3. CursorInv'
    BY <1>1 DEF PagesInv, CursorInv, NoCursor
  <1>4. CallInv'
    BY <1>1 DEF CallInv
  <1>5. PagesAreOneInstant'
    BY <1>1 DEF PagesInv, PagesAreOneInstant, Finished, Matches, Sorted, Kept, NoCursor
  <1>6. QED
    BY <1>2, <1>3, <1>4, <1>5 DEF PagesInv

LEMMA StartPages ==
  ASSUME PagesInv, FilesInv', NEW fresh \in BOOLEAN, StartPage(fresh)
  PROVE  PagesInv'
  <1>1. /\ at = "idle" /\ at' = "list" /\ todo' = Config /\ seen' = seen /\ began' = Registered
        /\ rev' = rev /\ life' = life /\ route' = route
    BY DEF StartPage, files
  <1>2. seen = NoView
    BY <1>1 DEF PagesInv, PlaceInv
  <1>3. \/ got' = <<>> /\ cursor' = NoCursor /\ pages' = 0 /\ moved' = FALSE
        \/ /\ cursor # NoCursor
           /\ got' = got /\ cursor' = cursor /\ pages' = pages /\ moved' = moved
    BY DEF StartPage, NewQuery, query
  <1>4. PlaceInv'
    <2>1. Config \in Seq(Spaces) /\ Config # <<>> /\ Elems(Config) = Spaces
      <3>1. Elems(Config) = Spaces /\ Config # <<>> /\ Config \in Seq(STRING)
        BY CatalogAssumption DEF ValidConfig, Spaces, Range, Elems
      <3>2. \A i \in 1..Len(Config) : Config[i] \in Spaces
        BY <3>1 DEF Elems
      <3>3. Config \in [1..Len(Config) -> Spaces] /\ Len(Config) \in Nat
        BY <3>1, <3>2
      <3>4. Config \in Seq(Spaces)
        BY <3>3
      <3>5. QED
        BY <3>1, <3>4
    <2>2. DOMAIN seen' = {}
      BY <1>1, <1>2 DEF NoView
    <2>3. QED
      BY <1>1, <1>3, <2>1, <2>2 DEF PlaceInv, Reading, NoCursor
  <1>5. CursorInv'
    BY <1>1, <1>3 DEF PagesInv, CursorInv, NoCursor
  <1>6. CallInv'
    <2>1. DOMAIN began' = Spaces /\ \A n \in Spaces : began'[n] = ReadAt(rev, life, route[n], n)
      BY <1>1, ReadsFile DEF Registered
    <2>2. DOMAIN seen' = {}
      BY <1>1, <1>2 DEF NoView
    <2>3. \A n \in Spaces : /\ ReadAt(rev, life, route[n], n).rev \in Nat
      BY ReadType DEF PagesInv, FilesInv
    <2>4. \A n \in Spaces : /\ began'[n].rev \in Nat
                            /\ Older(began'[n], ReadAt(rev, life, route[n], n))
      BY <2>1, <2>3, OlderSelf
    <2>5. ASSUME cursor' # NoCursor, ~moved', cursor'.fingerprint[2] = route
          PROVE  \A n \in Spaces : Covers(got', cursor', n, began'[n])
      <3>1. cursor # NoCursor /\ ~moved /\ got' = got /\ cursor' = cursor
        BY <1>3, <2>5
      <3>2. \A n \in Spaces : Covers(got, cursor, n, ReadAt(rev, life, route[n], n))
        BY <2>5, <3>1 DEF PagesInv, CursorInv
      <3>3. QED
        BY <2>1, <3>1, <3>2
    <2>6. QED
      BY <1>1, <2>1, <2>2, <2>4, <2>5 DEF CallInv, NoCursor
  <1>7. PagesAreOneInstant'
    BY <1>1 DEF PagesAreOneInstant, Finished
  <1>8. QED
    BY <1>4, <1>5, <1>6, <1>7 DEF PagesInv

LEMMA ListPages ==
  ASSUME PagesInv, FilesInv', ListNamespace
  PROVE  PagesInv'
  <1> DEFINE n == Head(todo)
             m == ManifestAt(route[n], n)
  <1>1. at = "list" /\ todo # <<>> /\ todo \in Seq(Spaces) /\ DOMAIN seen \cup Elems(todo) = Spaces
    BY DEF ListNamespace, PagesInv, PlaceInv
  <1>2. rev' = rev /\ life' = life /\ route' = route
    BY DEF ListNamespace, files
  <1>3. CASE Return /\ NewQuery
    BY <1>3, NoQueryPages DEF Return, NewQuery
  <1>4. CASE /\ seen' = With(seen, n, m)
             /\ todo' = Tail(todo)
             /\ at' = IF Tail(todo) = <<>> THEN "page" ELSE "list"
             /\ UNCHANGED <<item, root, found, during, query, began>>
    <2>1. got' = got /\ cursor' = cursor /\ pages' = pages /\ moved' = moved /\ began' = began
      BY <1>4 DEF query
    <2>2. /\ n \in Spaces /\ Tail(todo) \in Seq(Spaces)
          /\ Elems(todo) = {n} \cup Elems(Tail(todo))
      <3>1. n \in Spaces /\ Tail(todo) \in Seq(Spaces) /\ n = todo[1] /\ 1 \in DOMAIN todo
        BY <1>1
      <3>2. ASSUME NEW x \in Elems(todo), x # n PROVE x \in Elems(Tail(todo))
        <4>1. PICK i \in DOMAIN todo : todo[i] = x
          BY <3>2 DEF Elems
        <4>2. i # 1 /\ i - 1 \in DOMAIN Tail(todo) /\ Tail(todo)[i - 1] = x
          BY <1>1, <3>1, <3>2, <4>1
        <4>3. QED
          BY <4>2 DEF Elems
      <3>3. ASSUME NEW x \in Elems(Tail(todo)) PROVE x \in Elems(todo)
        <4>1. PICK i \in DOMAIN Tail(todo) : Tail(todo)[i] = x
          BY <3>3 DEF Elems
        <4>2. i + 1 \in DOMAIN todo /\ todo[i + 1] = x
          BY <1>1, <4>1
        <4>3. QED
          BY <4>2 DEF Elems
      <3>4. n \in Elems(todo)
        BY <3>1 DEF Elems
      <3>5. QED
        BY <3>1, <3>2, <3>3, <3>4
    <2>3. /\ DOMAIN seen' = DOMAIN seen \cup {n} /\ seen'[n] = m
          /\ \A k \in DOMAIN seen \ {n} : seen'[k] = seen[k]
      BY <1>4 DEF With
    <2> HIDE DEF n
    <2>4. PlaceInv'
      <3>1. Tail(todo) = <<>> => Elems(Tail(todo)) = {}
        BY DEF Elems
      <3>2. DOMAIN seen' \cup Elems(Tail(todo)) = Spaces
        BY <1>1, <2>2, <2>3
      <3>3. cursor = NoCursor => pages = 0 /\ got = <<>>
        BY <1>1 DEF PagesInv, PlaceInv, Reading
      <3>4. QED
        BY <1>4, <2>1, <2>2, <3>1, <3>2, <3>3 DEF PlaceInv, Reading, NoCursor
    <2>5. CursorInv'
      BY <1>2, <2>1 DEF PagesInv, CursorInv, NoCursor
    <2>6. CallInv'
      <3>1. SUFFICES ASSUME ~moved
                     PROVE  \A k \in DOMAIN seen' :
                               /\ k \in Spaces
                               /\ seen'[k].rev \in Nat /\ seen'[k].active \subseteq ItemsOf(k)
                               /\ Older(began[k], seen'[k])
                               /\ Older(seen'[k], ReadAt(rev, life, route[k], k))
        BY <1>1, <1>2, <2>1 DEF PagesInv, CallInv, Reading, NoCursor
      <3>2. at \in Reading
        BY <1>1 DEF Reading
      <3>3. \A k \in DOMAIN seen \ {n} :
               /\ k \in Spaces
               /\ seen'[k].rev \in Nat /\ seen'[k].active \subseteq ItemsOf(k)
               /\ Older(began[k], seen'[k])
               /\ Older(seen'[k], ReadAt(rev, life, route[k], k))
        BY <2>3, <3>1, <3>2 DEF PagesInv, CallInv
      <3>4. /\ n \in Spaces
            /\ m.rev \in Nat /\ m.active \subseteq ItemsOf(n)
            /\ Older(began[n], m)
            /\ Older(m, ReadAt(rev, life, route[n], n))
        <4>1. m = ReadAt(rev, life, route[n], n)
          BY ReadsFile
        <4>2. route[n] \in Dirs \cup {Nowhere}
          BY <2>2 DEF PagesInv, FilesInv
        <4>3. m.rev \in Nat /\ m.active \subseteq ItemsOf(n)
          BY <4>1, <4>2, ReadType DEF PagesInv
        <4>4. Older(began[n], ReadAt(rev, life, route[n], n))
          BY <2>2, <3>1, <3>2 DEF PagesInv, CallInv
        <4> HIDE DEF m
        <4>5. QED
          BY <2>2, <4>1, <4>3, <4>4, OlderSelf
      <3>5. QED
        BY <2>3, <3>3, <3>4
    <2>7. PagesAreOneInstant'
      BY <1>4 DEF PagesAreOneInstant, Finished
    <2>8. QED
      BY <2>4, <2>5, <2>6, <2>7 DEF PagesInv
  <1>5. QED
    BY <1>3, <1>4 DEF ListNamespace

\* What the pages hold is what the listing shows up to the cursor: the
\* revisions say that no manifest has changed since the last page, nor, then,
\* between the start of the call and the reading.
LEMMA PagesSoFar ==
  ASSUME PagesInv, at = "page", ~moved,
         cursor # NoCursor => cursor.fingerprint = Fingerprint
  PROVE  /\ Lists(got, {i \in Kept(seen) : ~(cursor = NoCursor \/ i > cursor.after)})
         /\ cursor # NoCursor => Kept(began) = Kept(seen) /\ cursor.after \in Nat
  <1>1. DOMAIN seen = Spaces /\ at \in Reading
    BY DEF PagesInv, PlaceInv, Reading
  <1>2. CASE cursor = NoCursor
    <2>1. got = <<>>
      BY <1>1, <1>2 DEF PagesInv, PlaceInv
    <2>2. {i \in Kept(seen) : ~(cursor = NoCursor \/ i > cursor.after)} = {}
      BY <1>2
    <2>3. QED
      BY <1>2, <2>1, <2>2, EmptyLists
  <1>3. CASE cursor # NoCursor
    <2>1. /\ cursor.fingerprint[2] = route
          /\ \A n \in Spaces : cursor.fingerprint[1][n][1] = seen[n].rev
      BY <1>3 DEF Fingerprint
    <2>2. ASSUME NEW n \in Spaces
          PROVE  began[n] = seen[n] /\ GotOf(got, n) = Shown(seen[n], cursor.after)
      <3>1. /\ began[n].rev \in Nat /\ seen[n].rev \in Nat
            /\ Older(began[n], seen[n]) /\ Covers(got, cursor, n, began[n])
        BY <1>1, <1>3, <2>1 DEF PagesInv, CallInv
      <3>2. seen[n].rev <= began[n].rev
        BY <2>1, <3>1 DEF Covers
      <3>3. began[n].rev = seen[n].rev
        BY <3>1, <3>2 DEF Older
      <3>4. QED
        BY <2>1, <3>1, <3>3 DEF Older, Covers
    <2>3. /\ DOMAIN began = Spaces
          /\ \A n \in Spaces : seen[n].active \subseteq ItemsOf(n)
      BY <1>1 DEF PagesInv, CallInv
    <2>4. Kept(began) = Kept(seen)
      BY <1>1, <2>2, <2>3 DEF Kept
    <2>5. /\ cursor.after \in Nat /\ Lists(got, Elems(got))
          /\ \A i \in Elems(got) : i \in Items /\ Space[i] \in Spaces /\ i <= cursor.after
      BY <1>3 DEF PagesInv, CursorInv
    <2>6. Elems(got) = {i \in Kept(seen) : ~(cursor = NoCursor \/ i > cursor.after)}
      <3>1. Items \subseteq Nat
        BY CatalogAssumption
      <3>2. ASSUME NEW i \in Elems(got)
            PROVE  i \in Kept(seen) /\ ~(i > cursor.after)
        <4>1. Space[i] \in Spaces /\ i \in GotOf(got, Space[i])
          BY <2>5 DEF GotOf
        <4>2. i \in Shown(seen[Space[i]], cursor.after)
          BY <2>2, <4>1
        <4>3. i \in seen[Space[i]].active /\ i \in Wanted
          BY <4>2 DEF Shown
        <4>4. i \in Kept(seen)
          BY <1>1, <4>1, <4>3, InKept
        <4>5. i \in Nat /\ i <= cursor.after
          BY <2>5, <3>1
        <4>6. QED
          BY <2>5, <4>4, <4>5
      <3>3. ASSUME NEW i \in Kept(seen), ~(i > cursor.after)
            PROVE  i \in Elems(got)
        <4>1. PICK n \in Spaces : i \in seen[n].active /\ i \in Wanted
          BY <1>1, <3>3, InKept
        <4>2. i \in Nat
          BY <2>3, <3>1, <4>1 DEF ItemsOf
        <4>3. i \in Shown(seen[n], cursor.after)
          BY <2>5, <3>3, <4>1, <4>2 DEF Shown
        <4>4. QED
          BY <2>2, <4>3 DEF GotOf
      <3>4. QED
        BY <1>3, <3>2, <3>3
    <2>7. QED
      BY <2>4, <2>5, <2>6
  <1>4. QED
    BY <1>2, <1>3
LEMMA MakePages ==
  ASSUME PagesInv, FilesInv', MakePage
  PROVE  PagesInv'
  <1> DEFINE left == {i \in Kept(seen) : cursor = NoCursor \/ i > cursor.after}
             done == {i \in Kept(seen) : ~(cursor = NoCursor \/ i > cursor.after)}
             rest == Sorted(left)
             page == SubSeq(rest, 1, IF Len(rest) < PageLimit THEN Len(rest) ELSE PageLimit)
  <1>1. /\ at = "page" /\ at' = "idle" /\ seen' = NoView
        /\ rev' = rev /\ life' = life /\ route' = route
    BY DEF MakePage, Return, files
  <1>2. CASE NewQuery
    BY <1>1, <1>2, NoQueryPages DEF NewQuery
  <1>3. CASE /\ cursor # NoCursor => cursor.fingerprint = Fingerprint
             /\ got' = got \o page
             /\ pages' = pages + 1
             /\ cursor' = IF Len(rest) > PageLimit
                          THEN [fingerprint |-> Fingerprint, after |-> Last(page)] ELSE NoCursor
             /\ moved' = moved /\ began' = began
    <2>1. PlaceInv'
      BY <1>1 DEF PlaceInv, Reading, NoView
    <2>2. CallInv'
      BY <1>1 DEF CallInv, Reading
    <2>3. CASE moved
      BY <1>1, <1>3, <2>1, <2>2, <2>3 DEF PagesInv, CursorInv, PagesAreOneInstant
    <2>4. CASE ~moved
      <3>1. /\ Lists(got, done)
            /\ cursor # NoCursor => Kept(began) = Kept(seen) /\ cursor.after \in Nat
        BY <1>1, <1>3, <2>4, PagesSoFar
      <3>2. /\ DOMAIN seen = Spaces
            /\ \A n \in Spaces : /\ seen[n].rev \in Nat /\ seen[n].active \subseteq ItemsOf(n)
                                 /\ Older(seen[n], ReadAt(rev, life, route[n], n))
        BY <1>1, <2>4 DEF PagesInv, PlaceInv, CallInv, Reading
      <3>3. Kept(seen) \subseteq Items /\ Items \subseteq Nat /\ PageLimit \in Nat \ {0}
        BY CatalogAssumption DEF Kept
      <3>4. IsFiniteSet(Kept(seen)) /\ IsFiniteSet(left)
        <4>1. Kept(seen) \in SUBSET Items /\ left \in SUBSET Items /\ IsFiniteSet(Items)
          BY <3>3, CatalogAssumption
        <4> HIDE DEF left
        <4>2. QED
          BY <4>1, FS_Subset
      <3>5. Lists(rest, left)
        <4>1. left \subseteq Nat
          BY <3>3
        <4> HIDE DEF left
        <4>2. QED
          BY <3>4, <4>1, SortedLists
      <3>6. \A x \in done, y \in left : x < y
        <4>1. \A x \in done, y \in left : /\ x \in Nat /\ y \in Nat /\ cursor.after \in Nat
                                          /\ ~(x > cursor.after) /\ y > cursor.after
          BY <3>1, <3>3
        <4> HIDE DEF done, left
        <4>2. QED
          BY <4>1
      <3>7. rest \in Seq(Nat) /\ Len(rest) \in Nat
        BY <3>5 DEF Lists
      <3>8. done \cup left = Kept(seen)
        OBVIOUS
      <3> HIDE DEF rest
      <3>9. CASE ~(Len(rest) > PageLimit)
        <4>1. page = rest
          <5>1. (IF Len(rest) < PageLimit THEN Len(rest) ELSE PageLimit) = Len(rest)
            BY <3>3, <3>7, <3>9
          <5>2. SubSeq(rest, 1, Len(rest)) = rest
            BY <3>7
          <5>3. QED
            BY <5>1, <5>2
        <4>2. got' = got \o rest /\ cursor' = NoCursor
          BY <1>3, <3>9, <4>1
        <4> HIDE DEF done, left, page
        <4>3. Lists(got', Kept(seen))
          BY <3>1, <3>5, <3>6, <3>8, <4>2, ListsJoin
        <4>4. CursorInv'
          BY <4>2 DEF CursorInv, NoCursor
        <4>5. PagesAreOneInstant'
          <5>1. SUFFICES ASSUME pages' > 1 PROVE got' = Matches(began)
            BY <1>3 DEF PagesAreOneInstant, Matches, Sorted, Kept
          <5>2. cursor # NoCursor
            <6>1. pages # 0
              BY <1>3, <5>1 DEF PagesInv, FilesInv
            <6>2. QED
              BY <1>1, <6>1 DEF PagesInv, PlaceInv, Reading
          <5>3. Lists(Matches(began), Kept(seen))
            BY <3>1, <3>3, <3>4, <5>2, SortedLists DEF Matches
          <5>4. QED
            BY <4>3, <5>3, ListsOnce
        <4>6. QED
          BY <2>1, <2>2, <4>4, <4>5 DEF PagesInv
      <3>10. CASE Len(rest) > PageLimit
        <4> DEFINE last == rest[PageLimit]
                   upto == {x \in left : x <= last}
        <4>1. page = SubSeq(rest, 1, PageLimit) /\ PageLimit \in 1..Len(rest)
          <5>1. (IF Len(rest) < PageLimit THEN Len(rest) ELSE PageLimit) = PageLimit
            BY <3>3, <3>7, <3>10
          <5>2. QED
            BY <3>3, <3>7, <3>10, <5>1
        <4>2. Lists(page, upto) /\ Last(page) = last /\ last \in left
          <5> HIDE DEF left
          <5>1. QED
            BY <3>5, <4>1, PageLists
        <4>3. last \in Nat
          BY <3>3, <4>2
        <4>4. cursor' = [fingerprint |-> Fingerprint, after |-> last] /\ got' = got \o page
          BY <1>3, <3>10, <4>2
        <4> HIDE DEF page, last
        <4>5. Lists(got', done \cup upto)
          <5>1. \A x \in done, y \in upto : x < y
            BY <3>6
          <5> HIDE DEF done, upto
          <5>2. QED
            BY <3>1, <4>2, <4>4, <5>1, ListsJoin
        <4>6. done \cup upto = {x \in Kept(seen) : x <= last}
          <5>1. \A x \in done : x < last /\ x \in Nat
            BY <3>3, <3>6, <4>2
          <5>2. \A x \in done : x <= last
            <6> HIDE DEF done
            <6>1. QED
              BY <4>3, <5>1
          <5>3. QED
            BY <3>8, <5>2
        <4> HIDE DEF done, upto, left
        <4>7. Elems(got') = {x \in Kept(seen) : x <= last}
          BY <4>5, <4>6 DEF Lists
        <4>8. Lists(got', Elems(got'))
          BY <4>5, <4>6, <4>7
        <4>9. cursor' # NoCursor
          <5>1. cursor'.fingerprint # <<>>
            BY <4>4 DEF Fingerprint
          <5>2. QED
            BY <5>1 DEF NoCursor
        <4>10. /\ cursor'.after = last /\ cursor'.fingerprint[2] = route
               /\ \A n \in Spaces : cursor'.fingerprint[1][n][1] = seen[n].rev
          BY <4>4 DEF Fingerprint
        <4>11. ASSUME NEW i \in Kept(seen)
               PROVE  /\ Space[i] \in Spaces /\ i \in Items
                      /\ \A n \in Spaces : Space[i] = n <=> i \in seen[n].active
          <5>1. PICK k \in Spaces : i \in seen[k].active
            BY <3>2, <4>11, InKept
          <5>2. Space[i] = k /\ i \in Items
            BY <3>2, <5>1 DEF ItemsOf
          <5>3. \A n \in Spaces : i \in seen[n].active => Space[i] = n
            BY <3>2 DEF ItemsOf
          <5>4. QED
            BY <5>1, <5>2, <5>3
        <4>12. ASSUME NEW n \in Spaces
               PROVE  Covers(got', cursor', n, ReadAt(rev, life, route[n], n))
          <5>1. GotOf(got', n) = Shown(seen[n], last)
            <6>1. ASSUME NEW i \in seen[n].active \cap Wanted PROVE i \in Kept(seen)
              BY <3>2, <6>1, InKept
            <6>2. \A i \in Kept(seen) : i \in Wanted
              BY DEF Kept
            <6>3. QED
              BY <4>7, <4>11, <6>1, <6>2 DEF GotOf, Shown
          <5>2. /\ seen[n].rev \in Nat
                /\ Older(seen[n], ReadAt(rev, life, route[n], n))
            BY <3>2
          <5>3. QED
            BY <4>10, <5>1, <5>2 DEF Covers, Older
        <4>13. CursorInv'
          <5>1. \A i \in Elems(got') : i \in Items /\ Space[i] \in Spaces /\ i <= last
            BY <4>7, <4>11
          <5>2. route \in [Spaces -> Dirs \cup {Nowhere}]
            BY DEF PagesInv, FilesInv
          <5>3. QED
            BY <1>1, <3>2, <4>3, <4>8, <4>10, <4>12, <5>1, <5>2 DEF CursorInv, NoCursor
        <4>14. PagesAreOneInstant'
          BY <4>9 DEF PagesAreOneInstant, Finished, NoCursor
        <4>15. QED
          BY <2>1, <2>2, <4>13, <4>14 DEF PagesInv
      <3>11. QED
        BY <3>9, <3>10
    <2>5. QED
      BY <2>3, <2>4
  <1>4. QED
    BY <1>2, <1>3 DEF MakePage

LEMMA OtherPages ==
  ASSUME PagesInv, FilesInv',
         \/ \E i \in Items : StartResolve(i)
         \/ ResolveManifest \/ ResolveAsset \/ StartRefresh \/ RefreshNamespace \/ WriteCache
  PROVE  PagesInv'
  <1>1. at' \in {"idle", "manifest", "asset", "refresh"} /\ (at' = "idle" => seen' = NoView)
    BY DEF StartResolve, ResolveManifest, ResolveAsset, StartRefresh, RefreshNamespace,
           WriteCache, Return
  <1>2. \/ NewQuery
        \/ at \in {"manifest", "asset", "refresh"} /\ UNCHANGED query
    BY DEF StartResolve, ResolveManifest, ResolveAsset, StartRefresh, RefreshNamespace, WriteCache
  <1>3. pages' = 0 /\ cursor' = NoCursor
    BY <1>2 DEF NewQuery, query, PagesInv, PlaceInv
  <1>4. QED
    BY <1>1, <1>3, NoQueryPages

LEMMA NextPages == PagesInv /\ [CatalogNext]_catalogVars => PagesInv'
  <1> SUFFICES ASSUME PagesInv, [CatalogNext]_catalogVars PROVE PagesInv'
    OBVIOUS
  <1>1. FilesInv'
    BY FilesKept DEF PagesInv
  <1>2. CASE Consumer
    BY <1>1, <1>2, StartPages, ListPages, MakePages, OtherPages DEF Consumer
  <1>3. CASE Provider
    <2>1. PICK d \in Dirs : \E i \in ItemsOf(Owner[d]) :
             Change(d, i, "none", "active") \/ Change(d, i, "active", "withdrawn")
      BY <1>3 DEF Provider
    <2>2. PICK i \in Items :
             Change(d, i, "none", "active") \/ Change(d, i, "active", "withdrawn")
      BY <2>1 DEF ItemsOf
    <2>3. QED
      BY <2>2, ProviderPages
  <1>4. ASSUME NEW n \in Spaces, NEW d \in Dirs \cup {Nowhere}, Repoint(n, d) PROVE PagesInv'
    BY <1>1, <1>4, RepointPages
  <1>5. CASE UNCHANGED catalogVars
    <2>1. /\ rev' = rev /\ life' = life /\ route' = route /\ at' = at /\ todo' = todo
          /\ seen' = seen /\ got' = got /\ cursor' = cursor /\ pages' = pages /\ moved' = moved
          /\ began' = began
      BY <1>5 DEF catalogVars, files, call, query
    <2>2. QED
      BY <1>1, <2>1 DEF PagesInv, PlaceInv, CursorInv, CallInv, PagesAreOneInstant, Finished,
             Matches, Sorted, Kept, NoView, NoCursor
  <1>6. QED
    BY <1>2, <1>3, <1>4, <1>5 DEF CatalogNext

LEMMA InitFiles == CatalogInit => FilesInv
  <1> SUFFICES ASSUME CatalogInit PROVE FilesInv
    OBVIOUS
  <1>1. rev \in [Dirs -> Nat] /\ life \in [Dirs -> [Items -> {"none", "active", "withdrawn"}]]
    BY DEF CatalogInit
  <1>2. route \in [Spaces -> Dirs \cup {Nowhere}]
    BY DEF CatalogInit
  <1>3. moved \in BOOLEAN /\ pages \in Nat
    BY DEF CatalogInit
  <1>4. QED
    BY <1>1, <1>2, <1>3 DEF FilesInv

\* However the provider's publications fall between and inside the calls of
\* query_catalog, the pages that its cursors let through are the registered
\* versions of one instant.
THEOREM PagesHold == CatalogSpec => []PagesAreOneInstant
  <1>1. CatalogInit => PagesInv
    <2> SUFFICES ASSUME CatalogInit PROVE PagesInv
      OBVIOUS
    <2>1. at = "idle" /\ seen = NoView /\ cursor = NoCursor /\ pages = 0
      BY DEF CatalogInit
    <2>2. PlaceInv /\ CursorInv /\ CallInv /\ PagesAreOneInstant
      BY <2>1 DEF PlaceInv, CursorInv, CallInv, PagesAreOneInstant, Finished, Reading
    <2>3. QED
      BY <2>2, InitFiles DEF PagesInv
  <1>2. PagesInv /\ [CatalogNext]_catalogVars => PagesInv'
    BY NextPages
  <1>3. PagesInv => PagesAreOneInstant
    BY DEF PagesInv
  <1>4. QED
    BY <1>1, <1>2, <1>3, PTL DEF CatalogSpec

-----------------------------------------------------------------------------
(* resolve                                                                 *)

\* root is where the path led when resolve was called and found where it
\* took the manifest from.
ResolveInv ==
    /\ during \in Nat
    /\ at \in {"manifest", "asset"} =>
          /\ item \in Items /\ Space[item] \in Spaces /\ root \in Dirs
          /\ began[Space[item]] = "withdrawn" => life[root][item] = "withdrawn"
          /\ route[Space[item]] # root => during >= 1
    /\ at = "asset" =>
          /\ during = 0 => began[Space[item]] # "withdrawn"
          /\ found # root => during >= 1 /\ Space[item] # Local
          /\ found # root /\ route[Space[item]] = root => during >= 2

LEMMA ResolveKept ==
  ASSUME FilesInv, ResolveInv, ResolveSound, [CatalogNext]_catalogVars
  PROVE  ResolveInv' /\ ResolveSound'
  <1>1. during' \in Nat
    <2>1. during' \in {0, during, during + 1}
      BY DEF CatalogNext, Consumer, Provider, Change, Repoint, StartPage, ListNamespace, MakePage,
             StartResolve, ResolveManifest, ResolveAsset, StartRefresh, RefreshNamespace,
             WriteCache, Return, catalogVars
    <2>2. QED
      BY <2>1 DEF ResolveInv
  <1>2. ASSUME NEW i \in Items, StartResolve(i) PROVE ResolveInv' /\ ResolveSound'
    <2>1. /\ at' = "manifest" /\ item' = i /\ root' = route[Space[i]] /\ Space[i] \in Spaces
          /\ began'[Space[i]] = life[route[Space[i]]][i] /\ resolved' = None
          /\ route' = route /\ life' = life /\ root' # Nowhere
      BY <1>2 DEF StartResolve, files
    <2>2. root' \in Dirs
      BY <2>1 DEF FilesInv
    <2>3. QED
      BY <1>1, <2>1, <2>2 DEF ResolveInv, ResolveSound
  <1>3. ASSUME ResolveManifest PROVE ResolveInv' /\ ResolveSound'
    <2> DEFINE n == Space[item]
               d == Displayed(n)
    <2>1. /\ at = "manifest" /\ resolved' = resolved /\ route' = route /\ life' = life
          /\ \/ at' = "idle"
             \/ /\ at' = "asset" /\ found' = d /\ item' = item /\ root' = root
                /\ during' = during /\ began' = began
                /\ d # Nowhere /\ life[d][item] = "active"
      BY <1>3 DEF ResolveManifest, Return, MayResolve, files
    <2>2. d = root \/ (d = route[n] /\ n # Local)
      BY DEF Displayed
    <2>3. ResolveSound'
      BY <2>1 DEF ResolveSound
    <2>4. CASE at' = "idle"
      BY <1>1, <2>3, <2>4 DEF ResolveInv
    <2>5. CASE at' = "asset"
      <3>1. during \in Nat /\ (route[n] # root => during >= 1)
        BY <2>1 DEF ResolveInv
      <3>2. d # root => during >= 1 /\ route[n] # root /\ n # Local
        BY <2>2, <3>1
      <3>3. during = 0 => began[n] # "withdrawn"
        <4>1. during = 0 => d = root
          BY <3>1, <3>2
        <4>2. QED
          BY <2>1, <2>5, <4>1 DEF ResolveInv
      <3>4. QED
        BY <2>1, <2>3, <2>5, <3>1, <3>2, <3>3 DEF ResolveInv, Local
    <2>6. QED
      BY <2>1, <2>4, <2>5
  <1>4. ASSUME ResolveAsset PROVE ResolveInv' /\ ResolveSound'
    <2>1. /\ at = "asset" /\ at' = "idle"
          /\ \/ resolved' = None
             \/ /\ Displayed(Space[item]) = root
                /\ resolved' = [item |-> item, from |-> found, in |-> Displayed(Space[item]),
                                moves |-> during, refreshed |-> Space[item] \in cache,
                                was |-> began[Space[item]]]
      BY <1>4 DEF ResolveAsset, Return, Inside
    <2>2. ResolveInv'
      BY <1>1, <2>1 DEF ResolveInv
    <2>3. CASE resolved' = None
      BY <2>2, <2>3 DEF ResolveSound
    <2>4. CASE resolved' # None
      <3>1. /\ resolved'.moves = during /\ resolved'.was = began[Space[item]]
            /\ resolved'.from = found /\ resolved'.in = root /\ Displayed(Space[item]) = root
        BY <2>1, <2>4
      <3>2. during = 0 => began[Space[item]] # "withdrawn"
        BY <2>1 DEF ResolveInv
      <3>3. during < 2 => found = root
        <4>1. during \in Nat
          BY <2>1 DEF ResolveInv
        <4>2. Space[item] # Local => route[Space[item]] = root
          BY <3>1 DEF Displayed
        <4>3. QED
          BY <2>1, <4>1, <4>2 DEF ResolveInv
      <3>4. QED
        BY <2>2, <3>1, <3>2, <3>3 DEF ResolveSound
    <2>5. QED
      BY <2>3, <2>4
  <1>5. ASSUME \/ \E fresh \in BOOLEAN : StartPage(fresh)
               \/ ListNamespace \/ MakePage
               \/ StartRefresh \/ RefreshNamespace \/ WriteCache
        PROVE  ResolveInv' /\ ResolveSound'
    <2>1. at' \notin {"manifest", "asset"} /\ (resolved' = resolved \/ resolved' = None)
      BY <1>5 DEF StartPage, ListNamespace, MakePage, StartRefresh, RefreshNamespace, WriteCache,
                  Return
    <2>2. QED
      BY <1>1, <2>1 DEF ResolveInv, ResolveSound
  <1>6. ASSUME Provider PROVE ResolveInv' /\ ResolveSound'
    <2>1. /\ at' = at /\ item' = item /\ root' = root /\ found' = found /\ route' = route
          /\ began' = began /\ during' = during /\ resolved' = resolved
      BY <1>6 DEF Provider, Change, call
    <2>2. PICK d \in Dirs : \E i \in ItemsOf(Owner[d]) :
             Change(d, i, "none", "active") \/ Change(d, i, "active", "withdrawn")
      BY <1>6 DEF Provider
    <2>3. PICK i \in Items :
             Change(d, i, "none", "active") \/ Change(d, i, "active", "withdrawn")
      BY <2>2 DEF ItemsOf
    <2>4. PICK to : life' = [life EXCEPT ![d][i] = to] /\ life[d][i] # "withdrawn"
      BY <2>3 DEF Change
    <2>5. \A e \in Dirs, k \in Items : life[e][k] = "withdrawn" => life'[e][k] = "withdrawn"
      BY <2>4 DEF FilesInv
    <2>6. QED
      BY <2>1, <2>5 DEF ResolveInv, ResolveSound, Local
  <1>7. ASSUME NEW n \in Spaces, NEW d \in Dirs \cup {Nowhere}, Repoint(n, d)
        PROVE  ResolveInv' /\ ResolveSound'
    <2>1. /\ at' = at /\ item' = item /\ root' = root /\ found' = found /\ life' = life
          /\ began' = began /\ resolved' = resolved
          /\ at # "idle" => during' = during + 1
      BY <1>7 DEF Repoint, call
    <2>2. ResolveSound'
      BY <2>1 DEF ResolveSound
    <2>3. CASE at \in {"manifest", "asset"}
      <3>1. during \in Nat /\ during' = during + 1
        BY <2>1, <2>3 DEF ResolveInv
      <3>2. during' \in Nat /\ during' >= 1 /\ during' # 0 /\ (during >= 1 => during' >= 2)
        BY <3>1
      <3>3. QED
        BY <2>1, <2>2, <2>3, <3>2 DEF ResolveInv, Local
    <2>4. CASE at \notin {"manifest", "asset"}
      BY <1>1, <2>1, <2>2, <2>4 DEF ResolveInv
    <2>5. QED
      BY <2>3, <2>4
  <1>8. CASE UNCHANGED catalogVars
    <2>1. /\ at' = at /\ item' = item /\ root' = root /\ found' = found /\ route' = route
          /\ began' = began /\ during' = during /\ resolved' = resolved /\ life' = life
      BY <1>8 DEF catalogVars, call, files
    <2>2. QED
      BY <2>1 DEF ResolveInv, ResolveSound, Local
  <1>9. QED
    BY <1>2, <1>3, <1>4, <1>5, <1>6, <1>7, <1>8 DEF CatalogNext, Consumer

\* Whatever the cache holds and whoever publishes, withdraws or re-points a
\* path meanwhile, resolve does not hand out what was withdrawn before it
\* began nor an asset of another directory than the manifest's.
THEOREM ResolveHolds == CatalogSpec => []ResolveSound
  <1>1. CatalogInit => FilesInv /\ ResolveInv /\ ResolveSound
    BY InitFiles DEF CatalogInit, ResolveInv, ResolveSound
  <1>2. FilesInv /\ ResolveInv /\ ResolveSound /\ [CatalogNext]_catalogVars
        => FilesInv' /\ ResolveInv' /\ ResolveSound'
    BY FilesKept, ResolveKept
  <1>3. QED
    BY <1>1, <1>2, PTL DEF CatalogSpec
=============================================================================
