------------------------ MODULE StageWorkflowProofs ------------------------
(***************************************************************************)
(* Proofs about StageWorkflow for any number of operations, any contents   *)
(* of the asset and any number of manifest changes.                        *)
(*                                                                         *)
(* Type correctness needs only what an operation has prepared at each      *)
(* place.  The two action properties assume OneAtATime, as the run does;   *)
(* they need Alone, which turns the destination into the working           *)
(* operation's own: what it saw there stays until it changes it.           *)
(***************************************************************************)
EXTENDS StageWorkflow, TLAPS

MadeBy(f, o) == f # Absent /\ f.by = o

\* The temporaries an operation has at each place
Prepared(o) ==
    /\ pc[o] \in {"receipt", "backup", "swap"} => tmp[o] # Absent
    /\ pc[o] \in {"backup", "swap", "commit"} => MadeBy(tmpRcpt[o], o)

StageType == TypeOK /\ \A o \in Ops : Prepared(o)

Alone == \A o, q \in Ops : Busy(o) /\ Busy(q) => o = q

BeforeBackup == {"new", "review", "preflight", "copy", "receipt", "backup"}

\* An operation that has not swapped its output in has left no trace.
Fresh(o) ==
    pc[o] \in BeforeBackup \cup {"swap"} =>
        /\ ~MadeBy(out, o) /\ ~MadeBy(rcpt, o)
        /\ \A q \in Ops : ~MadeBy(bak[q], o)

\* What the working operation knows of the destination
Knows(o) ==
    /\ pc[o] \in BeforeBackup => bak[o] = Absent
    /\ pc[o] = "swap" => out = Absent
    /\ pc[o] = "commit" => MadeBy(out, o)
    /\ pc[o] = "clean" => InPlace(o)
    /\ pc[o] \in Working \ {"clean"} /\ want[o].reviewed => rcpt = want[o].rcpt

Single == Alone /\ \A o \in Ops : Fresh(o) /\ Knows(o)

IInv == StageType /\ Single

-----------------------------------------------------------------------------
(* Type correctness                                                        *)

LEMMA StageInit ==
  ASSUME Init
  PROVE  StageType
  <1>1. TypeOK
    <2>1. out \in File \cup {Absent} /\ rcpt \in Receipt \cup {Absent}
      BY DEF Init, File, Receipt
    <2>2. NoWant \in Want
      BY DEF NoWant, Want
    <2>3. QED
      BY <2>1, <2>2 DEF Init, TypeOK, Locations, Outcomes
  <1>2. \A o \in Ops : Prepared(o)
    BY DEF Init, Prepared
  <1>3. QED
    BY <1>1, <1>2 DEF StageType

\* A step of o that only moves o, possibly to its end
LEMMA PreparedElsewhere ==
  ASSUME StageType, NEW o \in Ops, Prepared(o)',
         \A q \in Ops \ {o} : pc'[q] = pc[q] /\ tmp'[q] = tmp[q] /\ tmpRcpt'[q] = tmpRcpt[q]
  PROVE  \A q \in Ops : Prepared(q)'
  BY DEF StageType, Prepared, MadeBy

LEMMA StageErrorType ==
  ASSUME StageType, NEW o \in Ops, StageError(o),
         out' \in File \cup {Absent}, rcpt' \in Receipt \cup {Absent},
         bak' \in [Ops -> File \cup {Absent}]
  PROVE  StageType'
  <1>1. TypeOK
    BY DEF StageType
  <1>2. /\ pc' \in [Ops -> Locations] /\ tmp' \in [Ops -> Bytes \cup {Absent}]
        /\ tmpRcpt' \in [Ops -> Receipt \cup {Absent}] /\ result' \in [Ops -> Outcomes]
    BY <1>1 DEF StageError, TypeOK, Locations, Outcomes
  <1>3. TypeOK'
    BY <1>1, <1>2 DEF TypeOK, StageError
  <1>4. pc'[o] = "done"
    BY <1>1 DEF StageError, TypeOK
  <1>5. \A q \in Ops \ {o} : pc'[q] = pc[q] /\ tmp'[q] = tmp[q] /\ tmpRcpt'[q] = tmpRcpt[q]
    BY <1>1 DEF StageError, TypeOK
  <1>6. Prepared(o)'
    BY <1>4 DEF Prepared
  <1>7. QED
    BY <1>3, <1>5, <1>6, PreparedElsewhere DEF StageType

LEMMA FailsType ==
  ASSUME StageType, NEW o \in Ops, FailsBeforeCommit(o)
  PROVE  StageType'
  <1>1. TypeOK'
    BY DEF StageType, FailsBeforeCommit, TypeOK, Locations, Outcomes
  <1>2. pc'[o] = "done"
    BY DEF StageType, FailsBeforeCommit, TypeOK
  <1>3. Prepared(o)'
    BY <1>2 DEF Prepared
  <1>4. \A q \in Ops \ {o} : pc'[q] = pc[q] /\ tmp'[q] = tmp[q] /\ tmpRcpt'[q] = tmpRcpt[q]
    BY DEF StageType, TypeOK, FailsBeforeCommit
  <1>5. QED
    BY <1>1, <1>3, <1>4, PreparedElsewhere DEF StageType

LEMMA ProviderType ==
  ASSUME StageType, RewriteAsset \/ ChangeManifest
  PROVE  StageType'
  <1>1. TypeOK'
    <2>1. CASE RewriteAsset
      BY <2>1 DEF StageType, TypeOK, RewriteAsset
    <2>2. CASE ChangeManifest
      <3>1. active' = active \/ active' = FALSE
        BY <2>2 DEF ChangeManifest
      <3>2. active' \in BOOLEAN
        BY <3>1 DEF StageType, TypeOK
      <3>3. QED
        BY <2>2, <3>2 DEF StageType, TypeOK, ChangeManifest
    <2>3. QED
      BY <2>1, <2>2
  <1>2. pc' = pc /\ tmp' = tmp /\ tmpRcpt' = tmpRcpt
    BY DEF RewriteAsset, ChangeManifest
  <1>3. QED
    BY <1>1, <1>2 DEF StageType, Prepared, MadeBy

LEMMA StartsType ==
  ASSUME StageType, NEW o \in Ops, NEW at \in {"review", "preflight"}, NEW w \in Want,
         Starts(o, at, w)
  PROVE  StageType'
  <1>1. TypeOK'
    BY DEF StageType, TypeOK, Starts, Locations, Working
  <1>2. pc'[o] = at
    BY DEF StageType, TypeOK, Starts
  <1>3. Prepared(o)'
    BY <1>2 DEF Prepared
  <1>4. \A q \in Ops \ {o} : pc'[q] = pc[q] /\ tmp'[q] = tmp[q] /\ tmpRcpt'[q] = tmpRcpt[q]
    BY DEF StageType, TypeOK, Starts
  <1>5. QED
    BY <1>1, <1>3, <1>4, PreparedElsewhere DEF StageType

LEMMA OpensType ==
  ASSUME StageType, NEW o \in Ops, NEW w \in BOOLEAN, PrepareStage(o, w) \/ Consume(o, w)
  PROVE  StageType'
  <1>1. /\ [out |-> out, rcpt |-> rcpt, rev |-> revision, overwrite |-> w, reviewed |-> TRUE] \in Want
        /\ [out |-> Absent, rcpt |-> Absent, rev |-> revision, overwrite |-> w,
            reviewed |-> FALSE] \in Want
    BY DEF StageType, TypeOK, Want
  <1>2. QED
    BY <1>1, StartsType DEF PrepareStage, Consume

\* A step of o that goes on to the next place
LEMMA ContinuesType ==
  ASSUME StageType, NEW o \in Ops, NEW at \in Locations, Continues(o, at),
         out' \in File \cup {Absent}, rcpt' \in Receipt \cup {Absent},
         bak' \in [Ops -> File \cup {Absent}], had' \in [Ops -> BOOLEAN],
         tmp' \in [Ops -> Bytes \cup {Absent}], tmpRcpt' \in [Ops -> Receipt \cup {Absent}],
         \A q \in Ops \ {o} : tmp'[q] = tmp[q] /\ tmpRcpt'[q] = tmpRcpt[q],
         at \in {"receipt", "backup", "swap"} => tmp'[o] # Absent,
         at \in {"backup", "swap", "commit"} => MadeBy(tmpRcpt'[o], o)
  PROVE  StageType' /\ pc'[o] = at
  <1>1. TypeOK'
    BY DEF StageType, TypeOK, Continues
  <1>2. pc'[o] = at /\ \A q \in Ops \ {o} : pc'[q] = pc[q]
    BY DEF StageType, TypeOK, Continues
  <1>3. Prepared(o)'
    BY <1>2 DEF Prepared, MadeBy
  <1>4. QED
    BY <1>1, <1>2, <1>3, PreparedElsewhere DEF StageType

LEMMA ReviewType ==
  ASSUME StageType, NEW o \in Ops, ExecuteStage(o) \/ PreflightStage(o)
  PROVE  StageType'
  <1>1. CASE FailsBeforeCommit(o)
    BY <1>1, FailsType
  <1>2. ASSUME NEW at \in {"preflight", "copy"}, Continues(o, at),
               UNCHANGED <<out, rcpt, tmp, tmpRcpt, bak, had>>
        PROVE  StageType'
    BY <1>2, ContinuesType DEF StageType, TypeOK, Locations, Working
  <1>3. QED
    BY <1>1, <1>2 DEF ExecuteStage, PreflightStage

LEMMA CopyAssetsType ==
  ASSUME StageType, NEW o \in Ops, CopyAssets(o)
  PROVE  StageType'
  <1>1. TypeOK /\ UNCHANGED <<out, rcpt, bak>>
    BY DEF StageType, CopyAssets
  <1>2. CASE src # Absent /\ tmp' = [tmp EXCEPT ![o] = src] /\ Continues(o, "receipt")
             /\ UNCHANGED <<tmpRcpt, had>>
    BY <1>1, <1>2, ContinuesType DEF TypeOK, Locations, Working
  <1>3. CASE StageError(o)
    BY <1>1, <1>3, StageErrorType DEF TypeOK
  <1>4. QED
    BY <1>2, <1>3 DEF CopyAssets

LEMMA WriteReceiptType ==
  ASSUME StageType, NEW o \in Ops, WriteReceipt(o)
  PROVE  StageType'
  <1>1. TypeOK /\ UNCHANGED <<out, rcpt, bak>> /\ pc[o] = "receipt" /\ tmp[o] # Absent
    BY DEF StageType, WriteReceipt, Prepared
  <1>2. CASE tmpRcpt' = [tmpRcpt EXCEPT ![o] = [by |-> o, rev |-> want[o].rev]]
             /\ Continues(o, "backup") /\ UNCHANGED <<tmp, had>>
    <2>1. want[o].rev \in Nat
      BY <1>1 DEF TypeOK, Want
    <2>2. [by |-> o, rev |-> want[o].rev] \in Receipt
      BY <2>1 DEF Receipt
    <2>3. MadeBy([by |-> o, rev |-> want[o].rev], o)
      BY <2>2, StageAssumption DEF MadeBy
    <2>4. /\ tmpRcpt' \in [Ops -> Receipt \cup {Absent}] /\ MadeBy(tmpRcpt'[o], o)
          /\ \A q \in Ops \ {o} : tmpRcpt'[q] = tmpRcpt[q]
      BY <1>1, <1>2, <2>2, <2>3 DEF TypeOK
    <2>5. QED
      BY <1>1, <1>2, <2>4, ContinuesType DEF TypeOK, Locations, Working
  <1>3. CASE StageError(o)
    BY <1>1, <1>3, StageErrorType DEF TypeOK
  <1>4. QED
    BY <1>2, <1>3 DEF WriteReceipt

LEMMA BackupType ==
  ASSUME StageType, NEW o \in Ops, BackupOutput(o)
  PROVE  StageType'
  <1>1. /\ TypeOK /\ rcpt' = rcpt
        /\ out' \in File \cup {Absent} /\ bak' \in [Ops -> File \cup {Absent}]
    BY DEF StageType, BackupOutput, TypeOK
  <1>2. pc[o] = "backup" /\ tmp[o] # Absent /\ MadeBy(tmpRcpt[o], o)
    BY DEF StageType, BackupOutput, Prepared
  <1>3. CASE StageError(o)
    BY <1>1, <1>3, StageErrorType DEF TypeOK
  <1>4. CASE Continues(o, "swap") /\ UNCHANGED <<tmp, tmpRcpt>> /\ had' \in [Ops -> BOOLEAN]
    BY <1>1, <1>2, <1>4, ContinuesType DEF TypeOK, Locations, Working
  <1>5. QED
    BY <1>1, <1>3, <1>4 DEF BackupOutput, TypeOK

LEMMA RestoresType ==
  ASSUME TypeOK, NEW o \in Ops, NEW f \in File \cup {Absent}, RestoresBackup(o, f)
  PROVE  out' \in File \cup {Absent} /\ bak' \in [Ops -> File \cup {Absent}]
  BY DEF TypeOK, RestoresBackup

LEMMA NewOutputType ==
  ASSUME StageType, NEW o \in Ops, pc[o] = "swap"
  PROVE  NewOutput(o) \in File /\ MadeBy(NewOutput(o), o)
  <1>1. tmp[o] \in Bytes
    BY DEF StageType, TypeOK, Prepared
  <1>2. NewOutput(o) \in File /\ NewOutput(o).by = o
    BY <1>1 DEF NewOutput, File
  <1>3. QED
    BY <1>2, StageAssumption DEF MadeBy

LEMMA SwapType ==
  ASSUME StageType, NEW o \in Ops, SwapOutput(o)
  PROVE  StageType'
  <1>1. TypeOK /\ rcpt' = rcpt /\ pc[o] = "swap" /\ MadeBy(tmpRcpt[o], o)
    BY DEF StageType, SwapOutput, Prepared
  <1>2. NewOutput(o) \in File
    BY <1>1, NewOutputType
  <1>3. CASE out' = NewOutput(o) /\ tmp' = [tmp EXCEPT ![o] = Absent] /\ Continues(o, "commit")
             /\ UNCHANGED <<tmpRcpt, bak, had>>
    BY <1>1, <1>2, <1>3, ContinuesType DEF TypeOK, Locations, Working
  <1>4. CASE (\E f \in {out, NewOutput(o)} : RestoresBackup(o, f)) /\ StageError(o)
    <2>1. out' \in File \cup {Absent} /\ bak' \in [Ops -> File \cup {Absent}]
      BY <1>1, <1>2, <1>4, RestoresType DEF TypeOK
    <2>2. QED
      BY <1>1, <1>4, <2>1, StageErrorType DEF TypeOK
  <1>5. QED
    BY <1>3, <1>4 DEF SwapOutput

LEMMA CommitType ==
  ASSUME StageType, NEW o \in Ops, CommitReceipt(o)
  PROVE  StageType'
  <1>1. TypeOK /\ pc[o] = "commit" /\ tmpRcpt[o] \in Receipt \cup {Absent}
    BY DEF StageType, CommitReceipt, TypeOK
  <1>2. CASE rcpt' = tmpRcpt[o] /\ tmpRcpt' = [tmpRcpt EXCEPT ![o] = Absent]
             /\ Continues(o, "clean") /\ UNCHANGED <<out, tmp, bak, had>>
    BY <1>1, <1>2, ContinuesType DEF TypeOK, Locations, Working
  <1>3. CASE rcpt' \in {rcpt, tmpRcpt[o]} /\ StageError(o)
             /\ \E f \in {out, Absent} : RestoresBackup(o, f)
    <2>1. out' \in File \cup {Absent} /\ bak' \in [Ops -> File \cup {Absent}]
      BY <1>1, <1>3, RestoresType DEF TypeOK
    <2>2. QED
      BY <1>1, <1>3, <2>1, StageErrorType DEF TypeOK
  <1>4. QED
    BY <1>2, <1>3 DEF CommitReceipt

LEMMA RemoveType ==
  ASSUME StageType, NEW o \in Ops, RemoveBackup(o)
  PROVE  StageType'
  <1>1. TypeOK /\ UNCHANGED dest
    BY DEF StageType, RemoveBackup
  <1>2. CASE StageError(o) /\ UNCHANGED bak
    BY <1>1, <1>2, StageErrorType DEF TypeOK, dest
  <1>3. CASE /\ bak' = [bak EXCEPT ![o] = Absent]
             /\ pc' = [pc EXCEPT ![o] = "done"]
             /\ result' = [result EXCEPT ![o] = "committed"]
             /\ UNCHANGED <<src, revision, active, want, tmp, tmpRcpt, had>>
    <2>1. TypeOK'
      BY <1>1, <1>3 DEF TypeOK, dest, Locations, Outcomes
    <2>2. pc'[o] = "done" /\ \A q \in Ops \ {o} : pc'[q] = pc[q]
      BY <1>1, <1>3 DEF TypeOK
    <2>3. Prepared(o)'
      BY <2>2 DEF Prepared
    <2>4. QED
      BY <1>3, <2>1, <2>2, <2>3, PreparedElsewhere DEF StageType
  <1>4. QED
    BY <1>2, <1>3 DEF RemoveBackup

LEMMA CrashType ==
  ASSUME StageType, NEW o \in Ops, Crash(o)
  PROVE  StageType'
  <1>1. TypeOK'
    BY DEF StageType, TypeOK, Crash, Locations
  <1>2. pc'[o] = "crashed" /\ \A q \in Ops \ {o} : pc'[q] = pc[q]
    BY DEF StageType, TypeOK, Crash
  <1>3. Prepared(o)'
    BY <1>2 DEF Prepared
  <1>4. QED
    BY <1>1, <1>2, <1>3, PreparedElsewhere DEF StageType, Crash

LEMMA StageNext ==
  ASSUME StageType, [Next]_vars
  PROVE  StageType'
  <1>1. CASE UNCHANGED vars
    BY <1>1 DEF vars, StageType, TypeOK, Prepared, MadeBy
  <1>2. ASSUME NEW o \in Ops, Step(o)
        PROVE  StageType'
    BY <1>2, OpensType, ReviewType, CopyAssetsType, WriteReceiptType, BackupType, SwapType,
       CommitType, RemoveType, CrashType DEF Step
  <1>3. QED
    BY <1>1, <1>2, ProviderType DEF Next

-----------------------------------------------------------------------------
(* One operation at a time                                                 *)

LEMMA SingleInit ==
  ASSUME Init
  PROVE  Single
  <1>1. \A o \in Ops : ~MadeBy(out, o) /\ ~MadeBy(rcpt, o)
    BY StageAssumption DEF Init, MadeBy
  <1>2. \A o \in Ops : pc[o] = "new" /\ bak[o] = Absent
    BY DEF Init
  <1>3. QED
    BY <1>1, <1>2 DEF Single, Alone, Busy, Working, Fresh, Knows, MadeBy

\* What a working operation does to the destination leaves no trace of an
\* operation that has not started.
LEMMA OthersKeep ==
  ASSUME IInv, NEW o \in Ops, Busy(o),
         \A q \in Ops \ {o} : pc'[q] = pc[q] /\ bak'[q] = bak[q],
         out' \in {out, Absent, bak[o]} \/ MadeBy(out', o),
         rcpt' = rcpt \/ MadeBy(rcpt', o),
         bak'[o] \in {bak[o], Absent, out},
         Fresh(o)', Knows(o)'
  PROVE  Single'
  <1>1. \A q \in Ops \ {o} : ~Busy(q)
    BY DEF IInv, Single, Alone
  <1>2. Alone'
    BY <1>1 DEF Alone, Busy
  <1>3. ASSUME NEW q \in Ops \ {o}
        PROVE  Fresh(q)' /\ Knows(q)'
    <2>1. pc'[q] = pc[q] /\ bak'[q] = bak[q] /\ q \in Ops /\ q # o
      BY <1>3
    <2>2. pc[q] \notin {"review"} \cup Working
      BY <1>1, <1>3 DEF Busy
    <2>3. CASE pc[q] # "new"
      BY <2>1, <2>2, <2>3 DEF Fresh, Knows, BeforeBackup, Working
    <2>4. CASE pc[q] = "new"
      <3>1. /\ ~MadeBy(out, q) /\ ~MadeBy(rcpt, q) /\ bak[q] = Absent
            /\ \A p \in Ops : ~MadeBy(bak[p], q)
        BY <2>1, <2>4 DEF IInv, Single, Fresh, Knows, BeforeBackup
      <3>2. ~MadeBy(out', q) /\ ~MadeBy(rcpt', q) /\ ~MadeBy(bak'[o], q)
        BY <2>1, <3>1 DEF MadeBy
      <3>3. \A p \in Ops : ~MadeBy(bak'[p], q)
        BY <3>1, <3>2
      <3>4. QED
        BY <2>1, <2>4, <3>1, <3>2, <3>3 DEF Fresh, Knows, Working, MadeBy
    <2>5. QED
      BY <2>3, <2>4
  <1>4. QED
    BY <1>2, <1>3 DEF Single

\* An operation that has ended owes nothing.
LEMMA EndedKeeps ==
  ASSUME NEW o \in Ops, pc'[o] \in {"done", "crashed"}
  PROVE  Fresh(o)' /\ Knows(o)'
  BY DEF Fresh, Knows, BeforeBackup, Working

LEMMA StageErrorSingle ==
  ASSUME IInv, NEW o \in Ops, Busy(o), StageError(o),
         \A q \in Ops \ {o} : bak'[q] = bak[q],
         out' \in {out, Absent, bak[o]} \/ MadeBy(out', o),
         rcpt' = rcpt \/ MadeBy(rcpt', o),
         bak'[o] \in {bak[o], Absent, out}
  PROVE  Single'
  <1>1. pc'[o] = "done" /\ \A q \in Ops \ {o} : pc'[q] = pc[q]
    BY DEF StageError, IInv, StageType, TypeOK
  <1>2. QED
    BY <1>1, EndedKeeps, OthersKeep

LEMMA FailsSingle ==
  ASSUME IInv, NEW o \in Ops, Busy(o), FailsBeforeCommit(o)
  PROVE  Single'
  <1>1. pc'[o] = "done" /\ \A q \in Ops \ {o} : pc'[q] = pc[q]
    BY DEF FailsBeforeCommit, IInv, StageType, TypeOK
  <1>2. UNCHANGED <<out, rcpt, bak>>
    BY DEF FailsBeforeCommit
  <1>3. QED
    BY <1>1, <1>2, EndedKeeps, OthersKeep

LEMMA CrashSingle ==
  ASSUME IInv, NEW o \in Ops, Crash(o)
  PROVE  Single'
  <1>1. pc'[o] = "crashed" /\ \A q \in Ops \ {o} : pc'[q] = pc[q]
    BY DEF Crash, IInv, StageType, TypeOK
  <1>2. UNCHANGED <<out, rcpt, bak>> /\ Busy(o)
    BY DEF Crash
  <1>3. QED
    BY <1>1, <1>2, EndedKeeps, OthersKeep

LEMMA StartsSingle ==
  ASSUME OneAtATime, IInv, NEW o \in Ops, NEW at \in {"review", "preflight"}, NEW w,
         Starts(o, at, w), at = "preflight" => ~w.reviewed
  PROVE  Single'
  <1>1. /\ pc'[o] = at /\ want'[o] = w /\ pc[o] = "new"
        /\ \A q \in Ops \ {o} : pc'[q] = pc[q]
        /\ UNCHANGED <<out, rcpt, bak>>
        /\ \A q \in Ops : ~Busy(q)
    BY DEF Starts, IInv, StageType, TypeOK
  <1>2. Alone'
    BY <1>1 DEF Alone, Busy
  <1>3. Fresh(o)' /\ Knows(o)'
    BY <1>1 DEF IInv, Single, Fresh, Knows, BeforeBackup, Working
  <1>4. ASSUME NEW q \in Ops \ {o}
        PROVE  Fresh(q)' /\ Knows(q)'
    <2>1. pc[q] \notin {"review"} \cup Working
      BY <1>1, <1>4 DEF Busy
    <2>2. QED
      BY <1>1, <1>4, <2>1 DEF IInv, Single, Fresh, Knows, BeforeBackup, Working
  <1>5. QED
    BY <1>2, <1>3, <1>4 DEF Single

LEMMA OpensSingle ==
  ASSUME OneAtATime, IInv, NEW o \in Ops, NEW w \in BOOLEAN,
         PrepareStage(o, w) \/ Consume(o, w)
  PROVE  Single'
  BY StartsSingle DEF PrepareStage, Consume

\* Going on without touching the destination
LEMMA ContinuesSingle ==
  ASSUME IInv, NEW o \in Ops, Busy(o), NEW at, Continues(o, at),
         UNCHANGED <<out, rcpt, bak>>,
         pc[o] \in BeforeBackup, at \in BeforeBackup \ {"new", "review"},
         want[o].reviewed => rcpt = want[o].rcpt
  PROVE  Single'
  <1>1. pc'[o] = at /\ want' = want /\ \A q \in Ops \ {o} : pc'[q] = pc[q]
    BY DEF Continues, IInv, StageType, TypeOK
  <1>2. Fresh(o)' /\ Knows(o)'
    BY <1>1 DEF IInv, Single, Fresh, Knows, BeforeBackup, Working
  <1>3. QED
    BY <1>1, <1>2, OthersKeep

LEMMA ReviewSingle ==
  ASSUME IInv, NEW o \in Ops, ExecuteStage(o) \/ PreflightStage(o)
  PROVE  Single'
  <1>1. Busy(o) /\ pc[o] \in {"review", "preflight"}
    BY DEF ExecuteStage, PreflightStage, Busy, Working
  <1>2. CASE FailsBeforeCommit(o)
    BY <1>1, <1>2, FailsSingle
  <1>3. CASE /\ ExecuteStage(o) /\ Continues(o, "preflight")
             /\ UNCHANGED <<out, rcpt, tmp, tmpRcpt, bak, had>> /\ rcpt = want[o].rcpt
    BY <1>1, <1>3, ContinuesSingle DEF BeforeBackup
  <1>4. CASE /\ PreflightStage(o) /\ Continues(o, "copy")
             /\ UNCHANGED <<out, rcpt, tmp, tmpRcpt, bak, had>>
    <2>1. want[o].reviewed => rcpt = want[o].rcpt
      BY <1>4 DEF PreflightStage, IInv, Single, Knows, Working
    <2>2. QED
      BY <1>1, <1>4, <2>1, ContinuesSingle DEF BeforeBackup
  <1>5. QED
    BY <1>2, <1>3, <1>4 DEF ExecuteStage, PreflightStage

LEMMA CopySingle ==
  ASSUME IInv, NEW o \in Ops, CopyAssets(o) \/ WriteReceipt(o)
  PROVE  Single'
  <1>1. /\ Busy(o) /\ pc[o] \in {"copy", "receipt"} /\ UNCHANGED <<out, rcpt, bak>>
        /\ want[o].reviewed => rcpt = want[o].rcpt
    BY DEF CopyAssets, WriteReceipt, Busy, Working, IInv, Single, Knows
  <1>2. CASE StageError(o)
    BY <1>1, <1>2, StageErrorSingle
  <1>3. CASE Continues(o, "receipt") \/ Continues(o, "backup")
    BY <1>1, <1>3, ContinuesSingle DEF BeforeBackup
  <1>4. QED
    BY <1>2, <1>3 DEF CopyAssets, WriteReceipt

LEMMA BackupSingle ==
  ASSUME IInv, NEW o \in Ops, BackupOutput(o)
  PROVE  Single'
  <1>1. /\ Busy(o) /\ pc[o] = "backup" /\ rcpt' = rcpt
        /\ want[o].reviewed => rcpt = want[o].rcpt
        /\ ~MadeBy(out, o) /\ ~MadeBy(rcpt, o) /\ \A q \in Ops : ~MadeBy(bak[q], o)
    BY DEF BackupOutput, Busy, Working, IInv, Single, Knows, Fresh, BeforeBackup
  <1>2. /\ out' \in {out, Absent} /\ bak'[o] \in {bak[o], out}
        /\ \A q \in Ops \ {o} : bak'[q] = bak[q]
    BY DEF BackupOutput, IInv, StageType, TypeOK
  <1>3. CASE StageError(o)
    BY <1>1, <1>2, <1>3, StageErrorSingle
  <1>4. CASE Continues(o, "swap") /\ out' = Absent
    <2>1. pc'[o] = "swap" /\ want' = want /\ \A q \in Ops \ {o} : pc'[q] = pc[q]
      BY <1>4 DEF Continues, IInv, StageType, TypeOK
    <2>2. \A q \in Ops : ~MadeBy(bak'[q], o)
      BY <1>1, <1>2
    <2>3. Fresh(o)' /\ Knows(o)'
      BY <1>1, <1>4, <2>1, <2>2 DEF Fresh, Knows, BeforeBackup, Working, MadeBy
    <2>4. QED
      BY <1>1, <1>2, <2>1, <2>3, OthersKeep
  <1>5. QED
    BY <1>3, <1>4 DEF BackupOutput

LEMMA RestoresOnly ==
  ASSUME TypeOK, NEW o \in Ops, NEW f, RestoresBackup(o, f)
  PROVE  /\ out' \in {f, bak[o]} /\ bak'[o] \in {bak[o], Absent}
         /\ \A q \in Ops \ {o} : bak'[q] = bak[q]
  BY DEF TypeOK, RestoresBackup

LEMMA SwapSingle ==
  ASSUME IInv, NEW o \in Ops, SwapOutput(o)
  PROVE  Single'
  <1>1. /\ TypeOK /\ Busy(o) /\ pc[o] = "swap" /\ rcpt' = rcpt
        /\ want[o].reviewed => rcpt = want[o].rcpt
    BY DEF SwapOutput, Busy, Working, IInv, Single, Knows, StageType
  <1>2. MadeBy(NewOutput(o), o)
    BY <1>1, NewOutputType DEF IInv
  <1>3. CASE (\E f \in {out, NewOutput(o)} : RestoresBackup(o, f)) /\ StageError(o)
    <2>1. /\ out' \in {out, NewOutput(o), bak[o]} /\ bak'[o] \in {bak[o], Absent}
          /\ \A q \in Ops \ {o} : bak'[q] = bak[q]
      BY <1>1, <1>3, RestoresOnly
    <2>2. out' \in {out, Absent, bak[o]} \/ MadeBy(out', o)
      BY <1>2, <2>1
    <2>3. QED
      BY <1>1, <1>3, <2>1, <2>2, StageErrorSingle
  <1>4. CASE out' = NewOutput(o) /\ Continues(o, "commit") /\ UNCHANGED bak
    <2>1. pc'[o] = "commit" /\ want' = want /\ \A q \in Ops \ {o} : pc'[q] = pc[q]
      BY <1>4 DEF Continues, IInv, StageType, TypeOK
    <2>2. Fresh(o)' /\ Knows(o)'
      BY <1>1, <1>2, <1>4, <2>1 DEF Fresh, Knows, BeforeBackup, Working
    <2>3. QED
      BY <1>1, <1>2, <1>4, <2>1, <2>2, OthersKeep
  <1>5. QED
    BY <1>3, <1>4 DEF SwapOutput

LEMMA CommitSingle ==
  ASSUME IInv, NEW o \in Ops, CommitReceipt(o)
  PROVE  Single'
  <1>1. /\ TypeOK /\ Busy(o) /\ pc[o] = "commit" /\ MadeBy(out, o) /\ MadeBy(tmpRcpt[o], o)
    BY DEF CommitReceipt, Busy, Working, IInv, Single, Knows, StageType, Prepared
  <1>2. CASE rcpt' \in {rcpt, tmpRcpt[o]} /\ StageError(o)
             /\ \E f \in {out, Absent} : RestoresBackup(o, f)
    <2>1. /\ out' \in {out, Absent, bak[o]} /\ bak'[o] \in {bak[o], Absent}
          /\ \A q \in Ops \ {o} : bak'[q] = bak[q]
      BY <1>1, <1>2, RestoresOnly
    <2>2. rcpt' = rcpt \/ MadeBy(rcpt', o)
      BY <1>1, <1>2
    <2>3. QED
      BY <1>1, <1>2, <2>1, <2>2, StageErrorSingle
  <1>3. CASE rcpt' = tmpRcpt[o] /\ Continues(o, "clean") /\ UNCHANGED <<out, bak>>
    <2>1. pc'[o] = "clean" /\ \A q \in Ops \ {o} : pc'[q] = pc[q]
      BY <1>3 DEF Continues, IInv, StageType, TypeOK
    <2>2. Fresh(o)' /\ Knows(o)'
      BY <1>1, <1>3, <2>1 DEF Fresh, Knows, BeforeBackup, Working, InPlace, MadeBy
    <2>3. QED
      BY <1>1, <1>3, <2>1, <2>2, OthersKeep
  <1>4. QED
    BY <1>2, <1>3 DEF CommitReceipt

LEMMA RemoveSingle ==
  ASSUME IInv, NEW o \in Ops, RemoveBackup(o)
  PROVE  Single'
  <1>1. TypeOK /\ Busy(o) /\ UNCHANGED <<out, rcpt>>
    BY DEF RemoveBackup, Busy, Working, dest, IInv, StageType
  <1>2. CASE StageError(o) /\ UNCHANGED bak
    BY <1>1, <1>2, StageErrorSingle
  <1>3. CASE bak' = [bak EXCEPT ![o] = Absent] /\ pc' = [pc EXCEPT ![o] = "done"]
    <2>1. /\ pc'[o] = "done" /\ bak'[o] = Absent
          /\ \A q \in Ops \ {o} : pc'[q] = pc[q] /\ bak'[q] = bak[q]
      BY <1>1, <1>3 DEF TypeOK
    <2>2. QED
      BY <1>1, <2>1, EndedKeeps, OthersKeep
  <1>4. QED
    BY <1>2, <1>3 DEF RemoveBackup

LEMMA ProviderSingle ==
  ASSUME IInv, UNCHANGED <<out, rcpt, pc, want, bak>>
  PROVE  Single'
  BY DEF IInv, Single, Alone, Busy, Fresh, Knows, InPlace, MadeBy

LEMMA SingleNext ==
  ASSUME OneAtATime, IInv, [Next]_vars
  PROVE  Single'
  <1>1. CASE UNCHANGED vars \/ RewriteAsset \/ ChangeManifest
    BY <1>1, ProviderSingle DEF vars, RewriteAsset, ChangeManifest
  <1>2. ASSUME NEW o \in Ops, Step(o)
        PROVE  Single'
    BY <1>2, OpensSingle, ReviewSingle, CopySingle, BackupSingle, SwapSingle, CommitSingle,
       RemoveSingle, CrashSingle DEF Step
  <1>3. QED
    BY <1>1, <1>2 DEF Next

-----------------------------------------------------------------------------
(* What a step does to the old output                                      *)

LEMMA OldOutputIs ==
  /\ OldOutputKept <=> MadeBy(out, Somebody) \/ \E q \in Ops : MadeBy(bak[q], Somebody)
  /\ OldOutputKept' <=> MadeBy(out', Somebody) \/ \E q \in Ops : MadeBy(bak'[q], Somebody)
  BY DEF OldOutputKept, MadeBy

\* The old output is out, the working operation's backup or another one's; a
\* step that keeps each of the first two somewhere and the third keeps it.
LEMMA OldOutputMoves ==
  ASSUME NEW o \in Ops, OldOutputKept,
         \A q \in Ops \ {o} : bak'[q] = bak[q],
         MadeBy(out, Somebody) => MadeBy(out', Somebody) \/ MadeBy(bak'[o], Somebody),
         MadeBy(bak[o], Somebody) => MadeBy(out', Somebody) \/ MadeBy(bak'[o], Somebody)
  PROVE  OldOutputKept'
  BY OldOutputIs

LEMMA BackupKeepsOld ==
  ASSUME IInv, NEW o \in Ops, BackupOutput(o), OldOutputKept
  PROVE  OldOutputKept'
  <1>1. bak[o] = Absent /\ TypeOK
    BY DEF BackupOutput, IInv, Single, Knows, BeforeBackup, StageType
  <1>2. /\ \A q \in Ops \ {o} : bak'[q] = bak[q]
        /\ out' = out \/ bak'[o] = out
    BY <1>1 DEF BackupOutput, TypeOK
  <1>3. QED
    BY <1>1, <1>2, OldOutputMoves DEF MadeBy

LEMMA RestoresKeepsOld ==
  ASSUME TypeOK, NEW o \in Ops, NEW f, RestoresBackup(o, f),
         ~MadeBy(out, Somebody), OldOutputKept
  PROVE  OldOutputKept'
  <1>1. /\ \A q \in Ops \ {o} : bak'[q] = bak[q]
        /\ bak'[o] = bak[o] \/ out' = bak[o]
    BY DEF RestoresBackup, TypeOK
  <1>2. QED
    BY <1>1, OldOutputMoves

LEMMA SwapKeepsOld ==
  ASSUME IInv, NEW o \in Ops, SwapOutput(o) \/ CommitReceipt(o), OldOutputKept
  PROVE  OldOutputKept'
  <1>1. TypeOK /\ ~MadeBy(out, Somebody)
    <2>1. TypeOK
      BY DEF IInv, StageType
    <2>2. out = Absent \/ MadeBy(out, o)
      BY DEF SwapOutput, CommitReceipt, IInv, Single, Knows
    <2>3. QED
      BY <2>1, <2>2, StageAssumption DEF MadeBy
  <1>2. CASE \E f : RestoresBackup(o, f)
    BY <1>1, <1>2, RestoresKeepsOld
  <1>3. CASE UNCHANGED bak
    BY <1>1, <1>3, OldOutputMoves
  <1>4. QED
    BY <1>2, <1>3 DEF SwapOutput, CommitReceipt

LEMMA OtherStepsKeepOld ==
  ASSUME UNCHANGED <<out, bak>>, OldOutputKept
  PROVE  OldOutputKept'
  BY DEF OldOutputKept

LEMMA OldOutputStep ==
  ASSUME IInv, [Next]_vars, OldOutputKept, ~OldOutputKept'
  PROVE  \E o \in Ops : pc[o] = "clean" /\ InPlace(o)
  <1>1. CASE UNCHANGED vars \/ RewriteAsset \/ ChangeManifest
    BY <1>1, OtherStepsKeepOld DEF vars, RewriteAsset, ChangeManifest
  <1>2. ASSUME NEW o \in Ops, Step(o)
        PROVE  \E q \in Ops : pc[q] = "clean" /\ InPlace(q)
    <2>1. CASE RemoveBackup(o)
      BY <2>1 DEF RemoveBackup, IInv, Single, Knows
    <2>2. CASE \/ \E w \in BOOLEAN : PrepareStage(o, w) \/ Consume(o, w)
               \/ ExecuteStage(o) \/ PreflightStage(o) \/ Crash(o)
      <3>1. UNCHANGED <<out, bak>>
        BY <2>2 DEF PrepareStage, Consume, Starts, ExecuteStage, PreflightStage,
                    FailsBeforeCommit, Crash
      <3>2. QED
        BY <3>1, OtherStepsKeepOld
    <2>3. CASE CopyAssets(o) \/ WriteReceipt(o)
      BY <2>3, OtherStepsKeepOld DEF CopyAssets, WriteReceipt
    <2>4. CASE BackupOutput(o)
      BY <2>4, BackupKeepsOld
    <2>5. CASE SwapOutput(o) \/ CommitReceipt(o)
      BY <2>5, SwapKeepsOld
    <2>6. QED
      BY <1>2, <2>1, <2>2, <2>3, <2>4, <2>5 DEF Step
  <1>3. QED
    BY <1>1, <1>2 DEF Next

-----------------------------------------------------------------------------
(* What an operation reports                                               *)

\* What StageOutcomeTruthful says of one operation
TruthfulFor(o) ==
    /\ result'[o] = "committed" => InPlace(o)'
    /\ result'[o] = "failed_before_commit" =>
          /\ out' = out /\ rcpt' = rcpt
          /\ (out # Absent => out.by # o) /\ (rcpt # Absent => rcpt.by # o)
    /\ result'[o] = "committed_with_followup_error" =>
          rcpt'.by = o /\ out'.bytes = Registered

LEMMA FailsTruthful ==
  ASSUME IInv, NEW o \in Ops, FailsBeforeCommit(o), pc[o] \in {"review", "preflight"}
  PROVE  TruthfulFor(o)
  <1>1. /\ result'[o] = "failed_before_commit" /\ out' = out /\ rcpt' = rcpt
    BY DEF FailsBeforeCommit, IInv, StageType, TypeOK
  <1>2. ~MadeBy(out, o) /\ ~MadeBy(rcpt, o)
    BY DEF IInv, Single, Fresh, BeforeBackup
  <1>3. QED
    BY <1>1, <1>2 DEF TruthfulFor, MadeBy

\* The receipt found after an error is the reviewed one or the operation's own.
LEMMA StageErrorTruthful ==
  ASSUME IInv, NEW o \in Ops, StageError(o),
         want[o].reviewed => rcpt' = want[o].rcpt \/ MadeBy(rcpt', o)
  PROVE  TruthfulFor(o)
  <1>1. result'[o] = IF want[o].reviewed /\ Reconcile(o, out', rcpt') = "committed"
                     THEN "committed_with_followup_error" ELSE "outcome_unknown"
    BY DEF StageError, IInv, StageType, TypeOK
  <1>2. Reconcile(o, out', rcpt') = "committed" =>
           rcpt' # want[o].rcpt /\ out'.bytes = Registered
    BY DEF Reconcile
  <1>3. result'[o] # "committed" /\ result'[o] # "failed_before_commit"
    BY <1>1
  <1>4. result'[o] = "committed_with_followup_error" => rcpt'.by = o /\ out'.bytes = Registered
    BY <1>1, <1>2 DEF MadeBy
  <1>5. QED
    BY <1>3, <1>4 DEF TruthfulFor

LEMMA StepTruthful ==
  ASSUME IInv, NEW o \in Ops, Step(o), result'[o] # result[o]
  PROVE  TruthfulFor(o)
  <1>1. CASE \E w \in BOOLEAN : PrepareStage(o, w) \/ Consume(o, w)
    BY <1>1 DEF PrepareStage, Consume, Starts
  <1>2. CASE Crash(o)
    BY <1>2 DEF Crash
  <1>3. CASE ExecuteStage(o) \/ PreflightStage(o)
    <2>1. FailsBeforeCommit(o) /\ pc[o] \in {"review", "preflight"}
      BY <1>3 DEF ExecuteStage, PreflightStage, Continues
    <2>2. QED
      BY <2>1, FailsTruthful
  <1>4. CASE CopyAssets(o) \/ WriteReceipt(o) \/ BackupOutput(o) \/ SwapOutput(o)
    <2>1. StageError(o) /\ rcpt' = rcpt /\ pc[o] \in Working \ {"clean"}
      BY <1>4 DEF CopyAssets, WriteReceipt, BackupOutput, SwapOutput, Continues, Working
    <2>2. want[o].reviewed => rcpt = want[o].rcpt
      BY <2>1 DEF IInv, Single, Knows
    <2>3. QED
      BY <2>1, <2>2, StageErrorTruthful
  <1>5. CASE CommitReceipt(o)
    <2>1. StageError(o) /\ rcpt' \in {rcpt, tmpRcpt[o]} /\ pc[o] = "commit"
      BY <1>5 DEF CommitReceipt, Continues
    <2>2. (want[o].reviewed => rcpt = want[o].rcpt) /\ MadeBy(tmpRcpt[o], o)
      BY <2>1 DEF IInv, StageType, Prepared, Single, Knows, Working
    <2>3. want[o].reviewed => rcpt' = want[o].rcpt \/ MadeBy(rcpt', o)
      BY <2>1, <2>2
    <2>4. QED
      BY <2>1, <2>3, StageErrorTruthful
  <1>6. CASE RemoveBackup(o)
    <2>1. InPlace(o) /\ UNCHANGED <<out, rcpt>>
      BY <1>6 DEF RemoveBackup, dest, IInv, Single, Knows
    <2>2. CASE StageError(o)
      BY <2>1, <2>2, StageErrorTruthful DEF InPlace, MadeBy
    <2>3. CASE result' = [result EXCEPT ![o] = "committed"]
      <3>1. result'[o] = "committed"
        BY <2>3 DEF IInv, StageType, TypeOK
      <3>2. InPlace(o)'
        BY <2>1 DEF InPlace
      <3>3. QED
        BY <3>1, <3>2 DEF TruthfulFor
    <2>4. QED
      BY <1>6, <2>2, <2>3 DEF RemoveBackup
  <1>7. QED
    BY <1>1, <1>2, <1>3, <1>4, <1>5, <1>6 DEF Step

\* A step of one operation reports for no other.
LEMMA StepReportsOwn ==
  ASSUME IInv, NEW o \in Ops, Step(o), NEW q \in Ops, q # o
  PROVE  result'[q] = result[q]
  <1>1. \/ result' = result
        \/ \E r : result' = [result EXCEPT ![o] = r]
    BY DEF Step, PrepareStage, Consume, Starts, ExecuteStage, PreflightStage, CopyAssets,
           WriteReceipt, BackupOutput, SwapOutput, CommitReceipt, RemoveBackup, Crash,
           FailsBeforeCommit, Continues, StageError
  <1>2. QED
    BY <1>1 DEF IInv, StageType, TypeOK

LEMMA OutcomeStep ==
  ASSUME IInv, [Next]_vars, NEW q \in Ops, result'[q] # result[q]
  PROVE  TruthfulFor(q)
  <1>1. CASE UNCHANGED vars \/ RewriteAsset \/ ChangeManifest
    BY <1>1 DEF vars, RewriteAsset, ChangeManifest
  <1>2. ASSUME NEW o \in Ops, Step(o)
        PROVE  TruthfulFor(q)
    BY <1>2, StepTruthful, StepReportsOwn
  <1>3. QED
    BY <1>1, <1>2 DEF Next

-----------------------------------------------------------------------------
(* Theorems                                                                *)

\* The variables of staging keep their types, also when operations race on
\* one destination; in particular the swap always has bytes to put in place
\* (peer_access.rs stage).
THEOREM StageTypeCorrect == Spec => []TypeOK
  <1>1. Init => StageType
    BY StageInit
  <1>2. StageType /\ [Next]_vars => StageType'
    BY StageNext
  <1>3. StageType => TypeOK
    BY DEF StageType
  <1>4. QED
    BY <1>1, <1>2, <1>3, PTL DEF Spec

LEMMA SingleHolds ==
  ASSUME OneAtATime
  PROVE  Spec => []IInv
  <1>1. Init => IInv
    BY StageInit, SingleInit DEF IInv
  <1>2. IInv /\ [Next]_vars => IInv'
    BY StageNext, SingleNext DEF IInv
  <1>3. QED
    BY <1>1, <1>2, PTL DEF Spec

\* "An old destination must survive a failed overwrite": for any number of
\* operations that follow each other on a destination, whatever fails or dies
\* in any of them, the old output is given up only by one whose own output and
\* receipt are in place (peer_access.rs stage).
THEOREM OldOutputHolds ==
  ASSUME OneAtATime
  PROVE  Spec => OldOutputSurvives
  <1>1. IInv /\ [Next]_vars =>
           [OldOutputKept /\ ~OldOutputKept' => \E o \in Ops : pc[o] = "clean" /\ InPlace(o)]_vars
    BY OldOutputStep
  <1>2. QED
    BY <1>1, SingleHolds, PTL DEF Spec, OldOutputSurvives

\* What execute_stage reports is true of the destination: a success is in
\* place, a clean failure changed nothing, and an unknown outcome is upgraded
\* only on the operation's own receipt beside the registered bytes
\* (interactive_operations.rs execute_stage and reconcile).
THEOREM StageOutcomeHolds ==
  ASSUME OneAtATime
  PROVE  Spec => StageOutcomeTruthful
  <1>1. IInv /\ [Next]_vars =>
           [\A o \in Ops : result'[o] # result[o] =>
              /\ result'[o] = "committed" => InPlace(o)'
              /\ result'[o] = "failed_before_commit" =>
                    /\ out' = out /\ rcpt' = rcpt
                    /\ (out # Absent => out.by # o) /\ (rcpt # Absent => rcpt.by # o)
              /\ result'[o] = "committed_with_followup_error" =>
                    rcpt'.by = o /\ out'.bytes = Registered]_vars
    BY OutcomeStep DEF TruthfulFor
  <1>2. QED
    BY <1>1, SingleHolds, PTL DEF Spec, StageOutcomeTruthful
=============================================================================
