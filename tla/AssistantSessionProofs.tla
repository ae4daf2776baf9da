----------------------- MODULE AssistantSessionProofs -----------------------
(***************************************************************************)
(* Proofs about AssistantSession for any number of operations and any      *)
(* value of the harness's limits.  Three inductive invariants:             *)
(*                                                                         *)
(*   HolderInv  a mutation has one holder, and an offer exists only while  *)
(*              the run that made it is not taken back;                    *)
(*   BudgetInv  a request is under way only when every earlier one is      *)
(*              paid and the budget has room, under price caps for its     *)
(*              whole reserve;                                             *)
(*   HistoryInv tool results stand directly behind their calls, and what   *)
(*              is missing there is exactly what the batch still owes.     *)
(*                                                                         *)
(* The last part is about RouterStream: what its folds compute, for every  *)
(* stream and every answer, by induction over their runs.                  *)
(***************************************************************************)
EXTENDS AssistantSession, FiniteSetTheorems, SequenceTheorems, WellFoundedInduction, TLAPS

Locations == {"idle", "check", "stream", "tools", "done"}

MaybeOp == Ops \cup {NoOp}

\* The types the proofs need
RunType ==
    /\ pc \in Locations
    /\ todo \in Seq(Acts)
    /\ waiting \in MaybeOp /\ offered \in MaybeOp /\ review \in MaybeOp
    /\ job \in [kind: {"none", "read", "prepare", "mutation"}, op: MaybeOp]
    /\ job.kind = "mutation" => job.op # NoOp
    /\ prepared \subseteq Ops
    /\ cancel \in BOOLEAN /\ everStopped \in BOOLEAN /\ awaiting \in BOOLEAN

HolderInv ==
    /\ offered # NoOp => pc = "done" \/ (pc = "tools" /\ awaiting)
    /\ OneHolder

\* Every request so far is billed, or the missing bill is known to be missing.
BudgetInv ==
    /\ {spent, billed} \subseteq Nat /\ unknown \in BOOLEAN
    /\ ~unknown => billed = spent
    /\ pc = "stream" => ~unknown /\ spent < Limit /\ (Capped => spent + Reserve <= Limit)
    /\ BudgetKept

\* The messages of a conversation
Message == {User, Answer, Result} \cup ({"calls"} \X Nat)

\* Every result stands in the group behind its calls.
Answered(h) ==
    \A i \in DOMAIN h : h[i] = Result =>
        \E j \in 1..i-1 : /\ h[j][1] = "calls" /\ i <= j + h[j][2]
                          /\ \A k \in j+1..i : h[k] = Result

\* The last calls are followed by results only, and n more have room there.
Room(h, n) ==
    \E j \in DOMAIN h : /\ h[j][1] = "calls" /\ Len(h) + n <= j + h[j][2]
                        /\ \A k \in j+1..Len(h) : h[k] = Result

\* No call misses a result, apart from n at the end.
Missing(h, n) ==
    \A i \in DOMAIN h : h[i][1] = "calls" =>
        /\ i + h[i][2] <= Len(h) + n
        /\ \A k \in i+1..Len(h) : k <= i + h[i][2] => h[k] = Result

\* The results still owed: of the calls to be made, and of the open review.
Owed == (IF pc = "tools" THEN Len(todo) ELSE 0) + (IF waiting # NoOp THEN 1 ELSE 0)

HistoryInv ==
    /\ history \in Seq(Message)
    /\ Answered(history)
    /\ Owed > 0 => Room(history, Owed)
    /\ ~everStopped => Missing(history, Owed)
    /\ cancel => everStopped
    /\ pc \in {"check", "stream"} => waiting = NoOp
    /\ pc = "tools" /\ waiting # NoOp => awaiting

-----------------------------------------------------------------------------
(* Types                                                                   *)

\* ToolExecutor::execute proposes only what is among its handles.
LEMMA OutcomesSound ==
  ASSUME NEW a \in Acts, "review" \in Outcomes(a)
  PROVE  a \in prepared /\ ~awaiting
  <1>1. a \in {"read", "verify", "clarify", "patch"} \cup Ops
    BY AssistantAssumption
  <1>2. QED
    BY <1>1 DEF Outcomes, LookupAnswers, InspectAnswers, PatchAnswers, ReviewAnswers

LEMMA TodoType ==
  ASSUME RunType, todo # <<>>
  PROVE  Head(todo) \in Acts /\ Tail(todo) \in Seq(Acts)
  BY DEF RunType

LEMMA ReturnType ==
  ASSUME NEW o \in MaybeOp, Return(o)
  PROVE  pc' \in Locations /\ todo' \in Seq(Acts) /\ offered' \in MaybeOp /\ awaiting' \in BOOLEAN
  <1>1. <<>> \in Seq(Acts)
    OBVIOUS
  <1>2. todo' = <<>> /\ awaiting' = FALSE /\ offered' = o /\ pc' = "done"
    BY DEF Return
  <1>3. QED
    BY <1>1, <1>2 DEF Locations

LEMMA NoOpType == NoOp \in MaybeOp
  BY DEF MaybeOp

LEMMA ExpireType ==
  ASSUME Expire \/ (RunType /\ UNCHANGED <<waiting, prepared>>)
  PROVE  waiting' \in MaybeOp /\ prepared' \subseteq Ops
  BY DEF RunType, Expire, InvalidateHandles, MaybeOp

\* What no step of the worker touches.
LEMMA WorkerLeaves ==
  Worker => UNCHANGED <<cancel, review, job, turns, everStopped>>
  BY DEF Worker, Dispatch, StreamFails, StreamCompletes, ToolStep, BatchDone, app

LEMMA WorkerType ==
  ASSUME RunType, Worker
  PROVE  RunType'
  <1> USE NoOpType
  <1>1. CASE Dispatch
    <2>1. waiting' \in MaybeOp /\ prepared' \subseteq Ops
      BY <1>1, ExpireType DEF Dispatch
    <2>2. \/ Return(NoOp)
          \/ pc' = "stream" /\ UNCHANGED run
      BY <1>1 DEF Dispatch
    <2>3. /\ pc' \in Locations /\ todo' \in Seq(Acts)
          /\ offered' \in MaybeOp /\ awaiting' \in BOOLEAN
      BY <2>2, ReturnType DEF RunType, run, Locations
    <2>4. QED
      BY <2>1, <2>3, WorkerLeaves DEF RunType
  <1>2. CASE StreamFails
    <2>1. waiting' \in MaybeOp /\ prepared' \subseteq Ops
      BY <1>2, ExpireType DEF StreamFails
    <2>2. Return(NoOp)
      BY <1>2 DEF StreamFails
    <2>3. QED
      BY <2>1, <2>2, ReturnType, WorkerLeaves DEF RunType
  <1>3. CASE StreamCompletes
    <2>1. todo' \in Seq(Acts)
      <3>1. ASSUME NEW n \in 0..MaxBatch, NEW b \in [1..n -> Acts]
            PROVE  b \in Seq(Acts)
        OBVIOUS
      <3>2. CASE todo' = <<>>
        BY <3>2
      <3>3. CASE \E n \in 0..MaxBatch : \E b \in [1..n -> Acts] : todo' = b
        BY <3>1, <3>3
      <3>4. QED
        BY <1>3, <3>2, <3>3 DEF StreamCompletes, Return
    <2>2. pc' \in Locations
      BY <1>3 DEF StreamCompletes, Return, Locations
    <2>3. waiting' \in MaybeOp /\ offered' \in MaybeOp /\ prepared' \subseteq Ops
      BY <1>3 DEF RunType, StreamCompletes, Return, Expire, InvalidateHandles, MaybeOp
    <2>4. awaiting' \in BOOLEAN
      BY <1>3 DEF RunType, StreamCompletes, Return
    <2>5. QED
      BY <2>1, <2>2, <2>3, <2>4, WorkerLeaves DEF RunType
  <1>4. CASE ToolStep
    <2>1. CASE cancel
      BY <1>4, <2>1, ReturnType, ExpireType, WorkerLeaves DEF RunType, ToolStep
    <2>2. CASE ~cancel
      <3>1. PICK o \in Outcomes(Head(todo)) :
              /\ todo' = Tail(todo)
              /\ awaiting' = (awaiting \/ o \in {"review", "local"})
              /\ IF o = "review"
                 THEN /\ TakePrepared(Head(todo))
                      /\ offered' = Head(todo) /\ waiting' = Head(todo)
                 ELSE UNCHANGED <<prepared, offered, waiting>>
              /\ UNCHANGED pc
        BY <1>4, <2>2 DEF ToolStep
      <3>2. Head(todo) \in Acts /\ Tail(todo) \in Seq(Acts)
        BY <1>4, TodoType DEF ToolStep
      <3>3. o = "review" => Head(todo) \in prepared
        BY <3>1, <3>2, OutcomesSound
      <3>4. /\ waiting' \in MaybeOp /\ offered' \in MaybeOp /\ prepared' \subseteq Ops
        BY <3>1, <3>3 DEF RunType, TakePrepared, MaybeOp
      <3>5. awaiting' \in BOOLEAN
        BY <3>1
      <3>6. QED
        BY <3>1, <3>2, <3>4, <3>5, WorkerLeaves DEF RunType
    <2>3. QED
      BY <2>1, <2>2
  <1>5. CASE BatchDone
    BY <1>5 DEF RunType, BatchDone, Return, Expire, InvalidateHandles, run, app, Locations, MaybeOp
  <1>6. QED
    BY <1>1, <1>2, <1>3, <1>4, <1>5 DEF Worker

LEMMA JobType ==
  ASSUME NEW kind \in {"none", "read", "prepare", "mutation"}, NEW o \in MaybeOp
  PROVE  /\ [kind |-> kind, op |-> o] \in [kind: {"none", "read", "prepare", "mutation"}, op: MaybeOp]
         /\ [kind |-> kind, op |-> o].kind = kind
         /\ [kind |-> kind, op |-> o].op = o
  OBVIOUS

\* record_review_outcome changes history and, through Expire, the handles.
LEMMA RecordOutcomeType ==
  ASSUME RunType, NEW o, RecordOutcome(o)
  PROVE  /\ waiting' \in MaybeOp /\ prepared' \subseteq Ops
         /\ prepared' = prepared \/ prepared' = {}
  BY DEF RunType, RecordOutcome, Expire, InvalidateHandles, MaybeOp

LEMMA AppType ==
  ASSUME RunType,
         \/ TakeCompleted \/ WorkerLost \/ Stop \/ DenyReview \/ HandOver \/ ConfirmReview \/ JobDone
         \/ \E g \in BOOLEAN : StartRun(g)
         \/ StartJob("read", NoOp) \/ \E o \in Ops : StartJob("prepare", o)
         \/ \E g \in Granted : Grant(g)
  PROVE  RunType'
  <1>1. CASE TakeCompleted
    BY <1>1 DEF RunType, TakeCompleted, Expire, InvalidateHandles, Locations, MaybeOp
  <1>2. CASE Stop
    BY <1>2 DEF RunType, Stop, harness, run, app
  <1>3. CASE DenyReview
    BY <1>3, RecordOutcomeType DEF RunType, DenyReview, run, MaybeOp
  <1>4. CASE HandOver
    BY <1>4 DEF RunType, HandOver, run, MaybeOp
  <1>5. CASE ConfirmReview
    BY <1>5, JobType DEF RunType, ConfirmReview, harness, run, MaybeOp
  <1>6. CASE JobDone
    <2>1. job' = NoJob /\ review' \in MaybeOp
      BY <1>6 DEF RunType, JobDone, MaybeOp
    <2>2. NoJob \in [kind: {"none", "read", "prepare", "mutation"}, op: MaybeOp] /\ NoJob.kind = "none"
      BY DEF NoJob, MaybeOp
    <2>3. waiting' \in MaybeOp /\ prepared' \subseteq Ops
      BY <1>6, RecordOutcomeType DEF RunType, JobDone
    <2>4. QED
      BY <1>6, <2>1, <2>2, <2>3 DEF RunType, JobDone, run
  <1>7. ASSUME NEW g \in BOOLEAN, StartRun(g)
        PROVE  RunType'
    BY <1>7 DEF RunType, StartRun, Locations
  <1>8. CASE StartJob("read", NoOp)
    BY <1>8, JobType DEF RunType, StartJob, harness, run, MaybeOp
  <1>9. ASSUME NEW o \in Ops, StartJob("prepare", o)
        PROVE  RunType'
    BY <1>9, JobType DEF RunType, StartJob, harness, run, MaybeOp
  <1>10. ASSUME NEW g \in Granted, Grant(g)
         PROVE  RunType'
    BY <1>10 DEF RunType, Grant, run, app
  <1>11. CASE WorkerLost
    <2>1. <<>> \in Seq(Acts)
      OBVIOUS
    <2>2. QED
      BY <1>11, <2>1 DEF RunType, WorkerLost, Expire, InvalidateHandles, app, Locations, MaybeOp
  <1>12. QED
    BY <1>1, <1>2, <1>3, <1>4, <1>5, <1>6, <1>7, <1>8, <1>9, <1>10, <1>11

LEMMA TypeStep == RunType /\ [Next]_vars => RunType'
  <1> SUFFICES ASSUME RunType, [Next]_vars PROVE RunType'
    OBVIOUS
  <1>1. CASE UNCHANGED vars
    BY <1>1 DEF RunType, vars, harness, run, app
  <1>2. CASE Next
    BY <1>2, WorkerType, AppType DEF Next
  <1>3. QED
    BY <1>1, <1>2

-----------------------------------------------------------------------------
(* One holder                                                              *)

\* A proposal comes from the handles and moves, through the finished run, to
\* the review; App::job and the handles take it from there.
LEMMA HolderStep ==
  ASSUME RunType, HolderInv, [Next]_vars
  PROVE  HolderInv'
  <1> USE AssistantAssumption DEF HolderInv, OneHolder
  <1>1. CASE Dispatch \/ StreamFails \/ StreamCompletes
    <2>1. UNCHANGED <<review, job>> /\ (prepared' = prepared \/ prepared' = {})
      BY <1>1 DEF Dispatch, StreamFails, StreamCompletes, Expire, InvalidateHandles, app
    <2>2. offered = NoOp
      BY <1>1 DEF Dispatch, StreamFails, StreamCompletes
    <2>3. offered' = NoOp
      BY <1>1, <2>2 DEF Dispatch, StreamFails, StreamCompletes, Return, run
    <2>4. QED
      BY <2>1, <2>3 DEF RunType, MaybeOp
  <1>2. CASE ToolStep
    <2>1. UNCHANGED <<review, job>>
      BY <1>2 DEF ToolStep, app
    <2>2. CASE cancel
      BY <1>2, <2>1, <2>2 DEF ToolStep, Return, Expire, InvalidateHandles
    <2>3. CASE ~cancel
      <3>1. PICK o \in Outcomes(Head(todo)) :
              /\ IF o = "review"
                 THEN TakePrepared(Head(todo)) /\ offered' = Head(todo)
                 ELSE UNCHANGED <<prepared, offered>>
              /\ awaiting' = (awaiting \/ o \in {"review", "local"})
              /\ UNCHANGED pc
        BY <1>2, <2>3 DEF ToolStep
      <3>2. Head(todo) \in Acts /\ pc = "tools"
        BY <1>2, TodoType DEF ToolStep
      <3>3. o = "review" => Head(todo) \in prepared
        BY <3>1, <3>2, OutcomesSound
      <3>4. QED
        BY <2>1, <3>1, <3>2, <3>3 DEF RunType, TakePrepared
    <2>4. QED
      BY <2>2, <2>3
  <1>3. CASE BatchDone
    <2>1. UNCHANGED <<review, job>> /\ (prepared' = prepared \/ prepared' = {})
      BY <1>3 DEF BatchDone, Expire, InvalidateHandles, app
    <2>2. \/ pc' = "done" /\ offered' \in {NoOp, offered}
          \/ ~awaiting /\ pc = "tools" /\ offered' = offered
      BY <1>3 DEF BatchDone, Return, run
    <2>3. QED
      BY <2>1, <2>2 DEF RunType, MaybeOp
  <1>4. CASE TakeCompleted
    BY <1>4 DEF TakeCompleted, Expire, InvalidateHandles, RunType, MaybeOp
  <1>5. CASE Stop
    BY <1>5 DEF Stop, harness, run, app
  <1>6. CASE DenyReview
    BY <1>6, RecordOutcomeType DEF DenyReview, run, RunType, MaybeOp
  <1>7. CASE HandOver
    BY <1>7 DEF HandOver, run, RunType, MaybeOp
  <1>8. CASE ConfirmReview
    BY <1>8, JobType DEF ConfirmReview, harness, run, RunType, MaybeOp
  <1>9. CASE JobDone
    <2>1. prepared' = prepared \/ prepared' = {}
      BY <1>9, RecordOutcomeType DEF JobDone
    <2>2. /\ job'.op = NoOp /\ review' \in {review, job.op}
          /\ UNCHANGED <<offered, pc, awaiting>>
      BY <1>9 DEF JobDone, NoJob, run
    <2>3. QED
      BY <2>1, <2>2 DEF RunType, MaybeOp
  <1>10. ASSUME NEW g \in BOOLEAN, StartRun(g)
         PROVE  HolderInv'
    BY <1>10 DEF StartRun
  <1>11. CASE StartJob("read", NoOp)
    BY <1>11, JobType DEF StartJob, harness, run, RunType, MaybeOp
  <1>12. ASSUME NEW o \in Ops, StartJob("prepare", o)
         PROVE  HolderInv'
    BY <1>12, JobType DEF StartJob, harness, run, RunType, MaybeOp
  <1>13. ASSUME NEW g \in Granted, Grant(g)
         PROVE  HolderInv'
    BY <1>13 DEF Grant, run, app
  <1>14. CASE UNCHANGED vars
    BY <1>14 DEF vars, harness, run, app
  <1>15. CASE WorkerLost
    BY <1>15 DEF WorkerLost, Expire, InvalidateHandles, app, RunType, MaybeOp
  <1>16. QED
    BY <1>1, <1>2, <1>3, <1>4, <1>5, <1>6, <1>7, <1>8, <1>9, <1>10, <1>11, <1>12,
       <1>13, <1>14, <1>15 DEF Next, Worker

-----------------------------------------------------------------------------
(* The budget                                                              *)

LEMMA AccountSound ==
  ASSUME BudgetInv, pc = "stream", Account
  PROVE  /\ {spent', billed'} \subseteq Nat /\ unknown' \in BOOLEAN
         /\ ~unknown' => billed' = spent'
         /\ BudgetKept'
  <1>1. PICK c \in 0..Reserve :
          /\ billed' = billed + c
          /\ \/ spent' = spent + c /\ UNCHANGED unknown
             \/ unknown' = TRUE /\ UNCHANGED spent
    BY DEF Account
  <1>2. /\ spent \in Nat /\ billed = spent /\ unknown = FALSE
        /\ spent < Limit /\ (Capped => spent + Reserve <= Limit)
    BY DEF BudgetInv
  <1>3. Limit \in Nat /\ Reserve \in Nat
    BY AssistantAssumption
  <1>4. billed' \in Nat /\ spent' \in Nat /\ BudgetKept'
    <2>1. billed' \in Nat /\ spent' \in Nat /\ billed' <= spent + Reserve
      BY <1>1, <1>2, <1>3
    <2>2. billed' < Limit + Reserve
      BY <1>2, <1>3, <2>1
    <2>3. Capped => billed' <= Limit
      BY <1>2, <1>3, <2>1
    <2>4. QED
      BY <2>1, <2>2, <2>3 DEF BudgetKept
  <1>5. unknown' \in BOOLEAN /\ (~unknown' => billed' = spent')
    BY <1>1, <1>2
  <1>6. QED
    BY <1>4, <1>5

LEMMA BudgetStep ==
  ASSUME RunType, BudgetInv, [Next]_vars
  PROVE  BudgetInv'
  <1>1. CASE StreamFails \/ StreamCompletes
    <2>1. pc = "stream" /\ Account
      BY <1>1 DEF StreamFails, StreamCompletes
    <2>2. pc' # "stream"
      BY <1>1 DEF StreamFails, StreamCompletes, Return
    <2>3. QED
      BY <2>1, <2>2, AccountSound DEF BudgetInv
  <1>2. CASE Dispatch
    BY <1>2 DEF Dispatch, Return, Affordable, BudgetInv, BudgetKept
  <1>3. CASE UNCHANGED <<spent, unknown, billed>> /\ (pc' = "stream" => pc = "stream")
    BY <1>3 DEF BudgetInv, BudgetKept
  <1>4. CASE ToolStep \/ BatchDone \/ TakeCompleted \/ Stop
    BY <1>3, <1>4 DEF ToolStep, BatchDone, TakeCompleted, Stop, Return, harness
  <1>5. CASE DenyReview \/ HandOver \/ ConfirmReview \/ JobDone \/ UNCHANGED vars
    BY <1>3, <1>5 DEF DenyReview, HandOver, ConfirmReview, JobDone, vars, harness
  <1>6. ASSUME NEW g \in BOOLEAN, StartRun(g)
        PROVE  BudgetInv'
    BY <1>3, <1>6 DEF StartRun
  <1>7. CASE StartJob("read", NoOp) \/ \E o \in Ops : StartJob("prepare", o)
    BY <1>3, <1>7 DEF StartJob, harness
  <1>8. ASSUME NEW g \in Granted, Grant(g)
        PROVE  BudgetInv'
    BY <1>3, <1>8 DEF Grant
  <1>9. CASE WorkerLost
    <2>1. spent' = 0 /\ billed' = 0 /\ unknown' = FALSE /\ pc' = "idle"
      BY <1>9 DEF WorkerLost
    <2>2. Limit \in Nat
      BY AssistantAssumption
    <2>3. {spent', billed'} \subseteq Nat /\ billed' <= Limit /\ billed' = spent'
      BY <2>1, <2>2
    <2>4. unknown' \in BOOLEAN /\ pc' # "stream"
      BY <2>1
    <2>5. QED
      BY <2>3, <2>4 DEF BudgetInv, BudgetKept
  <1>10. QED
    BY <1>1, <1>2, <1>4, <1>5, <1>6, <1>7, <1>8, <1>9 DEF Next, Worker

-----------------------------------------------------------------------------
(* What bounded_request leaves of a conversation                           *)

LEMMA LeastNatural ==
  ASSUME NEW T, T \subseteq Nat, T # {}
  PROVE  \E x \in T : \A y \in T : x <= y
  <1>1. \E x \in T : \A y \in T : ~ (<<y, x>> \in OpToRel(<, Nat))
    BY NatLessThanWellFounded, WFMin
  <1>2. PICK x \in T : \A y \in T : ~ (<<y, x>> \in OpToRel(<, Nat))
    BY <1>1
  <1>3. \A y \in T : ~(y < x)
    BY <1>2 DEF OpToRel
  <1>4. QED
    BY <1>3

LEMMA GreatestNatural ==
  ASSUME NEW T, NEW b \in Nat, T \subseteq 0..b, T # {}
  PROVE  \E x \in T : \A y \in T : y <= x
  <1> DEFINE U == {b - y : y \in T}
  <1>1. U \subseteq Nat /\ U # {}
    <2>1. ASSUME NEW y \in T PROVE b - y \in Nat
      <3>1. y \in 0..b
        OBVIOUS
      <3>2. QED
        BY <3>1
    <2>2. QED
      BY <2>1
  <1>2. PICK u \in U : \A v \in U : u <= v
    BY <1>1, LeastNatural
  <1>3. PICK x \in T : u = b - x
    OBVIOUS
  <1>4. ASSUME NEW y \in T PROVE y <= x
    <2>1. b - x <= b - y
      BY <1>2, <1>3
    <2>2. x \in 0..b /\ y \in 0..b
      OBVIOUS
    <2>3. QED
      BY <2>1, <2>2
  <1>5. QED
    BY <1>4

LEMMA Suffix ==
  ASSUME NEW h \in Seq(Message), NEW i \in DOMAIN h
  PROVE  /\ SubSeq(h, i, Len(h)) \in Seq(Message)
         /\ Len(SubSeq(h, i, Len(h))) = Len(h) - i + 1
         /\ \A k \in 1..(Len(h) - i + 1) : SubSeq(h, i, Len(h))[k] = h[k + i - 1]
  OBVIOUS

LEMMA KeptType ==
  ASSUME NEW h \in Seq(Message), NEW k \in Kept(h)
  PROVE  /\ k \in Seq(Message) /\ Len(k) \in 0..Len(h)
         /\ k = h \/ \E i \in DOMAIN h : h[i] = User /\ k = SubSeq(h, i, Len(h))
  <1>1. k = h \/ \E i \in DOMAIN h : h[i] = User /\ k = SubSeq(h, i, Len(h))
    BY DEF Kept
  <1>2. CASE k = h
    BY <1>2
  <1>3. ASSUME NEW i \in DOMAIN h, k = SubSeq(h, i, Len(h))
        PROVE  k \in Seq(Message) /\ Len(k) \in 0..Len(h)
    BY <1>3, Suffix
  <1>4. QED
    BY <1>1, <1>2, <1>3

\* The choice that Trimmed makes exists.
LEMMA TrimmedIsKept ==
  ASSUME NEW h \in Seq(Message)
  PROVE  Trimmed(h) \in Kept(h)
  <1> DEFINE fitting == {k \in Kept(h) : Fits(k)}
  <1>1. ASSUME fitting # {}
        PROVE  \E k \in fitting : \A o \in fitting : Len(o) <= Len(k)
    <2> DEFINE T == {Len(k) : k \in fitting}
    <2>1. T \subseteq 0..Len(h) /\ T # {} /\ Len(h) \in Nat
      <3>1. \A k \in fitting : Len(k) \in 0..Len(h)
        BY KeptType
      <3> HIDE DEF fitting
      <3>2. T \subseteq 0..Len(h)
        BY <3>1
      <3>3. T # {}
        BY <1>1
      <3>4. QED
        BY <3>2, <3>3
    <2>2. PICK x \in T : \A y \in T : y <= x
      BY <2>1, GreatestNatural
    <2>3. PICK k \in fitting : x = Len(k)
      OBVIOUS
    <2>4. QED
      BY <2>2, <2>3
  <1>2. \E k \in Kept(h) : \A o \in Kept(h) : Len(k) <= Len(o)
    <2> DEFINE T == {Len(k) : k \in Kept(h)}
    <2>1. h \in Kept(h)
      BY DEF Kept
    <2>2. T \subseteq Nat /\ T # {}
      <3>1. \A k \in Kept(h) : Len(k) \in Nat
        BY KeptType
      <3>2. QED
        BY <2>1, <3>1
    <2>3. PICK x \in T : \A y \in T : x <= y
      BY <2>2, LeastNatural
    <2>4. PICK k \in Kept(h) : x = Len(k)
      OBVIOUS
    <2>5. QED
      BY <2>3, <2>4
  <1> HIDE DEF fitting
  <1>3. CASE fitting # {}
    <2>1. (CHOOSE k \in fitting : \A o \in fitting : Len(o) <= Len(k)) \in fitting
      BY <1>1, <1>3
    <2>2. QED
      BY <1>3, <2>1 DEF Trimmed, fitting
  <1>4. CASE fitting = {}
    <2>1. (CHOOSE k \in Kept(h) : \A o \in Kept(h) : Len(k) <= Len(o)) \in Kept(h)
      BY <1>2
    <2>2. QED
      BY <1>4, <2>1 DEF Trimmed, fitting
  <1>5. QED
    BY <1>3, <1>4

LEMMA MessageFacts ==
  /\ \A m \in Message : /\ m[1] = "calls" => m[2] \in Nat
                        /\ m = Result => m[1] # "calls"
                        /\ m = User => m # Result /\ m[1] # "calls"
  /\ User \in Message /\ Answer \in Message /\ Result \in Message
  /\ User # Result /\ Answer # Result /\ User[1] # "calls" /\ Answer[1] # "calls"
  <1>1. User[1] = "user" /\ Answer[1] = "assistant" /\ Result[1] = "tool"
    BY DEF User, Answer, Result
  <1>2. \A m \in {"calls"} \X Nat : m[1] = "calls" /\ m[2] \in Nat
    OBVIOUS
  <1>3. QED
    BY <1>1, <1>2 DEF Message

LEMMA ResultIsNoCall == Result[1] = "tool"
  BY DEF Result

LEMMA CallsCount ==
  ASSUME NEW x \in Message, x[1] = "calls"
  PROVE  x[2] \in Nat
  <1>1. User[1] = "user" /\ Answer[1] = "assistant" /\ Result[1] = "tool"
    BY DEF User, Answer, Result
  <1>2. x \in {"calls"} \X Nat
    BY <1>1 DEF Message
  <1>3. QED
    BY <1>2

\* Turns that are cut off at a user message leave no result without its call.
LEMMA SuffixKeeps ==
  ASSUME NEW h \in Seq(Message), NEW i \in DOMAIN h, h[i] = User, Answered(h)
  PROVE  /\ Answered(SubSeq(h, i, Len(h)))
         /\ Missing(h, 0) => Missing(SubSeq(h, i, Len(h)), 0)
  <1> DEFINE s == SubSeq(h, i, Len(h))
             n == Len(h)
             m == Len(s)
  <1>1. /\ n \in Nat /\ i \in Nat /\ 1 <= i /\ i <= n /\ m = n - i + 1
        /\ DOMAIN s = 1..m /\ DOMAIN h = 1..n
    BY Suffix
  <1>2. \A k \in 1..m : s[k] = h[k + i - 1]
    BY Suffix
  <1>3. \A k \in 1..n : h[k] \in Message
    OBVIOUS
  <1> HIDE DEF s, n, m
  <1>4. Answered(s)
    <2> SUFFICES ASSUME NEW a \in DOMAIN s, s[a] = Result
                 PROVE  \E j \in 1..a-1 : /\ s[j][1] = "calls" /\ a <= j + s[j][2]
                                          /\ \A k \in j+1..a : s[k] = Result
      BY DEF Answered
    <2> DEFINE c == a + i - 1
    <2>1. a \in 1..m /\ c \in 1..n /\ h[c] = Result
      BY <1>1, <1>2
    <2>2. PICK j \in 1..c-1 : /\ h[j][1] = "calls" /\ c <= j + h[j][2]
                              /\ \A k \in j+1..c : h[k] = Result
      BY <1>1, <2>1 DEF Answered
    <2>3. j \in 1..n /\ h[j] \in Message
      BY <1>1, <1>3, <2>1
    <2>4. h[j][2] \in Nat
      BY <2>2, <2>3, CallsCount
    <2>5. j # i
      BY <2>2, MessageFacts
    <2>6. ~(j < i)
      <3>1. ASSUME j < i PROVE i \in j+1..c
        BY <1>1, <2>1, <2>3, <3>1
      <3>2. QED
        BY <2>2, <3>1, MessageFacts
    <2> DEFINE b == j - i + 1
    <2>7. b \in 1..a-1 /\ b \in 1..m /\ b + i - 1 = j
      <3>1. a \in Nat /\ a <= m /\ j \in Nat /\ j <= a + i - 2 /\ j >= i
        BY <1>1, <2>1, <2>3, <2>5, <2>6
      <3>2. QED
        BY <1>1, <3>1, SMTT(30)
    <2>8. s[b] = h[j]
      BY <1>2, <2>7
    <2>9. a <= b + s[b][2]
      BY <1>1, <2>1, <2>2, <2>3, <2>4, <2>8, SMTT(30)
    <2>10. ASSUME NEW k \in b+1..a PROVE s[k] = Result
      <3>1. k \in Int /\ b \in Nat /\ b + 1 <= k /\ k <= a /\ a \in 1..m /\ j = b + i - 1
        BY <2>1, <2>7
      <3> HIDE DEF b
      <3>2. k \in 1..m /\ k + i - 1 \in j+1..c
        BY <1>1, <3>1, SMTT(30)
      <3>3. QED
        BY <1>2, <2>2, <3>2
    <2>11. QED
      BY <2>2, <2>7, <2>8, <2>9, <2>10
  <1>5. ASSUME Missing(h, 0) PROVE Missing(s, 0)
    <2> SUFFICES ASSUME NEW a \in DOMAIN s, s[a][1] = "calls"
                 PROVE  /\ a + s[a][2] <= m + 0
                        /\ \A k \in a+1..m : k <= a + s[a][2] => s[k] = Result
      BY DEF Missing, m
    <2> DEFINE b == a + i - 1
    <2>1. a \in 1..m /\ b \in 1..n /\ s[a] = h[b]
      BY <1>1, <1>2
    <2>2. h[b][2] \in Nat
      BY <1>3, <2>1, CallsCount
    <2>3. /\ b + h[b][2] <= n + 0
          /\ \A k \in b+1..n : k <= b + h[b][2] => h[k] = Result
      BY <1>1, <1>5, <2>1 DEF Missing, n
    <2>4. a + s[a][2] <= m + 0
      BY <1>1, <2>1, <2>2, <2>3, SMTT(30)
    <2>5. ASSUME NEW k \in a+1..m, k <= a + s[a][2] PROVE s[k] = Result
      <3> DEFINE x == h[b][2]
      <3>1. /\ k \in Int /\ a \in Nat /\ a + 1 <= k /\ k <= m /\ k <= a + x /\ x \in Nat
        BY <2>1, <2>2, <2>5
      <3> HIDE DEF x
      <3>2. k \in 1..m /\ k + i - 1 \in b+1..n /\ k + i - 1 <= b + x
        BY <1>1, <3>1
      <3>3. QED
        BY <1>2, <2>3, <3>2 DEF x
    <2>6. QED
      BY <2>4, <2>5
  <1>6. QED
    BY <1>4, <1>5 DEF s

LEMMA Appended ==
  ASSUME NEW h \in Seq(Message), NEW x \in Message
  PROVE  /\ Append(h, x) \in Seq(Message)
         /\ Len(Append(h, x)) = Len(h) + 1 /\ Len(h) \in Nat
         /\ DOMAIN Append(h, x) = 1..(Len(h) + 1) /\ DOMAIN h = 1..Len(h)
         /\ \A k \in 1..Len(h) : Append(h, x)[k] = h[k] /\ h[k] \in Message
         /\ Append(h, x)[Len(h) + 1] = x
  OBVIOUS

\* A message that is no result leaves the earlier results where they are.
LEMMA AnsweredGrows ==
  ASSUME NEW h \in Seq(Message), NEW x \in Message, Answered(h),
         x = Result => Room(h, 1)
  PROVE  Answered(Append(h, x))
  <1> DEFINE s == Append(h, x)
             n == Len(h)
  <1>1. /\ n \in Nat /\ DOMAIN s = 1..(n + 1) /\ DOMAIN h = 1..n
        /\ \A k \in 1..n : s[k] = h[k]
        /\ s[n + 1] = x
    BY Appended
  <1> HIDE DEF s
  <1> SUFFICES ASSUME NEW i \in 1..(n + 1), s[i] = Result
               PROVE  \E j \in 1..i-1 : /\ s[j][1] = "calls" /\ i <= j + s[j][2]
                                        /\ \A k \in j+1..i : s[k] = Result
    BY <1>1 DEF Answered, s
  <1>2. CASE i \in 1..n
    <2>1. PICK j \in 1..i-1 : /\ h[j][1] = "calls" /\ i <= j + h[j][2]
                              /\ \A k \in j+1..i : h[k] = Result
      BY <1>1, <1>2 DEF Answered
    <2>2. j \in 1..n /\ \A k \in j+1..i : k \in 1..n
      BY <1>1, <1>2, <2>1
    <2>3. QED
      BY <1>1, <2>1, <2>2
  <1>3. CASE i = n + 1
    <2>1. Room(h, 1)
      BY <1>1, <1>3
    <2>2. PICK j \in 1..n : /\ h[j][1] = "calls" /\ n + 1 <= j + h[j][2]
                            /\ \A k \in j+1..n : h[k] = Result
      BY <1>1, <2>1 DEF Room
    <2>3. j \in 1..i-1 /\ s[j] = h[j]
      BY <1>1, <1>3
    <2>4. ASSUME NEW k \in j+1..i PROVE s[k] = Result
      <3>1. k = n + 1 \/ (k \in j+1..n /\ k \in 1..n)
        BY <1>1, <1>3, <2>2
      <3>2. QED
        BY <1>1, <1>3, <2>2, <3>1
    <2>5. QED
      BY <1>3, <2>2, <2>3, <2>4
  <1>4. QED
    BY <1>1, <1>2, <1>3

\* A result takes one of the owed places.
LEMMA ResultAppended ==
  ASSUME NEW h \in Seq(Message), NEW n \in Nat, n > 0, Room(h, n)
  PROVE  /\ Room(h, 1)
         /\ Room(Append(h, Result), n - 1)
         /\ Missing(h, n) => Missing(Append(h, Result), n - 1)
  <1> DEFINE s == Append(h, Result)
             l == Len(h)
  <1>1. /\ l \in Nat /\ DOMAIN s = 1..(l + 1) /\ DOMAIN h = 1..l /\ Len(s) = l + 1
        /\ \A k \in 1..l : s[k] = h[k] /\ h[k] \in Message
        /\ s[l + 1] = Result /\ Result \in Message
    BY Appended, MessageFacts
  <1> HIDE DEF s
  <1>2. PICK j \in 1..l : /\ h[j][1] = "calls" /\ l + n <= j + h[j][2]
                          /\ \A k \in j+1..l : h[k] = Result
    BY <1>1 DEF Room
  <1>3. h[j][2] \in Nat
    BY <1>1, <1>2, CallsCount
  <1>4. Room(h, 1)
    <2>1. l + 1 <= j + h[j][2]
      BY <1>1, <1>2, <1>3
    <2>2. QED
      BY <1>1, <1>2, <2>1 DEF Room
  <1>5. Room(s, n - 1)
    <2>1. s[j] = h[j] /\ (l + 1) + (n - 1) <= j + s[j][2]
      BY <1>1, <1>2, <1>3
    <2>2. ASSUME NEW k \in j+1..(l + 1) PROVE s[k] = Result
      <3>1. k = l + 1 \/ (k \in j+1..l /\ k \in 1..l)
        BY <1>1, <1>2
      <3>2. QED
        BY <1>1, <1>2, <3>1
    <2>3. j \in 1..(l + 1)
      BY <1>1, <1>2
    <2>4. QED
      BY <1>1, <1>2, <2>1, <2>2, <2>3 DEF Room
  <1>6. ASSUME Missing(h, n) PROVE Missing(s, n - 1)
    <2> SUFFICES ASSUME NEW i \in 1..(l + 1), s[i][1] = "calls"
                 PROVE  /\ i + s[i][2] <= (l + 1) + (n - 1)
                        /\ \A k \in i+1..(l + 1) : k <= i + s[i][2] => s[k] = Result
      BY <1>1 DEF Missing
    <2>1. i # l + 1
      BY <1>1, ResultIsNoCall
    <2>2. i \in 1..l /\ s[i] = h[i]
      BY <1>1, <2>1
    <2>3. h[i][2] \in Nat
      BY <1>1, <2>2, CallsCount
    <2>4. /\ i + h[i][2] <= l + n
          /\ \A k \in i+1..l : k <= i + h[i][2] => h[k] = Result
      BY <1>1, <1>6, <2>2 DEF Missing
    <2>5. i + s[i][2] <= (l + 1) + (n - 1)
      BY <1>1, <2>2, <2>3, <2>4
    <2>6. ASSUME NEW k \in i+1..(l + 1), k <= i + s[i][2] PROVE s[k] = Result
      <3>1. k = l + 1 \/ (k \in i+1..l /\ k \in 1..l)
        BY <1>1, <2>2
      <3>2. QED
        BY <1>1, <2>2, <2>4, <2>6, <3>1
    <2>7. QED
      BY <2>5, <2>6
  <1>7. QED
    BY <1>4, <1>5, <1>6 DEF s

\* Any other message after a complete conversation owes what it calls.
LEMMA OtherAppended ==
  ASSUME NEW h \in Seq(Message), NEW x \in Message, NEW n \in Nat,
         x[1] = "calls" => x[2] = n, Missing(h, 0)
  PROVE  Missing(Append(h, x), n)
  <1> DEFINE s == Append(h, x)
             l == Len(h)
  <1>1. /\ l \in Nat /\ DOMAIN s = 1..(l + 1) /\ DOMAIN h = 1..l /\ Len(s) = l + 1
        /\ \A k \in 1..l : s[k] = h[k] /\ h[k] \in Message
        /\ s[l + 1] = x
    BY Appended
  <1> HIDE DEF s
  <1> SUFFICES ASSUME NEW i \in 1..(l + 1), s[i][1] = "calls"
               PROVE  /\ i + s[i][2] <= (l + 1) + n
                      /\ \A k \in i+1..(l + 1) : k <= i + s[i][2] => s[k] = Result
    BY <1>1 DEF Missing, s
  <1>2. CASE i = l + 1
    <2>1. s[i][2] = n
      BY <1>1, <1>2
    <2>2. \A k \in i+1..(l + 1) : FALSE
      BY <1>1, <1>2
    <2>3. QED
      BY <1>1, <1>2, <2>1, <2>2
  <1>3. CASE i \in 1..l
    <2>1. s[i] = h[i] /\ h[i][2] \in Nat
      BY <1>1, <1>3, CallsCount
    <2>2. /\ i + h[i][2] <= l + 0
          /\ \A k \in i+1..l : k <= i + h[i][2] => h[k] = Result
      BY <1>1, <1>3, <2>1 DEF Missing
    <2>3. i + s[i][2] <= (l + 1) + n
      BY <1>1, <1>3, <2>1, <2>2
    <2>4. ASSUME NEW k \in i+1..(l + 1), k <= i + s[i][2] PROVE s[k] = Result
      <3>1. k \in i+1..l /\ k \in 1..l
        BY <1>1, <1>3, <2>1, <2>2, <2>4
      <3>2. QED
        BY <1>1, <2>1, <2>2, <2>4, <3>1
    <2>5. QED
      BY <2>3, <2>4
  <1>4. QED
    BY <1>1, <1>2, <1>3

LEMMA CallsRoom ==
  ASSUME NEW h \in Seq(Message), NEW n \in Nat
  PROVE  /\ <<"calls", n>> \in Message
         /\ <<"calls", n>>[1] = "calls" /\ <<"calls", n>>[2] = n
         /\ <<"calls", n>> # Result
         /\ Room(Append(h, <<"calls", n>>), n)
  <1> DEFINE x == <<"calls", n>>
  <1>1. x \in Message /\ x[1] = "calls" /\ x[2] = n
    BY DEF Message
  <1>2. x # Result
    BY <1>1, ResultIsNoCall
  <1> HIDE DEF x
  <1> DEFINE s == Append(h, x)
             l == Len(h)
  <1>3. /\ l \in Nat /\ DOMAIN s = 1..(l + 1) /\ Len(s) = l + 1 /\ s[l + 1] = x
    BY <1>1, Appended
  <1> HIDE DEF s
  <1>4. Room(s, n)
    <2>1. \A k \in (l + 1)+1..(l + 1) : FALSE
      BY <1>3
    <2>2. l + 1 \in DOMAIN s /\ Len(s) + n <= (l + 1) + s[l + 1][2]
      BY <1>1, <1>3
    <2>3. QED
      BY <1>1, <1>3, <2>1, <2>2 DEF Room
  <1>5. QED
    BY <1>1, <1>2, <1>4 DEF x, s

-----------------------------------------------------------------------------
(* The conversation, step by step                                          *)

\* What the run and the review say of themselves, apart from the messages.
Routed ==
    /\ cancel => everStopped
    /\ pc \in {"check", "stream"} => waiting = NoOp
    /\ pc = "tools" /\ waiting # NoOp => awaiting

LEMMA OwedType == RunType => Owed \in Nat
  <1>1. RunType => Len(todo) \in Nat
    BY DEF RunType
  <1>2. RunType => (IF pc = "tools" THEN Len(todo) ELSE 0) \in Nat
    BY <1>1
  <1>3. (IF waiting # NoOp THEN 1 ELSE 0) \in Nat
    OBVIOUS
  <1>4. ASSUME NEW a \in Nat, NEW b \in Nat PROVE a + b \in Nat
    OBVIOUS
  <1>5. QED
    BY <1>2, <1>3, <1>4 DEF Owed

LEMMA NothingOwed == pc # "tools" /\ waiting = NoOp => Owed = 0
  BY DEF Owed

LEMMA ConversationStable ==
  ASSUME HistoryInv, Routed', UNCHANGED history,
         Owed' = Owed \/ (Owed' = 0 /\ everStopped'),
         everStopped => everStopped'
  PROVE  HistoryInv'
  BY DEF HistoryInv, Routed

\* The harness forgets the open review: then the run was stopped, or nothing
\* was owed.
LEMMA ReturnStable ==
  ASSUME RunType, HistoryInv, pc' = "done" \/ pc' = "idle",
         \/ waiting' = NoOp /\ (cancel \/ Owed = 0)
         \/ waiting' = waiting /\ (pc = "tools" => todo = <<>>),
         UNCHANGED <<history, cancel, everStopped>>
  PROVE  HistoryInv'
  <1>1. Routed'
    BY DEF HistoryInv, Routed
  <1>2. CASE waiting' = NoOp /\ (cancel \/ Owed = 0)
    <2>1. Owed' = 0
      BY <1>2 DEF Owed
    <2>2. cancel => everStopped'
      BY DEF HistoryInv
    <2>3. QED
      BY <1>1, <1>2, <2>1, <2>2, ConversationStable
  <1>3. CASE waiting' = waiting /\ (pc = "tools" => todo = <<>>)
    <2>1. Owed' = Owed
      BY <1>3 DEF Owed
    <2>2. QED
      BY <1>1, <2>1, ConversationStable
  <1>4. QED
    BY <1>2, <1>3

LEMMA TrimKeeps ==
  ASSUME NEW h \in Seq(Message), Answered(h)
  PROVE  /\ Trimmed(h) \in Seq(Message) /\ Answered(Trimmed(h))
         /\ Missing(h, 0) => Missing(Trimmed(h), 0)
  <1> DEFINE t == Trimmed(h)
  <1>1. t \in Seq(Message) /\ (t = h \/ \E i \in DOMAIN h : h[i] = User /\ t = SubSeq(h, i, Len(h)))
    BY TrimmedIsKept, KeptType
  <1> HIDE DEF t
  <1>2. CASE t = h
    BY <1>2 DEF t
  <1>3. ASSUME NEW i \in DOMAIN h, h[i] = User, t = SubSeq(h, i, Len(h))
        PROVE  Answered(t) /\ (Missing(h, 0) => Missing(t, 0))
    BY <1>3, SuffixKeeps
  <1>4. QED
    BY <1>1, <1>2, <1>3 DEF t

LEMMA DispatchConversation ==
  ASSUME RunType, HistoryInv, Dispatch
  PROVE  HistoryInv'
  <1>1. pc = "check" /\ waiting = NoOp /\ Owed = 0
    BY NothingOwed DEF Dispatch, HistoryInv
  <1>2. CASE cancel
    BY <1>1, <1>2, ReturnStable DEF Dispatch, Expire, Return
  <1>3. CASE ~cancel
    <2>1. history' = Trimmed(history) \/ history' = history
      BY <1>3 DEF Dispatch
    <2>2. /\ pc' \in {"stream", "done"} /\ waiting' = NoOp
          /\ UNCHANGED <<cancel, everStopped>>
      BY <1>1, <1>3 DEF Dispatch, Return
    <2>3. Owed' = 0
      BY <2>2 DEF Owed
    <2>4. history' \in Seq(Message) /\ Answered(history') /\ (~everStopped => Missing(history', 0))
      BY <1>1, <2>1, TrimKeeps DEF HistoryInv
    <2>5. QED
      BY <2>2, <2>3, <2>4 DEF HistoryInv
  <1>4. QED
    BY <1>2, <1>3

LEMMA StreamConversation ==
  ASSUME RunType, HistoryInv, StreamFails \/ StreamCompletes
  PROVE  HistoryInv'
  <1>1. pc = "stream" /\ waiting = NoOp /\ Owed = 0 /\ UNCHANGED <<cancel, everStopped>>
    BY NothingOwed DEF StreamFails, StreamCompletes, HistoryInv
  <1>2. waiting' = NoOp
    BY <1>1 DEF StreamFails, StreamCompletes, Expire
  <1>3. CASE pc' = "done" /\ UNCHANGED history
    BY <1>1, <1>2, <1>3, ReturnStable
  <1>4. CASE pc' = "done" /\ history' = Append(history, Answer)
    <2>1. Owed' = 0
      BY <1>2, <1>4 DEF Owed
    <2>2. /\ history' \in Seq(Message) /\ Answered(history')
          /\ ~everStopped => Missing(history', 0)
      BY <1>1, <1>4, MessageFacts, Appended, AnsweredGrows, OtherAppended DEF HistoryInv
    <2>3. QED
      BY <1>1, <1>2, <1>4, <2>1, <2>2 DEF HistoryInv
  <1>5. ASSUME NEW n \in 0..MaxBatch, NEW b \in [1..n -> Acts],
               pc' = "tools", todo' = b, history' = Append(history, CallsOf(b))
        PROVE  HistoryInv'
    <2>1. Len(b) = n /\ n \in Nat
      BY AssistantAssumption
    <2>2. Owed' = n
      BY <1>2, <1>5, <2>1 DEF Owed
    <2>3. history' = Append(history, <<"calls", n>>)
      BY <1>5, <2>1 DEF CallsOf
    <2>4. history \in Seq(Message) /\ Answered(history) /\ (~everStopped => Missing(history, 0))
      BY <1>1 DEF HistoryInv
    <2>5. /\ <<"calls", n>> \in Message /\ <<"calls", n>> # Result
          /\ <<"calls", n>>[2] = n /\ Room(history', n)
      BY <2>1, <2>3, <2>4, CallsRoom
    <2>6. history' \in Seq(Message) /\ Answered(history')
      BY <2>3, <2>4, <2>5, Appended, AnsweredGrows
    <2>7. ~everStopped => Missing(history', n)
      BY <2>1, <2>3, <2>4, <2>5, OtherAppended
    <2>8. QED
      BY <1>1, <1>2, <1>5, <2>2, <2>5, <2>6, <2>7 DEF HistoryInv
  <1>6. \/ pc' = "done" /\ UNCHANGED history
        \/ pc' = "done" /\ history' = Append(history, Answer)
        \/ \E n \in 0..MaxBatch : \E b \in [1..n -> Acts] :
              pc' = "tools" /\ todo' = b /\ history' = Append(history, CallsOf(b))
    BY DEF StreamFails, StreamCompletes, Return
  <1>7. QED
    BY <1>3, <1>4, <1>5, <1>6

\* One call of the batch pays one result, or leaves it to the review.
LEMMA ToolConversation ==
  ASSUME RunType, HistoryInv, ToolStep
  PROVE  HistoryInv'
  <1>1. pc = "tools" /\ todo # <<>> /\ UNCHANGED <<cancel, everStopped>>
    BY DEF ToolStep
  <1>2. CASE cancel
    BY <1>1, <1>2, ReturnStable DEF ToolStep, Expire, Return
  <1>3. CASE ~cancel
    <2>1. PICK o \in Outcomes(Head(todo)) :
            /\ todo' = Tail(todo)
            /\ awaiting' = (awaiting \/ o \in {"review", "local"})
            /\ IF o = "review" THEN waiting' = Head(todo) /\ UNCHANGED history
               ELSE history' = Append(history, Result) /\ UNCHANGED waiting
            /\ UNCHANGED pc
      BY <1>1, <1>3 DEF ToolStep
    <2>2. /\ Head(todo) \in Acts
          /\ Len(todo) \in Nat /\ Len(todo) > 0 /\ Len(todo') = Len(todo) - 1
      BY <1>1, <2>1, TodoType DEF RunType
    <2>3. CASE o = "review"
      <3>1. Head(todo) \in Ops /\ ~awaiting
        BY <2>1, <2>2, <2>3, OutcomesSound DEF RunType
      <3>2. waiting = NoOp /\ waiting' # NoOp /\ awaiting'
        BY <1>1, <2>1, <2>3, <3>1, AssistantAssumption DEF HistoryInv
      <3>3. Owed' = Owed
        BY <1>1, <2>1, <2>2, <3>2 DEF Owed
      <3>4. Routed'
        BY <1>1, <1>3, <2>1, <3>2 DEF Routed
      <3>5. QED
        BY <1>1, <2>1, <2>3, <3>3, <3>4, ConversationStable
    <2>4. CASE o # "review"
      <3>1. Owed' = Owed - 1 /\ Owed > 0 /\ Owed \in Nat
        BY <1>1, <2>1, <2>2, <2>4, OwedType DEF Owed
      <3> DEFINE n == Owed
      <3>2. n \in Nat /\ n > 0 /\ Room(history, n) /\ history \in Seq(Message) /\ Answered(history)
        BY <3>1 DEF HistoryInv
      <3>3. history' = Append(history, Result)
        BY <2>1, <2>4
      <3>4. Room(history, 1) /\ Room(history', n - 1) /\ (Missing(history, n) => Missing(history', n - 1))
        BY <3>2, <3>3, ResultAppended
      <3>5. history' \in Seq(Message) /\ Answered(history')
        BY <3>2, <3>3, <3>4, MessageFacts, Appended, AnsweredGrows
      <3>6. Routed'
        BY <1>1, <1>3, <2>1, <2>4 DEF Routed, HistoryInv
      <3>7. QED
        BY <1>1, <3>1, <3>4, <3>5, <3>6 DEF HistoryInv, Routed
    <2>5. QED
      BY <2>3, <2>4
  <1>4. QED
    BY <1>2, <1>3

\* record_review_outcome pays the review's result.
LEMMA OutcomeConversation ==
  ASSUME RunType, HistoryInv, NEW o, o # NoOp, RecordOutcome(o),
         UNCHANGED <<pc, cancel, everStopped, todo, awaiting>>
  PROVE  HistoryInv'
  <1>1. CASE pc = "idle" /\ waiting = o
    <2>1. Owed = 1 /\ history' = Append(history, Result) /\ waiting' = NoOp
      BY <1>1 DEF Owed, RecordOutcome, Expire
    <2>2. Owed' = 0
      BY <1>1, <2>1 DEF Owed
    <2>3. Room(history, 1) /\ history \in Seq(Message) /\ Answered(history)
      BY <2>1 DEF HistoryInv
    <2>4. Missing(history, 1) => Missing(history', 0)
      BY <2>1, <2>3, ResultAppended
    <2>5. history' \in Seq(Message) /\ Answered(history')
      BY <2>1, <2>3, MessageFacts, Appended, AnsweredGrows
    <2>6. QED
      BY <1>1, <2>1, <2>2, <2>4, <2>5 DEF HistoryInv
  <1>2. CASE ~(pc = "idle" /\ waiting = o)
    <2>1. UNCHANGED <<history, waiting>>
      BY <1>2 DEF RecordOutcome
    <2>2. Owed' = Owed /\ Routed'
      BY <2>1 DEF Owed, HistoryInv, Routed
    <2>3. QED
      BY <2>1, <2>2, ConversationStable
  <1>3. QED
    BY <1>1, <1>2

LEMMA StartRunConversation ==
  ASSUME RunType, HistoryInv, NEW g \in BOOLEAN, StartRun(g)
  PROVE  HistoryInv'
  <1>1. pc = "idle" /\ cancel' = FALSE /\ UNCHANGED <<waiting, everStopped>>
    BY DEF StartRun
  <1>2. CASE waiting = NoOp
    <2>1. /\ pc' = "check" /\ Owed = 0 /\ Owed' = 0
          /\ history' = history \/ history' = Append(history, User)
      BY <1>1, <1>2 DEF StartRun, MayStart, Owed
    <2>2. history' \in Seq(Message) /\ Answered(history') /\ (~everStopped => Missing(history', 0))
      <3>1. history \in Seq(Message) /\ Answered(history) /\ (~everStopped => Missing(history, 0))
        BY <2>1 DEF HistoryInv
      <3>2. CASE history' = Append(history, User)
        BY <3>1, <3>2, MessageFacts, Appended, AnsweredGrows, OtherAppended
      <3>3. QED
        BY <2>1, <3>1, <3>2
    <2>3. QED
      BY <1>1, <1>2, <2>1, <2>2 DEF HistoryInv
  <1>3. CASE waiting # NoOp
    <2>1. pc' = "done" /\ UNCHANGED history
      BY <1>3 DEF StartRun, MayStart
    <2>2. Owed' = Owed /\ Routed'
      BY <1>1, <2>1 DEF Owed, Routed
    <2>3. QED
      BY <1>1, <2>1, <2>2, ConversationStable
  <1>4. QED
    BY <1>2, <1>3

LEMMA HistoryStep ==
  ASSUME RunType, HistoryInv, [Next]_vars
  PROVE  HistoryInv'
  <1>1. CASE Dispatch \/ StreamFails \/ StreamCompletes \/ ToolStep
    BY <1>1, DispatchConversation, StreamConversation, ToolConversation
  <1>2. CASE BatchDone
    <2>1. CASE cancel
      BY <1>2, <2>1, ReturnStable DEF BatchDone, Expire, Return
    <2>2. CASE ~cancel /\ (awaiting \/ repairs > 1)
      BY <1>2, <2>2, ReturnStable DEF BatchDone, Return
    <2>3. CASE ~cancel /\ ~(awaiting \/ repairs > 1)
      <3>1. /\ pc = "tools" /\ todo = <<>> /\ pc' = "check"
            /\ UNCHANGED <<history, waiting, cancel, everStopped>>
        BY <1>2, <2>3 DEF BatchDone
      <3>2. Len(todo) = 0
        BY <3>1
      <3>3. Owed' = Owed
        BY <3>1, <3>2 DEF Owed
      <3>4. Routed'
        BY <2>3, <3>1 DEF Routed, HistoryInv
      <3>5. QED
        BY <3>1, <3>3, <3>4, ConversationStable
    <2>4. QED
      BY <2>1, <2>2, <2>3
  <1>3. CASE TakeCompleted
    BY <1>3, ReturnStable DEF TakeCompleted, Expire
  <1>4. CASE /\ UNCHANGED <<history, waiting, pc, todo, awaiting>>
             /\ UNCHANGED <<cancel, everStopped>> \/ everStopped' = TRUE
    <2>1. Owed' = Owed /\ Routed'
      BY <1>4 DEF Owed, Routed, HistoryInv
    <2>2. QED
      BY <1>4, <2>1, ConversationStable
  <1>5. CASE Stop \/ HandOver \/ ConfirmReview \/ UNCHANGED vars
    BY <1>4, <1>5 DEF Stop, HandOver, ConfirmReview, vars, harness, run
  <1>6. CASE StartJob("read", NoOp) \/ \E o \in Ops : StartJob("prepare", o)
    BY <1>4, <1>6 DEF StartJob, harness, run
  <1>7. ASSUME NEW g \in Granted, Grant(g)
        PROVE  HistoryInv'
    BY <1>4, <1>7 DEF Grant, run
  <1>8. CASE DenyReview
    BY <1>8, OutcomeConversation DEF DenyReview, run
  <1>9. CASE JobDone
    <2>1. CASE job.kind = "mutation"
      BY <1>9, <2>1, OutcomeConversation DEF RunType, JobDone, run
    <2>2. CASE job.kind # "mutation"
      BY <1>4, <1>9, <2>2 DEF JobDone, run
    <2>3. QED
      BY <2>1, <2>2
  <1>10. ASSUME NEW g \in BOOLEAN, StartRun(g)
         PROVE  HistoryInv'
    BY <1>10, StartRunConversation
  <1>11. CASE WorkerLost
    <2>1. /\ history' = <<>> /\ waiting' = NoOp /\ pc' = "idle"
          /\ UNCHANGED <<cancel, everStopped>>
      BY <1>11 DEF WorkerLost, Expire
    <2>2. QED
      BY <2>1 DEF HistoryInv, Owed, Answered, Missing
  <1>12. QED
    BY <1>1, <1>2, <1>3, <1>5, <1>6, <1>7, <1>8, <1>9, <1>10, <1>11 DEF Next, Worker

-----------------------------------------------------------------------------
(* Results                                                                 *)

IInv == RunType /\ HolderInv /\ BudgetInv /\ HistoryInv

LEMMA InitInv == Init => IInv
  <1> SUFFICES ASSUME Init PROVE IInv
    OBVIOUS
  <1>1. RunType
    <2>1. job \in [kind: {"none", "read", "prepare", "mutation"}, op: MaybeOp] /\ job.kind = "none"
      BY JobType, NoOpType DEF Init, NoJob
    <2>2. todo \in Seq(Acts)
      BY DEF Init
    <2>3. QED
      BY <2>1, <2>2, NoOpType DEF Init, RunType, Locations
  <1>2. HolderInv
    BY DEF Init, HolderInv, OneHolder
  <1>3. BudgetInv
    <2>1. spent = 0 /\ billed = 0 /\ unknown = FALSE /\ pc = "idle"
      BY DEF Init
    <2>2. Limit \in Nat
      BY AssistantAssumption
    <2>3. {spent, billed} \subseteq Nat /\ billed <= Limit /\ billed = spent
      BY <2>1, <2>2
    <2>4. unknown \in BOOLEAN /\ pc # "stream"
      BY <2>1
    <2>5. QED
      BY <2>3, <2>4 DEF BudgetInv, BudgetKept
  <1>4. HistoryInv
    BY DEF Init, HistoryInv, Owed, Answered, Missing
  <1>5. QED
    BY <1>1, <1>2, <1>3, <1>4 DEF IInv

LEMMA InvHolds == Spec => []IInv
  <1>1. IInv /\ [Next]_vars => IInv'
    BY TypeStep, HolderStep, BudgetStep, HistoryStep DEF IInv
  <1>2. QED
    BY <1>1, InitInv, PTL DEF Spec

\* However many answers are cancelled, fail or come unpriced: the cost tests
\* before a request keep what the provider can bill a harness within
\* profile.max_cost_usd if the profile caps the prices, and otherwise within
\* that and the cost of one request.
THEOREM BudgetHolds == Spec => []BudgetKept
  <1>1. IInv => BudgetKept
    BY DEF IInv, BudgetInv
  <1>2. QED
    BY <1>1, InvHolds, PTL

\* take_prepared_operation, poll_agent, App::job and register_operation pass a
\* mutation on and never copy it.
THEOREM OneHolderHolds == Spec => []OneHolder
  <1>1. IInv => OneHolder
    BY DEF IInv, HolderInv
  <1>2. QED
    BY <1>1, InvHolds, PTL

\* Wherever bounded_request trims, whichever call is rejected or proposes a
\* review, and however late that review is answered: the request that goes out
\* has no result without its call, and no call without its results unless a
\* run was stopped.
THEOREM HistoryPairedHolds == Spec => []HistoryPaired
  <1>1. IInv => HistoryPaired
    <2> SUFFICES ASSUME IInv, pc = "stream", NEW i \in DOMAIN history
                 PROVE  /\ history[i] = Result =>
                             \E j \in 1..i-1 :
                                /\ history[j][1] = "calls" /\ i <= j + history[j][2]
                                /\ \A k \in j+1..i : history[k] = Result
                        /\ history[i][1] = "calls" /\ ~everStopped =>
                             /\ i + history[i][2] <= Len(history)
                             /\ \A k \in i+1..i+history[i][2] : history[k] = Result
      BY DEF HistoryPaired
    <2>1. history \in Seq(Message) /\ Answered(history) /\ (~everStopped => Missing(history, 0))
      BY NothingOwed DEF IInv, HistoryInv
    <2>2. ASSUME history[i][1] = "calls", ~everStopped
          PROVE  /\ i + history[i][2] <= Len(history)
                 /\ \A k \in i+1..i+history[i][2] : history[k] = Result
      <3>1. /\ i + history[i][2] <= Len(history) + 0
            /\ \A k \in i+1..Len(history) : k <= i + history[i][2] => history[k] = Result
        BY <2>1, <2>2 DEF Missing
      <3>2. i \in Nat /\ Len(history) \in Nat /\ history[i] \in Message
        BY <2>1
      <3>3. history[i][2] \in Nat
        BY <2>2, <3>2, CallsCount
      <3>4. QED
        BY <3>1, <3>2, <3>3
    <2>3. QED
      BY <2>1, <2>2 DEF Answered
  <1>2. QED
    BY <1>1, InvHolds, PTL

\* take_completed drops the proposal of a run that the user stopped, also when
\* it had ended before; no other step opens a review of what a run offers.
THEOREM StoppedOffersNothingHolds == Spec => StoppedOffersNothing
  <1> DEFINE A == review' # review /\ review' # NoOp /\ review' = offered => ~cancel
  <1>1. ASSUME IInv, [Next]_vars
        PROVE  [A]_vars
    <2> SUFFICES ASSUME Next, review' # review, review' # NoOp, review' = offered
                 PROVE  ~cancel
      BY <1>1
    <2>1. TakeCompleted \/ JobDone
      BY DEF Next, Worker, Dispatch, StreamFails, StreamCompletes, ToolStep, BatchDone,
             Stop, WorkerLost, StartRun, DenyReview, HandOver, ConfirmReview, StartJob, Grant, app
    <2>2. CASE TakeCompleted
      BY <2>2 DEF TakeCompleted
    <2>3. CASE JobDone
      BY <1>1, <2>3 DEF JobDone, IInv, HolderInv, OneHolder
    <2>4. QED
      BY <2>1, <2>2, <2>3
  <1>2. QED
    BY <1>1, InvHolds, PTL DEF Spec, StoppedOffersNothing

-----------------------------------------------------------------------------
(* The stream of an answer.  FoldLeft is a function on sets of positions   *)
(* that is chosen, so each of the five folds of RouterStream and of what   *)
(* it is compared with is shown to have a run: its value after every       *)
(* element.  An invariant of the run then says what the fold computes.     *)

\* Induction up to n
LEMMA Reaches ==
  ASSUME NEW n \in Nat, NEW G, 0 \in G, \A k \in 1..n : k - 1 \in G => k \in G
  PROVE  n \in G
  <1> DEFINE bad == {k \in 0..n : k \notin G}
  <1>1. SUFFICES ASSUME bad # {} PROVE FALSE
    OBVIOUS
  <1>2. PICK k \in bad : \A j \in bad : k <= j
    <2>1. bad \subseteq Nat
      OBVIOUS
    <2> HIDE DEF bad
    <2>2. QED
      BY <1>1, <2>1, LeastNatural
  <1>3. k \in 1..n /\ k - 1 \in 0..n /\ ~(k <= k - 1)
    BY <1>2
  <1>4. k - 1 \in G
    BY <1>2, <1>3
  <1>5. QED
    BY <1>2, <1>3, <1>4

-----------------------------------------------------------------------------
(* Folds                                                                   *)

\* The step from one subset of a sequence's positions to the next, when the
\* operator that is folded is the function g
FoldStep(g, base, s, f, T) ==
    IF T = {} THEN base ELSE g[f[T \ {Max(T)}]][s[Max(T)]]

\* r is the run of g over s: what it has computed after each element.
Runs(g, base, n, s, r) ==
    /\ r[0] = base
    /\ \A k \in 1..n : r[k] = g[r[k - 1]][s[k]]

\* The step g can be folded over the n elements of s from base.
Foldable(A, B, g, base, n, s) ==
    g \in [A -> [B -> A]] /\ base \in A /\ n \in Nat /\ s \in [1..n -> B]

\* f is the fold, on every set of positions
FoldedTo(A, g, base, n, s, f) ==
    /\ f \in [SUBSET (1..n) -> A]
    /\ \A T \in SUBSET (1..n) : f[T] = FoldStep(g, base, s, f, T)

\* f does, as long as it stays in A
FoldsOn(A, g, base, n, s, f) ==
    \A T \in SUBSET (1..n) :
       IF T = {} THEN f[T] = base
       ELSE f[T \ {Max(T)}] \in A => f[T] = FoldStep(g, base, s, f, T)

\* The last position of a set of positions
LEMMA LastPosition ==
  ASSUME NEW k \in Nat, NEW T \in SUBSET (1..k)
  PROVE  /\ T # {} => Max(T) \in T
         /\ k \in T => Max(T) = k
         /\ k \notin T => T \in SUBSET (1..(k - 1))
  <1>1. ASSUME T # {} PROVE Max(T) \in T /\ \A y \in T : Max(T) >= y
    <2>1. T \subseteq 0..k
      OBVIOUS
    <2>2. PICK x \in T : \A y \in T : y <= x
      BY <1>1, <2>1, GreatestNatural
    <2>3. \A y \in T : x >= y
      BY <2>1, <2>2
    <2>4. QED
      BY <2>3 DEF Max
  <1>2. ASSUME k \in T PROVE Max(T) = k
    <2>1. Max(T) \in 1..k /\ Max(T) >= k
      BY <1>1, <1>2
    <2>2. QED
      BY <2>1
  <1>3. ASSUME k \notin T PROVE T \in SUBSET (1..(k - 1))
    BY <1>3
  <1>4. QED
    BY <1>1, <1>2, <1>3

\* The positions up to k are those before it, and k.
LEMMA Prefix ==
  ASSUME NEW k \in Nat, k # 0
  PROVE  (1..k) \ {k} = 1..(k - 1) /\ 1..k = (1..(k - 1)) \cup {k}
  <1>1. \A x : x \in (1..k) \ {k} <=> x \in 1..(k - 1)
    OBVIOUS
  <1>2. \A x : x \in 1..k <=> x \in 1..(k - 1) \/ x = k
    OBVIOUS
  <1>3. QED
    BY ONLY <1>1, <1>2

\* A fold has a value: the function that MapThenFoldSet chooses exists.
LEMMA FoldExists ==
  ASSUME NEW A, NEW B, NEW g, NEW base, NEW n, NEW s, Foldable(A, B, g, base, n, s)
  PROVE  \E f : FoldedTo(A, g, base, n, s, f)
  <1> DEFINE Upto(k, f) == /\ f \in [SUBSET (1..k) -> A]
                           /\ \A T \in SUBSET (1..k) : f[T] = FoldStep(g, base, s, f, T)
             bad == {k \in 0..n : ~\E f : Upto(k, f)}
  <1> USE DEF Foldable
  <1>1. SUFFICES ASSUME bad # {} PROVE FALSE
    <2>1. n \in 0..n
      OBVIOUS
    <2>2. QED
      BY <2>1 DEF FoldedTo
  <1>2. PICK k \in bad : \A j \in bad : k <= j
    <2>1. bad \subseteq Nat
      OBVIOUS
    <2> HIDE DEF bad
    <2>2. QED
      BY <1>1, <2>1, LeastNatural
  <1>3. CASE k = 0
    <2> DEFINE f == [T \in SUBSET (1..0) |-> base]
    <2>1. \A T \in SUBSET (1..0) : T = {}
      OBVIOUS
    <2>2. Upto(0, f)
      BY <2>1 DEF FoldStep
    <2> HIDE DEF Upto, f
    <2>3. QED
      BY <1>2, <1>3, <2>2
  <1>4. CASE k # 0
    <2>1. k \in 1..n /\ k \in Nat /\ k - 1 \in 0..n /\ k - 1 \notin bad /\ s[k] \in B
      <3>1. k \in 1..n /\ k \in Nat /\ k - 1 \in 0..n /\ ~(k <= k - 1)
        BY <1>2, <1>4
      <3> HIDE DEF bad
      <3>2. QED
        BY <1>2, <3>1
    <2>2. PICK f : Upto(k - 1, f)
      <3> HIDE DEF Upto
      <3>1. QED
        BY <2>1
    <2> DEFINE h == [T \in SUBSET (1..k) |-> IF k \in T THEN g[f[T \ {k}]][s[k]] ELSE f[T]]
    <2>3. ASSUME NEW T \in SUBSET (1..k) PROVE T \ {k} \in SUBSET (1..(k - 1))
      <3>1. ASSUME NEW x \in T \ {k} PROVE x \in 1..(k - 1)
        <4>1. x \in 1..k /\ x # k
          OBVIOUS
        <4>2. QED
          BY <2>1, <4>1
      <3>2. QED
        BY <3>1
    <2>4. SUBSET (1..(k - 1)) \subseteq SUBSET (1..k)
      BY <2>1
    <2>5. ASSUME NEW T \in SUBSET (1..(k - 1)) PROVE h[T] = f[T] /\ k \notin T /\ T \in SUBSET (1..k)
      BY <2>1, <2>4
    <2>6. h \in [SUBSET (1..k) -> A]
      <3>1. ASSUME NEW T \in SUBSET (1..k), k \in T PROVE g[f[T \ {k}]][s[k]] \in A
        BY <2>1, <2>2, <2>3
      <3>2. ASSUME NEW T \in SUBSET (1..k), k \notin T PROVE f[T] \in A
        <4>1. k \in Nat
          BY <2>1
        <4>2. T \in SUBSET (1..(k - 1))
          BY <3>2, <4>1, LastPosition
        <4>3. QED
          BY <2>2, <4>2
      <3>3. QED
        BY <3>1, <3>2
    <2>7. ASSUME NEW T \in SUBSET (1..k) PROVE h[T] = FoldStep(g, base, s, h, T)
      <3>1. CASE k \in T
        <4>1. Max(T) = k /\ T # {}
          BY <2>1, <3>1, LastPosition
        <4>2. h[T \ {k}] = f[T \ {k}]
          BY <2>3, <2>5
        <4>3. h[T] = g[f[T \ {k}]][s[k]]
          BY <3>1
        <4> HIDE DEF h
        <4>4. QED
          BY <4>1, <4>2, <4>3 DEF FoldStep
      <3>2. CASE k \notin T
        <4>1. T \in SUBSET (1..(k - 1))
          BY <2>1, <3>2, LastPosition
        <4>2. h[T] = f[T] /\ f[T] = FoldStep(g, base, s, f, T)
          BY <2>2, <2>5, <4>1
        <4>3. T # {} => h[T \ {Max(T)}] = f[T \ {Max(T)}]
          BY <2>5, <4>1
        <4> HIDE DEF h
        <4>4. QED
          BY <4>2, <4>3 DEF FoldStep
      <3>3. QED
        BY <3>1, <3>2
    <2>8. Upto(k, h)
      BY <2>6, <2>7
    <2> HIDE DEF Upto, h
    <2>9. QED
      BY <1>2, <2>8
  <1>5. QED
    BY <1>3, <1>4

\* What a fold computes, prefix by prefix
LEMMA FoldRuns ==
  ASSUME NEW A, NEW B, NEW g, NEW base, NEW n, NEW s, Foldable(A, B, g, base, n, s),
         NEW f, FoldsOn(A, g, base, n, s, f)
  PROVE  \E r \in [0..n -> A] : Runs(g, base, n, s, r) /\ f[1..n] = r[n]
  <1> DEFINE r == [k \in 0..n |-> f[1..k]]
             bad == {k \in 0..n : r[k] \notin A}
  <1> USE DEF Foldable, FoldsOn
  <1>1. r[0] = base
    <2>1. 1..0 = {} /\ 0 \in 0..n
      OBVIOUS
    <2>2. QED
      BY <2>1
  <1>2. ASSUME NEW k \in 1..n, r[k - 1] \in A PROVE r[k] = g[r[k - 1]][s[k]] /\ r[k] \in A
    <2>1. /\ k \in Nat /\ 1..k \in SUBSET (1..n) /\ k \in 1..k /\ (1..k) \ {k} = 1..(k - 1)
          /\ k \in 0..n /\ k - 1 \in 0..n /\ s[k] \in B
      <3>1. k \in Nat /\ k # 0 /\ k \in 1..k /\ k \in 0..n /\ k - 1 \in 0..n
        OBVIOUS
      <3>2. (1..k) \ {k} = 1..(k - 1)
        BY ONLY <3>1, Prefix
      <3>3. 1..k \in SUBSET (1..n)
        <4>1. \A x \in 1..k : x \in 1..n
          BY <3>1
        <4>2. QED
          BY ONLY <4>1
      <3>4. s[k] \in B
        OBVIOUS
      <3>5. QED
        BY ONLY <3>1, <3>2, <3>3, <3>4
    <2>2. Max(1..k) = k
      <3>1. k \in Nat /\ 1..k \in SUBSET (1..k) /\ k \in 1..k
        BY <2>1
      <3>2. QED
        BY ONLY <3>1, LastPosition
    <2>3. r[k] = f[1..k] /\ r[k - 1] = f[1..(k - 1)]
      BY <2>1
    <2> HIDE DEF r
    <2>4. f[1..k] = FoldStep(g, base, s, f, 1..k)
      BY <1>2, <2>1, <2>2, <2>3
    <2>5. r[k] = g[r[k - 1]][s[k]]
      BY <2>1, <2>2, <2>3, <2>4 DEF FoldStep
    <2>6. QED
      BY <1>2, <2>1, <2>5
  <1>3. bad = {}
    <2>1. SUFFICES ASSUME bad # {} PROVE FALSE
      OBVIOUS
    <2>2. bad \subseteq Nat
      OBVIOUS
    <2>3. PICK k \in bad : \A j \in bad : k <= j
      <3> HIDE DEF bad
      <3>1. QED
        BY <2>1, <2>2, LeastNatural
    <2> HIDE DEF r
    <2>4. k \in 0..n /\ r[k] \notin A
      BY <2>3
    <2>5. k # 0
      BY <1>1, <2>4
    <2>6. k \in 1..n /\ k - 1 \in 0..n /\ ~(k <= k - 1)
      BY <2>4, <2>5
    <2>7. r[k - 1] \in A
      BY <2>3, <2>6
    <2>8. QED
      BY <1>2, <2>4, <2>6, <2>7
  <1>4. r \in [0..n -> A]
    BY <1>3
  <1>5. \A k \in 1..n : r[k] = g[r[k - 1]][s[k]]
    <2>1. \A k \in 1..n : k - 1 \in 0..n
      OBVIOUS
    <2> HIDE DEF r
    <2>2. QED
      BY <1>2, <1>4, <2>1
  <1>6. f[1..n] = r[n]
    OBVIOUS
  <1> HIDE DEF r
  <1>7. QED
    BY <1>1, <1>4, <1>5, <1>6 DEF Runs

-----------------------------------------------------------------------------
(* The parser                                                              *)

\* What the parser holds: text, the lines of an event, the events
Text == Seq(Symbols)
Lines == Seq(Text)
Events == Seq(Lines)

Parsers ==
    [undecoded : {<<>>, <<"u1">>}, line : Text, data : Lines, events : Events, ok : BOOLEAN]

\* A parser inside push_text, and the part of the chunk since the last line
Readers == [parser : Parsers, part : Text]

\* The types, for the steps of the parser
LEMMA TextFacts ==
  /\ <<>> \in Text /\ <<>> \in Lines /\ <<>> \in Events
  /\ \A a, b \in Text : a \o b \in Text
  /\ \A a \in Text, c \in Symbols : Append(a, c) \in Text
  /\ \A a \in Text : a # <<>> => Tail(a) \in Text
  /\ \A a \in Text : StripCr(a) \in Text
  <1>1. \A a \in Text : StripCr(a) \in Text
    BY DEF Text, StripCr, Front, Last
  <1>2. \A a, b \in Text : a \o b \in Text
    BY DEF Text
  <1>3. <<>> \in Text /\ \A a \in Text, c \in Symbols : Append(a, c) \in Text
    BY DEF Text
  <1>4. \A a \in Text : a # <<>> => Tail(a) \in Text
    BY DEF Text
  <1>5. <<>> \in Lines
    BY DEF Lines
  <1>6. <<>> \in Events
    BY DEF Events
  <1>7. QED
    BY <1>1, <1>2, <1>3, <1>4, <1>5, <1>6

LEMMA LineFacts ==
  /\ \A d \in Lines, a \in Text : Append(d, a) \in Lines
  /\ \A e \in Events, d \in Lines : Append(e, d) \in Events
  <1>1. \A d \in Lines, a \in Text : Append(d, a) \in Lines
    BY DEF Lines
  <1>2. \A e \in Events, d \in Lines : Append(e, d) \in Events
    BY DEF Events
  <1>3. QED
    BY <1>1, <1>2

LEMMA ProcessLineType ==
  ASSUME NEW p \in Parsers, NEW line \in Text
  PROVE  ProcessLine(p, line) \in Parsers /\ ProcessLine(p, line).ok = p.ok
  <1>1. /\ \A d \in Lines : [p EXCEPT !.data = d] \in Parsers
        /\ \A e \in Events : [p EXCEPT !.events = e, !.data = <<>>] \in Parsers
    BY TextFacts DEF Parsers
  <1>2. CASE line = <<>>
    <2>1. Append(p.events, p.data) \in Events
      BY LineFacts DEF Parsers
    <2>2. QED
      BY <1>1, <1>2, <2>1 DEF ProcessLine, Parsers
  <1>3. CASE line # <<>>
    <2>1. Append(p.data, Tail(line)) \in Lines
      BY <1>3, TextFacts, LineFacts DEF Parsers
    <2>2. QED
      BY <1>1, <1>3, <2>1 DEF ProcessLine, Parsers
  <1>4. QED
    BY <1>2, <1>3

LEMMA TextStepType ==
  ASSUME NEW acc \in Readers, NEW c \in Symbols
  PROVE  TextStep(acc, c) \in Readers
  <1>1. acc.parser \in Parsers /\ acc.part \in Text
    BY DEF Readers
  <1>2. [acc.parser EXCEPT !.line = <<>>] \in Parsers /\ acc.parser.line \in Text
    BY <1>1, TextFacts DEF Parsers
  <1>3. acc.parser.line \o StripCr(acc.part) \in Text
    BY <1>1, <1>2, TextFacts
  <1>4. ProcessLine([acc.parser EXCEPT !.line = <<>>], acc.parser.line \o StripCr(acc.part)) \in Parsers
    BY <1>2, <1>3, ProcessLineType
  <1>5. <<>> \in Text /\ Append(acc.part, c) \in Text
    BY <1>1, TextFacts
  <1>6. QED
    BY <1>1, <1>4, <1>5 DEF TextStep, Readers

\* The two fields of a reader, and how a step changes them
LEMMA ReaderParts ==
  ASSUME NEW acc \in Readers
  PROVE  acc.parser \in Parsers /\ acc.part \in Text
  BY DEF Readers

LEMMA LineStep ==
  ASSUME NEW acc
  PROVE  /\ TextStep(acc, "lf").parser = ProcessLine([acc.parser EXCEPT !.line = <<>>],
                                                     acc.parser.line \o StripCr(acc.part))
         /\ TextStep(acc, "lf").part = <<>>
  BY DEF TextStep

LEMMA PartStep ==
  ASSUME NEW acc \in Readers, NEW c, c # "lf"
  PROVE  TextStep(acc, c).parser = acc.parser /\ TextStep(acc, c).part = Append(acc.part, c)
  BY DEF TextStep, Readers

\* push_text has a run over the symbols of its chunk.
LEMMA TextRuns ==
  ASSUME NEW p \in Parsers, NEW t \in Text
  PROVE  \E r \in [0..Len(t) -> Readers] :
            /\ r[0] = [parser |-> p, part |-> <<>>]
            /\ \A k \in 1..Len(t) : r[k] = TextStep(r[k - 1], t[k])
            /\ PushText(p, t) = [r[Len(t)].parser EXCEPT !.line = @ \o r[Len(t)].part]
  <1> DEFINE g == [a \in Readers |-> [x \in Symbols |-> TextStep(a, x)]]
             base == [parser |-> p, part |-> <<>>]
             n == Len(t)
             Fold(f) == f = [T \in SUBSET (DOMAIN t) |->
                               IF T = {} THEN base ELSE TextStep(f[T \ {Max(T)}], t[Max(T)])]
             c == CHOOSE f : Fold(f)
  <1>1. FoldLeft(TextStep, base, t) = c[DOMAIN t]
    BY DEF FoldLeft, MapThenFoldSet
  <1>2. g \in [Readers -> [Symbols -> Readers]]
    BY TextStepType
  <1>3. base \in Readers
    BY TextFacts DEF Readers
  <1>4. ASSUME NEW a \in Readers, NEW x \in Symbols PROVE g[a][x] = TextStep(a, x)
    OBVIOUS
  <1>5. DOMAIN t = 1..n /\ n \in Nat /\ t \in [1..n -> Symbols]
    BY DEF Text
  <1> HIDE DEF g, base, n
  <1>6. Foldable(Readers, Symbols, g, base, n, t)
    BY <1>2, <1>3, <1>5 DEF Foldable
  <1> PICK f : FoldedTo(Readers, g, base, n, t, f)
    BY <1>6, FoldExists
  <1>7. ASSUME NEW T \in SUBSET (1..n), T # {}
        PROVE  T \ {Max(T)} \in SUBSET (1..n) /\ t[Max(T)] \in Symbols
    BY <1>5, <1>7, LastPosition
  <1>8. Fold(f)
    <2>1. ASSUME NEW T \in SUBSET (1..n)
          PROVE  f[T] = IF T = {} THEN base ELSE TextStep(f[T \ {Max(T)}], t[Max(T)])
      BY <1>4, <1>7 DEF FoldStep, FoldedTo
    <2>2. QED
      BY <1>5, <2>1 DEF FoldedTo
  <1>9. Fold(c)
    <2> HIDE DEF Fold
    <2>1. QED
      BY <1>8
  <1> HIDE DEF c
  <1>10. ASSUME NEW T \in SUBSET (1..n)
         PROVE  IF T = {} THEN c[T] = base
                ELSE c[T \ {Max(T)}] \in Readers => c[T] = FoldStep(g, base, t, c, T)
    <2>1. c[T] = IF T = {} THEN base ELSE TextStep(c[T \ {Max(T)}], t[Max(T)])
      BY <1>5, <1>9
    <2>2. QED
      BY <1>4, <1>7, <2>1 DEF FoldStep
  <1>11. PICK r \in [0..n -> Readers] : Runs(g, base, n, t, r) /\ c[1..n] = r[n]
    <2>1. FoldsOn(Readers, g, base, n, t, c)
      BY <1>10 DEF FoldsOn
    <2>2. QED
      BY <1>6, <2>1, FoldRuns
  <1>12. \A k \in 1..n : r[k] = TextStep(r[k - 1], t[k])
    <2>1. \A k \in 1..n : k - 1 \in 0..n
      BY <1>5
    <2>2. QED
      BY <1>4, <1>5, <1>11, <2>1 DEF Runs
  <1>13. PushText(p, t) = [r[n].parser EXCEPT !.line = @ \o r[n].part]
    BY <1>1, <1>5, <1>11 DEF PushText, base
  <1>14. QED
    BY <1>11, <1>12, <1>13 DEF Runs, base, n

\* The sequence facts that the parser's lines need
Associates(a, b, c) == (a \o b) \o c = a \o (b \o c)

LEMMA JoinAssociates ==
  ASSUME NEW a \in Text, NEW b \in Text, NEW c \in Text
  PROVE  Associates(a, b, c)
  BY ConcatAssociative DEF Text, Associates

LEMMA JoinEmpty ==
  ASSUME NEW a \in Text
  PROVE  a \o <<>> = a
  BY ConcatEmptySeq DEF Text

LEMMA Appends ==
  ASSUME NEW a \in Text, NEW b \in Text, NEW x \in Symbols
  PROVE  /\ a \o Append(b, x) = Append(a \o b, x)
         /\ Append(a, x) # <<>>
         /\ Last(Append(a, x)) = x
  <1>1. a \o Append(b, x) = Append(a \o b, x)
    <2>1. Append(b, x) \in Seq(Symbols) /\ a \o b \in Seq(Symbols)
      BY DEF Text
    <2>2. /\ Len(a \o Append(b, x)) = Len(a) + Len(b) + 1
          /\ Len(Append(a \o b, x)) = Len(a) + Len(b) + 1
          /\ Len(a) \in Nat /\ Len(b) \in Nat
      BY <2>1 DEF Text
    <2>3. ASSUME NEW i \in 1..(Len(a) + Len(b) + 1)
          PROVE  (a \o Append(b, x))[i] = Append(a \o b, x)[i]
      BY <2>1, <2>2 DEF Text
    <2>4. a \o Append(b, x) \in Seq(Symbols) /\ Append(a \o b, x) \in Seq(Symbols)
      BY <2>1 DEF Text
    <2>5. QED
      BY <2>2, <2>3, <2>4, SeqEqual
  <1>2. Append(a, x) # <<>> /\ Last(Append(a, x)) = x
    BY DEF Text, Last
  <1>3. QED
    BY <1>1, <1>2

LEMMA Fronts ==
  ASSUME NEW w \in Text, w # <<>>
  PROVE  /\ Front(w) \in Text /\ Len(Front(w)) = Len(w) - 1
         /\ \A i \in 1..(Len(w) - 1) : Front(w)[i] = w[i]
  <1>1. Len(w) \in Nat /\ Len(w) >= 1 /\ \A i \in 1..(Len(w) - 1) : w[i] \in Symbols
    BY DEF Text
  <1> DEFINE n == Len(w) - 1
  <1>2. n \in Nat /\ n - 1 + 1 = n /\ \A i \in 1..n : 1 + i - 1 = i
    BY <1>1
  <1> HIDE DEF n
  <1>3. /\ SubSeq(w, 1, n) \in Seq(Symbols)
        /\ Len(SubSeq(w, 1, n)) = n
        /\ \A i \in 1..n : SubSeq(w, 1, n)[i] = w[i]
    <2>1. \A i \in 1..n : w[i] \in Symbols
      BY <1>1 DEF n
    <2>2. QED
      BY <1>2, <2>1, SubSeqProperties
  <1>4. QED
    BY <1>3 DEF Front, Text, n

LEMMA FrontOfJoin ==
  ASSUME NEW a \in Text, NEW b \in Text, b # <<>>
  PROVE  Last(a \o b) = Last(b) /\ Front(a \o b) = a \o Front(b) /\ a \o b # <<>>
  <1>1. /\ a \o b \in Seq(Symbols) /\ Len(a \o b) = Len(a) + Len(b) /\ a \o b # <<>>
        /\ Len(a) \in Nat /\ Len(b) \in Nat /\ Len(b) >= 1
    BY DEF Text
  <1>2. Last(a \o b) = Last(b)
    BY <1>1 DEF Text, Last
  <1>3. Front(a \o b) = a \o Front(b)
    <2>1. Front(b) \in Seq(Symbols) /\ Len(Front(b)) = Len(b) - 1
      BY Fronts DEF Text
    <2>2. /\ Front(a \o b) \in Seq(Symbols) /\ Len(Front(a \o b)) = Len(a) + Len(b) - 1
          /\ \A i \in 1..(Len(a) + Len(b) - 1) : Front(a \o b)[i] = (a \o b)[i]
      <3> DEFINE w == a \o b
      <3>1. w \in Text /\ w # <<>> /\ Len(w) = Len(a) + Len(b)
        BY <1>1 DEF Text
      <3> HIDE DEF w
      <3>2. /\ Front(w) \in Text /\ Len(Front(w)) = Len(w) - 1
            /\ \A i \in 1..(Len(w) - 1) : Front(w)[i] = w[i]
        BY <3>1, Fronts
      <3> DEFINE n == Len(a) + Len(b) - 1
      <3>3. Len(w) - 1 = n
        BY <1>1, <3>1
      <3> HIDE DEF n
      <3>4. Front(w) \in Text /\ Len(Front(w)) = n /\ \A i \in 1..n : Front(w)[i] = w[i]
        BY ONLY <3>2, <3>3
      <3>5. QED
        BY ONLY <3>4 DEF w, n, Text
    <2>3. a \o Front(b) \in Seq(Symbols) /\ Len(a \o Front(b)) = Len(a) + Len(b) - 1
      BY <1>1, <2>1 DEF Text
    <2>4. ASSUME NEW i \in 1..(Len(a) + Len(b) - 1)
          PROVE  Front(a \o b)[i] = (a \o Front(b))[i]
      <3>1. Front(a \o b)[i] = (a \o b)[i]
        BY <2>2
      <3>2. i > Len(a) => Front(b)[i - Len(a)] = b[i - Len(a)]
        <4>1. i > Len(a) => i - Len(a) \in 1..(Len(b) - 1)
          BY <1>1
        <4>2. QED
          BY <4>1, Fronts
      <3>3. QED
        BY <1>1, <2>1, <3>1, <3>2 DEF Text
    <2>5. QED
      BY <2>2, <2>3, <2>4, SeqEqual
  <1>4. QED
    BY <1>1, <1>2, <1>3

LEMMA Strips ==
  ASSUME NEW a \in Text, NEW b \in Text
  PROVE  /\ b # <<>> => StripCr(a \o b) = a \o StripCr(b)
         /\ ~(a # <<>> /\ Last(a) = "cr") => StripCr(a) = a
  <1>1. ASSUME b # <<>> PROVE StripCr(a \o b) = a \o StripCr(b)
    BY <1>1, FrontOfJoin DEF StripCr
  <1>2. QED
    BY <1>1 DEF StripCr

\* The field of undecoded bytes takes no part in push_text.
Waiting(p, u) == [p EXCEPT !.undecoded = u]

LEMMA WaitingType ==
  ASSUME NEW p \in Parsers, NEW u \in {<<>>, <<"u1">>}
  PROVE  Waiting(p, u) \in Parsers
  BY DEF Waiting, Parsers

LEMMA ProcessLineWaits ==
  ASSUME NEW p \in Parsers, NEW u, NEW line
  PROVE  ProcessLine([Waiting(p, u) EXCEPT !.line = <<>>], line)
            = Waiting(ProcessLine([p EXCEPT !.line = <<>>], line), u)
  BY DEF ProcessLine, Waiting, Parsers

LEMMA LineWaits ==
  ASSUME NEW p \in Parsers, NEW u, NEW part
  PROVE  [Waiting(p, u) EXCEPT !.line = @ \o part] = Waiting([p EXCEPT !.line = @ \o part], u)
  BY DEF Waiting, Parsers

\* Two readers that differ in the undecoded bytes only
SameBut(u, a, b) == b.parser = Waiting(a.parser, u) /\ b.part = a.part

LEMMA StepWaits ==
  ASSUME NEW a \in Readers, NEW b \in Readers, NEW c, NEW u, SameBut(u, a, b)
  PROVE  SameBut(u, TextStep(a, c), TextStep(b, c))
  <1>1. /\ a.parser \in Parsers /\ b.parser = Waiting(a.parser, u) /\ b.part = a.part
    BY ReaderParts DEF SameBut
  <1>2. b.parser.line = a.parser.line
    BY <1>1 DEF Waiting, Parsers
  <1>3. CASE c = "lf"
    <2> DEFINE l == a.parser.line \o StripCr(a.part)
    <2>1. /\ TextStep(a, c).parser = ProcessLine([a.parser EXCEPT !.line = <<>>], l)
          /\ TextStep(a, c).part = <<>>
      BY <1>3, LineStep
    <2>2. /\ TextStep(b, c).parser = ProcessLine([b.parser EXCEPT !.line = <<>>], l)
          /\ TextStep(b, c).part = <<>>
      BY <1>1, <1>2, <1>3, LineStep
    <2> HIDE DEF l
    <2>3. ProcessLine([b.parser EXCEPT !.line = <<>>], l)
             = Waiting(ProcessLine([a.parser EXCEPT !.line = <<>>], l), u)
      BY <1>1, ProcessLineWaits
    <2>4. QED
      BY <2>1, <2>2, <2>3 DEF SameBut
  <1>4. CASE c # "lf"
    <2>1. TextStep(a, c).parser = a.parser /\ TextStep(a, c).part = Append(a.part, c)
      BY <1>4, PartStep
    <2>2. TextStep(b, c).parser = b.parser /\ TextStep(b, c).part = Append(b.part, c)
      BY <1>4, PartStep
    <2>3. QED
      BY <1>1, <2>1, <2>2 DEF SameBut
  <1>5. QED
    BY <1>3, <1>4

\* push_text and the undecoded bytes do not touch each other.
LEMMA PushTextWaits ==
  ASSUME NEW p \in Parsers, NEW t \in Text, NEW u \in {<<>>, <<"u1">>}
  PROVE  PushText(Waiting(p, u), t) = Waiting(PushText(p, t), u)
  <1> DEFINE n == Len(t)
  <1>1. PICK r \in [0..n -> Readers] :
            /\ r[0] = [parser |-> p, part |-> <<>>]
            /\ \A k \in 1..n : r[k] = TextStep(r[k - 1], t[k])
            /\ PushText(p, t) = [r[n].parser EXCEPT !.line = @ \o r[n].part]
    BY TextRuns
  <1>2. PICK q \in [0..n -> Readers] :
            /\ q[0] = [parser |-> Waiting(p, u), part |-> <<>>]
            /\ \A k \in 1..n : q[k] = TextStep(q[k - 1], t[k])
            /\ PushText(Waiting(p, u), t) = [q[n].parser EXCEPT !.line = @ \o q[n].part]
    BY TextRuns, WaitingType
  <1> DEFINE Same(k) == SameBut(u, r[k], q[k])
  <1>3. n \in Nat
    BY DEF Text
  <1> HIDE DEF n
  <1>4. Same(0)
    BY <1>1, <1>2 DEF SameBut
  <1>5. ASSUME NEW k \in 1..n, Same(k - 1) PROVE Same(k)
    <2>1. k - 1 \in 0..n
      BY <1>3
    <2>2. r[k - 1] \in Readers /\ q[k - 1] \in Readers
      BY <2>1
    <2>3. q[k] = TextStep(q[k - 1], t[k]) /\ r[k] = TextStep(r[k - 1], t[k])
      BY <1>1, <1>2
    <2>4. QED
      BY <1>5, <2>2, <2>3, StepWaits
  <1>6. Same(n)
    <2> DEFINE G == {k \in 0..n : Same(k)}
    <2> HIDE DEF Same
    <2>1. 0 \in G /\ \A k \in 1..n : k - 1 \in G => k \in G
      BY <1>3, <1>4, <1>5
    <2> HIDE DEF G
    <2>2. n \in G
      BY <1>3, <2>1, Reaches
    <2>3. QED
      BY <2>2 DEF G
  <1>7. r[n].parser \in Parsers
    BY <1>3 DEF Readers
  <1>8. PushText(Waiting(p, u), t) = [Waiting(r[n].parser, u) EXCEPT !.line = @ \o r[n].part]
    BY <1>2, <1>6 DEF SameBut
  <1>9. PushText(p, t) = [r[n].parser EXCEPT !.line = @ \o r[n].part]
    BY <1>1
  <1> DEFINE x == r[n].parser
             l == r[n].part
  <1> HIDE DEF x, l
  <1>10. [Waiting(x, u) EXCEPT !.line = @ \o l] = Waiting([x EXCEPT !.line = @ \o l], u)
    BY <1>7, LineWaits DEF x
  <1>11. QED
    BY ONLY <1>8, <1>9, <1>10 DEF x, l

LEMMA PushTextType ==
  ASSUME NEW p \in Parsers, NEW t \in Text
  PROVE  PushText(p, t) \in Parsers
  <1>1. PICK r \in [0..Len(t) -> Readers] :
           PushText(p, t) = [r[Len(t)].parser EXCEPT !.line = @ \o r[Len(t)].part]
    BY TextRuns
  <1>2. Len(t) \in 0..Len(t)
    BY DEF Text
  <1> DEFINE x == r[Len(t)].parser
             l == r[Len(t)].part
  <1>3. x \in Parsers /\ l \in Text /\ PushText(p, t) = [x EXCEPT !.line = @ \o l]
    BY <1>1, <1>2 DEF Readers
  <1> HIDE DEF x, l
  <1>4. x.line \o l \in Text
    BY <1>3, TextFacts DEF Parsers
  <1>5. QED
    BY <1>3, <1>4 DEF Parsers

\* Where a reader of a whole chunk and one of the chunk's second half are:
\* they agree, or no line has ended since the cut, where the whole one was at
\* the reader m.
Parallel(m, a, b) ==
    \/ a = b
    \/ /\ a.parser = m.parser /\ a.part = m.part \o b.part
       /\ b.parser = [m.parser EXCEPT !.line = @ \o m.part]

\* A line that is cut is read as if it were not, unless the cut parts a
\* carriage return from its line feed.
LEMMA CutLine ==
  ASSUME NEW m \in Readers, NEW b \in Text,
         b # <<>> \/ ~(m.part # <<>> /\ Last(m.part) = "cr")
  PROVE  /\ m.parser.line \in Text
         /\ m.parser.line \o StripCr(m.part \o b) = (m.parser.line \o m.part) \o StripCr(b)
  <1>1. m.parser.line \in Text /\ m.part \in Text
    BY DEF Readers, Parsers
  <1> DEFINE x == m.parser.line
             y == m.part
  <1>2. CASE b # <<>>
    <2>1. StripCr(y \o b) = y \o StripCr(b)
      BY <1>1, <1>2, Strips
    <2>2. StripCr(b) \in Text
      BY TextFacts
    <2> HIDE DEF x, y
    <2>3. (x \o y) \o StripCr(b) = x \o (y \o StripCr(b))
      <3>1. x \in Text /\ y \in Text
        BY <1>1 DEF x, y
      <3>2. Associates(x, y, StripCr(b))
        BY ONLY <2>2, <3>1, JoinAssociates
      <3>3. QED
        BY ONLY <3>2 DEF Associates
    <2>4. x \o StripCr(y \o b) = (x \o y) \o StripCr(b)
      BY <2>1, <2>3
    <2>5. QED
      BY <1>1, <2>4 DEF x, y
  <1>3. CASE b = <<>>
    <2>1. StripCr(y) = y /\ y \o <<>> = y
      BY <1>1, <1>3, Strips, JoinEmpty
    <2>2. StripCr(b) = <<>>
      BY <1>3 DEF StripCr
    <2>3. x \o y \in Text
      BY <1>1, TextFacts
    <2>4. (x \o y) \o <<>> = x \o y
      BY <2>3, JoinEmpty
    <2>5. StripCr(y \o b) = y
      BY <1>3, <2>1
    <2> HIDE DEF x, y
    <2>6. x \o StripCr(y \o b) = (x \o y) \o StripCr(b)
      BY <2>2, <2>4, <2>5
    <2>7. QED
      BY <1>1, <2>6 DEF x, y
  <1>4. QED
    BY <1>1, <1>2, <1>3

LEMMA StepParallel ==
  ASSUME NEW m \in Readers, NEW a \in Readers, NEW b \in Readers, NEW c \in Symbols,
         Parallel(m, a, b),
         c = "lf" => b.part # <<>> \/ ~(m.part # <<>> /\ Last(m.part) = "cr")
  PROVE  /\ Parallel(m, TextStep(a, c), TextStep(b, c))
         /\ c = "lf" => TextStep(a, c) = TextStep(b, c)
  <1>1. CASE a = b
    BY <1>1 DEF Parallel
  <1>2. CASE a # b
    <2>1. /\ a.parser = m.parser /\ a.part = m.part \o b.part
          /\ b.parser = [m.parser EXCEPT !.line = @ \o m.part]
      BY <1>2 DEF Parallel
    <2>2. m.parser \in Parsers /\ m.part \in Text /\ b.part \in Text
      BY ReaderParts
    <2>3. CASE c = "lf"
      <3>1. m.parser.line \o StripCr(m.part \o b.part) = (m.parser.line \o m.part) \o StripCr(b.part)
        BY <2>2, <2>3, CutLine
      <3>2. /\ b.parser.line = m.parser.line \o m.part
            /\ [b.parser EXCEPT !.line = <<>>] = [m.parser EXCEPT !.line = <<>>]
        BY <2>1, <2>2 DEF Parsers
      <3> DEFINE A == TextStep(a, c)
                 B == TextStep(b, c)
      <3>3. /\ A.parser = ProcessLine([a.parser EXCEPT !.line = <<>>], a.parser.line \o StripCr(a.part))
            /\ A.part = <<>>
        BY <2>3, LineStep
      <3>4. /\ B.parser = ProcessLine([b.parser EXCEPT !.line = <<>>], b.parser.line \o StripCr(b.part))
            /\ B.part = <<>>
        BY <2>3, LineStep
      <3>5. A \in Readers /\ B \in Readers
        BY TextStepType
      <3> HIDE DEF A, B
      <3>6. A.parser = B.parser /\ A.part = B.part
        BY <2>1, <3>1, <3>2, <3>3, <3>4
      <3>7. A = B
        BY <3>5, <3>6 DEF Readers
      <3>8. QED
        BY <3>7 DEF Parallel, A, B
    <2>4. CASE c # "lf"
      <3>1. TextStep(a, c).parser = a.parser /\ TextStep(a, c).part = Append(a.part, c)
        BY <2>4, PartStep
      <3>2. TextStep(b, c).parser = b.parser /\ TextStep(b, c).part = Append(b.part, c)
        BY <2>4, PartStep
      <3>3. m.part \o Append(b.part, c) = Append(m.part \o b.part, c)
        BY <2>2, Appends
      <3>4. QED
        BY <2>1, <2>4, <3>1, <3>2, <3>3 DEF Parallel
    <2>5. QED
      BY <2>3, <2>4
  <1>3. QED
    BY <1>1, <1>2

\* A text read in two pieces, in one
LEMMA PushTextJoins ==
  ASSUME NEW p \in Parsers, NEW s \in Text, NEW t \in Text,
         ~(s # <<>> /\ t # <<>> /\ Last(s) = "cr" /\ t[1] = "lf")
  PROVE  PushText(p, s \o t) = PushText(PushText(p, s), t)
  <1> DEFINE i == Len(s)
             j == Len(t)
             st == s \o t
             mid == PushText(p, s)
  <1>1. /\ i \in Nat /\ j \in Nat /\ st \in Text /\ Len(st) = i + j
        /\ \A k \in 1..i : st[k] = s[k] /\ k \in 1..(i + j)
        /\ \A k \in 1..j : st[i + k] = t[k] /\ i + k \in 1..(i + j) /\ t[k] \in Symbols
        /\ (i # 0 => s # <<>> /\ s[i] = Last(s)) /\ (j # 0 => t # <<>>)
    BY DEF Text, Last
  <1>2. mid \in Parsers
    BY PushTextType
  <1>3. PICK r \in [0..(i + j) -> Readers] :
            /\ r[0] = [parser |-> p, part |-> <<>>]
            /\ \A k \in 1..(i + j) : r[k] = TextStep(r[k - 1], st[k])
            /\ PushText(p, st) = [r[i + j].parser EXCEPT !.line = @ \o r[i + j].part]
    <2> HIDE DEF st
    <2>1. \E r \in [0..Len(st) -> Readers] :
            /\ r[0] = [parser |-> p, part |-> <<>>]
            /\ \A k \in 1..Len(st) : r[k] = TextStep(r[k - 1], st[k])
            /\ PushText(p, st) = [r[Len(st)].parser EXCEPT !.line = @ \o r[Len(st)].part]
      BY <1>1, TextRuns
    <2> HIDE DEF i, j
    <2>2. Len(st) = i + j
      BY <1>1
    <2>3. QED
      BY ONLY <2>1, <2>2
  <1>4. PICK q \in [0..i -> Readers] :
            /\ q[0] = [parser |-> p, part |-> <<>>]
            /\ \A k \in 1..i : q[k] = TextStep(q[k - 1], s[k])
            /\ mid = [q[i].parser EXCEPT !.line = @ \o q[i].part]
    BY TextRuns
  <1>5. PICK w \in [0..j -> Readers] :
            /\ w[0] = [parser |-> mid, part |-> <<>>]
            /\ \A k \in 1..j : w[k] = TextStep(w[k - 1], t[k])
            /\ PushText(mid, t) = [w[j].parser EXCEPT !.line = @ \o w[j].part]
    BY <1>2, TextRuns
  <1> HIDE DEF i, j, st, mid
  <1>6. q[i] = r[i]
    <2> DEFINE G == {k \in 0..i : q[k] = r[k]}
    <2>1. 0 \in G
      BY <1>1, <1>3, <1>4
    <2>2. ASSUME NEW k \in 1..i, k - 1 \in G PROVE k \in G
      <3>1. q[k - 1] = r[k - 1]
        BY <2>2
      <3>2. q[k] = TextStep(q[k - 1], s[k]) /\ r[k] = TextStep(r[k - 1], s[k])
        BY <1>1, <1>3, <1>4
      <3>3. QED
        BY <1>1, <3>1, <3>2
    <2> HIDE DEF G
    <2>3. i \in G
      BY <1>1, <2>1, <2>2, Reaches
    <2>4. QED
      BY <2>3 DEF G
  <1> DEFINE m == q[i]
  <1>7. m \in Readers /\ (j # 0 => ~(m.part # <<>> /\ Last(m.part) = "cr") \/ t[1] # "lf")
    <2>1. i \in 0..i
      BY <1>1
    <2>2. CASE i = 0
      BY <1>4, <2>1, <2>2
    <2>3. CASE i # 0
      <3>1. i \in 1..i /\ i - 1 \in 0..i /\ s[i] \in Symbols
        BY <1>1, <2>3 DEF Text, i
      <3>2. q[i - 1] \in Readers /\ m = TextStep(q[i - 1], s[i])
        BY <1>4, <3>1
      <3> HIDE DEF m
      <3>3. m.part = <<>> \/ (q[i - 1].part \in Text /\ m.part = Append(q[i - 1].part, s[i]))
        <4>1. CASE s[i] = "lf"
          BY <3>2, <4>1, LineStep
        <4>2. CASE s[i] # "lf"
          BY <3>2, <4>2, PartStep, ReaderParts
        <4>3. QED
          BY <4>1, <4>2
      <3>4. m.part = <<>> \/ Last(m.part) = s[i]
        <4>1. \A x \in Text : Last(Append(x, s[i])) = s[i]
          BY <3>1, Appends
        <4>2. QED
          BY <3>3, <4>1
      <3>5. m \in Readers
        BY <2>1 DEF m
      <3>6. QED
        BY <1>1, <2>3, <3>4, <3>5 DEF m
    <2>4. QED
      BY <2>2, <2>3
  <1> DEFINE Par(k) == Parallel(m, r[i + k], w[k]) /\ (k # 0 => w[k].part # <<>> \/ r[i + k] = w[k])
  <1>8. Par(0)
    <2>1. /\ w[0].part = <<>> /\ w[0].parser = [m.parser EXCEPT !.line = @ \o m.part]
      BY <1>4, <1>5
    <2>2. r[i + 0] = m /\ m.part \o <<>> = m.part
      <3>1. i + 0 = i
        BY <1>1
      <3>2. m.part \in Text
        BY <1>7, ReaderParts
      <3>3. QED
        BY <1>6, <3>1, <3>2, JoinEmpty
    <2> HIDE DEF m
    <2>3. QED
      BY <2>1, <2>2 DEF Parallel
  <1>9. ASSUME NEW k \in 1..j, Par(k - 1) PROVE Par(k)
    <2> DEFINE a == r[i + (k - 1)]
               b == w[k - 1]
    <2>1. /\ k - 1 \in 0..j /\ i + (k - 1) \in 0..(i + j) /\ (i + k) - 1 = i + (k - 1)
          /\ t[k] \in Symbols /\ i + k \in 1..(i + j) /\ st[i + k] = t[k] /\ j # 0
      BY <1>1
    <2>2. a \in Readers /\ b \in Readers /\ b.part \in Text
      BY <2>1, ReaderParts
    <2>3. r[i + k] = TextStep(a, t[k]) /\ w[k] = TextStep(b, t[k])
      BY <1>3, <1>5, <2>1
    <2>4. Parallel(m, a, b) /\ (k - 1 # 0 => b.part # <<>> \/ a = b)
      BY <1>9
    <2> HIDE DEF a, b, m
    <2>5. CASE a = b
      BY <2>3, <2>5 DEF Parallel
    <2>6. CASE a # b
      <3>1. t[k] = "lf" => b.part # <<>> \/ ~(m.part # <<>> /\ Last(m.part) = "cr")
        <4>1. CASE k = 1
          BY <1>7, <2>1, <4>1
        <4>2. CASE k # 1
          BY <2>1, <2>4, <2>6, <4>2
        <4>3. QED
          BY <4>1, <4>2
      <3>2. Parallel(m, r[i + k], w[k]) /\ (t[k] = "lf" => r[i + k] = w[k])
        BY <1>7, <2>1, <2>2, <2>3, <2>4, <3>1, StepParallel
      <3>3. CASE t[k] = "lf"
        BY <3>2, <3>3
      <3>4. CASE t[k] # "lf"
        <4>1. w[k].part = Append(b.part, t[k])
          BY <2>2, <2>3, <3>4, PartStep
        <4>2. w[k].part # <<>>
          BY <2>1, <2>2, <4>1, Appends
        <4>3. QED
          BY <3>2, <4>2
      <3>5. QED
        BY <3>3, <3>4
    <2>7. QED
      BY <2>5, <2>6
  <1>10. Par(j)
    <2> DEFINE G == {k \in 0..j : Par(k)}
    <2> HIDE DEF Par
    <2>1. 0 \in G /\ \A k \in 1..j : k - 1 \in G => k \in G
      BY <1>1, <1>8, <1>9
    <2> HIDE DEF G
    <2>2. j \in G
      BY <1>1, <2>1, Reaches
    <2>3. QED
      BY <2>2 DEF G
  <1> DEFINE a == r[i + j]
             b == w[j]
  <1>11. /\ PushText(p, st) = [a.parser EXCEPT !.line = @ \o a.part]
         /\ PushText(mid, t) = [b.parser EXCEPT !.line = @ \o b.part]
         /\ Parallel(m, a, b) /\ b \in Readers
    BY <1>1, <1>3, <1>5, <1>10
  <1>12. m.parser \in Parsers /\ m.part \in Text /\ b.part \in Text /\ m.parser.line \in Text
    <2>1. m.parser \in Parsers /\ m.part \in Text /\ b.part \in Text
      BY <1>7, <1>11, ReaderParts
    <2>2. QED
      BY <2>1 DEF Parsers
  <1> HIDE DEF m, a, b
  <1>13. PushText(p, st) = PushText(mid, t)
    <2>1. CASE a = b
      BY <1>11, <2>1
    <2>2. CASE a # b
      <3>1. /\ a.parser = m.parser /\ a.part = m.part \o b.part
            /\ b.parser = [m.parser EXCEPT !.line = @ \o m.part]
        BY <1>11, <2>2 DEF Parallel
      <3>2. (m.parser.line \o m.part) \o b.part = m.parser.line \o (m.part \o b.part)
        <4> DEFINE x == m.parser.line
                   y == m.part
                   z == b.part
        <4>1. x \in Text /\ y \in Text /\ z \in Text
          BY <1>12
        <4> HIDE DEF x, y, z
        <4>2. Associates(x, y, z)
          BY ONLY <4>1, JoinAssociates
        <4>3. QED
          BY ONLY <4>2 DEF x, y, z, Associates
      <3>3. PushText(p, st) = [m.parser EXCEPT !.line = m.parser.line \o (m.part \o b.part)]
        BY <1>11, <3>1
      <3>4. PushText(mid, t) = [m.parser EXCEPT !.line = (m.parser.line \o m.part) \o b.part]
        BY <1>11, <1>12, <3>1 DEF Parsers
      <3>5. QED
        BY <3>2, <3>3, <3>4
    <2>3. QED
      BY <2>1, <2>2
  <1>14. QED
    BY <1>13 DEF st, mid

\* What push does with the bytes it has: it decodes all but a character that
\* is cut at their end.
Decodes(b) == ~\E i \in DOMAIN b : BadAt(b, i)
Torn(b) == b # <<>> /\ Last(b) = "u1"
Held(b) == IF Torn(b) THEN <<"u1">> ELSE <<>>
Rest(b) == IF Torn(b) THEN Front(b) ELSE b

LEMMA PushIs ==
  ASSUME NEW p, NEW c, NEW b, p.ok, p.undecoded \o c = b
  PROVE  Push(p, c) = IF Decodes(b) THEN PushText(Waiting(p, Held(b)), Rest(b))
                      ELSE [p EXCEPT !.ok = FALSE]
  BY DEF Push, Decodes, Held, Rest, Torn, Waiting

\* A join, position by position
LEMMA Joined ==
  ASSUME NEW a \in Text, NEW b \in Text
  PROVE  /\ a \o b \in Text /\ Len(a \o b) = Len(a) + Len(b)
         /\ Len(a) \in Nat /\ Len(b) \in Nat
         /\ \A i \in 1..Len(a) : (a \o b)[i] = a[i]
         /\ \A i \in 1..Len(b) : (a \o b)[Len(a) + i] = b[i]
  BY DEF Text

\* Bytes are what is decoded of them and what is held back.
LEMMA HeldFacts ==
  ASSUME NEW b \in Text
  PROVE  /\ Held(b) \in Text /\ Held(b) \in {<<>>, <<"u1">>} /\ Rest(b) \in Text
         /\ b = Rest(b) \o Held(b)
         /\ Len(b) = Len(Rest(b)) + Len(Held(b))
         /\ Held(b) = <<>> => Rest(b) = b /\ ~Torn(b)
         /\ Held(b) # <<>> => Len(Held(b)) = 1 /\ Held(b)[1] = "u1"
  <1>1. CASE Torn(b)
    <2>1. /\ Front(b) \in Text /\ Len(Front(b)) = Len(b) - 1
          /\ \A i \in 1..(Len(b) - 1) : Front(b)[i] = b[i]
      BY <1>1, Fronts DEF Torn
    <2>2. Len(b) \in Nat /\ Len(b) >= 1 /\ b[Len(b)] = "u1" /\ b[Len(b)] \in Symbols
      BY <1>1 DEF Torn, Last, Text
    <2>3. <<"u1">> \in Seq(Symbols) /\ Len(<<"u1">>) = 1 /\ <<"u1">>[1] = "u1"
      BY <2>2
    <2>4. b = Front(b) \o <<"u1">>
      <3> DEFINE f == Front(b)
                 h == <<"u1">>
                 w == f \o h
      <3>1. f \in Text /\ h \in Text /\ Len(f) = Len(b) - 1 /\ Len(h) = 1
        BY <2>1, <2>3 DEF Text
      <3>2. h[1] = "u1" /\ \A i \in 1..(Len(b) - 1) : f[i] = b[i]
        BY <2>1
      <3> HIDE DEF f, h
      <3>3. /\ w \in Text /\ Len(w) = Len(f) + Len(h)
            /\ \A i \in 1..Len(f) : w[i] = f[i]
            /\ \A i \in 1..Len(h) : w[Len(f) + i] = h[i]
        BY <3>1, Joined
      <3> HIDE DEF w
      <3>4. Len(w) = Len(b) /\ 1 \in 1..Len(h) /\ Len(f) + 1 = Len(b) /\ w[Len(b)] = "u1"
        <4>1. Len(w) = Len(b) /\ 1 \in 1..Len(h) /\ Len(f) + 1 = Len(b)
          BY <2>2, <3>1, <3>3
        <4>2. QED
          BY <3>2, <3>3, <4>1
      <3>5. ASSUME NEW i \in 1..Len(b) PROVE w[i] = b[i]
        <4>1. CASE i = Len(b)
          BY <2>2, <3>4, <4>1
        <4>2. CASE i # Len(b)
          <5>1. i \in 1..(Len(b) - 1) /\ i \in 1..Len(f)
            BY <2>2, <3>1, <4>2
          <5>2. QED
            BY <3>2, <3>3, <5>1
        <4>3. QED
          BY <4>1, <4>2
      <3>6. b = w
        BY <3>3, <3>4, <3>5, SeqEqual DEF Text
      <3>7. QED
        BY <3>6 DEF f, h, w
    <2>5. QED
      BY <1>1, <2>1, <2>2, <2>3, <2>4 DEF Held, Rest, Text
  <1>2. CASE ~Torn(b)
    <2>1. Held(b) = <<>> /\ Rest(b) = b
      BY <1>2 DEF Held, Rest
    <2>2. <<>> \in Text /\ b \o <<>> = b /\ Len(b) \in Nat /\ Len(<<>>) = 0
      BY TextFacts, JoinEmpty DEF Text
    <2>3. QED
      BY <1>2, <2>1, <2>2
  <1>3. QED
    BY <1>1, <1>2

\* No character is malformed at i, and the decoder needs no byte after b's end.
WholeAt(b, i) ==
    /\ b[i] = "u1" => i = Len(b) \/ b[i + 1] = "u2"
    /\ b[i] = "u2" => i # 1 /\ b[i - 1] = "u1"

LEMMA DecodesIs ==
  ASSUME NEW b \in Text
  PROVE  Decodes(b) <=> \A i \in 1..Len(b) : WholeAt(b, i)
  <1>1. DOMAIN b = 1..Len(b) /\ Len(b) \in Nat
    BY DEF Text
  <1>2. ASSUME NEW i \in 1..Len(b)
        PROVE  ~BadAt(b, i) <=> WholeAt(b, i)
    <2>1. i < Len(b) <=> i # Len(b)
      <3> DEFINE n == Len(b)
      <3>1. n \in Nat /\ i \in 1..n
        BY <1>1
      <3> HIDE DEF n
      <3>2. i < n <=> i # n
        BY ONLY <3>1
      <3>3. QED
        BY <3>2 DEF n
    <2>2. "u1" # "u2"
      OBVIOUS
    <2>3. QED
      BY <2>1, <2>2 DEF BadAt, WholeAt
  <1>3. QED
    BY <1>1, <1>2 DEF Decodes

\* Decoding bytes that arrive in two chunks: what the first leaves undecoded
\* is put before the second.
LEMMA Split ==
  ASSUME NEW x \in Text, NEW y \in Text
  PROVE  /\ Held(x) \o y \in Text
         /\ x \o y \in Text
         /\ x \o y = Rest(x) \o (Held(x) \o y)
         /\ Held(x) = <<>> => Held(x) \o y = y
  <1>1. Held(x) \in Text /\ Rest(x) \in Text /\ x = Rest(x) \o Held(x)
    BY HeldFacts
  <1>2. Held(x) \o y \in Text /\ x \o y \in Text
    BY <1>1, TextFacts
  <1>3. (Rest(x) \o Held(x)) \o y = Rest(x) \o (Held(x) \o y)
    <2>1. Associates(Rest(x), Held(x), y)
      BY <1>1, JoinAssociates
    <2>2. QED
      BY ONLY <2>1 DEF Associates
  <1>4. <<>> \o y = y
    BY ConcatEmptySeq DEF Text
  <1>5. QED
    BY <1>1, <1>2, <1>3, <1>4

\* A stream that is malformed after its first chunk stays malformed;
LEMMA DecodesFirst ==
  ASSUME NEW x \in Text, NEW y \in Text, Decodes(x \o y)
  PROVE  Decodes(x)
  <1> DEFINE w == x \o y
  <1>1. /\ w \in Text /\ Len(w) = Len(x) + Len(y)
        /\ Len(x) \in Nat /\ Len(y) \in Nat
        /\ \A i \in 1..Len(x) : w[i] = x[i]
    BY Joined
  <1> HIDE DEF w
  <1>2. \A i \in 1..Len(w) : WholeAt(w, i)
    BY <1>1, DecodesIs DEF w
  <1>3. ASSUME NEW i \in 1..Len(x)
        PROVE  WholeAt(x, i)
    <2>1. /\ i \in 1..Len(w)
          /\ i # Len(x) => i + 1 \in 1..Len(x) /\ i # Len(w)
          /\ i # 1 => i - 1 \in 1..Len(x)
      BY <1>1
    <2>2. QED
      BY <1>1, <1>2, <2>1 DEF WholeAt
  <1>4. QED
    BY <1>3, DecodesIs

\* and after a first chunk that is not, it depends on what is read next.
LEMMA DecodesRest ==
  ASSUME NEW x \in Text, NEW y \in Text, Decodes(x)
  PROVE  Decodes(x \o y) <=> Decodes(Held(x) \o y)
  <1> DEFINE w == x \o y
             b == Held(x) \o y
             d == Len(Rest(x))
             h == Len(Held(x))
  <1>1. /\ w \in Text /\ Len(w) = Len(x) + Len(y)
        /\ Len(x) \in Nat /\ Len(y) \in Nat
        /\ \A i \in 1..Len(x) : w[i] = x[i]
    BY Joined
  <1>2. b \in Text /\ w = Rest(x) \o b
    BY Split
  <1>3. /\ Held(x) \in Text /\ Rest(x) \in Text /\ Len(x) = d + h
        /\ Held(x) = <<>> => Rest(x) = x /\ ~Torn(x)
        /\ Held(x) # <<>> => h = 1 /\ Held(x)[1] = "u1"
    BY HeldFacts
  <1>4. /\ Len(b) = h + Len(y) /\ h \in Nat /\ d \in Nat /\ Len(b) \in Nat
        /\ h # 0 => b[1] = "u1" /\ h = 1
    <2>1. /\ Len(b) = h + Len(y) /\ h \in Nat
          /\ \A i \in 1..h : b[i] = Held(x)[i]
      BY <1>3, Joined
    <2>2. d \in Nat /\ (Held(x) = <<>> => h = 0)
      BY <1>3 DEF Text
    <2> HIDE DEF b, h, d
    <2>3. h = 1 => 1 \in 1..h
      OBVIOUS
    <2>4. QED
      BY <1>1, <1>3, <2>1, <2>2, <2>3
  <1>5. Len(w) = d + Len(b) /\ \A i \in 1..Len(b) : w[d + i] = b[i]
    <2> HIDE DEF b, w
    <2>1. /\ Len(Rest(x) \o b) = d + Len(b) /\ \A i \in 1..Len(b) : (Rest(x) \o b)[d + i] = b[i]
      BY <1>2, <1>3, Joined
    <2>2. QED
      BY <1>2, <2>1
  <1>6. h = 0 => Len(x) = d /\ (d # 0 => x[d] # "u1")
    <2>1. h = 0 => Held(x) = <<>>
      BY <1>3
    <2>2. Held(x) = <<>> /\ Len(x) # 0 => x[Len(x)] # "u1"
      <3>1. Len(x) # 0 => x # <<>>
        BY DEF Text
      <3>2. QED
        BY <1>3, <3>1 DEF Torn, Last
    <2>3. QED
      BY <1>3, <1>4, <2>1, <2>2
  <1>7. /\ Decodes(x) <=> \A i \in 1..Len(x) : WholeAt(x, i)
        /\ Decodes(w) <=> \A i \in 1..Len(w) : WholeAt(w, i)
        /\ Decodes(b) <=> \A i \in 1..Len(b) : WholeAt(b, i)
    <2> HIDE DEF w, b
    <2>1. QED
      BY <1>1, <1>2, DecodesIs
  <1> HIDE DEF w, b, h, d
  <1>8. ASSUME NEW i \in 1..Len(b), WholeAt(w, d + i) PROVE WholeAt(b, i)
    <2>1. b[i] = "u1" => i = Len(b) \/ b[i + 1] = "u2"
      <3>1. ASSUME i # Len(b) PROVE w[d + i + 1] = b[i + 1] /\ d + i # Len(w) /\ w[d + i] = b[i]
        <4>1. i + 1 \in 1..Len(b) /\ d + (i + 1) = d + i + 1 /\ d + i # d + Len(b)
          BY <1>4, <3>1
        <4>2. QED
          BY <1>5, <4>1
      <3>2. QED
        BY <1>8, <3>1 DEF WholeAt
    <2>2. b[i] = "u2" => i # 1 /\ b[i - 1] = "u1"
      <3>1. ASSUME b[i] = "u2" PROVE d + i # 1 /\ w[(d + i) - 1] = "u1"
        <4>1. w[d + i] = "u2"
          BY <1>5, <3>1
        <4>2. QED
          BY <1>8, <4>1 DEF WholeAt
      <3>2. ASSUME i # 1 PROVE w[(d + i) - 1] = b[i - 1]
        <4>1. i - 1 \in 1..Len(b) /\ d + (i - 1) = (d + i) - 1
          BY <1>4, <3>2
        <4>2. QED
          BY <1>5, <4>1
      <3>3. ASSUME i = 1, b[i] = "u2" PROVE FALSE
        <4>1. h = 0
          BY <1>4, <3>3
        <4>2. d # 0 /\ w[d] = "u1"
          <5>1. d + 1 # 1 /\ d + 1 - 1 = d
            BY <1>4, <3>1, <3>3
          <5>2. QED
            BY <1>4, <3>1, <3>3, <5>1
        <4>3. d \in 1..Len(x)
          BY <1>4, <1>6, <4>1, <4>2
        <4>4. QED
          BY <1>1, <1>6, <4>1, <4>2, <4>3
      <3>4. QED
        BY <3>1, <3>2, <3>3
    <2>3. QED
      BY ONLY <2>1, <2>2 DEF WholeAt
  <1>9. ASSUME NEW i \in 1..d, \A k \in 1..Len(x) : WholeAt(x, k) PROVE WholeAt(w, i)
    <2>1. i \in 1..Len(x) /\ w[i] = x[i] /\ WholeAt(x, i)
      <3>1. i \in 1..Len(x)
        BY <1>3, <1>4
      <3>2. QED
        BY <1>1, <1>9, <3>1
    <2>2. w[i] = "u1" => i = Len(w) \/ w[i + 1] = "u2"
      <3>1. CASE i = Len(x)
        <4>1. h = 0 /\ d = i /\ d # 0
          BY <1>3, <1>4, <3>1
        <4>2. QED
          BY <1>6, <2>1, <4>1
      <3>2. CASE i # Len(x)
        <4>1. i + 1 \in 1..Len(x)
          BY <1>1, <2>1, <3>2
        <4>2. QED
          BY <1>1, <2>1, <3>2, <4>1 DEF WholeAt
      <3>3. QED
        BY <3>1, <3>2
    <2>3. w[i] = "u2" => i # 1 /\ w[i - 1] = "u1"
      <3>1. i # 1 => i - 1 \in 1..Len(x)
        BY <1>1, <2>1
      <3>2. QED
        BY <1>1, <2>1, <3>1 DEF WholeAt
    <2>4. QED
      BY ONLY <2>2, <2>3 DEF WholeAt
  <1>10. ASSUME NEW i \in 1..Len(b), WholeAt(b, i) PROVE WholeAt(w, d + i)
    <2>1. w[d + i] = b[i]
      BY <1>5
    <2>2. b[i] = "u1" => d + i = Len(w) \/ w[d + i + 1] = "u2"
      <3>1. CASE i = Len(b)
        BY <1>5, <3>1
      <3>2. CASE i # Len(b)
        <4>1. i + 1 \in 1..Len(b) /\ d + (i + 1) = d + i + 1
          BY <1>4, <3>2
        <4>2. QED
          BY <1>5, <1>10, <3>2, <4>1 DEF WholeAt
      <3>3. QED
        BY <3>1, <3>2
    <2>3. b[i] = "u2" => d + i # 1 /\ w[(d + i) - 1] = "u1"
      <3>1. ASSUME b[i] = "u2" PROVE i # 1 /\ b[i - 1] = "u1"
        BY <1>10, <3>1 DEF WholeAt
      <3>2. i # 1 => i - 1 \in 1..Len(b) /\ d + (i - 1) = (d + i) - 1 /\ d + i # 1
        BY <1>4
      <3>3. QED
        <4>1. ASSUME i # 1 PROVE w[d + (i - 1)] = b[i - 1]
          BY <1>5, <3>2, <4>1
        <4>2. ASSUME i # 1 PROVE w[(d + i) - 1] = b[i - 1]
          BY <3>2, <4>1, <4>2
        <4>3. QED
          BY <3>1, <3>2, <4>2
    <2> DEFINE k == d + i
    <2>4. /\ w[k] = "u1" => k = Len(w) \/ w[k + 1] = "u2"
          /\ w[k] = "u2" => k # 1 /\ w[k - 1] = "u1"
      BY <2>1, <2>2, <2>3
    <2> HIDE DEF k
    <2>5. WholeAt(w, k)
      BY ONLY <2>4 DEF WholeAt
    <2>6. QED
      BY <2>5 DEF k
  <1>11. Decodes(w) => Decodes(b)
    <2>1. \A i \in 1..Len(b) : d + i \in 1..Len(w)
      BY <1>4, <1>5
    <2>2. QED
      BY <1>7, <1>8, <2>1
  <1>12. Decodes(b) => Decodes(w)
    <2>1. ASSUME Decodes(b), NEW i \in 1..Len(w) PROVE WholeAt(w, i)
      <3>1. CASE i <= d
        <4>1. i \in 1..d
          BY <1>4, <3>1
        <4>2. QED
          BY <1>7, <1>9, <4>1
      <3>2. CASE ~(i <= d)
        <4>1. i - d \in 1..Len(b) /\ d + (i - d) = i
          BY <1>4, <1>5, <3>2
        <4>2. QED
          BY <1>7, <1>10, <2>1, <4>1
      <3>3. QED
        BY <3>1, <3>2
    <2>2. QED
      BY <1>7, <2>1
  <1>13. QED
    BY <1>11, <1>12 DEF w, b

\* Decoding in two goes yields the same text and holds back the same bytes.
LEMMA HeldJoins ==
  ASSUME NEW x \in Text, NEW y \in Text
  PROVE  /\ Held(x \o y) = Held(Held(x) \o y)
         /\ Rest(x \o y) = Rest(x) \o Rest(Held(x) \o y)
  <1> DEFINE w == x \o y
             b == Held(x) \o y
             r == Rest(x)
  <1>1. b \in Text /\ w = r \o b
    BY Split
  <1>2. r \in Text /\ (Held(x) = <<>> => r = x /\ ~Torn(x))
    BY HeldFacts
  <1>3. CASE b # <<>>
    <2> HIDE DEF w, b, r
    <2>1. Last(w) = Last(b) /\ Front(w) = r \o Front(b) /\ w # <<>>
      BY <1>1, <1>2, <1>3, FrontOfJoin
    <2>2. Torn(w) <=> Torn(b)
      BY <1>3, <2>1 DEF Torn
    <2>3. Held(w) = Held(b) /\ Rest(w) = r \o Rest(b)
      BY <1>1, <2>1, <2>2 DEF Held, Rest
    <2>4. QED
      BY <2>3 DEF w, b, r
  <1>4. CASE b = <<>>
    <2>1. Held(x) = <<>>
      BY <1>4, HeldFacts DEF Text
    <2>2. y = <<>>
      BY <1>4, <2>1, Split
    <2>3. w = x /\ r = x /\ x \o <<>> = x
      BY <1>2, <2>1, <2>2, JoinEmpty
    <2>4. Held(b) = <<>> /\ Rest(b) = <<>>
      BY <1>4 DEF Held, Rest, Torn
    <2>5. Held(x) = <<>> /\ Rest(x) = x
      BY <1>2, <2>1
    <2> HIDE DEF w, b, r
    <2>6. Held(w) = Held(b) /\ Rest(w) = r \o Rest(b)
      BY <2>3, <2>4, <2>5
    <2>7. QED
      BY <2>6 DEF w, b, r
  <1>5. QED
    BY <1>3, <1>4

\* PushText leaves ok alone.
LEMMA PushTextOk ==
  ASSUME NEW p \in Parsers, NEW t \in Text
  PROVE  PushText(p, t).ok = p.ok
  <1> DEFINE n == Len(t)
  <1>1. PICK r \in [0..n -> Readers] :
            /\ r[0] = [parser |-> p, part |-> <<>>]
            /\ \A k \in 1..n : r[k] = TextStep(r[k - 1], t[k])
            /\ PushText(p, t) = [r[n].parser EXCEPT !.line = @ \o r[n].part]
    BY TextRuns
  <1> DEFINE Same(k) == r[k].parser.ok = p.ok
  <1>2. n \in Nat
    BY DEF Text
  <1> HIDE DEF n
  <1>3. Same(n)
    <2> DEFINE G == {k \in 0..n : Same(k)}
    <2>1. 0 \in G
      BY <1>1, <1>2
    <2>2. ASSUME NEW k \in 1..n, k - 1 \in G PROVE k \in G
      <3> DEFINE a == r[k - 1]
                 x == [a.parser EXCEPT !.line = <<>>]
                 l == a.parser.line \o StripCr(a.part)
      <3>1. a.parser.ok = p.ok /\ k - 1 \in 0..n /\ k \in 0..n
        BY <1>2, <2>2
      <3>2. r[k] = TextStep(a, t[k])
        BY <1>1
      <3>3. a \in Readers /\ a.parser \in Parsers /\ a.part \in Text
        BY <3>1, ReaderParts
      <3>4. CASE t[k] = "lf"
        <4>1. r[k].parser = ProcessLine(x, l)
          BY <3>2, <3>4, LineStep
        <4>2. x \in Parsers /\ x.ok = p.ok /\ a.parser.line \in Text
          BY <3>1, <3>3, TextFacts DEF Parsers
        <4>3. l \in Text
          BY <3>3, <4>2, TextFacts
        <4> HIDE DEF x, l
        <4>4. ProcessLine(x, l).ok = x.ok
          BY <4>2, <4>3, ProcessLineType
        <4>5. QED
          BY <3>1, <4>1, <4>2, <4>4
      <3>5. CASE t[k] # "lf"
        <4>1. r[k].parser = a.parser
          BY <3>2, <3>3, <3>5, PartStep
        <4>2. QED
          BY <3>1, <4>1
      <3>6. QED
        BY <3>4, <3>5
    <2> HIDE DEF G
    <2>3. n \in G
      BY <1>2, <2>1, <2>2, Reaches
    <2>4. QED
      BY <2>3 DEF G
  <1>4. r[n].parser \in Parsers
    BY <1>2 DEF Readers
  <1>5. QED
    BY <1>1, <1>3, <1>4 DEF Parsers

\* What may differ between a stream read whole and one that was cut
SameReading(whole, cut) == whole.ok = cut.ok /\ (whole.ok => whole = cut)

\* finish does not mend a malformed stream.
LEMMA FinishFails ==
  ASSUME NEW p \in Parsers, ~p.ok
  PROVE  ~FinishParser(p).ok
  <1>1. CASE p.undecoded # <<>>
    BY <1>1 DEF FinishParser, Parsers
  <1>2. CASE p.undecoded = <<>> /\ p.line # <<>>
    <2>1. [p EXCEPT !.line = <<>>] \in Parsers /\ p.line \in Text /\ ~[p EXCEPT !.line = <<>>].ok
      BY TextFacts DEF Parsers
    <2> DEFINE x == [p EXCEPT !.line = <<>>]
               l == p.line
    <2>2. FinishParser(p) = ProcessLine(x, l)
      BY <1>2 DEF FinishParser
    <2> HIDE DEF x, l
    <2>3. ProcessLine(x, l).ok = x.ok
      BY <2>1, ProcessLineType DEF x, l
    <2>4. QED
      BY <2>1, <2>2, <2>3 DEF x
  <1>3. CASE p.undecoded = <<>> /\ p.line = <<>>
    BY <1>3 DEF FinishParser
  <1>4. QED
    BY <1>1, <1>2, <1>3

LEMMA WaitingTwice ==
  ASSUME NEW p \in Parsers, NEW u, NEW v
  PROVE  /\ Waiting(Waiting(p, u), v) = Waiting(p, v)
         /\ Waiting(p, u).undecoded = u /\ Waiting(p, u).ok = p.ok
  BY DEF Waiting, Parsers

\* The cut that keeps a carriage return apart from its line feed
CutCrLf(x, y) == x # <<>> /\ y # <<>> /\ Last(x) = "cr" /\ y[1] = "lf"

\* Holding back bytes makes no new cut between CR and LF.
LEMMA RestCrLf ==
  ASSUME NEW x \in Text, NEW y \in Text, ~CutCrLf(x, y)
  PROVE  ~CutCrLf(Rest(x), Rest(Held(x) \o y))
  <1> DEFINE b == Held(x) \o y
  <1>1. b \in Text /\ (Held(x) = <<>> => b = y)
    BY Split
  <1>2. Rest(b) # <<>> => b # <<>> /\ Rest(b)[1] = b[1]
    <2>1. ASSUME Rest(b) # <<>> PROVE b # <<>> /\ Rest(b)[1] = b[1]
      <3>1. CASE Torn(b)
        <4>1. b # <<>> /\ Rest(b) = Front(b)
          BY <3>1 DEF Torn, Rest
        <4>2. /\ Front(b) \in Text /\ Len(Front(b)) = Len(b) - 1
              /\ \A i \in 1..(Len(b) - 1) : Front(b)[i] = b[i]
          BY <1>1, <4>1, Fronts
        <4>3. 1 \in 1..(Len(b) - 1)
          BY <1>1, <2>1, <4>1, <4>2 DEF Text
        <4>4. QED
          BY <4>1, <4>2, <4>3
      <3>2. CASE ~Torn(b)
        BY <2>1, <3>2 DEF Rest
      <3>3. QED
        BY <3>1, <3>2
    <2>2. QED
      BY <2>1
  <1>3. CASE Held(x) = <<>>
    <2>1. Rest(x) = x /\ b = y
      BY <1>1, <1>3, HeldFacts
    <2>2. QED
      BY <1>2, <2>1 DEF CutCrLf
  <1>4. CASE Held(x) # <<>>
    <2>1. Held(x) \in Text /\ Len(Held(x)) = 1 /\ Held(x)[1] = "u1"
      BY <1>4, HeldFacts
    <2>2. b[1] = "u1"
      <3> DEFINE h == Held(x)
      <3>1. h \in Text /\ 1 \in 1..Len(h) /\ h[1] = "u1"
        BY <2>1
      <3> HIDE DEF h
      <3>2. (h \o y)[1] = h[1]
        BY <3>1, Joined
      <3>3. QED
        BY <3>1, <3>2 DEF h
    <2>3. QED
      BY <1>2, <2>2 DEF CutCrLf
  <1>5. QED
    BY <1>3, <1>4

\* Two chunks are read like one.
LEMMA PushJoins ==
  ASSUME NEW p \in Parsers, p.ok, p.undecoded = <<>>,
         NEW x \in Text, NEW y \in Text, ~CutCrLf(x, y)
  PROVE  SameReading(FinishParser(Push(p, x \o y)), FinishParser(Push(Push(p, x), y)))
  <1> DEFINE w == x \o y
             b == Held(x) \o y
             one == Push(p, x)
             failed == [p EXCEPT !.ok = FALSE]
  <1>1. \A t \in Text : <<>> \o t = t
    BY ConcatEmptySeq DEF Text
  <1>2. w \in Text /\ b \in Text
    BY Split
  <1>3. failed \in Parsers /\ ~failed.ok
    BY DEF Parsers
  <1>4. ASSUME NEW t \in Text
        PROVE  Push(p, t) = IF Decodes(t) THEN PushText(Waiting(p, Held(t)), Rest(t)) ELSE failed
    <2>1. p.undecoded \o t = t
      BY <1>1
    <2>2. QED
      BY <2>1, PushIs
  <1>5. CASE ~Decodes(x)
    <2>1. ~Decodes(w)
      BY <1>5, DecodesFirst
    <2>2. one = failed
      BY <1>4, <1>5
    <2>3. Push(one, y) = failed
      BY <1>3, <2>2 DEF Push
    <2> HIDE DEF w, one, failed
    <2>4. Push(p, w) = failed
      BY <1>2, <1>4, <2>1
    <2>5. QED
      BY <2>3, <2>4 DEF SameReading, w, one
  <1>6. CASE Decodes(x)
    <2> DEFINE q == PushText(p, Rest(x))
    <2>1. /\ Held(x) \in {<<>>, <<"u1">>} /\ Rest(x) \in Text
          /\ Held(b) \in {<<>>, <<"u1">>} /\ Rest(b) \in Text
      <3> HIDE DEF b
      <3>1. QED
        BY <1>2, HeldFacts
    <2>2. q \in Parsers /\ q.ok
      BY <2>1, PushTextType, PushTextOk
    <2>3. one = Waiting(q, Held(x))
      <3>1. one = PushText(Waiting(p, Held(x)), Rest(x))
        BY <1>4, <1>6
      <3>2. QED
        BY <2>1, <3>1, PushTextWaits
    <2>4. one \in Parsers /\ one.ok /\ one.undecoded = Held(x)
      <3> HIDE DEF q, one
      <3>1. QED
        BY <2>1, <2>2, <2>3, WaitingType, WaitingTwice
    <2>5. Decodes(w) <=> Decodes(b)
      BY <1>6, DecodesRest
    <2>6. Push(one, y) = IF Decodes(b) THEN PushText(Waiting(one, Held(b)), Rest(b))
                         ELSE [one EXCEPT !.ok = FALSE]
      <3> HIDE DEF one
      <3>1. QED
        BY <2>4, PushIs
    <2>7. CASE ~Decodes(b)
      <3>1. Push(one, y) = [one EXCEPT !.ok = FALSE]
        BY <2>6, <2>7
      <3> HIDE DEF w, b, one, failed
      <3>2. Push(p, w) = failed
        BY <1>2, <1>4, <2>5, <2>7
      <3>3. [one EXCEPT !.ok = FALSE] \in Parsers /\ ~[one EXCEPT !.ok = FALSE].ok
        BY <2>4 DEF Parsers
      <3>4. ~FinishParser(Push(p, w)).ok
        BY <1>3, <3>2, FinishFails
      <3>5. ~FinishParser(Push(one, y)).ok
        BY <3>1, <3>3, FinishFails
      <3>6. FinishParser(Push(p, w)).ok = FALSE /\ FinishParser(Push(one, y)).ok = FALSE
        BY <3>4, <3>5
      <3>7. QED
        BY <3>6 DEF SameReading, w, one
    <2>8. CASE Decodes(b)
      <3>1. Push(one, y) = PushText(Waiting(one, Held(b)), Rest(b))
        BY <2>6, <2>8
      <3>2. Held(w) = Held(b) /\ Rest(w) = Rest(x) \o Rest(b)
        BY HeldJoins
      <3>3. ~CutCrLf(Rest(x), Rest(b))
        BY RestCrLf
      <3> HIDE DEF b
      <3>4. PushText(p, Rest(x) \o Rest(b)) = PushText(q, Rest(b))
        BY <2>1, <3>3, PushTextJoins DEF CutCrLf
      <3> HIDE DEF w, one, failed, q
      <3>5. Push(p, w) = PushText(Waiting(p, Held(w)), Rest(w))
        BY <1>2, <1>4, <2>5, <2>8
      <3>6. Rest(w) \in Text
        BY <1>2, HeldFacts
      <3>7. Push(p, w) = Waiting(PushText(p, Rest(w)), Held(w))
        BY <2>1, <3>2, <3>5, <3>6, PushTextWaits
      <3>8. Waiting(one, Held(b)) = Waiting(q, Held(b))
        BY <2>2, <2>3, WaitingTwice
      <3>9. Push(one, y) = Waiting(PushText(q, Rest(b)), Held(b))
        BY <2>1, <2>2, <3>1, <3>8, PushTextWaits
      <3>10. Push(one, y) = Push(p, w)
        BY <3>2, <3>4, <3>7, <3>9
      <3>11. QED
        BY <3>10 DEF SameReading, w, one
    <2>9. QED
      BY <2>7, <2>8
  <1>7. QED
    BY <1>5, <1>6

\* Where the network cuts a stream makes no difference to its events
\* (SseParser::push, push_text and finish): for every set of symbols and
\* every length, unless the cut parts a carriage return from its line feed.
THEOREM CutsHold == CutsDoNotMatter
  <1> SUFFICES ASSUME NEW s \in UpTo(Symbols, MaxInput), NEW k \in 0..Len(s), ~SplitsCrLf(s, k)
               PROVE  SameReading(FinishParser(Push(NewParser, s)),
                        FinishParser(Push(Push(NewParser, SubSeq(s, 1, k)), SubSeq(s, k + 1, Len(s)))))
    BY DEF CutsDoNotMatter, SameReading
  <1>1. s \in Text
    <2>1. PICK n \in 0..MaxInput : s \in [1..n -> Symbols]
      BY DEF UpTo
    <2>2. n \in Nat
      BY StreamAssumption
    <2>3. QED
      BY <2>1, <2>2 DEF Text
  <1>2. NewParser \in Parsers /\ NewParser.ok /\ NewParser.undecoded = <<>>
    BY TextFacts DEF NewParser, Parsers
  <1> DEFINE x == SubSeq(s, 1, k)
             y == SubSeq(s, k + 1, Len(s))
             n == Len(s)
  <1>3. n \in Nat /\ k \in Nat /\ k <= n
    BY <1>1 DEF Text
  <1>4. /\ x \in Text /\ Len(x) = k /\ \A i \in 1..k : x[i] = s[i]
    <2>1. \A i \in 1..k : s[i] \in Symbols
      BY <1>1, <1>3 DEF Text
    <2> HIDE DEF n
    <2>2. QED
      BY <1>3, <2>1, SubSeqProperties DEF Text
  <1>5. /\ y \in Text /\ (y # <<>> => k < n /\ y[1] = s[k + 1])
    <2>1. \A i \in (k + 1)..n : s[i] \in Symbols
      BY <1>1, <1>3 DEF Text
    <2>2. y \in Seq(Symbols)
      BY <1>3, <2>1, SubSeqProperties
    <2>3. CASE k < n
      BY <1>1, <1>3, <2>2, <2>3 DEF Text
    <2>4. CASE k = n
      BY <1>1, <1>3, <2>2, <2>4 DEF Text
    <2>5. QED
      BY <1>3, <2>2, <2>3, <2>4 DEF Text
  <1>6. x \o y = s
    <2>1. 1 \in 1..n+1 /\ k \in 1-1..n /\ n \in k..n
      BY <1>3
    <2>2. x \o y = SubSeq(s, 1, n)
      BY <1>1, <2>1, ConcatAdjacentSubSeq DEF Text
    <2>3. SubSeq(s, 1, n) = s
      BY <1>1, SubSeqFull DEF Text
    <2>4. QED
      BY <2>2, <2>3
  <1>7. ~CutCrLf(x, y)
    <2>1. SUFFICES ASSUME CutCrLf(x, y) PROVE FALSE
      OBVIOUS
    <2> HIDE DEF x, y, n
    <2>2. x # <<>> /\ y # <<>> /\ Last(x) = "cr" /\ y[1] = "lf"
      BY <2>1 DEF CutCrLf
    <2>3. k # 0
      BY <1>4, <2>2 DEF Text
    <2>4. k \in 1..n-1 /\ k \in 1..k
      BY <1>3, <1>5, <2>2, <2>3
    <2>5. s[k] = "cr" /\ s[k + 1] = "lf"
      BY <1>4, <1>5, <2>2, <2>4 DEF Last
    <2>6. QED
      BY <2>4, <2>5 DEF SplitsCrLf, n
  <1> HIDE DEF x, y
  <1>8. SameReading(FinishParser(Push(NewParser, x \o y)), FinishParser(Push(Push(NewParser, x), y)))
    BY <1>2, <1>4, <1>5, <1>7, PushJoins
  <1>9. QED
    BY <1>6, <1>8 DEF x, y

-----------------------------------------------------------------------------
(* The names of the tools                                                  *)

\* RouterToolNames: when a list of tools of any length is accepted, the wire
\* names lead back to the tools they stand for, one each.
THEOREM WireNamesOf ==
  ASSUME NEW S, NEW n \in Nat, NEW ts \in [1..n -> S], ToolNames(ts).ok
  PROVE  /\ \A t \in Range(ts) : ToolNames(ts).to_local[WireName(t)] = t
         /\ Cardinality(DOMAIN ToolNames(ts).to_local) = Len(ts)
  <1> DEFINE W == {WireName(t) : t \in Range(ts)}
             F == [w \in W |-> CHOOSE t \in Range(ts) : WireName(t) = w]
  <1>1. Len(ts) = n /\ DOMAIN ts = 1..n
    OBVIOUS
  <1>2. /\ ToolNames(ts).to_local = F
        /\ \A i \in 1..n : \A j \in 1..i-1 : WireName(ts[j]) # WireName(ts[i])
    BY <1>1 DEF ToolNames
  <1>3. \A i, j \in 1..n : WireName(ts[i]) = WireName(ts[j]) => i = j
    <2>1. ASSUME NEW i \in 1..n, NEW j \in 1..n, i # j PROVE j \in 1..i-1 \/ i \in 1..j-1
      BY <2>1
    <2>2. QED
      BY <1>2, <2>1
  <1>4. Range(ts) = {ts[i] : i \in 1..n}
    BY <1>1 DEF Range
  <1>5. ASSUME NEW t \in Range(ts) PROVE F[WireName(t)] = t
    <2>1. \A u \in Range(ts) : WireName(u) = WireName(t) => u = t
      BY <1>3, <1>4
    <2>2. (CHOOSE u \in Range(ts) : WireName(u) = WireName(t)) = t
      BY <2>1
    <2>3. QED
      BY <2>2
  <1>6. Cardinality(W) = n
    <2> DEFINE f == [i \in 1..n |-> WireName(ts[i])]
    <2>1. f \in Bijection(1..n, W)
      BY <1>3, <1>4 DEF Bijection, Injection, Surjection, IsInjective
    <2>2. ExistsBijection(1..n, W)
      BY <2>1 DEF ExistsBijection
    <2> HIDE DEF W
    <2>3. QED
      BY <2>2, FS_CountingElements
  <1>7. QED
    BY <1>1, <1>2, <1>5, <1>6

\* The bounded inputs of the properties
LEMMA InUpTo ==
  ASSUME NEW S, NEW n \in Nat, NEW ts \in UpTo(S, n)
  PROVE  \E k \in Nat : ts \in [1..k -> S]
  BY DEF UpTo

LEMMA WireNamesHold == WireNamesInjective
  <1>1. ASSUME NEW S, NEW ts \in UpTo(S, 2), ToolNames(ts).ok
        PROVE  /\ \A t \in Range(ts) : ToolNames(ts).to_local[WireName(t)] = t
               /\ Cardinality(DOMAIN ToolNames(ts).to_local) = Len(ts)
    <2>1. 2 \in Nat
      OBVIOUS
    <2>2. PICK n \in Nat : ts \in [1..n -> S]
      BY <2>1, InUpTo
    <2>3. QED
      BY <1>1, <2>2, WireNamesOf
  <1>2. QED
    BY <1>1, Zenon DEF WireNamesInjective

-----------------------------------------------------------------------------
(* The calls of an answer                                                  *)

\* The values that an answer is put together from
CallText == Seq(STRING)
AllParts == UNION {Range(f.parts) : f \in Frames}
CallIds == {p.id : p \in AllParts} \cup {None}
CallNames == {p.name : p \in AllParts} \cup {None}
Indices == {i \in Nat : i < MaxBatch}
CallType == [id : CallIds, name : CallNames, arguments : CallText]
CallMaps == UNION {[D -> CallType] : D \in SUBSET Indices}
Finishes == {f.finish : f \in Frames} \cup {None}
Answers == [calls : CallMaps, done : BOOLEAN, finish : Finishes, ok : BOOLEAN]

LEMMA PartFacts ==
  ASSUME NEW p \in AllParts
  PROVE  p.index \in Nat /\ p.arguments \in CallText /\ p.id \in CallIds /\ p.name \in CallNames
  BY StreamAssumption DEF AllParts, CallText, CallIds, CallNames

LEMMA CallTextFacts ==
  /\ <<>> \in CallText
  /\ \A a, b \in CallText : a \o b \in CallText
  BY DEF CallText

\* The call at an index before a fragment is added
Before(a, i) == IF i \in DOMAIN a.calls THEN a.calls[i] ELSE NoPart
Refused(a, p) ==
    \/ ~a.ok \/ p.index >= MaxBatch
    \/ Changes(Before(a, p.index).id, p.id) \/ Changes(Before(a, p.index).name, p.name)
Extended(c, p) == [id |-> Given(c.id, p.id), name |-> Given(c.name, p.name),
                   arguments |-> c.arguments \o p.arguments]

\* AddPart, field by field
LEMMA AddPartIs ==
  ASSUME NEW a \in Answers, NEW p
  PROVE  /\ AddPart(a, p).done = a.done /\ AddPart(a, p).finish = a.finish
         /\ Refused(a, p) => AddPart(a, p).ok = FALSE /\ AddPart(a, p).calls = a.calls
         /\ ~Refused(a, p) =>
               /\ AddPart(a, p).ok = a.ok
               /\ AddPart(a, p).calls =
                     [i \in {p.index} \cup DOMAIN a.calls |->
                        IF i = p.index THEN Extended(Before(a, p.index), p) ELSE a.calls[i]]
  <1>1. CASE Refused(a, p)
    <2>1. AddPart(a, p) = [a EXCEPT !.ok = FALSE]
      BY <1>1 DEF AddPart, Refused, Before
    <2>2. QED
      BY <1>1, <2>1 DEF Answers
  <1>2. CASE ~Refused(a, p)
    <2> DEFINE new == Extended(Before(a, p.index), p)
    <2>1. AddPart(a, p) = [a EXCEPT !.calls = [i \in {p.index} \cup DOMAIN a.calls |->
                                                 IF i = p.index THEN new ELSE a.calls[i]]]
      BY <1>2 DEF AddPart, Refused, Before, Extended
    <2> HIDE DEF new
    <2>2. QED
      BY <1>2, <2>1 DEF Answers, new
  <1>3. QED
    BY <1>1, <1>2

LEMMA CallMapFacts ==
  /\ <<>> \in CallMaps
  /\ \A m \in CallMaps : DOMAIN m \subseteq Indices /\ \A i \in DOMAIN m : m[i] \in CallType
  /\ \A D \in SUBSET Indices : \A m \in [D -> CallType] : m \in CallMaps
  <1>1. <<>> \in [{} -> CallType]
    OBVIOUS
  <1>2. QED
    BY <1>1 DEF CallMaps

LEMMA AddPartType ==
  ASSUME NEW a \in Answers, NEW p \in AllParts
  PROVE  AddPart(a, p) \in Answers
  <1>1. /\ a.calls \in CallMaps /\ DOMAIN a.calls \subseteq Indices
        /\ \A i \in DOMAIN a.calls : a.calls[i] \in CallType
    BY CallMapFacts DEF Answers
  <1>2. NoPart \in CallType
    BY CallTextFacts DEF NoPart, CallType, CallIds, CallNames
  <1>3. Before(a, p.index) \in CallType
    BY <1>1, <1>2 DEF Before
  <1>4. Extended(Before(a, p.index), p) \in CallType
    <2> DEFINE c == Before(a, p.index)
    <2> HIDE DEF c
    <2>1. c.id \in CallIds /\ c.name \in CallNames /\ c.arguments \in CallText
      BY <1>3 DEF c, CallType
    <2>2. p.arguments \in CallText /\ p.id \in CallIds /\ p.name \in CallNames
      BY PartFacts
    <2>3. c.arguments \o p.arguments \in CallText
      BY <2>1, <2>2, CallTextFacts
    <2>4. Extended(c, p) \in CallType
      BY <2>1, <2>2, <2>3 DEF Extended, Given, CallType
    <2>5. QED
      BY <2>4 DEF c
  <1> DEFINE A == AddPart(a, p)
  <1>5. CASE Refused(a, p)
    <2>1. A = [a EXCEPT !.ok = FALSE]
      BY <1>5 DEF AddPart, Refused, Before
    <2>2. QED
      BY <2>1 DEF Answers
  <1>6. CASE ~Refused(a, p)
    <2> DEFINE new == Extended(Before(a, p.index), p)
               D == {p.index} \cup DOMAIN a.calls
    <2>1. A.calls = [i \in D |-> IF i = p.index THEN new ELSE a.calls[i]]
      BY <1>6, AddPartIs
    <2>2. p.index \in Indices
      BY <1>6, PartFacts, StreamAssumption DEF Refused, Indices
    <2>3. A.calls \in [D -> CallType] /\ D \in SUBSET Indices
      <3> HIDE DEF new
      <3>1. \A i \in D : (IF i = p.index THEN new ELSE a.calls[i]) \in CallType
        BY <1>1, <1>4 DEF new
      <3>2. QED
        BY <1>1, <2>1, <2>2, <3>1
    <2>4. A.calls \in CallMaps
      <3> HIDE DEF A, D
      <3>1. QED
        BY <2>3, CallMapFacts
    <2>5. A = [a EXCEPT !.calls = A.calls]
      BY <1>6 DEF AddPart, Refused, Before, Answers
    <2> HIDE DEF A
    <2>6. A \in Answers
      BY <2>4, <2>5 DEF Answers
    <2>7. QED
      BY <2>6 DEF A
  <1>7. QED
    BY <1>5, <1>6

\* The parts of a frame, and the frames of a stream
PartLists == Seq(AllParts)
FrameLists == Seq(Frames)

LEMMA FrameFacts ==
  ASSUME NEW f \in Frames
  PROVE  /\ f.parts \in PartLists /\ f.done \in BOOLEAN /\ f.error \in BOOLEAN
         /\ f.finish \in Finishes /\ (f.done => ~f.error /\ f.parts = <<>>)
  <1>1. f.parts \in Seq(Range(f.parts)) /\ Range(f.parts) \subseteq AllParts
    BY StreamAssumption DEF AllParts
  <1>2. f.parts \in PartLists
    <2> DEFINE R == Range(f.parts)
    <2> HIDE DEF R
    <2>1. QED
      BY <1>1 DEF PartLists, R
  <1>3. QED
    BY <1>2, StreamAssumption DEF Finishes

LEMMA NewAnswerType == NewAnswer \in Answers
  BY CallMapFacts DEF NewAnswer, Answers, Finishes

\* The fold over the parts of a frame has a run.
LEMMA PartRuns ==
  ASSUME NEW a \in Answers, NEW ps \in PartLists
  PROVE  \E r \in [0..Len(ps) -> Answers] :
            /\ r[0] = a
            /\ \A k \in 1..Len(ps) : r[k] = AddPart(r[k - 1], ps[k])
            /\ FoldLeft(AddPart, a, ps) = r[Len(ps)]
  <1> DEFINE g == [b \in Answers |-> [x \in AllParts |-> AddPart(b, x)]]
             n == Len(ps)
             Fold(f) == f = [T \in SUBSET (DOMAIN ps) |->
                               IF T = {} THEN a ELSE AddPart(f[T \ {Max(T)}], ps[Max(T)])]
             c == CHOOSE f : Fold(f)
  <1>1. FoldLeft(AddPart, a, ps) = c[DOMAIN ps]
    BY DEF FoldLeft, MapThenFoldSet
  <1>2. g \in [Answers -> [AllParts -> Answers]]
    BY AddPartType
  <1>3. ASSUME NEW b \in Answers, NEW x \in AllParts PROVE g[b][x] = AddPart(b, x)
    OBVIOUS
  <1>4. DOMAIN ps = 1..n /\ n \in Nat /\ ps \in [1..n -> AllParts]
    BY DEF PartLists
  <1> HIDE DEF g, n
  <1>5. Foldable(Answers, AllParts, g, a, n, ps)
    BY <1>2, <1>4 DEF Foldable
  <1> PICK f : FoldedTo(Answers, g, a, n, ps, f)
    BY <1>5, FoldExists
  <1>6. ASSUME NEW T \in SUBSET (1..n), T # {}
        PROVE  T \ {Max(T)} \in SUBSET (1..n) /\ ps[Max(T)] \in AllParts
    BY <1>4, <1>6, LastPosition
  <1>7. Fold(f)
    <2>1. ASSUME NEW T \in SUBSET (1..n)
          PROVE  f[T] = IF T = {} THEN a ELSE AddPart(f[T \ {Max(T)}], ps[Max(T)])
      BY <1>3, <1>6 DEF FoldStep, FoldedTo
    <2>2. QED
      BY <1>4, <2>1 DEF FoldedTo
  <1>8. Fold(c)
    <2> HIDE DEF Fold
    <2>1. QED
      BY <1>7
  <1> HIDE DEF c
  <1>9. FoldsOn(Answers, g, a, n, ps, c)
    <2>1. SUFFICES ASSUME NEW T \in SUBSET (1..n)
                   PROVE  IF T = {} THEN c[T] = a
                          ELSE c[T \ {Max(T)}] \in Answers => c[T] = FoldStep(g, a, ps, c, T)
      BY DEF FoldsOn
    <2>2. c[T] = IF T = {} THEN a ELSE AddPart(c[T \ {Max(T)}], ps[Max(T)])
      BY <1>4, <1>8
    <2>3. QED
      BY <1>3, <1>6, <2>2 DEF FoldStep
  <1>10. PICK r \in [0..n -> Answers] : Runs(g, a, n, ps, r) /\ c[1..n] = r[n]
    BY <1>5, <1>9, FoldRuns
  <1>11. \A k \in 1..n : r[k] = AddPart(r[k - 1], ps[k])
    <2>1. \A k \in 1..n : k - 1 \in 0..n
      BY <1>4
    <2>2. QED
      BY <1>3, <1>4, <1>10, <2>1 DEF Runs
  <1>12. QED
    BY <1>1, <1>4, <1>10, <1>11 DEF Runs, n

\* What one fragment adds to the text of call i
Fragment(i, t, p) == IF p.index = i THEN t \o p.arguments ELSE t

LEMMA FragmentType ==
  ASSUME NEW i, NEW t \in CallText, NEW p \in AllParts
  PROVE  Fragment(i, t, p) \in CallText
  BY PartFacts, CallTextFacts DEF Fragment

\* r is the text of call i after each of the parts ps.
FragmentRun(i, a, ps, r) ==
    /\ r \in [0..Len(ps) -> CallText]
    /\ r[0] = a
    /\ \A k \in 1..Len(ps) : r[k] = Fragment(i, r[k - 1], ps[k])
    /\ Fragments(i, ps, a) = r[Len(ps)]

LEMMA FragmentRuns ==
  ASSUME NEW i, NEW a \in CallText, NEW ps \in PartLists
  PROVE  \E r : FragmentRun(i, a, ps, r)
  <1> DEFINE g == [b \in CallText |-> [x \in AllParts |-> Fragment(i, b, x)]]
             n == Len(ps)
             Fold(f) == f = [T \in SUBSET (DOMAIN ps) |->
                               IF T = {} THEN a ELSE Fragment(i, f[T \ {Max(T)}], ps[Max(T)])]
             c == CHOOSE f : Fold(f)
  <1>1. Fragments(i, ps, a) = c[DOMAIN ps]
    BY DEF Fragments, Fragment, FoldLeft, MapThenFoldSet
  <1>2. g \in [CallText -> [AllParts -> CallText]]
    BY FragmentType
  <1>3. ASSUME NEW b \in CallText, NEW x \in AllParts PROVE g[b][x] = Fragment(i, b, x)
    OBVIOUS
  <1>4. DOMAIN ps = 1..n /\ n \in Nat /\ ps \in [1..n -> AllParts]
    BY DEF PartLists
  <1> HIDE DEF g, n
  <1>5. Foldable(CallText, AllParts, g, a, n, ps)
    BY <1>2, <1>4 DEF Foldable
  <1> PICK f : FoldedTo(CallText, g, a, n, ps, f)
    BY <1>5, FoldExists
  <1>6. ASSUME NEW T \in SUBSET (1..n), T # {}
        PROVE  T \ {Max(T)} \in SUBSET (1..n) /\ ps[Max(T)] \in AllParts
    BY <1>4, <1>6, LastPosition
  <1>7. Fold(f)
    <2>1. ASSUME NEW T \in SUBSET (1..n)
          PROVE  f[T] = IF T = {} THEN a ELSE Fragment(i, f[T \ {Max(T)}], ps[Max(T)])
      BY <1>3, <1>6 DEF FoldStep, FoldedTo
    <2>2. QED
      BY <1>4, <2>1 DEF FoldedTo
  <1>8. Fold(c)
    <2> HIDE DEF Fold
    <2>1. QED
      BY <1>7
  <1> HIDE DEF c
  <1>9. FoldsOn(CallText, g, a, n, ps, c)
    <2>1. SUFFICES ASSUME NEW T \in SUBSET (1..n)
                   PROVE  IF T = {} THEN c[T] = a
                          ELSE c[T \ {Max(T)}] \in CallText => c[T] = FoldStep(g, a, ps, c, T)
      BY DEF FoldsOn
    <2>2. c[T] = IF T = {} THEN a ELSE Fragment(i, c[T \ {Max(T)}], ps[Max(T)])
      BY <1>4, <1>8
    <2>3. QED
      BY <1>3, <1>6, <2>2 DEF FoldStep
  <1>10. PICK r \in [0..n -> CallText] : Runs(g, a, n, ps, r) /\ c[1..n] = r[n]
    BY <1>5, <1>9, FoldRuns
  <1>11. \A k \in 1..n : r[k] = Fragment(i, r[k - 1], ps[k])
    <2>1. \A k \in 1..n : k - 1 \in 0..n
      BY <1>4
    <2>2. QED
      BY <1>3, <1>4, <1>10, <2>1 DEF Runs
  <1>12. QED
    BY <1>1, <1>4, <1>10, <1>11 DEF Runs, n, FragmentRun

LEMMA FragmentsType ==
  ASSUME NEW i, NEW a \in CallText, NEW ps \in PartLists
  PROVE  Fragments(i, ps, a) \in CallText
  <1>1. PICK r : FragmentRun(i, a, ps, r)
    BY FragmentRuns
  <1>2. Len(ps) \in 0..Len(ps)
    BY DEF PartLists
  <1>3. QED
    BY <1>1, <1>2 DEF FragmentRun

LEMMA PartsFoldType ==
  ASSUME NEW a \in Answers, NEW ps \in PartLists
  PROVE  FoldLeft(AddPart, a, ps) \in Answers
  <1>1. PICK r \in [0..Len(ps) -> Answers] : FoldLeft(AddPart, a, ps) = r[Len(ps)]
    BY PartRuns
  <1>2. Len(ps) \in 0..Len(ps)
    BY DEF PartLists
  <1>3. QED
    BY <1>1, <1>2

LEMMA ProcessEventType ==
  ASSUME NEW a \in Answers, NEW f \in Frames
  PROVE  ProcessEvent(a, f) \in Answers
  <1> DEFINE b == [a EXCEPT !.finish = Given(@, f.finish)]
  <1>1. b \in Answers
    BY FrameFacts DEF Answers, Given
  <1>2. [a EXCEPT !.done = TRUE] \in Answers /\ [a EXCEPT !.ok = FALSE] \in Answers
    BY DEF Answers
  <1> HIDE DEF b
  <1>3. FoldLeft(AddPart, b, f.parts) \in Answers
    BY <1>1, FrameFacts, PartsFoldType
  <1>4. QED
    BY <1>2, <1>3 DEF ProcessEvent, b

\* The fold over the frames has a run.
LEMMA EventRuns ==
  ASSUME NEW fs \in FrameLists
  PROVE  \E r \in [0..Len(fs) -> Answers] :
            /\ r[0] = NewAnswer
            /\ \A k \in 1..Len(fs) : r[k] = ProcessEvent(r[k - 1], fs[k])
            /\ FoldLeft(ProcessEvent, NewAnswer, fs) = r[Len(fs)]
  <1> DEFINE g == [b \in Answers |-> [x \in Frames |-> ProcessEvent(b, x)]]
             n == Len(fs)
             Fold(f) == f = [T \in SUBSET (DOMAIN fs) |->
                               IF T = {} THEN NewAnswer ELSE ProcessEvent(f[T \ {Max(T)}], fs[Max(T)])]
             c == CHOOSE f : Fold(f)
  <1>1. FoldLeft(ProcessEvent, NewAnswer, fs) = c[DOMAIN fs]
    BY DEF FoldLeft, MapThenFoldSet
  <1>2. g \in [Answers -> [Frames -> Answers]]
    BY ProcessEventType
  <1>3. ASSUME NEW b \in Answers, NEW x \in Frames PROVE g[b][x] = ProcessEvent(b, x)
    OBVIOUS
  <1>4. DOMAIN fs = 1..n /\ n \in Nat /\ fs \in [1..n -> Frames]
    BY DEF FrameLists
  <1> HIDE DEF g, n
  <1>5. Foldable(Answers, Frames, g, NewAnswer, n, fs)
    BY <1>2, <1>4, NewAnswerType DEF Foldable
  <1> PICK f : FoldedTo(Answers, g, NewAnswer, n, fs, f)
    BY <1>5, FoldExists
  <1>6. ASSUME NEW T \in SUBSET (1..n), T # {}
        PROVE  T \ {Max(T)} \in SUBSET (1..n) /\ fs[Max(T)] \in Frames
    BY <1>4, <1>6, LastPosition
  <1>7. Fold(f)
    <2>1. ASSUME NEW T \in SUBSET (1..n)
          PROVE  f[T] = IF T = {} THEN NewAnswer ELSE ProcessEvent(f[T \ {Max(T)}], fs[Max(T)])
      BY <1>3, <1>6 DEF FoldStep, FoldedTo
    <2>2. QED
      BY <1>4, <2>1 DEF FoldedTo
  <1>8. Fold(c)
    <2> HIDE DEF Fold
    <2>1. QED
      BY <1>7
  <1> HIDE DEF c
  <1>9. FoldsOn(Answers, g, NewAnswer, n, fs, c)
    <2>1. SUFFICES ASSUME NEW T \in SUBSET (1..n)
                   PROVE  IF T = {} THEN c[T] = NewAnswer
                          ELSE c[T \ {Max(T)}] \in Answers => c[T] = FoldStep(g, NewAnswer, fs, c, T)
      BY DEF FoldsOn
    <2>2. c[T] = IF T = {} THEN NewAnswer ELSE ProcessEvent(c[T \ {Max(T)}], fs[Max(T)])
      BY <1>4, <1>8
    <2>3. QED
      BY <1>3, <1>6, <2>2 DEF FoldStep
  <1>10. PICK r \in [0..n -> Answers] : Runs(g, NewAnswer, n, fs, r) /\ c[1..n] = r[n]
    BY <1>5, <1>9, FoldRuns
  <1>11. \A k \in 1..n : r[k] = ProcessEvent(r[k - 1], fs[k])
    <2>1. \A k \in 1..n : k - 1 \in 0..n
      BY <1>4
    <2>2. QED
      BY <1>3, <1>4, <1>10, <2>1 DEF Runs
  <1>12. QED
    BY <1>1, <1>4, <1>10, <1>11 DEF Runs, n

\* r is the text of call i after each of the frames fs.
TextAtRun(i, fs, r) ==
    /\ r \in [0..Len(fs) -> CallText]
    /\ r[0] = <<>>
    /\ \A k \in 1..Len(fs) : r[k] = Fragments(i, fs[k].parts, r[k - 1])
    /\ TextAt(i, fs) = r[Len(fs)]

LEMMA TextAtRuns ==
  ASSUME NEW i, NEW fs \in FrameLists
  PROVE  \E r : TextAtRun(i, fs, r)
  <1> DEFINE g == [b \in CallText |-> [x \in Frames |-> Fragments(i, x.parts, b)]]
             n == Len(fs)
             Fold(f) == f = [T \in SUBSET (DOMAIN fs) |->
                               IF T = {} THEN <<>> ELSE Fragments(i, fs[Max(T)].parts, f[T \ {Max(T)}])]
             c == CHOOSE f : Fold(f)
  <1>1. TextAt(i, fs) = c[DOMAIN fs]
    BY DEF TextAt, FoldLeft, MapThenFoldSet
  <1>2. g \in [CallText -> [Frames -> CallText]]
    BY FragmentsType, FrameFacts
  <1>3. ASSUME NEW b \in CallText, NEW x \in Frames PROVE g[b][x] = Fragments(i, x.parts, b)
    OBVIOUS
  <1>4. DOMAIN fs = 1..n /\ n \in Nat /\ fs \in [1..n -> Frames]
    BY DEF FrameLists
  <1> HIDE DEF g, n
  <1>5. Foldable(CallText, Frames, g, <<>>, n, fs)
    BY <1>2, <1>4, CallTextFacts DEF Foldable
  <1> PICK f : FoldedTo(CallText, g, <<>>, n, fs, f)
    BY <1>5, FoldExists
  <1>6. ASSUME NEW T \in SUBSET (1..n), T # {}
        PROVE  T \ {Max(T)} \in SUBSET (1..n) /\ fs[Max(T)] \in Frames
    BY <1>4, <1>6, LastPosition
  <1>7. Fold(f)
    <2>1. ASSUME NEW T \in SUBSET (1..n)
          PROVE  f[T] = IF T = {} THEN <<>> ELSE Fragments(i, fs[Max(T)].parts, f[T \ {Max(T)}])
      BY <1>3, <1>6 DEF FoldStep, FoldedTo
    <2>2. QED
      BY <1>4, <2>1 DEF FoldedTo
  <1>8. Fold(c)
    <2> HIDE DEF Fold
    <2>1. QED
      BY <1>7
  <1> HIDE DEF c
  <1>9. FoldsOn(CallText, g, <<>>, n, fs, c)
    <2>1. SUFFICES ASSUME NEW T \in SUBSET (1..n)
                   PROVE  IF T = {} THEN c[T] = <<>>
                          ELSE c[T \ {Max(T)}] \in CallText => c[T] = FoldStep(g, <<>>, fs, c, T)
      BY DEF FoldsOn
    <2>2. c[T] = IF T = {} THEN <<>> ELSE Fragments(i, fs[Max(T)].parts, c[T \ {Max(T)}])
      BY <1>4, <1>8
    <2>3. QED
      BY <1>3, <1>6, <2>2 DEF FoldStep
  <1>10. PICK r \in [0..n -> CallText] : Runs(g, <<>>, n, fs, r) /\ c[1..n] = r[n]
    BY <1>5, <1>9, FoldRuns
  <1>11. \A k \in 1..n : r[k] = Fragments(i, fs[k].parts, r[k - 1])
    <2>1. \A k \in 1..n : k - 1 \in 0..n
      BY <1>4
    <2>2. QED
      BY <1>3, <1>4, <1>10, <2>1 DEF Runs
  <1>12. QED
    BY <1>1, <1>4, <1>10, <1>11 DEF Runs, n, TextAtRun

\* What an answer has of call i is what the parts S say of it: text t, one id
\* and one name if any.
Told(a, t, S, i) ==
    a.ok => IF i \in DOMAIN a.calls
            THEN /\ \E p \in S : p.index = i
                 /\ a.calls[i].arguments = t
                 /\ IdsAt(S, i) = {a.calls[i].id} \ {None}
                 /\ NamesAt(S, i) = {a.calls[i].name} \ {None}
            ELSE t = <<>> /\ \A p \in S : p.index # i

\* What the parts say of call i when one more part comes
SaysMore(S, p, i) ==
    /\ IdsAt(S \cup {p}, i) = IdsAt(S, i) \cup ({p.id} \ {None})
    /\ NamesAt(S \cup {p}, i) = NamesAt(S, i) \cup ({p.name} \ {None})

SaysAsMuch(S, p, i) ==
    IdsAt(S \cup {p}, i) = IdsAt(S, i) /\ NamesAt(S \cup {p}, i) = NamesAt(S, i)

LEMMA PartHere ==
  ASSUME NEW S, NEW p, NEW i, p.index = i
  PROVE  SaysMore(S, p, i)
  <1> DEFINE old == {q \in S : q.index = i}
  <1>1. {q \in S \cup {p} : q.index = i} = old \cup {p}
    OBVIOUS
  <1>2. IdsAt(S \cup {p}, i) = {q.id : q \in old \cup {p}} \ {None}
    BY <1>1 DEF IdsAt
  <1>3. NamesAt(S \cup {p}, i) = {q.name : q \in old \cup {p}} \ {None}
    BY <1>1 DEF NamesAt
  <1>4. IdsAt(S, i) = {q.id : q \in old} \ {None} /\ NamesAt(S, i) = {q.name : q \in old} \ {None}
    BY DEF IdsAt, NamesAt
  <1> HIDE DEF old
  <1>5. {q.id : q \in old \cup {p}} = {q.id : q \in old} \cup {p.id}
    OBVIOUS
  <1>6. {q.name : q \in old \cup {p}} = {q.name : q \in old} \cup {p.name}
    OBVIOUS
  <1>7. QED
    BY ONLY <1>2, <1>3, <1>4, <1>5, <1>6 DEF SaysMore

LEMMA PartElsewhere ==
  ASSUME NEW S, NEW p, NEW i, p.index # i
  PROVE  SaysAsMuch(S, p, i)
  <1>1. {q \in S \cup {p} : q.index = i} = {q \in S : q.index = i}
    OBVIOUS
  <1>2. QED
    BY <1>1 DEF IdsAt, NamesAt, SaysAsMuch

LEMMA AddPartKeeps ==
  ASSUME NEW a \in Answers, NEW p
  PROVE  AddPart(a, p).done = a.done /\ (AddPart(a, p).ok => a.ok)
  <1>1. CASE Refused(a, p)
    BY <1>1, AddPartIs
  <1>2. CASE ~Refused(a, p)
    BY <1>2, AddPartIs
  <1>3. QED
    BY <1>1, <1>2

\* A value that does not change, with the one that is given
LEMMA OneValue ==
  ASSUME NEW old, NEW new, NEW V, V = {old} \ {None}, ~Changes(old, new)
  PROVE  V \cup ({new} \ {None}) = {Given(old, new)} \ {None}
  BY DEF Changes, Given

LEMMA NothingAt ==
  ASSUME NEW S, NEW i, \A p \in S : p.index # i
  PROVE  IdsAt(S, i) = {} /\ NamesAt(S, i) = {}
  BY DEF IdsAt, NamesAt

\* One more part, ...
LEMMA ToldStep ==
  ASSUME NEW a \in Answers, NEW p \in AllParts, NEW t, NEW S, NEW i, Told(a, t, S, i)
  PROVE  Told(AddPart(a, p), Fragment(i, t, p), S \cup {p}, i)
  <1> DEFINE A == AddPart(a, p)
             c == Before(a, p.index)
  <1>1. CASE Refused(a, p)
    <2>1. A.ok = FALSE
      BY <1>1, AddPartIs
    <2>2. QED
      BY <2>1 DEF Told
  <1>2. CASE ~Refused(a, p)
    <2>1. /\ a.ok
          /\ ~Changes(c.id, p.id) /\ ~Changes(c.name, p.name)
      BY <1>2 DEF Refused
    <2>2. A.calls = [j \in {p.index} \cup DOMAIN a.calls |->
                        IF j = p.index THEN Extended(c, p) ELSE a.calls[j]]
      BY <1>2, AddPartIs
    <2>3. CASE p.index # i
      <3>1. (i \in DOMAIN A.calls <=> i \in DOMAIN a.calls) /\ (i \in DOMAIN a.calls => A.calls[i] = a.calls[i])
        <4> HIDE DEF A, c
        <4>1. QED
          BY <2>2, <2>3
      <3>2. IdsAt(S \cup {p}, i) = IdsAt(S, i) /\ NamesAt(S \cup {p}, i) = NamesAt(S, i)
        <4>1. SaysAsMuch(S, p, i)
          BY ONLY <2>3, PartElsewhere
        <4>2. QED
          BY ONLY <4>1 DEF SaysAsMuch
      <3>3. Fragment(i, t, p) = t
        BY <2>3 DEF Fragment
      <3> HIDE DEF A, c
      <3>4. QED
        BY <2>1, <2>3, <3>1, <3>2, <3>3 DEF Told, A
    <2>4. CASE p.index = i
      <3>1. i \in DOMAIN A.calls /\ A.calls[i] = Extended(c, p)
        <4> HIDE DEF A, c
        <4>1. QED
          BY <2>2, <2>4
      <3>2. /\ IdsAt(S \cup {p}, i) = IdsAt(S, i) \cup ({p.id} \ {None})
            /\ NamesAt(S \cup {p}, i) = NamesAt(S, i) \cup ({p.name} \ {None})
        <4>1. SaysMore(S, p, i)
          BY ONLY <2>4, PartHere
        <4>2. QED
          BY ONLY <4>1 DEF SaysMore
      <3>3. /\ IdsAt(S, i) = {c.id} \ {None} /\ NamesAt(S, i) = {c.name} \ {None}
            /\ c.arguments = t
        <4>1. CASE i \in DOMAIN a.calls
          BY <2>1, <2>4, <4>1 DEF Told, Before
        <4>2. CASE i \notin DOMAIN a.calls
          <5>1. c = NoPart /\ t = <<>> /\ \A q \in S : q.index # i
            BY <2>1, <2>4, <4>2 DEF Told, Before
          <5>2. QED
            BY <5>1, NothingAt DEF NoPart
        <4>3. QED
          BY <4>1, <4>2
      <3> HIDE DEF A, c
      <3>4. /\ IdsAt(S \cup {p}, i) = {Given(c.id, p.id)} \ {None}
            /\ NamesAt(S \cup {p}, i) = {Given(c.name, p.name)} \ {None}
        BY <2>1, <3>2, <3>3, OneValue
      <3>5. Fragment(i, t, p) = t \o p.arguments
        BY <2>4 DEF Fragment
      <3>6. /\ A.calls[i].arguments = t \o p.arguments
            /\ A.calls[i].id = Given(c.id, p.id) /\ A.calls[i].name = Given(c.name, p.name)
        BY <3>1, <3>3 DEF Extended
      <3>7. QED
        BY <2>4, <3>1, <3>4, <3>5, <3>6 DEF Told, A
    <2>5. QED
      BY <2>3, <2>4
  <1>3. QED
    BY <1>1, <1>2

\* The parts that came with the first k elements of ps
Seen(ps, k) == {ps[j] : j \in 1..k}

LEMMA SeenGrows ==
  ASSUME NEW ps, NEW k \in Nat, k # 0
  PROVE  Seen(ps, k) = Seen(ps, k - 1) \cup {ps[k]}
  <1>1. 1..k = (1..(k - 1)) \cup {k}
    BY Prefix
  <1>2. QED
    BY <1>1 DEF Seen

\* ... all the parts of a frame, ...
LEMMA ToldParts ==
  ASSUME NEW a \in Answers, NEW ps \in PartLists, NEW t \in CallText, NEW S, NEW i,
         Told(a, t, S, i)
  PROVE  /\ Told(FoldLeft(AddPart, a, ps), Fragments(i, ps, t), S \cup Range(ps), i)
         /\ FoldLeft(AddPart, a, ps).done = a.done
         /\ FoldLeft(AddPart, a, ps).ok => a.ok
  <1> DEFINE n == Len(ps)
  <1>1. PICK r \in [0..n -> Answers] :
            /\ r[0] = a
            /\ \A k \in 1..n : r[k] = AddPart(r[k - 1], ps[k])
            /\ FoldLeft(AddPart, a, ps) = r[n]
    BY PartRuns
  <1>2. PICK q \in [0..n -> CallText] :
            /\ q[0] = t
            /\ \A k \in 1..n : q[k] = Fragment(i, q[k - 1], ps[k])
            /\ Fragments(i, ps, t) = q[n]
    <2>1. PICK q : FragmentRun(i, t, ps, q)
      BY FragmentRuns
    <2>2. QED
      BY ONLY <2>1 DEF FragmentRun
  <1>3. n \in Nat /\ DOMAIN ps = 1..n /\ \A k \in 1..n : ps[k] \in AllParts
    BY DEF PartLists
  <1> HIDE DEF n
  <1> DEFINE Good(k) == /\ Told(r[k], q[k], S \cup Seen(ps, k), i)
                        /\ r[k].done = a.done /\ (r[k].ok => a.ok)
  <1>4. Good(0)
    <2>1. S \cup Seen(ps, 0) = S
      BY DEF Seen
    <2>2. QED
      BY <1>1, <1>2, <2>1
  <1>5. ASSUME NEW k \in 1..n, Good(k - 1) PROVE Good(k)
    <2> DEFINE b == r[k - 1]
               u == q[k - 1]
               V == S \cup Seen(ps, k - 1)
    <2>1. b \in Answers /\ ps[k] \in AllParts /\ k \in Nat /\ k # 0
      BY <1>3
    <2>2. r[k] = AddPart(b, ps[k]) /\ q[k] = Fragment(i, u, ps[k])
      BY <1>1, <1>2
    <2>3. S \cup Seen(ps, k) = V \cup {ps[k]}
      BY <2>1, SeenGrows
    <2>4. Told(b, u, V, i) /\ b.done = a.done /\ (b.ok => a.ok)
      BY <1>5
    <2> HIDE DEF b, u, V
    <2>5. Told(r[k], q[k], S \cup Seen(ps, k), i)
      BY <2>1, <2>2, <2>3, <2>4, ToldStep
    <2>6. r[k].done = b.done
      BY <2>1, <2>2, AddPartKeeps
    <2>7. r[k].ok => b.ok
      BY <2>1, <2>2, AddPartKeeps
    <2>8. QED
      BY <2>4, <2>5, <2>6, <2>7
  <1>6. Good(n)
    <2> DEFINE G == {k \in 0..n : Good(k)}
    <2> HIDE DEF Good
    <2>1. 0 \in G /\ \A k \in 1..n : k - 1 \in G => k \in G
      BY <1>3, <1>4, <1>5
    <2> HIDE DEF G
    <2>2. n \in G
      BY <1>3, <2>1, Reaches
    <2>3. QED
      BY <2>2 DEF G
  <1>7. Seen(ps, n) = Range(ps)
    BY <1>3 DEF Seen, Range
  <1>8. QED
    BY <1>1, <1>2, <1>6, <1>7

\* ... and the frame itself keep an answer to what was said.
LEMMA ToldEvent ==
  ASSUME NEW a \in Answers, NEW f \in Frames, NEW t \in CallText, NEW S, NEW i,
         Told(a, t, S, i)
  PROVE  /\ Told(ProcessEvent(a, f), Fragments(i, f.parts, t), S \cup Range(f.parts), i)
         /\ ProcessEvent(a, f).done => a.done \/ f.done
         /\ ProcessEvent(a, f).ok => a.ok /\ ~f.error
  <1>1. /\ f.parts \in PartLists /\ f.done \in BOOLEAN /\ f.error \in BOOLEAN
        /\ f.done => ~f.error /\ f.parts = <<>>
    BY FrameFacts
  <1> DEFINE A == ProcessEvent(a, f)
  <1>2. CASE ~a.ok
    BY <1>2 DEF ProcessEvent, Told
  <1>3. CASE a.ok /\ f.done
    <2>1. A = [a EXCEPT !.done = TRUE]
      BY <1>3 DEF ProcessEvent
    <2>2. A.calls = a.calls /\ A.ok = a.ok
      BY <2>1 DEF Answers
    <2>3. f.parts = <<>> /\ ~f.error
      BY <1>1, <1>3
    <2>4. Fragments(i, <<>>, t) = t
      <3>1. <<>> \in PartLists /\ Len(<<>>) = 0
        BY DEF PartLists
      <3>2. PICK r : FragmentRun(i, t, <<>>, r)
        BY <3>1, FragmentRuns
      <3>3. QED
        BY <3>1, <3>2 DEF FragmentRun
    <2>5. S \cup Range(<<>>) = S
      BY DEF Range
    <2> HIDE DEF A
    <2>6. Told(A, t, S, i)
      BY <2>2 DEF Told
    <2>7. QED
      BY <1>3, <2>3, <2>4, <2>5, <2>6 DEF A
  <1>4. CASE a.ok /\ ~f.done /\ f.error
    <2>1. A = [a EXCEPT !.ok = FALSE]
      BY <1>4 DEF ProcessEvent
    <2>2. A.ok = FALSE /\ A.done = a.done
      BY <2>1 DEF Answers
    <2> HIDE DEF A
    <2>3. QED
      BY <2>2 DEF Told, A
  <1>5. CASE a.ok /\ ~f.done /\ ~f.error
    <2> DEFINE b == [a EXCEPT !.finish = Given(@, f.finish)]
    <2>1. A = FoldLeft(AddPart, b, f.parts)
      BY <1>5 DEF ProcessEvent
    <2>2. b \in Answers /\ b.calls = a.calls /\ b.ok = a.ok /\ b.done = a.done
      BY FrameFacts DEF Answers, Given
    <2> HIDE DEF b, A
    <2>3. Told(b, t, S, i)
      BY <2>2 DEF Told
    <2>4. /\ Told(FoldLeft(AddPart, b, f.parts), Fragments(i, f.parts, t), S \cup Range(f.parts), i)
          /\ FoldLeft(AddPart, b, f.parts).done = b.done
          /\ FoldLeft(AddPart, b, f.parts).ok => b.ok
      BY <1>1, <2>2, <2>3, ToldParts
    <2>5. QED
      BY <1>5, <2>1, <2>2, <2>4 DEF A
  <1>6. QED
    BY <1>2, <1>3, <1>4, <1>5

\* The parts of the first k frames
PartsUntil(fs, k) == UNION {Range(fs[j].parts) : j \in 1..k}

LEMMA PartsGrow ==
  ASSUME NEW fs, NEW k \in Nat, k # 0
  PROVE  PartsUntil(fs, k) = PartsUntil(fs, k - 1) \cup Range(fs[k].parts)
  <1>1. 1..k = (1..(k - 1)) \cup {k}
    BY Prefix
  <1>2. QED
    BY <1>1 DEF PartsUntil

\* What the answer has after k frames
ReadUntil(a, t, fs, k, i) ==
    /\ Told(a, t, PartsUntil(fs, k), i)
    /\ a.done => \E j \in 1..k : fs[j].done
    /\ a.ok => \A j \in 1..k : ~fs[j].error

LEMMA ReadStep ==
  ASSUME NEW a \in Answers, NEW t \in CallText, NEW fs, NEW k \in Nat, k # 0, fs[k] \in Frames,
         NEW i, ReadUntil(a, t, fs, k - 1, i)
  PROVE  ReadUntil(ProcessEvent(a, fs[k]), Fragments(i, fs[k].parts, t), fs, k, i)
  <1> DEFINE f == fs[k]
             V == PartsUntil(fs, k - 1)
             A == ProcessEvent(a, f)
  <1>1. Told(a, t, V, i) /\ (a.done => \E j \in 1..(k - 1) : fs[j].done)
                         /\ (a.ok => \A j \in 1..(k - 1) : ~fs[j].error)
    BY DEF ReadUntil
  <1>2. PartsUntil(fs, k) = V \cup Range(f.parts)
    BY PartsGrow
  <1>3. 1..k = (1..(k - 1)) \cup {k}
    BY Prefix
  <1>4. f \in Frames
    OBVIOUS
  <1> HIDE DEF f, V, A
  <1>5. /\ Told(A, Fragments(i, f.parts, t), V \cup Range(f.parts), i)
        /\ A.done => a.done \/ f.done
        /\ A.ok => a.ok /\ ~f.error
    BY <1>1, <1>4, ToldEvent DEF A
  <1>6. A.done => \E j \in 1..k : fs[j].done
    BY <1>1, <1>3, <1>5 DEF f
  <1>7. A.ok => \A j \in 1..k : ~fs[j].error
    BY <1>1, <1>3, <1>5 DEF f
  <1>8. ReadUntil(A, Fragments(i, f.parts, t), fs, k, i)
    BY <1>2, <1>5, <1>6, <1>7 DEF ReadUntil
  <1>9. QED
    BY <1>8 DEF A, f

\* What the answer has at the end of the stream
LEMMA StreamRead ==
  ASSUME NEW fs \in FrameLists, NEW i
  PROVE  /\ FoldLeft(ProcessEvent, NewAnswer, fs) \in Answers
         /\ Told(FoldLeft(ProcessEvent, NewAnswer, fs), TextAt(i, fs), Parts(fs), i)
         /\ FoldLeft(ProcessEvent, NewAnswer, fs).done => \E f \in Range(fs) : f.done
         /\ FoldLeft(ProcessEvent, NewAnswer, fs).ok => \A f \in Range(fs) : ~f.error
  <1> DEFINE n == Len(fs)
  <1>1. PICK r \in [0..n -> Answers] :
            /\ r[0] = NewAnswer
            /\ \A k \in 1..n : r[k] = ProcessEvent(r[k - 1], fs[k])
            /\ FoldLeft(ProcessEvent, NewAnswer, fs) = r[n]
    BY EventRuns
  <1>2. PICK q \in [0..n -> CallText] :
            /\ q[0] = <<>>
            /\ \A k \in 1..n : q[k] = Fragments(i, fs[k].parts, q[k - 1])
            /\ TextAt(i, fs) = q[n]
    <2>1. PICK q : TextAtRun(i, fs, q)
      BY TextAtRuns
    <2>2. QED
      BY ONLY <2>1 DEF TextAtRun
  <1>3. n \in Nat /\ DOMAIN fs = 1..n /\ \A k \in 1..n : fs[k] \in Frames
    BY DEF FrameLists
  <1> HIDE DEF n
  <1> DEFINE Good(k) == ReadUntil(r[k], q[k], fs, k, i)
  <1>4. Good(0)
    <2>1. PartsUntil(fs, 0) = {} /\ 1..0 = {}
      BY DEF PartsUntil
    <2>2. DOMAIN NewAnswer.calls = {} /\ NewAnswer.done = FALSE
      BY DEF NewAnswer
    <2>3. Told(NewAnswer, <<>>, {}, i)
      BY <2>2 DEF Told
    <2>4. QED
      BY <1>1, <1>2, <2>1, <2>2, <2>3 DEF ReadUntil
  <1>5. ASSUME NEW k \in 1..n, Good(k - 1) PROVE Good(k)
    <2> DEFINE b == r[k - 1]
               u == q[k - 1]
    <2>1. b \in Answers /\ u \in CallText /\ fs[k] \in Frames /\ k \in Nat /\ k # 0
      BY <1>3
    <2>2. r[k] = ProcessEvent(b, fs[k]) /\ q[k] = Fragments(i, fs[k].parts, u)
      BY <1>1, <1>2
    <2>3. ReadUntil(b, u, fs, k - 1, i)
      BY <1>5
    <2> HIDE DEF b, u
    <2>4. QED
      BY <2>1, <2>2, <2>3, ReadStep
  <1>6. Good(n)
    <2> DEFINE G == {k \in 0..n : Good(k)}
    <2> HIDE DEF Good
    <2>1. 0 \in G /\ \A k \in 1..n : k - 1 \in G => k \in G
      BY <1>3, <1>4, <1>5
    <2> HIDE DEF G
    <2>2. n \in G
      BY <1>3, <2>1, Reaches
    <2>3. QED
      BY <2>2 DEF G
  <1>7. PartsUntil(fs, n) = Parts(fs) /\ Range(fs) = {fs[j] : j \in 1..n}
    BY <1>3 DEF PartsUntil, Parts, Range
  <1>8. /\ Told(r[n], q[n], PartsUntil(fs, n), i)
        /\ r[n].done => \E j \in 1..n : fs[j].done
        /\ r[n].ok => \A j \in 1..n : ~fs[j].error
    BY <1>6 DEF ReadUntil
  <1>9. r[n] \in Answers
    BY <1>3
  <1> DEFINE last == r[n]
  <1> HIDE DEF last
  <1>10. /\ last.done => \E f \in Range(fs) : f.done
         /\ last.ok => \A f \in Range(fs) : ~f.error
    BY <1>7, <1>8 DEF last
  <1>11. QED
    BY <1>1, <1>2, <1>7, <1>8, <1>9, <1>10 DEF last

\* A finite set of indices can be put in order: its least goes before the rest.
Increasing(s) == \A i, j \in DOMAIN s : i < j => s[i] < s[j]

LEMMA CanBeOrdered ==
  ASSUME NEW S, S \subseteq Nat, IsFiniteSet(S)
  PROVE  \E s \in [1..Cardinality(S) -> S] : Increasing(s)
  <1> DEFINE Fine(T) == \E s \in [1..Cardinality(T) -> T] : Increasing(s)
             bad == {k \in Nat : \E T \in SUBSET S : Cardinality(T) = k /\ ~Fine(T)}
  <1>1. \A T \in SUBSET S : IsFiniteSet(T) /\ Cardinality(T) \in Nat
    BY FS_Subset, FS_CardinalityType
  <1>2. SUFFICES ASSUME bad # {} PROVE FALSE
    BY <1>1
  <1>3. PICK k \in bad : \A j \in bad : k <= j
    <2> HIDE DEF Fine
    <2>1. QED
      BY <1>2, LeastNatural
  <1>4. PICK T \in SUBSET S : Cardinality(T) = k /\ ~Fine(T)
    BY <1>3
  <1>5. CASE T = {}
    <2>1. k = 0
      BY <1>4, <1>5, FS_EmptySet
    <2>2. <<>> \in [1..0 -> {}] /\ Increasing(<<>>)
      BY DEF Increasing
    <2>3. QED
      BY <1>4, <1>5, <2>1, <2>2
  <1>6. CASE T # {}
    <2>1. PICK x \in T : \A y \in T : x <= y
      BY <1>6, LeastNatural
    <2> DEFINE U == T \ {x}
    <2>2. Cardinality(U) = k - 1 /\ k - 1 \in Nat /\ k \in Nat /\ U \in SUBSET S
      <3>1. IsFiniteSet(T) /\ U \in SUBSET S
        BY <1>1
      <3>2. Cardinality(U) = k - 1
        BY <1>4, <2>1, <3>1, FS_RemoveElement
      <3>3. Cardinality(U) \in Nat /\ k \in Nat
        BY <1>1, <1>3, <3>1
      <3>4. QED
        BY <3>1, <3>2, <3>3
    <2>3. Fine(U)
      <3> HIDE DEF Fine, U
      <3>1. k - 1 \notin bad
        BY <1>3, <2>2
      <3>2. QED
        BY <2>2, <3>1
    <2>4. PICK s \in [1..(k - 1) -> U] : Increasing(s)
      BY <2>2, <2>3
    <2> DEFINE t == [i \in 1..k |-> IF i = 1 THEN x ELSE s[i - 1]]
    <2>5. \A i \in 1..k : i # 1 => i - 1 \in 1..(k - 1) /\ s[i - 1] \in U
      BY <2>2, <2>4
    <2>6. t \in [1..k -> T]
      BY <2>1, <2>5
    <2>7. Increasing(t)
      <3>1. SUFFICES ASSUME NEW i \in 1..k, NEW j \in 1..k, i < j PROVE t[i] < t[j]
        BY DEF Increasing
      <3>2. j # 1 /\ t[j] = s[j - 1] /\ j - 1 \in 1..(k - 1)
        BY <2>2, <2>5, <3>1
      <3>3. CASE i = 1
        <4>1. s[j - 1] \in T /\ s[j - 1] # x
          BY <2>5, <3>2
        <4>2. s[j - 1] \in Nat /\ x \in Nat /\ x <= s[j - 1]
          BY <2>1, <4>1
        <4>3. QED
          BY <3>2, <3>3, <4>1, <4>2
      <3>4. CASE i # 1
        <4>1. t[i] = s[i - 1] /\ i - 1 \in 1..(k - 1) /\ i - 1 < j - 1
          BY <2>2, <2>5, <3>1, <3>4
        <4>2. QED
          BY <2>4, <3>2, <4>1 DEF Increasing
      <3>5. QED
        BY <3>3, <3>4
    <2>8. QED
      BY <1>4, <2>6, <2>7
  <1>7. QED
    BY <1>5, <1>6

\* Ascending lists every index once.
LEMMA AscendingLists ==
  ASSUME NEW S, S \subseteq Nat, IsFiniteSet(S)
  PROVE  /\ Cardinality(S) \in Nat
         /\ Ascending(S) \in [1..Cardinality(S) -> S]
         /\ \A j, k \in 1..Cardinality(S) : Ascending(S)[j] = Ascending(S)[k] => j = k
         /\ \A x \in S : \E k \in 1..Cardinality(S) : Ascending(S)[k] = x
  <1> DEFINE n == Cardinality(S)
             s == Ascending(S)
  <1>1. n \in Nat /\ IsFiniteSet(1..n) /\ Cardinality(1..n) = n
    BY FS_CardinalityType, FS_Interval
  <1>2. s \in [1..n -> S] /\ Increasing(s)
    BY CanBeOrdered DEF Ascending, Increasing
  <1> HIDE DEF s
  <1>3. \A a, b \in 1..n : s[a] = s[b] => a = b
    <2>1. \A a, b \in 1..n : s[a] \in Nat /\ (a < b => s[a] < s[b])
      BY <1>2 DEF Increasing
    <2>2. QED
      BY <1>1, <2>1
  <1>4. s \in Injection(1..n, S)
    BY <1>2, <1>3 DEF Injection, IsInjective
  <1>5. s \in Surjection(1..n, S)
    BY <1>1, <1>4, FS_Injection
  <1>6. \A x \in S : \E i \in 1..n : s[i] = x
    BY <1>5 DEF Surjection
  <1>7. QED
    BY <1>1, <1>2, <1>3, <1>6 DEF s

\* An answer that stream_async passes on as a batch
ValidAnswer(a) ==
    /\ a.ok /\ Ended(a)
    /\ \A i \in DOMAIN a.calls :
          /\ a.calls[i].id # None
          /\ a.calls[i].name \in DOMAIN Schema
          /\ a.calls[i].arguments = CompleteJson
          /\ \A j \in DOMAIN a.calls : a.calls[j].id = a.calls[i].id => j = i

\* The calls of it, in order
BatchCalls(a) ==
    [k \in DOMAIN Ascending(DOMAIN a.calls) |->
        <<a.calls[Ascending(DOMAIN a.calls)[k]].id,
          Schema[a.calls[Ascending(DOMAIN a.calls)[k]].name]>>]

\* Calls are passed on from a valid answer only.
LEMMA BatchIs ==
  ASSUME NEW fs, Batch(fs).calls # <<>>
  PROVE  /\ ValidAnswer(FoldLeft(ProcessEvent, NewAnswer, fs))
         /\ Batch(fs).calls = BatchCalls(FoldLeft(ProcessEvent, NewAnswer, fs))
  <1> DEFINE a == FoldLeft(ProcessEvent, NewAnswer, fs)
  <1> HIDE DEF a
  <1>1. Batch(fs) = IF ValidAnswer(a) THEN [ok |-> TRUE, calls |-> BatchCalls(a)]
                    ELSE [ok |-> FALSE, calls |-> <<>>]
    BY DEF Batch, ValidAnswer, BatchCalls, a
  <1>2. ValidAnswer(a) /\ Batch(fs).calls = BatchCalls(a)
    BY <1>1
  <1>3. QED
    BY <1>2 DEF a

LEMMA IndicesFinite == IsFiniteSet(Indices) /\ Indices \subseteq Nat
  <1>1. MaxBatch \in Nat
    BY StreamAssumption
  <1>2. Indices \in SUBSET Nat /\ \A i \in Indices : i <= MaxBatch
    BY <1>1 DEF Indices
  <1>3. QED
    BY <1>1, <1>2, FS_BoundedSetOfNaturals

\* The calls of a valid answer are one for each index, with ids of their own.
LEMMA CallsCounted ==
  ASSUME NEW a \in Answers, ValidAnswer(a)
  PROVE  /\ BatchCalls(a) \in [1..Cardinality(DOMAIN a.calls) ->
                                  {<<a.calls[i].id, Schema[a.calls[i].name]>> : i \in DOMAIN a.calls}]
         /\ Len(BatchCalls(a)) = Cardinality(DOMAIN a.calls)
         /\ Cardinality({c[1] : c \in Range(BatchCalls(a))}) = Cardinality(DOMAIN a.calls)
         /\ \A i \in DOMAIN a.calls : <<a.calls[i].id, Schema[a.calls[i].name]>> \in Range(BatchCalls(a))
  <1> DEFINE D == DOMAIN a.calls
             n == Cardinality(D)
             o == Ascending(D)
             Of(i) == <<a.calls[i].id, Schema[a.calls[i].name]>>
             b == BatchCalls(a)
  <1>1. D \subseteq Nat /\ IsFiniteSet(D)
    <2>1. D \subseteq Indices
      BY CallMapFacts DEF Answers
    <2> HIDE DEF D
    <2>2. QED
      BY <2>1, IndicesFinite, FS_Subset
  <1>2. /\ n \in Nat /\ o \in [1..n -> D]
        /\ \A j, k \in 1..n : o[j] = o[k] => j = k
        /\ \A x \in D : \E k \in 1..n : o[k] = x
    <2> HIDE DEF D
    <2>1. QED
      BY <1>1, AscendingLists
  <1>3. b = [k \in 1..n |-> Of(o[k])]
    <2>1. DOMAIN o = 1..n
      BY <1>2
    <2>2. QED
      BY <2>1 DEF BatchCalls
  <1> HIDE DEF o, n, b
  <1>4. b \in [1..n -> {Of(i) : i \in D}]
    BY <1>2, <1>3
  <1>5. Len(b) = n
    <2> DEFINE V == {Of(i) : i \in D}
    <2>1. b \in [1..n -> V]
      BY <1>4
    <2> HIDE DEF V
    <2>2. b \in Seq(V) /\ DOMAIN b = 1..n
      BY <1>2, <2>1
    <2>3. QED
      BY <1>2, <2>2
  <1>6. \A i \in D : Of(i) \in Range(b)
    <2>1. ASSUME NEW i \in D PROVE Of(i) \in Range(b)
      <3>1. PICK k \in 1..n : o[k] = i
        BY <1>2
      <3>2. b[k] = Of(i) /\ k \in DOMAIN b
        BY <1>3, <3>1
      <3> HIDE DEF Of
      <3>3. QED
        BY <3>2 DEF Range
    <2>2. QED
      BY <2>1
  <1>7. Cardinality({c[1] : c \in Range(b)}) = n
    <2> DEFINE W == {c[1] : c \in Range(b)}
               f == [k \in 1..n |-> a.calls[o[k]].id]
    <2>1. \A k \in 1..n : b[k][1] = f[k]
      BY <1>3
    <2>2. Range(b) = {b[k] : k \in 1..n}
      BY <1>4 DEF Range
    <2>3. W = {f[k] : k \in 1..n}
      <3> HIDE DEF f
      <3>1. QED
        BY <2>1, <2>2
    <2>4. \A j, k \in 1..n : f[j] = f[k] => j = k
      <3>1. \A i, j \in D : a.calls[j].id = a.calls[i].id => j = i
        BY DEF ValidAnswer
      <3>2. \A k \in 1..n : o[k] \in D
        BY <1>2
      <3> HIDE DEF D
      <3>3. QED
        BY <1>2, <3>1, <3>2
    <2>5. f \in Bijection(1..n, W)
      <3>1. f \in [1..n -> W] /\ \A w \in W : \E k \in 1..n : f[k] = w
        <4>1. DOMAIN f = 1..n /\ f = [k \in 1..n |-> f[k]]
          OBVIOUS
        <4> HIDE DEF f, W
        <4>2. QED
          BY <2>3, <4>1
      <3> HIDE DEF f, W
      <3>2. QED
        BY <2>4, <3>1 DEF Bijection, Injection, Surjection, IsInjective
    <2>6. ExistsBijection(1..n, W)
      BY <2>5 DEF ExistsBijection
    <2> HIDE DEF W
    <2>7. Cardinality(W) = n
      BY <1>2, <2>6, FS_CountingElements
    <2>8. QED
      BY <2>7 DEF W
  <1>8. QED
    BY <1>4, <1>5, <1>6, <1>7 DEF n, b

\* No tool call is passed on unless the whole answer arrived and every call of
\* it is whole (process_router_event and stream_async): for any frames, any
\* number of them, any limit of calls and any advertised tools.
THEOREM BatchesHold == OnlyCompleteBatches
  <1> SUFFICES ASSUME NEW fs \in UpTo(Frames, MaxFrames), NEW after \in 0..Len(fs),
                      Stream(fs, after).calls # <<>>
               PROVE  LET b == Stream(fs, after)
                          ps == Parts(fs)
                          used == {p.index : p \in ps}
                      IN  /\ after = Len(fs)
                          /\ \E f \in Range(fs) : f.done
                          /\ ~\E f \in Range(fs) : f.error
                          /\ Len(b.calls) = Cardinality(used)
                          /\ Cardinality({c[1] : c \in Range(b.calls)}) = Len(b.calls)
                          /\ \A i \in used :
                                /\ TextAt(i, fs) = CompleteJson
                                /\ \E n \in DOMAIN Schema : \E id \in IdsAt(ps, i) :
                                      /\ NamesAt(ps, i) = {n}
                                      /\ IdsAt(ps, i) = {id}
                                      /\ <<id, Schema[n]>> \in Range(b.calls)
    BY DEF OnlyCompleteBatches
  <1> DEFINE b == Stream(fs, after)
             ps == Parts(fs)
             used == {p.index : p \in ps}
             a == FoldLeft(ProcessEvent, NewAnswer, fs)
             D == DOMAIN a.calls
  <1>1. fs \in FrameLists
    <2>1. PICK k \in Nat : fs \in [1..k -> Frames]
      BY StreamAssumption, InUpTo
    <2>2. QED
      BY <2>1 DEF FrameLists
  <1>2. after = Len(fs) /\ b = Batch(fs)
    <2>1. ~(after < Len(fs))
      BY DEF Stream
    <2>2. Len(fs) \in Nat
      BY <1>1 DEF FrameLists
    <2>3. QED
      BY <2>1, <2>2 DEF Stream
  <1>3. ValidAnswer(a) /\ b.calls = BatchCalls(a)
    BY <1>2, BatchIs
  <1>4. /\ a \in Answers
        /\ \A i : Told(a, TextAt(i, fs), ps, i)
        /\ a.done => \E f \in Range(fs) : f.done
        /\ a.ok => \A f \in Range(fs) : ~f.error
    BY <1>1, StreamRead
  <1> HIDE DEF a, b, ps
  <1>5. a.ok /\ a.done
    BY <1>3 DEF ValidAnswer, Ended
  <1>6. \A i : i \in D <=> \E p \in ps : p.index = i
    BY <1>4, <1>5 DEF Told
  <1>7. used = D
    BY <1>6
  <1>8. /\ Len(b.calls) = Cardinality(D)
        /\ Cardinality({c[1] : c \in Range(b.calls)}) = Cardinality(D)
        /\ \A i \in D : <<a.calls[i].id, Schema[a.calls[i].name]>> \in Range(b.calls)
    BY <1>3, <1>4, CallsCounted
  <1>9. ASSUME NEW i \in D
        PROVE  /\ TextAt(i, fs) = CompleteJson
               /\ \E n \in DOMAIN Schema : \E id \in IdsAt(ps, i) :
                     /\ NamesAt(ps, i) = {n}
                     /\ IdsAt(ps, i) = {id}
                     /\ <<id, Schema[n]>> \in Range(b.calls)
    <2>1. /\ a.calls[i].arguments = TextAt(i, fs)
          /\ IdsAt(ps, i) = {a.calls[i].id} \ {None}
          /\ NamesAt(ps, i) = {a.calls[i].name} \ {None}
      BY <1>4, <1>5 DEF Told
    <2>2. /\ a.calls[i].id # None /\ a.calls[i].name \in DOMAIN Schema
          /\ a.calls[i].arguments = CompleteJson
      BY <1>3 DEF ValidAnswer
    <2>3. a.calls[i].name # None
      BY <2>2, StreamAssumption
    <2>4. IdsAt(ps, i) = {a.calls[i].id} /\ NamesAt(ps, i) = {a.calls[i].name}
      BY <2>1, <2>2, <2>3
    <2>5. QED
      BY <1>8, <2>1, <2>2, <2>4
  <1>10. QED
    BY <1>2, <1>4, <1>5, <1>7, <1>8, <1>9 DEF b, ps

-----------------------------------------------------------------------------

\* While the worker reads an answer: its cuts make no difference, only whole
\* batches of calls leave the stream, and they name advertised tools.
THEOREM AnswersReadWholeHolds == Spec => []AnswersReadWhole
  <1>1. AnswersReadWhole
    BY CutsHold, BatchesHold, WireNamesHold DEF AnswersReadWhole
  <1>2. QED
    BY <1>1, PTL
=============================================================================
