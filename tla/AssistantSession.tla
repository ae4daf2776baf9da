-------------------------- MODULE AssistantSession --------------------------
(***************************************************************************)
(* The assistant of the terminal application: the harness that runs a turn *)
(* (mesh_agent/src/harness.rs), the tools it may call (tools.rs),          *)
(* and how the application starts, stops and reads it and routes its       *)
(* proposals to local reviews (mesh_tui/src/lib.rs).  What one stream can   *)
(* yield is RouterStream; here it fails or yields a batch of calls.        *)
(*                                                                         *)
(* While a run is going the harness belongs to the worker thread; the      *)
(* application has it back when it takes the completed run.                *)
(***************************************************************************)
EXTENDS RouterStream

CONSTANTS Ops,         \* prepared mutations
          NoOp,
          Acts,        \* what a call asks for: its name and arguments
          MaxCalls,    \* profile.max_tool_calls
          MaxContext,  \* messages that fit into a request
          MaxHandles,  \* 16 in the code
          Limit,       \* profile.max_cost_usd
          Capped,      \* the profile caps the prices of input and output
          Reserve,     \* most that a request costs; under the caps, what they allow
          MaxTurns     \* bound on the runs of a session

ASSUME AssistantAssumption ==
    /\ NoOp \notin Ops
    /\ {MaxBatch, MaxCalls, MaxContext, MaxHandles, Limit, Reserve, MaxTurns} \subseteq Nat
    /\ Capped \in BOOLEAN
    /\ Acts \subseteq {"read", "verify", "clarify", "patch"} \cup Ops

VARIABLES
    \* the harness
    history,   \* messages after the system message
    waiting,   \* pending_review, or NoOp
    spent, unknown,
    prepared,  \* ToolExecutor.prepared
    grants,    \* drafts and integrity_consent
    \* its run
    pc, guided, cancel, todo, calls, repairs, repeated, awaiting, offered,
    \* the application
    review, job, turns,
    \* the provider's bill for this harness, and whether a run was ever stopped
    billed, everStopped

harness == <<history, waiting, spent, unknown, prepared, grants>>
run == <<guided, todo, calls, repairs, repeated, awaiting, offered>>
app == <<review, job, turns>>
vars == <<harness, run, pc, cancel, app, billed, everStopped>>

User == <<"user">>
Answer == <<"assistant">>
CallsOf(b) == <<"calls", Len(b)>>
Result == <<"tool">>

NoJob == [kind |-> "none", op |-> NoOp]
Granted == {"draft", "consent"}

Init ==
    /\ history = <<>> /\ waiting = NoOp /\ spent = 0 /\ unknown = FALSE
    /\ prepared = {} /\ grants = {}
    /\ pc = "idle" /\ guided = FALSE /\ cancel = FALSE /\ todo = <<>>
    /\ calls = 0 /\ repairs = 0 /\ repeated = {} /\ awaiting = FALSE /\ offered = NoOp
    /\ review = NoOp /\ job = NoJob /\ turns = 0
    /\ billed = 0 /\ everStopped = FALSE

-----------------------------------------------------------------------------
(* The run, in the worker thread                                           *)

InvalidateHandles == prepared' = {} /\ grants' = {}

\* expire_interrupted_state
Expire == waiting' = NoOp /\ InvalidateHandles

\* The thread sends Complete; what only the run held is gone.
Return(op) ==
    /\ pc' = "done" /\ offered' = op
    /\ todo' = <<>> /\ calls' = 0 /\ repairs' = 0
    /\ repeated' = {} /\ awaiting' = FALSE
    /\ UNCHANGED guided

\* run_mode refuses a turn while a review is pending.
MayStart == waiting = NoOp

\* HostedAgentState::start and the head of run_mode.  An ordinary turn needs
\* an idle application; the guide's do not.
StartRun(g) ==
    /\ pc = "idle" /\ turns < MaxTurns
    /\ g \/ (job = NoJob /\ review = NoOp)
    /\ turns' = turns + 1
    /\ cancel' = FALSE /\ guided' = g
    /\ \/ MayStart /\ pc' = "check" /\ history' \in {history, Append(history, User)}
       \/ ~MayStart /\ pc' = "done" /\ UNCHANGED history
    /\ UNCHANGED <<waiting, spent, unknown, prepared, grants, todo, calls,
                   repairs, repeated, awaiting, offered, review, job, billed, everStopped>>

Fits(h) == Len(h) <= MaxContext

\* What bounded_request can leave: all of it, or from a user message on that
\* is not the last one.
Kept(h) == {h} \cup {SubSeq(h, i, Len(h)) :
    i \in {k \in DOMAIN h : h[k] = User /\ (\E j \in k+1..Len(h) : h[j] = User)
                                        /\ (\E j \in 1..k-1 : h[j] = User)}}

\* Mutant: the oldest message goes, whatever it is.
TrimmedByMessage(h) == IF Fits(h) THEN h ELSE SubSeq(h, Len(h) - MaxContext + 1, Len(h))

\* The longest that fits, or the shortest there is.
Trimmed(h) ==
    LET fitting == {k \in Kept(h) : Fits(k)}
    IN  IF fitting # {} THEN CHOOSE k \in fitting : \A o \in fitting : Len(o) <= Len(k)
                        ELSE CHOOSE k \in Kept(h) : \A o \in Kept(h) : Len(k) <= Len(o)

\* Mutant: a bill that never came counts as nothing.
AffordableKnown == spent < Limit /\ (Capped => spent + Reserve <= Limit)

\* The cost tests before a request; there is a reserve only under price caps.
Affordable == ~unknown /\ spent < Limit /\ (Capped => spent + Reserve <= Limit)

\* The head of the loop, up to the request
Dispatch ==
    /\ pc = "check"
    /\ IF cancel
       THEN Expire /\ Return(NoOp) /\ UNCHANGED history
       ELSE /\ history' \in {Trimmed(history)} \cup (IF Affordable THEN {} ELSE {history})
            /\ IF Affordable /\ Fits(history')
               THEN pc' = "stream" /\ UNCHANGED run
               ELSE Return(NoOp)
            /\ UNCHANGED <<waiting, prepared, grants>>
    /\ UNCHANGED <<spent, unknown, cancel, app, billed, everStopped>>

\* The request has cost something; only a priced usage frame tells how much.
Account ==
    \E c \in 0..Reserve :
        /\ billed' = billed + c
        /\ \/ spent' = spent + c /\ UNCHANGED unknown
           \/ unknown' = TRUE /\ UNCHANGED spent

\* An error of any kind, the deadline included, or a cancellation.
StreamFails ==
    /\ pc = "stream"
    /\ Account
    /\ Return(NoOp)
    /\ \/ cancel /\ Expire
       \/ UNCHANGED <<waiting, prepared, grants>>
    /\ UNCHANGED <<history, cancel, app, everStopped>>

Repeats(b) == \E i \in DOMAIN b :
    b[i] \in repeated \/ \E j \in 1..i-1 : b[j] = b[i]

\* max_tool_calls and repeated calls
Accept(b) == calls + Len(b) <= MaxCalls /\ ~Repeats(b)

\* The stream ended properly: limits, then the answer or the batch.
StreamCompletes ==
    /\ pc = "stream"
    /\ Account
    /\ \/ cancel /\ Expire /\ Return(NoOp) /\ UNCHANGED history
       \/ /\ ~cancel
          /\ UNCHANGED <<waiting, prepared, grants>>
          /\ \/ Return(NoOp) /\ UNCHANGED history     \* too long, too late or too expensive
             \/ /\ spent' < Limit
                /\ \E n \in 0..MaxBatch : \E b \in [1..n -> Acts] :
                   \/ b = <<>> /\ history' = Append(history, Answer) /\ Return(NoOp)
                   \/ b # <<>> /\ (guided \/ ~Accept(b)) /\ UNCHANGED history /\ Return(NoOp)
                   \/ /\ b # <<>> /\ ~guided /\ Accept(b)
                      /\ history' = Append(history, CallsOf(b))
                      /\ pc' = "tools" /\ todo' = b
                      /\ repeated' = repeated \cup {b[i] : i \in DOMAIN b}
                      /\ UNCHANGED <<guided, calls, repairs, awaiting, offered>>
    /\ UNCHANGED <<cancel, app, everStopped>>

\* product_inspect: the full integrity read uses up a consent.
InspectAnswers == IF "consent" \in grants THEN {"read"} ELSE {}

\* catalog_search, peers_status, catalog_refresh, help_lookup
LookupAnswers == {"read"}

\* publication_validate patches a draft the user has exposed.
PatchAnswers == IF "draft" \in grants THEN {"local"} ELSE {}

\* review_existing: the handle must be one of this session.
ReviewAnswers(o) == IF o \in prepared THEN {"review"} ELSE {}

\* What ToolExecutor::execute can answer.  Bad arguments, errors of the
\* project, and a call id that was handled before or is one too many for the
\* session are rejections too.
Outcomes(a) ==
    IF awaiting THEN {"rejected"}
    ELSE {"rejected"} \cup
         CASE a = "read"    -> LookupAnswers
           [] a = "verify"  -> InspectAnswers
           [] a = "clarify" -> {"local"}
           [] a = "patch"   -> PatchAnswers
           [] a \in Ops     -> ReviewAnswers(a)

\* Mutant: the handle stays usable after its review is opened.
TakePreparedKeeps(o) == prepared' = prepared

\* take_prepared_operation
TakePrepared(o) == prepared' = prepared \ {o}

\* One call of the batch
ToolStep ==
    /\ pc = "tools" /\ todo # <<>>
    /\ IF cancel
       THEN Expire /\ Return(NoOp) /\ UNCHANGED history
       ELSE LET a == Head(todo) IN
            \E o \in Outcomes(a) :
               /\ calls' = calls + 1
               /\ todo' = Tail(todo)
               /\ repairs' = IF o = "rejected" THEN repairs + 1 ELSE repairs
               /\ awaiting' = (awaiting \/ o \in {"review", "local"})
               /\ \/ grants' = IF a = "verify" /\ ~awaiting THEN grants \ {"consent"} ELSE grants
                  \/ o = "rejected" /\ UNCHANGED grants     \* before the consent is used
               /\ IF o = "review"
                  THEN /\ TakePrepared(a)
                       /\ offered' = a /\ waiting' = a
                       /\ UNCHANGED history
                  ELSE /\ history' = Append(history, Result)
                       /\ UNCHANGED <<prepared, offered, waiting>>
               /\ UNCHANGED <<pc, guided, repeated>>
    /\ UNCHANGED <<spent, unknown, cancel, app, billed, everStopped>>

\* After the batch: stopped, local input needed, too many repairs, or on.
BatchDone ==
    /\ pc = "tools" /\ todo = <<>>
    /\ IF cancel THEN Expire /\ Return(NoOp)
       ELSE /\ UNCHANGED <<waiting, prepared, grants>>
            /\ IF awaiting \/ repairs > 1 THEN Return(offered)
               ELSE pc' = "check" /\ UNCHANGED run
    /\ UNCHANGED <<history, spent, unknown, cancel, app, billed, everStopped>>

-----------------------------------------------------------------------------
(* The application                                                         *)

\* Mutant: only the state the run ended in is looked at.
TakeCompletedLate ==
    /\ pc = "done"
    /\ pc' = "idle" /\ offered' = NoOp
    /\ review' = IF offered # NoOp /\ review = NoOp /\ job.kind # "mutation"
                 THEN offered ELSE review
    /\ UNCHANGED <<harness, guided, todo, calls, repairs, repeated, awaiting, cancel,
                   job, turns, billed, everStopped>>

\* take_completed and poll_agent.  A proposal that meets an open review or a
\* running mutation is dropped.
TakeCompleted ==
    /\ pc = "done"
    /\ pc' = "idle" /\ offered' = NoOp
    /\ IF cancel THEN Expire /\ UNCHANGED review
       ELSE /\ review' = IF offered # NoOp /\ review = NoOp /\ job.kind # "mutation"
                         THEN offered ELSE review
            /\ UNCHANGED <<waiting, prepared, grants>>
    /\ UNCHANGED <<history, spent, unknown, guided, todo, calls, repairs,
                   repeated, awaiting, cancel, job, turns, billed, everStopped>>

\* take_completed finds that the worker died in the middle of a run, and the
\* harness with it.  The next turn gets a new one, which knows of no spending.
WorkerLost ==
    /\ pc \in {"check", "stream", "tools"} /\ pc' = "idle"
    /\ history' = <<>> /\ spent' = 0 /\ unknown' = FALSE /\ billed' = 0
    /\ Expire
    /\ todo' = <<>> /\ calls' = 0 /\ repairs' = 0
    /\ repeated' = {} /\ awaiting' = FALSE /\ offered' = NoOp
    /\ UNCHANGED <<guided, cancel, app, everStopped>>

\* s, or leaving the project
Stop ==
    /\ pc # "idle" /\ ~cancel
    /\ review = NoOp
    /\ cancel' = TRUE /\ everStopped' = TRUE
    /\ UNCHANGED <<harness, run, pc, app, billed>>

\* record_review_outcome, which does nothing while the harness is away or for
\* another operation.
RecordOutcome(o) ==
    IF pc = "idle" /\ waiting = o
    THEN /\ history' = Append(history, Result)
         /\ Expire
    ELSE UNCHANGED <<history, waiting, prepared, grants>>

DenyReview ==
    /\ review # NoOp
    /\ review' = NoOp
    /\ RecordOutcome(review)
    /\ UNCHANGED <<spent, unknown, run, pc, cancel, job, turns, billed, everStopped>>

\* h: register_operation
HandOver ==
    /\ review # NoOp /\ pc = "idle"
    /\ prepared' = (IF Cardinality(prepared) >= MaxHandles THEN {} ELSE prepared) \cup {review}
    /\ review' = NoOp
    /\ UNCHANGED <<history, waiting, spent, unknown, grants, run, pc, cancel, job,
                   turns, billed, everStopped>>

\* y: the approved operation needs the one job slot.
ConfirmReview ==
    /\ review # NoOp
    /\ review' = NoOp
    /\ job' = IF job = NoJob THEN [kind |-> "mutation", op |-> review] ELSE job
    /\ UNCHANGED <<harness, run, pc, cancel, turns, billed, everStopped>>

\* A local read, or the preparation of a mutation, which the application
\* refuses while a run is going.
StartJob(kind, o) ==
    /\ review = NoOp /\ job = NoJob
    /\ kind = "prepare" => pc = "idle" /\ o \notin prepared \cup {waiting}
    /\ job' = [kind |-> kind, op |-> o]
    /\ UNCHANGED <<harness, run, pc, cancel, review, turns, billed, everStopped>>

\* poll_core, for a result of the current session
JobDone ==
    /\ job # NoJob
    /\ job' = NoJob
    /\ review' = IF job.kind = "prepare" THEN job.op ELSE review
    /\ IF job.kind = "mutation" THEN RecordOutcome(job.op)
       ELSE UNCHANGED <<history, waiting, prepared, grants>>
    /\ UNCHANGED <<spent, unknown, run, pc, cancel, turns, billed, everStopped>>

\* :agent-draft and :integrity-consent
Grant(g) ==
    /\ pc = "idle" /\ review = NoOp /\ job = NoJob
    /\ g \notin grants
    /\ grants' = grants \cup {g}
    /\ UNCHANGED <<history, waiting, spent, unknown, prepared, run, pc, cancel, app,
                   billed, everStopped>>

Worker == Dispatch \/ StreamFails \/ StreamCompletes \/ ToolStep \/ BatchDone

Next ==
    \/ Worker \/ TakeCompleted \/ WorkerLost \/ Stop
    \/ \E g \in BOOLEAN : StartRun(g)
    \/ DenyReview \/ HandOver \/ ConfirmReview \/ JobDone
    \/ StartJob("read", NoOp) \/ \E o \in Ops : StartJob("prepare", o)
    \/ \E g \in Granted : Grant(g)

Spec == Init /\ [][Next]_vars
-----------------------------------------------------------------------------
(* Properties                                                              *)

\* The provider never bills one harness more than the budget if the profile
\* caps the prices, and without caps more by less than one request, although
\* bills can be lost with a cancelled, failed or unpriced answer.  The harness
\* that replaces a lost one has the whole budget again.
BudgetKept == billed <= Limit \/ (~Capped /\ billed < Limit + Reserve)

\* A request never contains a tool result whose call was trimmed away, and
\* unless a run was stopped every call in it is followed by its result.
HistoryPaired ==
    pc = "stream" =>
        \A i \in DOMAIN history :
            /\ history[i] = Result =>
                  \E j \in 1..i-1 : /\ history[j][1] = "calls" /\ i <= j + history[j][2]
                                    /\ \A k \in j+1..i : history[k] = Result
            /\ history[i][1] = "calls" /\ ~everStopped =>
                  /\ i + history[i][2] <= Len(history)
                  /\ \A k \in i+1..i+history[i][2] : history[k] = Result

\* A mutation is in one place at a time: a handle of the assistant, a
\* finished run, the open review, or the job.  It cannot be reviewed twice.
OneHolder ==
    /\ {offered, review, job.op} \cap prepared = {}
    /\ offered # NoOp => offered \notin {review, job.op}
    /\ review # NoOp => review # job.op

\* The review of a run that the user stopped is never opened, also when the
\* run had already ended.
StoppedOffersNothing ==
    [][review' # review /\ review' # NoOp /\ review' = offered => ~cancel]_vars

\* While an answer is read: where the network cuts the stream, be it inside a
\* line, a frame or a character (but not between CR and LF), makes no difference
\* to its events; and no tool call reaches the harness unless the whole answer
\* arrived, every call of it is whole, and names a tool of the request.
AnswersReadWhole ==
    pc = "stream" => CutsDoNotMatter /\ OnlyCompleteBatches /\ WireNamesInjective
=============================================================================
