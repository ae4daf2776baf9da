-------------------------- MODULE TuiSessionProofs --------------------------
(***************************************************************************)
(* Proofs about TuiSession and the capture it contains, for any set of     *)
(* operations, any channel capacity and any number of project switches.    *)
(*                                                                         *)
(* The inductive invariant IInv has four parts beside the types.  CapOK:   *)
(* what the capture thread and its channel hold.  JobInv: a mutation that  *)
(* is started and not finished is the one job, whose worker has not sent   *)
(* its result.  PlaceInv: an operation is in at most one place from which  *)
(* it can come to a review, and one that was approved or denied is in      *)
(* none.  RecordInv: started operations have their approval in the         *)
(* channel, in the thread's hand or with the collector, and so have all    *)
(* approved ones as long as there is no gap.                               *)
(***************************************************************************)
EXTENDS TuiSession, FiniteSetTheorems, TLAPS

Event == Ops \cup {Other}

\* The elements of the channel
Queued == {channel[i] : i \in DOMAIN channel}

\* Approvals with the collector or on their way there
Held == recorded \cup ((Queued \cup {hand}) \cap Ops)

CapOK ==
    /\ channel \in Seq(Event) /\ Len(channel) <= ChannelLimit
    /\ hand \in Event \cup {NoEvent}
    /\ health \in {"off", "broken", "connecting", "ready", "failed"}
    /\ lost \in BOOLEAN /\ dropped \in BOOLEAN
    /\ dropped => lost
    /\ recorded \subseteq Ops
    /\ ~On => hand = NoEvent

JobInv ==
    /\ job # NoJob /\ job.kind = "prepare" => job.op \in Ops
    /\ MutationRunning => job.op \in started
    /\ finished \subseteq started
    /\ started # finished =>
          /\ MutationRunning /\ ~mail
          /\ started \ finished \subseteq {job.op}
    /\ exited /\ result # "error" => started = finished

\* The operation a worker is preparing
Preparing(o) == job # NoJob /\ job.kind = "prepare" /\ job.op = o

\* The four places from which o can come to a review are the review, the
\* assistant's proposal and handles, and the worker that prepares it.
PlaceInv ==
    /\ started \subseteq approved \cup {Initialise}
    /\ approved \cap denied = {}
    /\ approved \cup denied \subseteq prepared
    /\ \A o \in Ops :
          /\ review = o \/ proposal = o \/ o \in handles \/ Preparing(o) =>
                o \in prepared \ (approved \cup denied)
          /\ ~(review = o /\ (proposal = o \/ o \in handles \/ Preparing(o)))
          /\ ~(proposal = o /\ (o \in handles \/ Preparing(o)))
          /\ ~(o \in handles /\ Preparing(o))

RecordInv ==
    /\ On => /\ started \cap Ops \subseteq Held
             /\ ~lost => approved \subseteq Held
             /\ result = "ok" => approved \subseteq recorded /\ ~dropped
    /\ result # "none" => exited

IInv == TypeOK /\ CapOK /\ JobInv /\ PlaceInv /\ RecordInv

-----------------------------------------------------------------------------
(* Capture                                                                 *)

\* What every step of the application may do to the capture: nothing held is
\* let go, and a gap stays.
CapMoves ==
    /\ CapOK'
    /\ On' = On
    /\ Held \subseteq Held'
    /\ recorded \subseteq recorded'
    /\ lost => lost'

LEMMA QueuedAppends ==
  ASSUME NEW T, NEW s \in Seq(T), NEW t \in Seq(T)
  PROVE  /\ s \o t \in Seq(T) /\ Len(s \o t) = Len(s) + Len(t)
         /\ \A i \in DOMAIN s : i \in DOMAIN (s \o t) /\ (s \o t)[i] = s[i]
         /\ \A i \in DOMAIN t : Len(s) + i \in DOMAIN (s \o t) /\ (s \o t)[Len(s) + i] = t[i]
  OBVIOUS

\* emit cuts what does not fit.
LEMMA SendsFit ==
  ASSUME CapOK, NEW events \in Seq(Event)
  PROVE  /\ Sends(events) \in Seq(Event)
         /\ Len(channel) + Len(Sends(events)) <= ChannelLimit
         /\ Len(channel) + Len(events) <= ChannelLimit => Sends(events) = events
  BY CaptureAssumption DEF CapOK, Sends

LEMMA EmitMoves ==
  ASSUME CapOK, NEW events \in Seq(Event), Emit(events)
  PROVE  CapMoves
  <1>1. CASE ~On
    BY <1>1 DEF Emit, cap, CapMoves, CapOK, On, Held, Queued
  <1>2. CASE On
    <2> DEFINE new == Sends(events)
    <2>1. new \in Seq(Event) /\ Len(channel) + Len(new) <= ChannelLimit
      BY SendsFit
    <2>2. /\ channel' = channel \o new
          /\ lost' = (lost \/ Len(channel) + Len(events) > ChannelLimit)
          /\ dropped' = (dropped \/ Len(channel) + Len(events) > ChannelLimit)
          /\ UNCHANGED <<hand, health, recorded>>
      BY <1>2 DEF Emit
    <2> HIDE DEF new
    <2>3. channel' \in Seq(Event) /\ Len(channel') <= ChannelLimit
      BY <2>1, <2>2, QueuedAppends DEF CapOK
    <2>4. Queued \subseteq Queued'
      BY <2>1, <2>2, QueuedAppends DEF CapOK, Queued
    <2>5. On' = On
      BY <2>2 DEF On
    <2>6. CapOK'
      BY <2>2, <2>3, <2>5 DEF CapOK
    <2>7. QED
      BY <2>2, <2>4, <2>5, <2>6 DEF CapMoves, Held
  <1>3. QED
    BY <1>1, <1>2

\* An event emitted while there is no gap afterwards is in the channel.
LEMMA EmittedIsHeld ==
  ASSUME CapOK, NEW e \in Ops, Emit(<<e>>), On, ~lost'
  PROVE  e \in Held'
  <1>1. <<e>> \in Seq(Event) /\ Len(<<e>>) = 1
    BY DEF Event
  <1>2. /\ channel' = channel \o Sends(<<e>>)
        /\ ~(Len(channel) + Len(<<e>>) > ChannelLimit)
    BY DEF Emit
  <1>3. Len(channel) + Len(<<e>>) <= ChannelLimit
    BY <1>1, <1>2, CaptureAssumption DEF CapOK
  <1>4. channel' = channel \o <<e>>
    BY <1>1, <1>2, <1>3, SendsFit
  <1>5. channel'[Len(channel) + 1] = e /\ Len(channel) + 1 \in DOMAIN channel'
    BY <1>1, <1>4, QueuedAppends DEF CapOK
  <1>6. QED
    BY <1>5 DEF Held, Queued

LEMMA NoRequestIdMoves ==
  ASSUME CapOK, NoRequestId
  PROVE  CapMoves
  BY DEF CapOK, NoRequestId, CapMoves, On, Ready, Held, Queued

LEMMA ReceiveMoves ==
  ASSUME CapOK, Receive
  PROVE  CapMoves
  <1>1. /\ channel \in Seq(Event) /\ channel # <<>> /\ hand = NoEvent
        /\ hand' = Head(channel) /\ channel' = Tail(channel)
        /\ UNCHANGED <<health, lost, recorded, dropped>>
    BY DEF CapOK, Receive
  <1>2. hand' \in Event /\ channel' \in Seq(Event) /\ Len(channel') <= ChannelLimit
    BY <1>1, CaptureAssumption DEF CapOK
  <1>3. Queued \subseteq Queued' \cup {hand'}
    <2> SUFFICES ASSUME NEW i \in DOMAIN channel
                 PROVE  channel[i] \in Queued' \cup {hand'}
      BY DEF Queued
    <2>1. CASE i = 1
      BY <1>1, <2>1
    <2>2. CASE i # 1
      <3>1. i - 1 \in DOMAIN channel' /\ channel'[i - 1] = channel[i]
        BY <1>1, <2>2
      <3>2. QED
        BY <3>1 DEF Queued
    <2>3. QED
      BY <2>1, <2>2
  <1>4. On' = On
    BY <1>1 DEF On
  <1>5. CapOK'
    BY <1>1, <1>2, <1>4 DEF CapOK, Receive
  <1>6. Held \subseteq Held'
    BY <1>1, <1>3, CaptureAssumption DEF Held
  <1>7. QED
    BY <1>1, <1>4, <1>5, <1>6 DEF CapMoves

LEMMA SubmitMoves ==
  ASSUME CapOK, Submit
  PROVE  CapMoves
  <1>1. UNCHANGED <<channel, dropped>> /\ hand \in Event
    BY DEF CapOK, Submit
  <1>2. On /\ On'
    BY DEF CapOK, Submit, On
  <1>3. lost' \in BOOLEAN /\ (lost => lost')
    <2>1. lost \in BOOLEAN
      BY DEF CapOK
    <2>2. lost' = lost \/ lost' = TRUE
      BY DEF Submit
    <2>3. QED
      BY <2>1, <2>2
  <1>4. recorded \subseteq recorded' /\ recorded' \subseteq Ops
    BY DEF CapOK, Submit, Keeps
  <1>5. hand' = hand \/ {hand} \cap Ops \subseteq recorded'
    BY DEF Submit, Keeps
  <1>6. Held \subseteq Held'
    BY <1>1, <1>4, <1>5 DEF Held, Queued
  <1>7. CapOK'
    <2>1. /\ hand' \in Event \cup {NoEvent}
          /\ health' \in {"ready", "failed"}
      BY <1>1 DEF Submit
    <2>2. QED
      BY <1>1, <1>2, <1>3, <1>4, <2>1 DEF CapOK
  <1>8. QED
    BY <1>2, <1>3, <1>4, <1>6, <1>7 DEF CapMoves

LEMMA QuietMoves ==
  ASSUME CapOK, UNCHANGED cap
  PROVE  CapMoves
  BY DEF CapOK, CapMoves, cap, On, Held, Queued

-----------------------------------------------------------------------------
(* The steps of the application                                            *)

\* Approvals stay recorded through a step that gives and starts none.
LEMMA RecordStable ==
  ASSUME TypeOK, RecordInv, CapMoves, ~exited,
         UNCHANGED <<started, approved, result>>
  PROVE  RecordInv'
  BY DEF TypeOK, RecordInv, CapMoves

\* A step that changes neither job, mailbox, worker nor exit keeps JobInv.
LEMMA JobStable ==
  ASSUME JobInv, UNCHANGED <<job, mail, started, finished, exited>>,
         result = "error" => result' = "error"
  PROVE  JobInv'
  BY DEF JobInv, MutationRunning

LEMMA PlaceStable ==
  ASSUME PlaceInv,
         UNCHANGED <<job, review, proposal, prepared, handles, approved, denied, started>>
  PROVE  PlaceInv'
  BY DEF PlaceInv, Preparing

\* What can be in App.review beside operations
LEMMA ReviewMarks ==
  NoOp \notin Ops \cup {Initialise} /\ Inspection \notin Ops \cup {Initialise} /\ Initialise \notin Ops
  BY TuiAssumption DEF Mutations

LEMMA InvParts ==
  ASSUME TypeOK', CapMoves, JobInv', PlaceInv', RecordInv'
  PROVE  IInv'
  BY DEF IInv, CapMoves

\* The events the application emits
LEMMA EventsType ==
  /\ <<Other>> \in Seq(Event) /\ <<Other, Other>> \in Seq(Event)
  /\ \A o \in Ops : <<o>> \in Seq(Event)
  BY DEF Event

LEMMA WorkerDoneKeepsInv ==
  ASSUME IInv, WorkerDone
  PROVE  IInv'
  <1>1. CapMoves
    BY QuietMoves DEF IInv, WorkerDone
  <1>2. TypeOK'
    BY <1>1 DEF IInv, TypeOK, WorkerDone, ui, cap, CapMoves, CapOK, JobInv, MutationRunning, Mutations
  <1>3. JobInv'
    BY DEF IInv, JobInv, TypeOK, MutationRunning, WorkerDone, ui
  <1>4. PlaceInv'
    BY PlaceStable DEF IInv, WorkerDone, ui
  <1>5. RecordInv'
    BY <1>1, RecordStable DEF IInv, WorkerDone, ui
  <1>6. QED
    BY <1>1, <1>2, <1>3, <1>4, <1>5, InvParts

LEMMA AssistantProposesKeepsInv ==
  ASSUME IInv, NEW o \in Ops, AssistantProposes(o)
  PROVE  IInv'
  <1>1. CapMoves
    BY QuietMoves DEF IInv, AssistantProposes
  <1>2. TypeOK'
    BY <1>1 DEF IInv, TypeOK, AssistantProposes, ui, cap
  <1>3. JobInv'
    BY JobStable DEF IInv, AssistantProposes, ui
  <1>4. PlaceInv'
    BY TuiAssumption DEF IInv, TypeOK, PlaceInv, Preparing, AssistantProposes, ui
  <1>5. RecordInv'
    BY <1>1, RecordStable DEF IInv, AssistantProposes, ui
  <1>6. QED
    BY <1>1, <1>2, <1>3, <1>4, <1>5, InvParts

LEMMA CaptureThreadKeepsInv ==
  ASSUME IInv, CaptureThread
  PROVE  IInv'
  <1>1. CapMoves
    BY ReceiveMoves, SubmitMoves DEF IInv, CaptureThread
  <1>2. TypeOK'
    BY <1>1 DEF IInv, TypeOK, CaptureThread, ui, CapMoves, CapOK
  <1>3. JobInv'
    BY JobStable DEF IInv, CaptureThread, ui
  <1>4. PlaceInv'
    BY PlaceStable DEF IInv, CaptureThread, ui
  <1>5. RecordInv'
    BY <1>1 DEF IInv, TypeOK, RecordInv, CapMoves, CaptureThread, ui
  <1>6. QED
    BY <1>1, <1>2, <1>3, <1>4, <1>5, InvParts

LEMMA PollCoreKeepsInv ==
  ASSUME IInv, PollCore
  PROVE  IInv'
  <1>1. CapMoves
    BY QuietMoves, EmitMoves, EventsType DEF IInv, PollCore
  <1>2. TypeOK'
    <2>1. review' \in Ops \cup {NoOp, Inspection}
      BY DEF IInv, TypeOK, PollCore, JobInv
    <2>2. job' \in Job \cup {NoJob} /\ mail' \in BOOLEAN /\ (mail' => job' # NoJob)
      <3>1. mail \in BOOLEAN /\ (mail => job # NoJob) /\ job \in Job \cup {NoJob}
        BY DEF IInv, TypeOK
      <3>2. \/ job' = job /\ mail' = mail
            \/ job' = NoJob /\ mail' = FALSE
        BY DEF PollCore
      <3>3. CASE job' = job /\ mail' = mail
        BY <3>1, <3>3
      <3>4. CASE job' = NoJob /\ mail' = FALSE
        BY <3>4
      <3>5. QED
        BY <3>2, <3>3, <3>4
    <2>3. QED
      BY <1>1, <2>1, <2>2 DEF IInv, TypeOK, PollCore, Turn, CapMoves, CapOK
  <1>3. JobInv'
    BY DEF IInv, JobInv, TypeOK, MutationRunning, PollCore
  <1>4. PlaceInv'
    BY DEF IInv, JobInv, TypeOK, PlaceInv, Preparing, PollCore
  <1>5. RecordInv'
    BY <1>1, RecordStable DEF IInv, PollCore, Turn
  <1>6. QED
    BY <1>1, <1>2, <1>3, <1>4, <1>5, InvParts

LEMMA PollAgentKeepsInv ==
  ASSUME IInv, NEW from, NEW to \in {"exit", "key"}, Turn(from, to), PollAgent
  PROVE  IInv'
  <1>1. CapMoves
    BY QuietMoves, EmitMoves, EventsType DEF IInv, PollAgent
  <1>2. TypeOK'
    BY <1>1 DEF IInv, TypeOK, Turn, PollAgent, CapMoves, CapOK
  <1>3. JobInv'
    BY JobStable DEF IInv, PollAgent
  <1>4. PlaceInv'
    BY ReviewMarks DEF IInv, TypeOK, PlaceInv, Preparing, PollAgent
  <1>5. RecordInv'
    BY <1>1, RecordStable DEF IInv, Turn, PollAgent
  <1>6. QED
    BY <1>1, <1>2, <1>3, <1>4, <1>5, InvParts

\* request_quit, alone: it ends the loop only when no mutation runs.
LEMMA RequestQuitFacts ==
  ASSUME IInv, ~exited, RequestQuit
  PROVE  /\ CapMoves
         /\ proposal' = NoOp
         /\ quitting' \in BOOLEAN
         /\ exited' = exited \/ (exited' = TRUE /\ started = finished)
  <1>1. CapMoves
    BY QuietMoves, EmitMoves, EventsType DEF IInv, RequestQuit
  <1>2. QED
    BY <1>1 DEF IInv, TypeOK, JobInv, RequestQuit

LEMMA ExitTestsKeepsInv ==
  ASSUME IInv, ExitTests
  PROVE  IInv'
  <1>1. CapMoves
    BY QuietMoves, RequestQuitFacts DEF IInv, ExitTests, Turn
  <1>2. TypeOK'
    BY <1>1, RequestQuitFacts DEF IInv, TypeOK, ExitTests, Turn, CapMoves, CapOK
  <1>3. JobInv'
    <2>1. UNCHANGED <<job, mail, started, finished, result>> /\ exited \in BOOLEAN
      BY DEF IInv, TypeOK, ExitTests
    <2>2. exited' = exited \/ started = finished
      BY RequestQuitFacts DEF IInv, TypeOK, JobInv, MutationRunning, ExitTests, Turn
    <2>3. QED
      BY <2>1, <2>2 DEF IInv, JobInv, MutationRunning
  <1>4. PlaceInv'
    BY RequestQuitFacts, ReviewMarks DEF IInv, PlaceInv, Preparing, ExitTests, Turn
  <1>5. RecordInv'
    BY <1>1, RecordStable DEF IInv, ExitTests, Turn
  <1>6. QED
    BY <1>1, <1>2, <1>3, <1>4, <1>5, InvParts

LEMMA QuitKeyKeepsInv ==
  ASSUME IInv, QuitKey
  PROVE  IInv'
  <1>1. CapMoves
    BY RequestQuitFacts DEF IInv, QuitKey, Turn
  <1>2. TypeOK'
    BY <1>1, RequestQuitFacts DEF IInv, TypeOK, QuitKey, Turn, CapMoves, CapOK
  <1>3. JobInv'
    <2>1. UNCHANGED <<job, mail, started, finished, result>> /\ exited \in BOOLEAN
      BY DEF IInv, TypeOK, QuitKey
    <2>2. exited' = exited \/ started = finished
      BY RequestQuitFacts DEF IInv, QuitKey, Turn
    <2>3. QED
      BY <2>1, <2>2 DEF IInv, JobInv, MutationRunning
  <1>4. PlaceInv'
    BY RequestQuitFacts, ReviewMarks DEF IInv, PlaceInv, Preparing, QuitKey, Turn
  <1>5. RecordInv'
    BY <1>1, RecordStable DEF IInv, QuitKey, Turn
  <1>6. QED
    BY <1>1, <1>2, <1>3, <1>4, <1>5, InvParts

LEMMA SameKeepsInv ==
  ASSUME IInv, NEW from, NEW to \in {"wait", "core"}, Turn(from, to), Same
  PROVE  IInv'
  <1>1. CapMoves
    BY QuietMoves DEF IInv, Same
  <1>2. TypeOK'
    BY DEF IInv, TypeOK, Same, Turn, ui, cap
  <1>3. JobInv'
    BY JobStable DEF IInv, Same, ui
  <1>4. PlaceInv'
    BY PlaceStable DEF IInv, Same, ui
  <1>5. RecordInv'
    BY <1>1, RecordStable DEF IInv, Same, Turn, ui
  <1>6. QED
    BY <1>1, <1>2, <1>3, <1>4, <1>5, InvParts

LEMMA DrawKeepsInv ==
  ASSUME IInv, Draw
  PROVE  IInv'
  <1>1. CapMoves
    BY QuietMoves DEF IInv, Draw
  <1>2. TypeOK'
    BY DEF IInv, TypeOK, Draw, Turn, cap
  <1>3. JobInv'
    BY JobStable DEF IInv, Draw
  <1>4. PlaceInv'
    BY PlaceStable DEF IInv, Draw
  <1>5. RecordInv'
    BY <1>1, RecordStable DEF IInv, Draw, Turn
  <1>6. QED
    BY <1>1, <1>2, <1>3, <1>4, <1>5, InvParts

\* run returns with the error, whatever runs.
LEMMA TerminalFailsKeepsInv ==
  ASSUME IInv, TerminalFails
  PROVE  IInv'
  <1>1. CapMoves
    BY QuietMoves DEF IInv, TerminalFails
  <1>2. TypeOK'
    BY DEF IInv, TypeOK, TerminalFails, cap
  <1>3. JobInv'
    BY DEF IInv, JobInv, MutationRunning, TerminalFails
  <1>4. PlaceInv'
    BY PlaceStable DEF IInv, TerminalFails
  <1>5. RecordInv'
    BY <1>1 DEF IInv, RecordInv, CapMoves, TerminalFails
  <1>6. QED
    BY <1>1, <1>2, <1>3, <1>4, <1>5, InvParts

LEMMA DenyReviewKeepsInv ==
  ASSUME IInv, DenyReview
  PROVE  IInv'
  <1>1. CapMoves
    BY QuietMoves, EmitMoves, EventsType DEF IInv, DenyReview
  <1>2. TypeOK'
    BY <1>1 DEF IInv, TypeOK, DenyReview, Turn, CapMoves, CapOK
  <1>3. JobInv'
    BY JobStable DEF IInv, DenyReview
  <1>4. PlaceInv'
    BY ReviewMarks DEF IInv, TypeOK, PlaceInv, Preparing, DenyReview
  <1>5. RecordInv'
    BY <1>1, RecordStable DEF IInv, DenyReview, Turn
  <1>6. QED
    BY <1>1, <1>2, <1>3, <1>4, <1>5, InvParts

LEMMA HandOverKeepsInv ==
  ASSUME IInv, HandOver
  PROVE  IInv'
  <1>1. CapMoves
    BY QuietMoves DEF IInv, HandOver
  <1>2. TypeOK'
    BY <1>1 DEF IInv, TypeOK, HandOver, Turn, CapMoves, CapOK
  <1>3. JobInv'
    BY JobStable DEF IInv, HandOver
  <1>4. PlaceInv'
    BY ReviewMarks DEF IInv, TypeOK, PlaceInv, Preparing, HandOver
  <1>5. RecordInv'
    BY <1>1, RecordStable DEF IInv, HandOver, Turn
  <1>6. QED
    BY <1>1, <1>2, <1>3, <1>4, <1>5, InvParts

LEMMA ValidateDraftKeepsInv ==
  ASSUME IInv, ValidateDraft
  PROVE  IInv'
  <1>1. CapMoves
    BY QuietMoves, EmitMoves, EventsType DEF IInv, ValidateDraft
  <1>2. TypeOK'
    BY <1>1 DEF IInv, TypeOK, ValidateDraft, MutationCommand, Command, Turn, CapMoves, CapOK
  <1>3. JobInv'
    BY JobStable DEF IInv, ValidateDraft
  <1>4. PlaceInv'
    BY ReviewMarks DEF IInv, TypeOK, PlaceInv, Preparing, ValidateDraft
  <1>5. RecordInv'
    BY <1>1, RecordStable DEF IInv, ValidateDraft, MutationCommand, Command, Turn
  <1>6. QED
    BY <1>1, <1>2, <1>3, <1>4, <1>5, InvParts

LEMMA StopAssistantKeepsInv ==
  ASSUME IInv, StopAssistant
  PROVE  IInv'
  <1>1. CapMoves
    BY QuietMoves, EmitMoves, EventsType DEF IInv, StopAssistant
  <1>2. TypeOK'
    BY <1>1 DEF IInv, TypeOK, StopAssistant, Turn, CapMoves, CapOK
  <1>3. JobInv'
    BY JobStable DEF IInv, StopAssistant
  <1>4. PlaceInv'
    BY ReviewMarks DEF IInv, TypeOK, PlaceInv, Preparing, StopAssistant
  <1>5. RecordInv'
    BY <1>1, RecordStable DEF IInv, StopAssistant, Turn
  <1>6. QED
    BY <1>1, <1>2, <1>3, <1>4, <1>5, InvParts

\* App::job either installs the job it was asked for or changes nothing.
LEMMA StartJobFacts ==
  ASSUME TypeOK, NEW kind \in Kinds, NEW o \in Mutations \cup {NoOp},
         session' \in Nat, StartJob(kind, o)
  PROVE  \/ /\ Accepted(kind) /\ job = NoJob /\ mail' = FALSE
            /\ job' \in Job /\ job' # NoJob /\ job'.kind = kind /\ job'.op = o
         \/ ~Accepted(kind) /\ UNCHANGED <<job, mail>>
  <1>1. CASE Accepted(kind)
    <2> DEFINE j == [session |-> session', kind |-> kind, op |-> o]
    <2>1. j \in Job /\ j.kind = kind /\ j.op = o
      BY DEF Job
    <2>2. job' = j /\ mail' = FALSE /\ job = NoJob
      BY <1>1 DEF StartJob, Accepted
    <2>3. QED
      BY <1>1, <2>1, <2>2, TuiAssumption
  <1>2. CASE ~Accepted(kind)
    BY <1>2 DEF StartJob
  <1>3. QED
    BY <1>1, <1>2

LEMMA SessionType == TypeOK => session \in Nat /\ session + 1 \in Nat
  BY TuiAssumption DEF TypeOK

\* The types of job and mailbox after App::job.
LEMMA StartJobType ==
  ASSUME TypeOK, NEW kind \in Kinds, NEW o \in Mutations \cup {NoOp},
         session' \in Nat, StartJob(kind, o)
  PROVE  job' \in Job \cup {NoJob} /\ mail' \in BOOLEAN /\ (mail' => job' # NoJob)
  <1>1. CASE job' \in Job /\ job' # NoJob /\ mail' = FALSE
    BY <1>1
  <1>2. CASE UNCHANGED <<job, mail>>
    BY <1>2 DEF TypeOK
  <1>3. QED
    BY <1>1, <1>2, StartJobFacts

\* A job that is no mutation leaves the started ones awaited.
LEMMA StartJobKeepsJobInv ==
  ASSUME TypeOK, JobInv, NEW kind \in {"read", "prepare"}, NEW o \in Mutations \cup {NoOp},
         kind = "prepare" => o \in Ops,
         session' \in Nat, StartJob(kind, o), UNCHANGED <<started, finished, exited, result>>
  PROVE  JobInv'
  <1>1. kind \in Kinds
    BY DEF Kinds
  <1>2. CASE job = NoJob /\ job' # NoJob /\ job'.kind = kind /\ job'.op = o
    BY <1>2 DEF JobInv, MutationRunning
  <1>3. CASE UNCHANGED <<job, mail>>
    BY <1>3, JobStable
  <1>4. QED
    BY <1>1, <1>2, <1>3, StartJobFacts

LEMMA ReadCommandKeepsInv ==
  ASSUME IInv, ReadCommand
  PROVE  IInv'
  <1>1. CapMoves
    BY QuietMoves DEF IInv, ReadCommand
  <1>a. /\ TypeOK /\ JobInv /\ StartJob("read", NoOp) /\ "read" \in Kinds
        /\ session' \in Nat /\ NoOp \in Mutations \cup {NoOp}
    BY SessionType DEF IInv, ReadCommand, Kinds
  <1>2. TypeOK'
    <2>1. job' \in Job \cup {NoJob} /\ mail' \in BOOLEAN /\ (mail' => job' # NoJob)
      BY <1>a, StartJobType
    <2>2. QED
      BY <1>1, <2>1 DEF IInv, TypeOK, ReadCommand, Turn, CapMoves, CapOK
  <1>3. JobInv'
    BY <1>a, StartJobKeepsJobInv DEF ReadCommand
  <1>4. PlaceInv'
    BY <1>a, StartJobFacts DEF IInv, PlaceInv, Preparing, ReadCommand
  <1>5. RecordInv'
    BY <1>1, RecordStable DEF IInv, ReadCommand, Turn
  <1>6. QED
    BY <1>1, <1>2, <1>3, <1>4, <1>5, InvParts

LEMMA SwitchProjectKeepsInv ==
  ASSUME IInv, SwitchProject
  PROVE  IInv'
  <1>1. CapMoves
    BY QuietMoves DEF IInv, SwitchProject
  <1>a. /\ TypeOK /\ JobInv /\ StartJob("read", NoOp) /\ "read" \in Kinds
        /\ session' \in Nat /\ NoOp \in Mutations \cup {NoOp}
    BY SessionType DEF IInv, SwitchProject, Kinds
  <1>2. TypeOK'
    <2>1. job' \in Job \cup {NoJob} /\ mail' \in BOOLEAN /\ (mail' => job' # NoJob)
      BY <1>a, StartJobType
    <2>2. session' \in 1..MaxSession
      <3>1. session \in 1..MaxSession /\ session < MaxSession /\ session' = session + 1
        BY DEF IInv, TypeOK, SwitchProject
      <3>2. QED
        BY <3>1, TuiAssumption
    <2>3. QED
      BY <1>1, <2>1, <2>2 DEF IInv, TypeOK, SwitchProject, Command, Turn, CapMoves, CapOK
  <1>3. JobInv'
    BY <1>a, StartJobKeepsJobInv DEF SwitchProject
  <1>4. PlaceInv'
    BY <1>a, StartJobFacts, ReviewMarks DEF IInv, PlaceInv, Preparing, SwitchProject
  <1>5. RecordInv'
    BY <1>1, RecordStable DEF IInv, SwitchProject, Command, Turn
  <1>6. QED
    BY <1>1, <1>2, <1>3, <1>4, <1>5, InvParts

LEMMA PrepareOperationKeepsInv ==
  ASSUME IInv, NEW o \in Ops, PrepareOperation(o)
  PROVE  IInv'
  <1>1. CapMoves
    BY EmitMoves, NoRequestIdMoves, EventsType DEF IInv, PrepareOperation
  <1>a. /\ TypeOK /\ JobInv /\ StartJob("prepare", o) /\ "prepare" \in Kinds
        /\ o \in Mutations \cup {NoOp}
        /\ session' \in Nat /\ Accepted("prepare")
    BY SessionType DEF IInv, PrepareOperation, MutationCommand, Command, Accepted, Kinds, Mutations
  <1>2. TypeOK'
    <2>1. job' \in Job \cup {NoJob} /\ mail' \in BOOLEAN /\ (mail' => job' # NoJob)
      BY <1>a, StartJobType
    <2>2. QED
      BY <1>1, <2>1 DEF IInv, TypeOK, PrepareOperation, MutationCommand, Command, Turn, CapMoves, CapOK
  <1>3. JobInv'
    BY <1>a, StartJobKeepsJobInv DEF PrepareOperation
  <1>4. PlaceInv'
    BY <1>a, StartJobFacts DEF IInv, PlaceInv, Preparing, PrepareOperation
  <1>5. RecordInv'
    BY <1>1, RecordStable DEF IInv, PrepareOperation, MutationCommand, Command, Turn
  <1>6. QED
    BY <1>1, <1>2, <1>3, <1>4, <1>5, InvParts

LEMMA ConfirmInspectionKeepsInv ==
  ASSUME IInv, NEW o \in Ops, ConfirmInspection(o)
  PROVE  IInv'
  <1>1. CapMoves
    BY EmitMoves, EventsType DEF IInv, ConfirmInspection
  <1>a. /\ TypeOK /\ JobInv /\ StartJob("prepare", o) /\ "prepare" \in Kinds
        /\ o \in Mutations \cup {NoOp}
        /\ session' \in Nat /\ (Accepted("prepare") <=> job = NoJob)
    BY SessionType DEF IInv, ConfirmInspection, Accepted, Kinds, Mutations
  <1>2. TypeOK'
    <2>1. job' \in Job \cup {NoJob} /\ mail' \in BOOLEAN /\ (mail' => job' # NoJob)
      BY <1>a, StartJobType
    <2>2. QED
      BY <1>1, <2>1 DEF IInv, TypeOK, ConfirmInspection, Turn, CapMoves, CapOK
  <1>3. JobInv'
    BY <1>a, StartJobKeepsJobInv DEF ConfirmInspection
  <1>4. PlaceInv'
    BY <1>a, StartJobFacts, ReviewMarks DEF IInv, PlaceInv, Preparing, ConfirmInspection
  <1>5. RecordInv'
    BY <1>1, RecordStable DEF IInv, ConfirmInspection, Turn
  <1>6. QED
    BY <1>1, <1>2, <1>3, <1>4, <1>5, InvParts

\* The review's approval is emitted before App::job looks at the recorder, so
\* a mutation that is accepted has its approval in the channel.
LEMMA ConfirmReviewKeepsInv ==
  ASSUME IInv, ConfirmReview
  PROVE  IInv'
  <1>1. CapMoves
    BY EmitMoves, EventsType DEF IInv, ConfirmReview
  <1>a. /\ TypeOK /\ JobInv /\ PlaceInv /\ RecordInv
        /\ StartJob("mutation", review) /\ "mutation" \in Kinds
        /\ review \in Mutations \cup {NoOp}
        /\ session' \in Nat /\ review \in Ops /\ review' = NoOp
        /\ approved' = approved \cup {review}
        /\ started' = IF Accepted("mutation") THEN started \cup {review} ELSE started
        /\ UNCHANGED <<proposal, prepared, handles, denied, finished, exited, result>>
        /\ ~exited /\ Emit(<<review>>) /\ CapOK
    BY SessionType DEF IInv, ConfirmReview, Turn, Kinds, Mutations
  <1>b. \/ /\ Accepted("mutation") /\ job = NoJob /\ mail' = FALSE
           /\ job' # NoJob /\ job'.kind = "mutation" /\ job'.op = review
           /\ started' = started \cup {review}
        \/ ~Accepted("mutation") /\ UNCHANGED <<job, mail, started>>
    BY <1>a, StartJobFacts
  <1>2. TypeOK'
    <2>1. job' \in Job \cup {NoJob} /\ mail' \in BOOLEAN /\ (mail' => job' # NoJob)
      BY <1>a, StartJobType
    <2>2. QED
      BY <1>1, <2>1 DEF IInv, TypeOK, Mutations, ConfirmReview, Turn, CapMoves, CapOK
  <1>3. JobInv'
    BY <1>a, <1>b DEF JobInv, MutationRunning
  <1>4. PlaceInv'
    BY <1>a, <1>b, ReviewMarks DEF PlaceInv, Preparing
  <1>5. RecordInv'
    <2>1. ASSUME On, ~lost' PROVE review \in Held'
      BY <1>a, <2>1, EmittedIsHeld
    <2>2. ASSUME On, Accepted("mutation") PROVE review \in Held'
      BY <2>1, <2>2 DEF Accepted, Ready
    <2>3. QED
      BY <1>1, <1>a, <2>1, <2>2 DEF TypeOK, RecordInv, CapMoves
  <1>6. QED
    BY <1>1, <1>2, <1>3, <1>4, <1>5, InvParts

\* :init is a mutation that is awaited like the others, in no place of a review.
LEMMA InitProjectKeepsInv ==
  ASSUME IInv, InitProject
  PROVE  IInv'
  <1>1. CapMoves
    BY EmitMoves, NoRequestIdMoves, EventsType DEF IInv, InitProject
  <1>a. /\ TypeOK /\ JobInv /\ PlaceInv /\ RecordInv
        /\ StartJob("mutation", Initialise) /\ "mutation" \in Kinds
        /\ Initialise \in Mutations \cup {NoOp} /\ session' \in Nat
        /\ \/ /\ Accepted("mutation")
              /\ started' = started \cup {Initialise} /\ finished' = finished \ {Initialise}
           \/ ~Accepted("mutation") /\ UNCHANGED <<started, finished>>
        /\ UNCHANGED <<review, proposal, prepared, handles, approved, denied, exited, result>>
        /\ ~exited
    BY SessionType DEF IInv, InitProject, MutationCommand, Command, Turn, Kinds, Mutations
  <1>b. \/ /\ job = NoJob /\ mail' = FALSE
           /\ job' # NoJob /\ job'.kind = "mutation" /\ job'.op = Initialise
           /\ started' = started \cup {Initialise} /\ finished' = finished \ {Initialise}
        \/ UNCHANGED <<job, mail, started, finished>>
    BY <1>a, StartJobFacts
  <1>2. TypeOK'
    <2>1. job' \in Job \cup {NoJob} /\ mail' \in BOOLEAN /\ (mail' => job' # NoJob)
      BY <1>a, StartJobType
    <2>2. QED
      BY <1>1, <1>b, <2>1 DEF IInv, TypeOK, Mutations, InitProject, MutationCommand,
         Command, Turn, CapMoves, CapOK
  <1>3. JobInv'
    BY <1>a, <1>b DEF JobInv, MutationRunning
  <1>4. PlaceInv'
    BY <1>a, <1>b DEF PlaceInv, Preparing
  <1>5. RecordInv'
    BY <1>1, <1>a, <1>b, TuiAssumption DEF RecordInv, TypeOK, CapMoves
  <1>6. QED
    BY <1>1, <1>2, <1>3, <1>4, <1>5, InvParts

LEMMA FinishKeepsInv ==
  ASSUME IInv, Finish
  PROVE  IInv'
  <1>1. CapMoves
    BY QuietMoves DEF IInv, Finish
  <1>2. TypeOK'
    BY DEF IInv, TypeOK, RecordInv, Finish, cap
  <1>3. JobInv'
    BY JobStable DEF IInv, Finish
  <1>4. PlaceInv'
    BY PlaceStable DEF IInv, Finish
  <1>5. RecordInv'
    <2>1. ASSUME Complete PROVE Held \subseteq recorded /\ ~lost /\ ~dropped
      <3>1. Len(channel) = 0 /\ hand = NoEvent /\ ~lost
        BY <2>1 DEF IInv, CapOK, Complete, Outstanding
      <3>2. Queued = {}
        BY <3>1 DEF IInv, CapOK, Queued
      <3>3. QED
        BY <3>1, <3>2, CaptureAssumption DEF IInv, CapOK, Held
    <2>2. result' = "ok" => Complete
      BY DEF Finish
    <2>3. QED
      BY <1>1, <2>1, <2>2 DEF IInv, TypeOK, RecordInv, CapMoves, Finish, cap
  <1>6. QED
    BY <1>1, <1>2, <1>3, <1>4, <1>5, InvParts

LEMMA InitInv == Init => IInv
  <1> SUFFICES ASSUME Init PROVE IInv
    OBVIOUS
  <1>1. CapOK
    <2>1. CASE health \in {"off", "broken"} /\ channel = <<>>
      <3>1. channel \in Seq(Event) /\ Len(channel) <= ChannelLimit
        BY <2>1, CaptureAssumption
      <3>2. QED
        BY <2>1, <3>1 DEF Init, CaptureInit, CapOK
    <2>2. CASE health = "connecting" /\ channel = <<Other>>
      <3>1. channel \in Seq(Event) /\ Len(channel) = 1
        BY <2>2, EventsType
      <3>2. Len(channel) <= ChannelLimit
        BY <3>1, CaptureAssumption
      <3>3. QED
        BY <2>2, <3>1, <3>2 DEF Init, CaptureInit, CapOK, On
    <2>3. QED
      BY <2>1, <2>2 DEF Init, CaptureInit
  <1>2. job \in Job
    BY DEF Init, Job, Kinds
  <1>3. TypeOK
    <2>1. session \in 1..MaxSession
      BY TuiAssumption DEF Init
    <2>2. QED
      BY <1>1, <1>2, <2>1 DEF Init, TypeOK, CapOK
  <1>4. JobInv /\ PlaceInv /\ RecordInv
    BY ReviewMarks DEF Init, JobInv, PlaceInv, RecordInv, MutationRunning, Preparing
  <1>5. QED
    BY <1>1, <1>3, <1>4 DEF IInv

LEMMA LoopKeepsInv ==
  ASSUME IInv, Loop
  PROVE  IInv'
  <1>1. CASE PollCore \/ ExitTests
    BY <1>1, PollCoreKeepsInv, ExitTestsKeepsInv
  <1>2. CASE LoopPollAgent \/ KeyPressed
    BY <1>2, PollAgentKeepsInv DEF LoopPollAgent, KeyPressed
  <1>3. CASE Draw \/ NoKey \/ OtherKey
    BY <1>3, DrawKeepsInv, SameKeepsInv DEF NoKey, OtherKey
  <1>4. CASE ConfirmReview \/ DenyReview \/ HandOver \/ ValidateDraft
    BY <1>4, ConfirmReviewKeepsInv, DenyReviewKeepsInv, HandOverKeepsInv,
       ValidateDraftKeepsInv
  <1>5. CASE ReadCommand \/ SwitchProject \/ InitProject \/ StopAssistant \/ QuitKey
    BY <1>5, ReadCommandKeepsInv, SwitchProjectKeepsInv, InitProjectKeepsInv,
       StopAssistantKeepsInv, QuitKeyKeepsInv
  <1>6. ASSUME NEW o \in Ops, PrepareOperation(o) \/ ConfirmInspection(o)
        PROVE  IInv'
    BY <1>6, PrepareOperationKeepsInv, ConfirmInspectionKeepsInv
  <1>7. QED
    BY <1>1, <1>2, <1>3, <1>4, <1>5, <1>6 DEF Loop

LEMMA NextInv == IInv /\ [Next]_vars => IInv'
  <1> SUFFICES ASSUME IInv, [Next]_vars
               PROVE  IInv'
    OBVIOUS
  <1>1. CASE Loop \/ TerminalFails \/ Finish \/ WorkerDone \/ CaptureThread
    BY <1>1, LoopKeepsInv, TerminalFailsKeepsInv, FinishKeepsInv, WorkerDoneKeepsInv,
       CaptureThreadKeepsInv
  <1>2. ASSUME NEW o \in Ops, AssistantProposes(o)
        PROVE  IInv'
    BY <1>2, AssistantProposesKeepsInv
  <1>3. CASE UNCHANGED vars
    <2>1. CapMoves
      BY <1>3, QuietMoves DEF IInv, vars
    <2>2. TypeOK' /\ RecordInv'
      BY <1>3 DEF IInv, TypeOK, RecordInv, vars, ui, cap, On, Held, Queued
    <2>3. JobInv' /\ PlaceInv'
      BY <1>3, JobStable, PlaceStable DEF IInv, vars, ui
    <2>4. QED
      BY <2>1, <2>2, <2>3, InvParts
  <1>4. QED
    BY <1>1, <1>2, <1>3 DEF Next

LEMMA InvHolds == Spec => []IInv
  BY InitInv, NextInv, PTL DEF Spec

-----------------------------------------------------------------------------
(* The screen                                                              *)

\* Between a draw and the end of the key that follows it, the review is the one
\* drawn, or it opened over a screen that shows none.
ScreenInv ==
    /\ phase = "wait" => drawn = review
    /\ phase = "key" => drawn \in {review, NoOp}

LEMMA LoopKeepsScreen ==
  ASSUME ScreenInv, Loop
  PROVE  ScreenInv'
  <1>1. CASE LoopPollAgent \/ Draw \/ NoKey \/ KeyPressed
    BY <1>1 DEF LoopPollAgent, Draw, NoKey, KeyPressed, PollAgent, Turn, Same, ScreenInv, ui
  <1>2. CASE PollCore \/ ExitTests
    BY <1>2 DEF PollCore, ExitTests, Turn, ScreenInv
  <1>3. CASE \/ ConfirmReview \/ DenyReview \/ HandOver \/ ValidateDraft \/ ReadCommand
             \/ SwitchProject \/ InitProject \/ StopAssistant \/ QuitKey \/ OtherKey
             \/ \E o \in Ops : PrepareOperation(o) \/ ConfirmInspection(o)
    <2>1. phase' = "core"
      BY <1>3 DEF ConfirmReview, DenyReview, HandOver, ValidateDraft, ReadCommand,
             SwitchProject, InitProject, StopAssistant, QuitKey, OtherKey,
             PrepareOperation, ConfirmInspection, MutationCommand, Command, Turn
    <2>2. QED
      BY <2>1 DEF ScreenInv
  <1>4. QED
    BY <1>1, <1>2, <1>3 DEF Loop

LEMMA ScreenHolds == Spec => []ScreenInv
  <1>1. Init => ScreenInv
    BY DEF Init, ScreenInv
  <1>2. ScreenInv /\ [Next]_vars => ScreenInv'
    <2> SUFFICES ASSUME ScreenInv, [Next]_vars
                 PROVE  ScreenInv'
      OBVIOUS
    <2>1. CASE Loop
      BY <2>1, LoopKeepsScreen
    <2>2. CASE ~Loop
      <3>1. UNCHANGED <<phase, review, drawn>>
        BY <2>2 DEF Next, TerminalFails, Finish, WorkerDone, AssistantProposes,
               CaptureThread, vars, ui
      <3>2. QED
        BY <3>1 DEF ScreenInv
    <2>3. QED
      BY <2>1, <2>2
  <1>3. QED
    BY <1>1, <1>2, PTL DEF Spec

-----------------------------------------------------------------------------
(* Results                                                                 *)

\* The variables of the application keep their types, and the capture channel
\* its capacity, whatever the order of keys, worker, assistant and recorder.
THEOREM TuiTypeCorrect == Spec => []TypeOK
  <1>1. IInv => TypeOK
    BY DEF IInv
  <1>2. QED
    BY <1>1, InvHolds, PTL

\* request_quit and quit_when_idle never end the loop while the worker of a
\* confirmed review or of :init runs, and App::job never lets two run; what is
\* left is an error of the terminal, with which run returns.
THEOREM MutationsAwaited == Spec => []MutationsAreAwaited
  <1>1. IInv => MutationsAreAwaited
    <2> SUFFICES ASSUME IInv PROVE MutationsAreAwaited
      OBVIOUS
    <2>1. exited /\ result # "error" => started = finished
      BY DEF IInv, JobInv
    <2>2. started \ finished = {} \/ started \ finished = {job.op}
      BY DEF IInv, JobInv
    <2>3. Cardinality({}) = 0 /\ Cardinality({job.op}) = 1
      BY FS_EmptySet, FS_Singleton
    <2>4. Cardinality(started \ finished) <= 1
      BY <2>2, <2>3
    <2>5. QED
      BY <2>1, <2>4 DEF MutationsAreAwaited
  <1>2. QED
    BY <1>1, InvHolds, PTL

\* But for :init, only an operation approved in a review reaches a worker, a
\* denied one never does, and a started one is in no place from which it could be reviewed
\* again, neither the key loop's nor the assistant's.
THEOREM OnlyApproved == Spec => []OnlyApprovedRun
  <1>1. IInv => OnlyApprovedRun
    BY ReviewMarks DEF IInv, TypeOK, Mutations, PlaceInv, OnlyApprovedRun
  <1>2. QED
    BY <1>1, InvHolds, PTL

\* confirm_review and the keys that deny a review meet the one on the screen,
\* unless the screen shows none: poll_agent opens a review only where there is
\* none, and what poll_core opens is drawn before the next key is read.
THEOREM AnsweredHolds == Spec => AnsweredAsShown
  <1> DEFINE A == \A o \in (approved' \cup denied') \ (approved \cup denied) : drawn \in {o, NoOp}
  <1>1. ScreenInv /\ [Next]_vars => [A]_vars
    <2> SUFFICES ASSUME ScreenInv, Next
                 PROVE  A
      OBVIOUS
    <2>1. CASE ConfirmReview \/ DenyReview
      <3>1. phase = "key"
        BY <2>1 DEF ConfirmReview, DenyReview, Turn
      <3>2. \A o \in (approved' \cup denied') \ (approved \cup denied) : o = review
        BY <2>1 DEF ConfirmReview, DenyReview
      <3>3. QED
        BY <3>1, <3>2 DEF ScreenInv
    <2>2. CASE ~(ConfirmReview \/ DenyReview)
      <3>1. UNCHANGED <<approved, denied>>
        BY <2>2 DEF Next, Loop, PollCore, LoopPollAgent, ExitTests, Draw, NoKey, KeyPressed,
               PollAgent, Same, HandOver, ValidateDraft, ReadCommand, SwitchProject,
               InitProject, StopAssistant, QuitKey, OtherKey, PrepareOperation,
               ConfirmInspection, TerminalFails, Finish, WorkerDone, AssistantProposes,
               CaptureThread, ui
      <3>2. QED
        BY <3>1
    <2>3. QED
      BY <2>1, <2>2
  <1>2. QED
    BY <1>1, ScreenHolds, PTL DEF Spec, AnsweredAsShown

\* Whatever the capacity of the capture channel and however full it is when
\* confirm_review emits the approval: with capture on no operation starts
\* unrecorded, and run returns Ok only when nothing is missing.
THEOREM ApprovalsKept == Spec => []ApprovalsRecorded
  <1>1. IInv => ApprovalsRecorded
    BY DEF IInv, RecordInv, Held, Queued, ApprovalsRecorded
  <1>2. QED
    BY <1>1, InvHolds, PTL
=============================================================================
