----------------------------- MODULE TuiSession -----------------------------
(***************************************************************************)
(* The interactive application loop (mesh_tui/src/lib.rs): one background  *)
(* worker job at a time, local review of every mutation, the assistant     *)
(* thread that may propose one, project switches, and leaving.             *)
(*                                                                         *)
(* A loop turn is poll_core, poll_agent, the exit tests, draw, and at most *)
(* one key, which handle_key precedes with another poll_agent.  Worker,    *)
(* assistant and recorder run beside it.  An error of the terminal ends    *)
(* run where it stands.  What a mutation does is in the other modules;     *)
(* here it is a job that finishes.                                         *)
(***************************************************************************)
EXTENDS Capture

CONSTANTS MaxSession,  \* bound on project switches
          NoOp, NoJob,
          Initialise,  \* the mutation of :init, which has no review
          Inspection   \* the review that precedes reading a publication's files

Kinds == {"read", "prepare", "mutation"}

Mutations == Ops \cup {Initialise}

Job == [session: Nat, kind: Kinds, op: Mutations \cup {NoOp}]

ASSUME TuiAssumption ==
    /\ NoOp \notin Mutations /\ Inspection \notin Mutations /\ Initialise \notin Ops
    /\ NoJob \notin Job
    /\ MaxSession \in Nat \ {0}

VARIABLES
    phase,     \* where the loop is
    session,   \* App.session
    job,       \* App.pending: the one core job, or NoJob
    mail,      \* the worker has sent its result
    review,    \* App.review
    drawn,     \* the review that the screen shows
    proposal,  \* an operation the assistant thread has finished proposing
    prepared,  \* operations that exist
    handles,   \* operations handed to the assistant (ToolExecutor.prepared)
    approved,  \* operations confirmed in a review
    denied,    \* operations denied or cancelled in one
    started,   \* mutations handed to a worker
    finished,  \* mutations whose worker is done
    quitting,  \* quit_when_idle
    exited,    \* the loop has ended
    result     \* what run returned

ui == <<session, review, drawn, approved, denied, started, quitting, exited, result>>
vars == <<phase, job, mail, proposal, prepared, handles, finished, ui, cap>>

Init ==
    /\ CaptureInit
    /\ phase = "core"
    /\ session = 1
    /\ job = [session |-> 1, kind |-> "read", op |-> NoOp]   \* recover() at start
    /\ mail = FALSE
    /\ review = NoOp /\ drawn = NoOp /\ proposal = NoOp
    /\ prepared = {}
    /\ handles = {}
    /\ approved = {} /\ denied = {} /\ started = {} /\ finished = {}
    /\ quitting = FALSE /\ exited = FALSE
    /\ result = "none"

-----------------------------------------------------------------------------
(* Threads beside the loop                                                 *)

\* The worker ends, by returning or by a caught panic.
WorkerDone ==
    /\ ~exited
    /\ job # NoJob /\ ~mail
    /\ mail' = TRUE
    /\ finished' = IF job.kind = "mutation" THEN finished \cup {job.op} ELSE finished
    /\ UNCHANGED <<phase, job, proposal, prepared, handles, ui, cap>>

\* The assistant thread ends a run with an operation of its own or one that
\* the user handed over, which take_prepared_operation removes.
AssistantProposes(o) ==
    /\ ~exited /\ proposal = NoOp
    /\ o \notin prepared \/ o \in handles
    /\ prepared' = prepared \cup {o}
    /\ handles' = handles \ {o}
    /\ proposal' = o
    /\ UNCHANGED <<phase, job, mail, finished, ui, cap>>

\* The capture thread, until run returns and drops it.
CaptureThread ==
    /\ result = "none"
    /\ Receive \/ Submit
    /\ UNCHANGED <<phase, job, mail, proposal, prepared, handles, finished, ui>>

-----------------------------------------------------------------------------
(* The loop                                                                *)

Turn(from, to) == ~exited /\ phase = from /\ phase' = to

\* poll_core: a result of an earlier session is dropped.  A review is announced
\* as prepared and presented, an operation by its outcome, and so is an error.
PollCore ==
    /\ Turn("core", "agent")
    /\ \/ ~mail /\ UNCHANGED <<job, mail, review, cap>>
       \/ /\ mail
          /\ job' = NoJob /\ mail' = FALSE
          /\ LET current == job.session = session IN
             \/ /\ current /\ job.kind = "prepare"
                /\ review' = job.op
                /\ Emit(<<Other, Other>>)
             \/ /\ current
                /\ UNCHANGED review
                /\ Emit(<<Other>>)
             \/ /\ ~current \/ job.kind = "read"
                /\ UNCHANGED <<review, cap>>
    /\ UNCHANGED <<session, drawn, proposal, prepared, handles, approved, denied,
                   started, finished, quitting, exited, result>>

MutationRunning == job # NoJob /\ job.kind = "mutation"

\* Mutant: a finished run's review replaces the open one.
PollAgentReplaces ==
    /\ review' = IF proposal # NoOp /\ ~MutationRunning THEN proposal ELSE review
    /\ proposal' = NoOp
    /\ IF proposal = NoOp THEN UNCHANGED cap
       ELSE Emit(IF review' = NoOp THEN <<Other>> ELSE <<Other, Other>>)
    /\ UNCHANGED <<session, drawn, job, mail, prepared, handles, approved, denied,
                   started, finished, quitting, exited, result>>

\* poll_agent: a finished run opens a review unless one is open or a mutation
\* is running; otherwise its operation is dropped.  Both the run's events and
\* the review it finds open are reported.
PollAgent ==
    /\ review' = IF proposal # NoOp /\ review = NoOp /\ ~MutationRunning
                 THEN proposal ELSE review
    /\ proposal' = NoOp
    /\ IF proposal = NoOp THEN UNCHANGED cap
       ELSE Emit(IF review' = NoOp THEN <<Other>> ELSE <<Other, Other>>)
    /\ UNCHANGED <<session, drawn, job, mail, prepared, handles, approved, denied,
                   started, finished, quitting, exited, result>>

LoopPollAgent == Turn("agent", "exit") /\ PollAgent

\* Mutant: leaving does not look for a running mutation.
QuitNow == exited' = TRUE /\ proposal' = NoOp /\ UNCHANGED <<quitting, cap>>

\* request_quit, which also cancels the assistant's run.
RequestQuit ==
    /\ proposal' = NoOp
    /\ IF quitting THEN UNCHANGED cap ELSE Emit(<<Other>>)
    /\ IF MutationRunning
       THEN quitting' = TRUE /\ UNCHANGED exited
       ELSE exited' = TRUE /\ UNCHANGED quitting

\* Mutant: only a signal ends the loop; quit_when_idle is never looked at.
ExitTestsSignalOnly ==
    /\ Turn("exit", "draw")
    /\ RequestQuit \/ UNCHANGED <<proposal, quitting, exited, cap>>
    /\ UNCHANGED <<session, drawn, job, mail, review, prepared, handles,
                   approved, denied, started, finished, result>>

\* A pending signal asks to quit on every turn; quit_when_idle ends the loop
\* once the job is gone.
ExitTests ==
    /\ Turn("exit", "draw")
    /\ \/ RequestQuit
       \/ /\ quitting /\ job = NoJob /\ exited' = TRUE
          /\ UNCHANGED <<quitting, proposal, cap>>
       \/ /\ ~(quitting /\ job = NoJob)
          /\ UNCHANGED <<quitting, exited, proposal, cap>>
    /\ UNCHANGED <<session, drawn, job, mail, review, prepared, handles,
                   approved, denied, started, finished, result>>

Same == UNCHANGED <<job, mail, proposal, prepared, handles, finished, ui, cap>>

Draw ==
    /\ Turn("draw", "wait")
    /\ drawn' = review
    /\ UNCHANGED <<job, mail, proposal, prepared, handles, finished, cap>>
    /\ UNCHANGED <<session, review, approved, denied, started, quitting, exited, result>>

NoKey == Turn("wait", "core") /\ Same

\* draw, poll or read fails: run returns the error at once, whatever worker is
\* running, and the process ends.
TerminalFails ==
    /\ ~exited /\ phase \in {"draw", "wait"}
    /\ exited' = TRUE /\ result' = "error"
    /\ UNCHANGED <<phase, job, mail, proposal, prepared, handles, finished, cap>>
    /\ UNCHANGED <<session, drawn, review, approved, denied, started, quitting>>

KeyPressed == Turn("wait", "key") /\ PollAgent

\* After the loop, run waits up to two seconds for the capture thread.
Finish ==
    /\ exited /\ result = "none"
    /\ result' = IF Complete THEN "ok" ELSE "gap"
    /\ UNCHANGED <<phase, job, mail, proposal, prepared, handles, finished, cap>>
    /\ UNCHANGED <<session, drawn, review, approved, denied, started, quitting, exited>>

-----------------------------------------------------------------------------
(* Keys                                                                    *)

\* Mutant: the recorder was looked at when the review was confirmed.
AcceptedEarlier(kind) == job = NoJob

\* App::job: one at a time, and no mutation while recording is unavailable,
\* which emitting its approval may just have made it.
Accepted(kind) == job = NoJob /\ (kind = "mutation" => Ready')

StartJob(kind, o) ==
    IF Accepted(kind)
    THEN job' = [session |-> session', kind |-> kind, op |-> o] /\ mail' = FALSE
    ELSE UNCHANGED <<job, mail>>

\* y on a review: confirm_review emits "approved", which may fill the capture
\* queue, takes the review, then asks for a job.
ConfirmReview ==
    /\ Turn("key", "core")
    /\ review \in Ops /\ Ready
    /\ Emit(<<review>>)
    /\ approved' = approved \cup {review}
    /\ review' = NoOp
    /\ UNCHANGED session
    /\ StartJob("mutation", review)
    /\ started' = IF Accepted("mutation") THEN started \cup {review} ELSE started
    /\ UNCHANGED <<drawn, proposal, prepared, handles, denied, finished, quitting, exited, result>>

\* y on the inspection of a draft: a worker reads the files and prepares the
\* publication.
ConfirmInspection(o) ==
    /\ Turn("key", "core")
    /\ review = Inspection /\ Ready
    /\ o \notin prepared
    /\ Emit(<<Other>>)
    /\ review' = NoOp
    /\ prepared' = IF job = NoJob THEN prepared \cup {o} ELSE prepared
    /\ UNCHANGED session
    /\ StartJob("prepare", o)
    /\ UNCHANGED <<drawn, proposal, handles, approved, denied, started, finished,
                   quitting, exited, result>>

\* Mutant: the review stays open beside the handle.
HandOverKeeps ==
    /\ Turn("key", "core")
    /\ review \in Ops
    /\ handles' = handles \cup {review}
    /\ UNCHANGED <<session, drawn, job, mail, review, proposal, prepared, approved, denied,
                   started, finished, quitting, exited, result, cap>>

\* h on a review: register_operation gives it to the idle assistant, which can
\* propose it again.  No approval is given.
HandOver ==
    /\ Turn("key", "core")
    /\ review \in Ops
    /\ proposal = NoOp
    /\ handles' = handles \cup {review}
    /\ review' = NoOp
    /\ UNCHANGED <<session, drawn, job, mail, proposal, prepared, approved, denied,
                   started, finished, quitting, exited, result, cap>>

\* n, s or Esc on a review
DenyReview ==
    /\ Turn("key", "core")
    /\ review # NoOp
    /\ denied' = denied \cup ({review} \cap Ops)
    /\ review' = NoOp
    /\ Emit(<<Other>>)
    /\ UNCHANGED <<session, drawn, job, mail, proposal, prepared, handles, approved,
                   started, finished, quitting, exited, result>>

\* A command: no review is open and no job is pending.
Command == Turn("key", "core") /\ review = NoOp /\ job = NoJob

\* A command that prepares or makes a change; not during an assistant's run.
MutationCommand == Command /\ proposal = NoOp

\* :stage, :withdraw or a local save: begin_request, then prepare it in a worker.
PrepareOperation(o) ==
    /\ MutationCommand
    /\ o \notin prepared
    /\ Emit(<<Other>>) \/ NoRequestId
    /\ prepared' = prepared \cup {o}
    /\ UNCHANGED session
    /\ StartJob("prepare", o)
    /\ UNCHANGED <<review, drawn, proposal, handles, approved, denied, started,
                   finished, quitting, exited, result>>

\* :init starts its mutation without a review.
InitProject ==
    /\ MutationCommand
    /\ Emit(<<Other>>) \/ NoRequestId
    /\ UNCHANGED session
    /\ StartJob("mutation", Initialise)
    /\ IF Accepted("mutation")
       THEN started' = started \cup {Initialise} /\ finished' = finished \ {Initialise}
       ELSE UNCHANGED <<started, finished>>
    /\ UNCHANGED <<review, drawn, proposal, prepared, handles, approved, denied,
                   quitting, exited, result>>

\* :draft validate shows the draft for inspection.
ValidateDraft ==
    /\ MutationCommand
    /\ Emit(<<Other, Other>>)
    /\ review' = Inspection
    /\ UNCHANGED <<session, drawn, job, mail, proposal, prepared, handles, approved, denied,
                   started, finished, quitting, exited, result>>

\* reload, search, refresh, preview and the like, asked for at any time
ReadCommand ==
    /\ Turn("key", "core")
    /\ review = NoOp
    /\ UNCHANGED session
    /\ StartJob("read", NoOp)
    /\ UNCHANGED <<review, drawn, proposal, prepared, handles, approved, denied,
                   started, finished, quitting, exited, result, cap>>

\* :project PATH, which stops the assistant, replaces it and reloads.
SwitchProject ==
    /\ Command
    /\ session < MaxSession
    /\ session' = session + 1
    /\ proposal' = NoOp
    /\ handles' = {}
    /\ StartJob("read", NoOp)
    /\ UNCHANGED <<review, drawn, prepared, approved, denied, started, finished,
                   quitting, exited, result, cap>>

\* s without a review: the assistant's run is cancelled.
StopAssistant ==
    /\ Turn("key", "core")
    /\ review = NoOp
    /\ proposal' = NoOp
    /\ Emit(<<Other>>)
    /\ UNCHANGED <<session, drawn, job, mail, review, prepared, handles, approved, denied,
                   started, finished, quitting, exited, result>>

QuitKey ==
    /\ Turn("key", "core")
    /\ review = NoOp
    /\ RequestQuit
    /\ UNCHANGED <<session, drawn, job, mail, review, prepared, handles,
                   approved, denied, started, finished, result>>

\* Any other key, and one that is refused.
OtherKey == Turn("key", "core") /\ Same

Loop ==
    \/ PollCore \/ LoopPollAgent \/ ExitTests \/ Draw \/ NoKey \/ KeyPressed
    \/ ConfirmReview \/ DenyReview \/ HandOver \/ ValidateDraft \/ ReadCommand
    \/ SwitchProject \/ InitProject \/ StopAssistant \/ QuitKey \/ OtherKey
    \/ \E o \in Ops : PrepareOperation(o) \/ ConfirmInspection(o)

Next ==
    \/ Loop
    \/ TerminalFails
    \/ Finish
    \/ WorkerDone
    \/ \E o \in Ops : AssistantProposes(o)
    \/ CaptureThread

Spec == Init /\ [][Next]_vars

\* The loop's poll has a 25 ms tick and a started job returns.
FairSpec == Spec /\ WF_vars(Loop) /\ WF_vars(WorkerDone)
-----------------------------------------------------------------------------
(* Properties                                                              *)

\* The types of the variables
TypeOK ==
    /\ phase \in {"core", "agent", "exit", "draw", "wait", "key"}
    /\ session \in 1..MaxSession
    /\ job \in Job \cup {NoJob}
    /\ mail \in BOOLEAN /\ (mail => job # NoJob)
    /\ {review, drawn} \subseteq Ops \cup {NoOp, Inspection} /\ proposal \in Ops \cup {NoOp}
    /\ prepared \subseteq Ops /\ handles \subseteq Ops
    /\ approved \subseteq Ops /\ denied \subseteq Ops
    /\ started \subseteq Mutations /\ finished \subseteq Mutations
    /\ quitting \in BOOLEAN /\ exited \in BOOLEAN
    /\ result \in {"none", "ok", "gap", "error"}
    /\ Len(channel) <= ChannelLimit

\* Asked to leave, by a key or by a signal, the application does not leave
\* while a mutation is running, be it a reviewed one or :init; only an error of
\* the terminal makes it.  And it never runs two.
MutationsAreAwaited ==
    /\ exited /\ result # "error" => started = finished
    /\ Cardinality(started \ finished) <= 1

\* Apart from :init, only an operation approved in a review runs, a denied one
\* never does, and one approval runs once: a started operation cannot come back
\* for another review, be it from the key loop or from the assistant's handles.
OnlyApprovedRun ==
    /\ started \subseteq (approved \ denied) \cup {Initialise}
    /\ ({review, proposal} \cup handles) \cap started = {}

\* A key that confirms or denies a review answers the one that the screen
\* shows, although workers and the assistant may open another at any time; only
\* while it shows none can it be one that opened since the draw, when handle_key
\* polled the assistant before it looked at the key.
AnsweredAsShown ==
    [][\A o \in (approved' \cup denied') \ (approved \cup denied) : drawn \in {o, NoOp}]_vars

\* With capture on, no operation starts whose approval is neither with the
\* collector nor on its way there, however full the channel was when it was
\* approved; and run returns Ok only if every approval is with the collector
\* and no event was dropped.
ApprovalsRecorded ==
    On => /\ started \cap Ops \subseteq recorded \cup {channel[i] : i \in DOMAIN channel} \cup {hand}
          /\ result = "ok" => approved \subseteq recorded /\ ~dropped

\* Asked to leave during a mutation, the application finishes it and leaves.
QuitCompletes == quitting ~> exited
=============================================================================
