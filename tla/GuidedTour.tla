----------------------------- MODULE GuidedTour -----------------------------
(***************************************************************************)
(* The guided curriculum (mesh_tui/src/guide.rs) and the part of the       *)
(* application that feeds it (mesh_tui/src/lib.rs).  Keys and commands     *)
(* cause observations, at once or when the background job they started is  *)
(* polled; the observations queue up while the assistant explains; each    *)
(* one is compared with the current step and answered by a guided request. *)
(*                                                                         *)
(* An observation is the event it reports and whether it reports success.  *)
(* Events that no toured step expects are one event, Other.  The worker's  *)
(* end and poll_core are one step: nothing else looks at the result.       *)
(***************************************************************************)
EXTENDS Naturals, Sequences, FiniteSets

CONSTANTS First, Last,       \* the steps of the curriculum that are toured
          ObservationLimit,  \* OBSERVATION_LIMIT
          NoJob

E(kind) == <<kind, "">>
Command(word) == <<"command", word>>
Opened(kind) == <<"opened", kind>>
Denied(kind) == <<"denied", kind>>
Confirmed(kind) == <<"confirmed", kind>>
Committed(kind) == <<"committed", kind>>
Other == E("other")
NoTag == E("none")

\* CURRICULUM: the event each step expects, in order.
LessonsOneToFour ==
    <<E("help"), E("section"), E("scroll"),
      E("searchOpen"), E("search"), E("selection"), E("pageNext"), E("refresh"),
      E("open"), Command("resolve"), E("examples"), E("preview"),
      Command("filter"), Command("filter"), E("section")>>

LessonsFiveToNine ==
    <<Opened("export"), Denied("export"),
      Command("draftNewTable"), Command("draftNewRaster"), Command("draftLoad"),
      Command("draftSet"), Command("draftSetAssets"), Command("agentDraft"),
      Opened("inspection"), Opened("publication"), Denied("publication"),
      Opened("export"), Denied("export"),
      Opened("inspection"), Opened("publication"), Committed("publication")>>

LessonsTenToFifteen ==
    <<Command("resolve"),
      Opened("staging"), Denied("staging"), Opened("staging"), Committed("staging"),
      Opened("withdrawal"), Denied("withdrawal"), Opened("withdrawal"), Committed("withdrawal"),
      E("recovery"), Command("integrityConsent"),
      Command("usage"), Command("help"), Command("help")>>

Curriculum == LessonsOneToFour \o LessonsFiveToNine \o LessonsTenToFifteen

ASSUME TourAssumption ==
    /\ First \in 1..Last /\ Last \in 1..Len(Curriculum)
    /\ ObservationLimit \in Nat \ {0}

Steps == SubSeq(Curriculum, First, Last)

Expected == {Steps[i] : i \in DOMAIN Steps}

\* The events that stand for a review or its outcome.
Consequential == {e \in Expected : e[1] \in {"opened", "denied", "committed"}}

Operations == {"publication", "staging", "withdrawal"}
NoReview == "none"

VARIABLES
    guide,      \* App.guide
    job,        \* App.pending: what the job does, on what, and its guide_action
    review,     \* kind of App.review
    input,      \* App.input
    agent,      \* kind of the pending assistant request, or "idle"
    cancelled,  \* it was told to stop
    ready,      \* Capture.ready()
    happened,   \* reviews and outcomes of this tour, and those skipped
    mode        \* mode of the last turn in the conversation; "untold" if that was
                \* guided and a turn that was refused has taken the notice of its end

vars == <<guide, job, review, input, agent, cancelled, ready, happened, mode>>

Default == [active |-> FALSE, index |-> 0, pending |-> <<>>, transition |-> FALSE]

Init ==
    /\ guide = Default
    /\ job = NoJob
    /\ review = NoReview
    /\ input = "none"
    /\ agent = "idle" /\ cancelled = FALSE
    /\ ready = TRUE
    /\ happened = {}
    /\ mode = "none"

-----------------------------------------------------------------------------
(* GuideState                                                              *)

Done(g) == g.index = Len(Steps)

Start(g) == [g EXCEPT !.active = TRUE, !.transition = FALSE]

Restart == [Default EXCEPT !.active = TRUE]

Stop(g) == [g EXCEPT !.active = FALSE, !.transition = @ \/ g.active]

FinishResponse(g) ==
    IF Done(g) THEN [g EXCEPT !.active = FALSE, !.transition = TRUE] ELSE g

Seen(e) == IF e \in Expected THEN e ELSE Other

Observation(e, ok) == [event |-> Seen(e), ok |-> ok]

\* A full queue loses its oldest observation.
Enqueue(g, o) ==
    [g EXCEPT !.pending =
        Append(IF Len(@) = ObservationLimit THEN Tail(@) ELSE @, o)]

Skip(g) == [g EXCEPT !.pending = <<>>, !.index = @ + 1]

Matches(expected, o) == expected = o.event

\* Only the success of the expected action advances.
Apply(g, o) ==
    IF ~Done(g) /\ o.ok /\ Matches(Steps[g.index + 1], o)
    THEN [g EXCEPT !.index = @ + 1] ELSE g

\* observe: what happens while guidance is off is not kept.
Observe(g, e, ok) == IF g.active THEN Enqueue(g, Observation(e, ok)) ELSE g

Happens(e) == happened' = happened \cup ({e} \cap Consequential)

-----------------------------------------------------------------------------
(* Background jobs                                                         *)

Mutates(j) == j # NoJob /\ j.does \in {"operation", "save", "init"}

\* App::job: one at a time, and no mutation while recording is unavailable.
Accepts(does) == job = NoJob /\ (does \in {"operation", "save", "init"} => ready)

\* tag_pending puts the action on whatever job is pending, be it the one just
\* asked for or an earlier one on whose account that one was refused.
Tagged(j, tag) ==
    IF j = NoJob THEN j
    ELSE [j EXCEPT !.tag = IF tag[1] = "confirmed" THEN tag ELSE Seen(tag)]

StartJob(does, kind, tag) ==
    job' = Tagged(IF Accepts(does) THEN [does |-> does, kind |-> kind, tag |-> NoTag] ELSE job,
                  tag)

\* The same without a tag.
StartPlain(does) ==
    job' = IF Accepts(does) THEN [does |-> does, kind |-> NoReview, tag |-> NoTag] ELSE job

\* The kind a finished operation is reported under: the confirmation's, or
\* Export when another action has taken the tag over meanwhile.
ReportedKind(tag) == IF tag[1] = "confirmed" THEN tag[2] ELSE "export"

\* Mutant: any result of an operation counts as a commit.
PollOperationAnyState ==
    /\ job # NoJob /\ job.does = "operation"
    /\ guide' = Observe(guide, Committed(ReportedKind(job.tag)), TRUE)
    /\ job' = NoJob
    /\ \E state \in {"committed", "failed"} :
          Happens(IF state = "committed" THEN Committed(job.kind) ELSE Other)
    /\ UNCHANGED <<review, input, agent, cancelled, ready, mode>>

\* poll_core, CoreUpdate::Operation: committed, with or without a follow-up
\* error, or any other state.
PollOperation ==
    /\ job # NoJob /\ job.does = "operation"
    /\ \E state \in {"committed", "failed"} :
          IF state = "committed"
          THEN /\ guide' = Observe(guide, Committed(ReportedKind(job.tag)), TRUE)
               /\ Happens(Committed(job.kind))
          ELSE /\ guide' = Observe(guide, Confirmed(ReportedKind(job.tag)), FALSE)
               /\ UNCHANGED happened
    /\ job' = NoJob
    /\ UNCHANGED <<review, input, agent, cancelled, ready, mode>>

\* poll_core, CoreUpdate::Review
PollReview ==
    /\ job # NoJob /\ job.does = "review"
    /\ review' = job.kind
    /\ guide' = Observe(guide, Opened(job.kind), TRUE)
    /\ Happens(Opened(job.kind))
    /\ job' = NoJob
    /\ UNCHANGED <<input, agent, cancelled, ready, mode>>

\* What the remaining updates report: some their own event, some the tag's.
OwnEvent(does) ==
    CASE does = "refresh" -> E("refresh")
      [] does = "preview" -> E("preview")
      [] does = "draft"   -> Command("draftLoad")
      [] OTHER            -> E("recovery")

ReportsTag(j) == j.does \in {"catalog", "view", "save", "init"}

\* poll_core, the other updates; a recovery is followed by a reload.
PollUpdate ==
    /\ job # NoJob /\ job.does \notin {"operation", "review"}
    /\ guide' = IF ~ReportsTag(job) THEN Observe(guide, OwnEvent(job.does), TRUE)
                ELSE IF job.tag # NoTag THEN Observe(guide, job.tag, TRUE) ELSE guide
    /\ job' = IF job.does = "recover"
              THEN [does |-> "catalog", kind |-> NoReview, tag |-> NoTag] ELSE NoJob
    /\ UNCHANGED <<review, input, agent, cancelled, ready, happened, mode>>

\* poll_core, an error of the work, a panic or a lost worker
PollError ==
    /\ job # NoJob
    /\ guide' = IF job.tag # NoTag THEN Observe(guide, job.tag, FALSE) ELSE guide
    /\ job' = NoJob
    /\ UNCHANGED <<review, input, agent, cancelled, ready, happened, mode>>

-----------------------------------------------------------------------------
(* The assistant and the recorder                                          *)

\* HostedAgentState::start succeeds for an idle assistant; a guided request
\* also needs the recorder.
CanAsk == ready /\ agent = "idle"

\* run_mode adds the turn to the conversation, or refuses it before that: its
\* text is too long, a review is unfinished, or the profile forbids it.
Ask(kind) ==
    /\ agent' = kind /\ cancelled' = FALSE
    /\ mode' \in {IF kind = "ordinary" THEN "ordinary" ELSE "guided",
                  IF kind = "ordinary" /\ mode = "guided" /\ guide.transition
                  THEN "untold" ELSE mode}

\* poll_agent finds the run ended.  Only an ordinary one has tools, hence an
\* operation to review.
PollAgent ==
    /\ agent # "idle"
    /\ agent' = "idle" /\ cancelled' = FALSE
    /\ IF cancelled THEN UNCHANGED <<guide, review>>
       ELSE /\ guide' = IF agent = "ordinary" THEN guide ELSE FinishResponse(guide)
            /\ review' \in IF agent = "ordinary" /\ review = NoReview /\ ~Mutates(job)
                           THEN {NoReview} \cup Operations ELSE {review}
    /\ UNCHANGED <<job, input, ready, happened, mode>>

\* The worker vanished without a result, and the conversation with it.
AgentLost ==
    /\ agent # "idle"
    /\ agent' = "idle" /\ cancelled' = FALSE
    /\ mode' = "none"
    /\ UNCHANGED <<guide, job, review, input, ready, happened>>

\* pump_guide: the observation is applied and then asked about; when the
\* request cannot start it goes to the back of the queue, to be applied again.
PumpGuide ==
    /\ guide.active /\ agent = "idle"
    /\ guide.pending # <<>>
    /\ LET o == Head(guide.pending)
           g == Apply([guide EXCEPT !.pending = Tail(@)], o)
       IN IF CanAsk
          THEN guide' = g /\ Ask("observation")
          ELSE guide' = Enqueue(g, o) /\ UNCHANGED <<agent, cancelled, mode>>
    /\ UNCHANGED <<job, review, input, ready, happened>>

RecorderChanges ==
    /\ ready' = ~ready
    /\ UNCHANGED <<guide, job, review, input, agent, cancelled, happened, mode>>

-----------------------------------------------------------------------------
(* Starting, stopping and skipping                                         *)

\* Mutant: a start that fails leaves the guide half started.
StartGuideForgets(restart) ==
    /\ agent = "idle"
    /\ restart \/ ~Done(guide)
    /\ LET g == IF restart THEN Restart ELSE Start(guide) IN
       IF CanAsk THEN guide' = g /\ Ask("lesson")
       ELSE guide' = [g EXCEPT !.active = FALSE] /\ UNCHANGED <<agent, cancelled, mode>>
    /\ happened' = IF restart THEN {} ELSE happened

\* start_guide, refused while the assistant is busy or the tour is over
StartGuide(restart) ==
    /\ agent = "idle"
    /\ restart \/ ~Done(guide)
    /\ LET g == IF restart THEN Restart ELSE Start(guide) IN
       IF CanAsk THEN guide' = g /\ Ask("lesson")
       ELSE guide' = Stop(g) /\ UNCHANGED <<agent, cancelled, mode>>
    /\ happened' = IF restart THEN {} ELSE happened

StopGuide ==
    /\ guide' = Stop(guide)
    /\ UNCHANGED <<agent, cancelled, happened, mode>>

\* skip_guide: not over a review, a job or an answer.
SkipGuide ==
    /\ guide.active /\ ~Done(guide)
    /\ review = NoReview /\ job = NoJob /\ agent = "idle"
    /\ guide' = Skip(guide)
    /\ IF CanAsk THEN Ask("observation") ELSE UNCHANGED <<agent, cancelled, mode>>
    /\ Happens(Steps[guide.index + 1])

\* g and x work over an open review, but not in a text field.
GuideKey ==
    /\ input = "none"
    /\ \/ guide.active /\ StopGuide
       \/ ~guide.active /\ StartGuide(FALSE)
       \/ SkipGuide
    /\ UNCHANGED <<job, review, input, ready>>

-----------------------------------------------------------------------------
(* Review keys                                                             *)

\* y: the review is gone whether or not its job is accepted, and the pending
\* job, whichever it is, carries the confirmation.
ConfirmReview ==
    /\ review # NoReview /\ ready
    /\ review' = NoReview
    /\ CASE review = "inspection" -> StartJob("review", "publication", Confirmed(review))
         [] review = "export"     -> StartJob("save", "export", Confirmed(review))
         [] OTHER                 -> StartJob("operation", review, Confirmed(review))
    /\ UNCHANGED <<guide, input, agent, cancelled, ready, happened, mode>>

\* n, s or Esc
DenyReview ==
    /\ review # NoReview
    /\ review' = NoReview
    /\ guide' = Observe(guide, Denied(review), TRUE)
    /\ Happens(Denied(review))
    /\ UNCHANGED <<job, input, agent, cancelled, ready, mode>>

\* h
HandOver ==
    /\ review \in Operations /\ agent = "idle"
    /\ review' = NoReview
    /\ UNCHANGED <<guide, job, input, agent, cancelled, ready, happened, mode>>

-----------------------------------------------------------------------------
(* Keys                                                                    *)

Key == review = NoReview /\ input = "none"

Observes(e, ok) ==
    /\ guide' = Observe(guide, e, ok)
    /\ UNCHANGED <<job, review, input, agent, cancelled, ready, happened, mode>>

Reads(does, e) ==
    /\ StartJob(does, NoReview, e)
    /\ UNCHANGED <<guide, review, input, agent, cancelled, ready, happened, mode>>

\* ?
HelpKey == Key /\ Observes(E("help"), TRUE)

\* PgUp and PgDn, in whichever view
ScrollKey == Key /\ Observes(E("scroll"), TRUE)

\* j and k, on a page with entries
SelectKey == Key /\ Observes(E("selection"), TRUE)

\* e
ExamplesKey == Key /\ Observes(E("examples"), TRUE)

\* Tab; the Teams and Cache views are loaded by a job.
TabKey ==
    /\ Key
    /\ guide' = Observe(guide, E("section"), TRUE)
    /\ UNCHANGED job \/ StartPlain("view")
    /\ UNCHANGED <<review, input, agent, cancelled, ready, happened, mode>>

\* ] and [: without a further page there is nothing to load, only to observe.
PageKey ==
    /\ Key /\ job = NoJob
    /\ \E e \in {E("pageNext"), E("pagePrevious")} : Reads("catalog", e) \/ Observes(e, TRUE)

\* r, Enter and p ask for a job without looking whether one is pending.
RefreshKey == Key /\ Reads("refresh", E("refresh"))

OpenKey == Key /\ Reads("view", E("open"))

PreviewKey == Key /\ (Reads("preview", E("preview")) \/ Observes(E("preview"), FALSE))

\* s
StopKey ==
    /\ Key
    /\ cancelled' = (agent # "idle")
    /\ guide' = Observe(guide, E("stop"), TRUE)
    /\ UNCHANGED <<job, review, input, agent, ready, happened, mode>>

\* /, : and a open a text field; only a looks at the assistant.
OpenInput ==
    /\ Key
    /\ \/ input' = "search" /\ guide' = Observe(guide, E("searchOpen"), TRUE)
       \/ input' = "command" /\ UNCHANGED guide
       \/ input' = "agent" /\ agent = "idle" /\ UNCHANGED guide
    /\ UNCHANGED <<job, review, agent, cancelled, ready, happened, mode>>

LeaveInput ==
    /\ review = NoReview /\ input # "none"
    /\ input' = "none"
    /\ UNCHANGED <<guide, job, review, agent, cancelled, ready, happened, mode>>

Enter(field) == review = NoReview /\ input = field /\ input' = "none"

\* search, whose tag goes to the pending job when the reload is refused
Search ==
    /\ Enter("search")
    /\ StartJob("catalog", NoReview, E("search"))
    /\ UNCHANGED <<guide, review, agent, cancelled, ready, happened, mode>>

\* Mutant: a finished tour is taken for an inactive guide.
RequestKindByStep == IF guide.active /\ ~Done(guide) THEN "question" ELSE "ordinary"

RequestKind == IF guide.active THEN "question" ELSE "ordinary"

\* start_agent: an ordinary request takes the pending notice that guided mode
\* has ended.
StartAgent ==
    /\ Enter("agent")
    /\ job = NoJob /\ ready
    /\ guide' = IF RequestKind = "ordinary" THEN [guide EXCEPT !.transition = FALSE] ELSE guide
    /\ IF agent = "idle" THEN Ask(RequestKind) ELSE UNCHANGED <<agent, cancelled, mode>>
    /\ UNCHANGED <<job, review, ready, happened>>

-----------------------------------------------------------------------------
(* Commands                                                                *)

\* Commands wait for the job; those that prepare or change something local
\* also wait for the assistant.
Submit(local) == Enter("command") /\ job = NoJob /\ (local => agent = "idle")

\* Commands that start a job
JobCommand ==
    /\ \/ /\ Submit(FALSE)
          /\ \/ StartJob("view", NoReview, Command("resolve"))
             \/ StartJob("catalog", NoReview, Command("filter"))
             \/ StartJob("recover", NoReview, E("recovery"))
       \/ /\ Submit(TRUE)
          /\ \/ StartJob("init", NoReview, Command("init"))
             \/ StartJob("draft", NoReview, Command("draftLoad"))
             \/ StartJob("review", "inspection", Command("publish"))
             \/ StartJob("review", "export", Command("draftSave"))
             \/ StartJob("review", "export", Command("export"))
             \/ StartJob("review", "staging", Command("stage"))
             \/ StartJob("review", "withdrawal", Command("withdraw"))
    /\ UNCHANGED <<guide, review, agent, cancelled, ready, happened, mode>>

\* Commands that are done, or refused with an observation, at once
LocalCommand ==
    /\ \/ /\ Submit(FALSE)
          /\ \/ \E w \in {"usage", "help"} : guide' = Observe(guide, Command(w), TRUE)
             \/ guide' = Observe(guide, Command("filter"), FALSE)
       \/ /\ Submit(TRUE)
          /\ \/ \E w \in {"draftNewTable", "draftNewRaster", "draftSet", "draftSetAssets",
                          "agentDraft", "integrityConsent"} :
                   guide' = Observe(guide, Command(w), TRUE)
             \/ \E w \in {"draftSet", "draftSetAssets", "draftValidate", "export"} :
                   guide' = Observe(guide, Command(w), FALSE)
    /\ UNCHANGED <<job, review, agent, cancelled, ready, happened, mode>>

\* :draft validate opens its review without a job.
ValidateDraft ==
    /\ Submit(TRUE)
    /\ review' = "inspection"
    /\ guide' = Observe(guide, Opened("inspection"), TRUE)
    /\ Happens(Opened("inspection"))
    /\ UNCHANGED <<job, agent, cancelled, ready, mode>>

\* :guide start, restart, stop and skip
GuideCommand ==
    /\ Submit(FALSE)
    /\ \/ \E restart \in BOOLEAN : StartGuide(restart)
       \/ StopGuide
       \/ SkipGuide
    /\ UNCHANGED <<job, review, ready>>

\* :project and :agent-profile replace the assistant and reset the guide.
Replace ==
    /\ Submit(FALSE)
    /\ guide' = Default /\ happened' = {} /\ mode' = "none"
    /\ agent' = "idle" /\ cancelled' = FALSE
    /\ review' = NoReview
    /\ UNCHANGED job \/ StartPlain("catalog")
    /\ UNCHANGED ready

Next ==
    \/ PollOperation \/ PollReview \/ PollUpdate \/ PollError
    \/ PollAgent \/ AgentLost \/ PumpGuide \/ RecorderChanges
    \/ GuideKey \/ ConfirmReview \/ DenyReview \/ HandOver
    \/ HelpKey \/ ScrollKey \/ SelectKey \/ ExamplesKey \/ TabKey \/ PageKey
    \/ RefreshKey \/ OpenKey \/ PreviewKey \/ StopKey
    \/ OpenInput \/ LeaveInput \/ Search \/ StartAgent
    \/ JobCommand \/ LocalCommand \/ ValidateDraft \/ GuideCommand \/ Replace

Spec == Init /\ [][Next]_vars

-----------------------------------------------------------------------------
(* Properties                                                              *)

\* A step about a review or its outcome is behind the user only if that
\* review was opened or denied, or that operation committed, in this tour, or
\* the user skipped the step: whatever else was queued, applied twice after a
\* request that could not start, or tagged onto another key's job.
LessonsEarned ==
    \A i \in 1..guide.index : Steps[i] \in Consequential => Steps[i] \in happened

\* While guidance is on, the assistant only runs requests without tools, so
\* no proposal of its own opens a review during a lesson.
GuidedWithoutTools == guide.active => agent # "ordinary"

\* An ordinary turn that follows a guided one in the same conversation tells
\* the model that guided mode has ended: once guidance is off, the notice is
\* pending until a turn takes it into the conversation.  The one way to lose it
\* is a turn that takes it and that the harness then refuses ("untold").
ModeNoticeKept == mode = "guided" /\ ~guide.active => guide.transition
=============================================================================
