-------------------------- MODULE GuidedTourProofs --------------------------
(***************************************************************************)
(* Proofs about GuidedTour for any stretch of the curriculum and any       *)
(* length of the observation queue.                                        *)
(*                                                                         *)
(* LessonInv carries LessonsEarned: an observation of success that waits   *)
(* in the queue reports something that happened in this tour.  What may be *)
(* reported is known when the job is polled: a tag never names a review or *)
(* an outcome, and the confirmation on a running operation is its own,     *)
(* because no review can be open beside it.                                *)
(*                                                                         *)
(* ModeInv carries the two properties about guided and ordinary requests.  *)
(***************************************************************************)
EXTENDS GuidedTour, TLAPS

\* Whether an event stands for a review or its outcome
Weighty(e) == e[1] \in {"opened", "denied", "committed"}

Note == [event: Expected \cup {Other}, ok: BOOLEAN]

Guide == [active: BOOLEAN, index: Nat, pending: Seq(Note), transition: BOOLEAN]

\* What a pending job is made of.  Its fields are words and pairs of words,
\* which the proofs only compare.
JobShape(j) == j = [does |-> j.does, kind |-> j.kind, tag |-> j.tag]

TourType ==
    /\ guide \in Guide
    /\ job # NoJob => JobShape(job)

\* Everything that g has behind it or in its queue is in H.
Earned(g, H) ==
    /\ \A i \in 1..g.index : Steps[i] \in Consequential => Steps[i] \in H
    /\ \A k \in DOMAIN g.pending :
          g.pending[k].ok /\ g.pending[k].event \in Consequential => g.pending[k].event \in H

TagInv ==
    job # NoJob =>
        /\ ~Weighty(job.tag)
        /\ job.does = "operation" =>
              /\ review = NoReview
              /\ job.tag[1] = "confirmed" => job.tag[2] = job.kind

LessonInv == TourType /\ Earned(guide, happened) /\ TagInv

\* An ordinary request is being typed only while no answer is awaited, or
\* guidance is on and the request will be a guided one.
ModeInv ==
    /\ GuidedWithoutTools
    /\ ModeNoticeKept
    /\ input = "agent" /\ ~guide.active => agent = "idle"

IInv == LessonInv /\ ModeInv

-----------------------------------------------------------------------------
(* The curriculum                                                          *)

LEMMA EmptyIsNotExport == "" # "export"
  OBVIOUS

LEMMA PlainIsNotExport ==
  \A k : E(k) # Committed("export")
  BY EmptyIsNotExport DEF E, Committed

\* The three parts of the curriculum name no export that has to be committed.
LEMMA ListsHaveNoExport ==
  /\ \A i \in DOMAIN LessonsOneToFour : LessonsOneToFour[i] # Committed("export")
  /\ \A i \in DOMAIN LessonsFiveToNine : LessonsFiveToNine[i] # Committed("export")
  /\ \A i \in DOMAIN LessonsTenToFifteen : LessonsTenToFifteen[i] # Committed("export")
  <1>0. \A w : Command(w) # Committed("export") /\ Opened(w) # Committed("export")
               /\ Denied(w) # Committed("export")
    BY DEF Command, Opened, Denied, Committed
  <1>1. \A i \in DOMAIN LessonsOneToFour : LessonsOneToFour[i] # Committed("export")
    BY <1>0, PlainIsNotExport DEF LessonsOneToFour
  <1>2. \A i \in DOMAIN LessonsFiveToNine : LessonsFiveToNine[i] # Committed("export")
    BY DEF LessonsFiveToNine, Command, Opened, Denied, Committed
  <1>a. \A w \in {"staging", "withdrawal"} : Committed(w) # Committed("export")
    BY DEF Committed
  <1>3. \A i \in DOMAIN LessonsTenToFifteen : LessonsTenToFifteen[i] # Committed("export")
    BY <1>0, <1>a, PlainIsNotExport DEF LessonsTenToFifteen
  <1>4. QED
    BY <1>1, <1>2, <1>3

LEMMA CurriculumType ==
  \E S : /\ Curriculum \in Seq(S)
         /\ \A i \in DOMAIN Curriculum : Curriculum[i] # Committed("export")
  <1> DEFINE S == {LessonsOneToFour[i] : i \in DOMAIN LessonsOneToFour}
                    \cup {LessonsFiveToNine[i] : i \in DOMAIN LessonsFiveToNine}
                    \cup {LessonsTenToFifteen[i] : i \in DOMAIN LessonsTenToFifteen}
  <1>1. LessonsOneToFour \in Seq(S)
    <2>1. \A i \in DOMAIN LessonsOneToFour : LessonsOneToFour[i] \in S
      OBVIOUS
    <2> HIDE DEF S
    <2>2. QED
      BY <2>1 DEF LessonsOneToFour
  <1>2. LessonsFiveToNine \in Seq(S)
    <2>1. \A i \in DOMAIN LessonsFiveToNine : LessonsFiveToNine[i] \in S
      OBVIOUS
    <2> HIDE DEF S
    <2>2. QED
      BY <2>1 DEF LessonsFiveToNine
  <1>3. LessonsTenToFifteen \in Seq(S)
    <2>1. \A i \in DOMAIN LessonsTenToFifteen : LessonsTenToFifteen[i] \in S
      OBVIOUS
    <2> HIDE DEF S
    <2>2. QED
      BY <2>1 DEF LessonsTenToFifteen
  <1> HIDE DEF S
  <1>4. Curriculum \in Seq(S)
        /\ \A i \in DOMAIN Curriculum : Curriculum[i] # Committed("export")
    BY <1>1, <1>2, <1>3, ListsHaveNoExport DEF Curriculum
  <1>5. QED
    BY <1>4

LEMMA StepsType ==
  /\ DOMAIN Steps = 1..Len(Steps)
  /\ Len(Steps) \in Nat
  /\ \A i \in 1..Len(Steps) : Steps[i] \in Expected
  /\ Committed("export") \notin Expected
  <1>1. PICK S : /\ Curriculum \in Seq(S)
                 /\ \A i \in DOMAIN Curriculum : Curriculum[i] # Committed("export")
    BY CurriculumType
  <1>2. Steps \in Seq(S) /\ \A i \in 1..Len(Steps) : Steps[i] # Committed("export")
    BY <1>1, TourAssumption DEF Steps
  <1>3. DOMAIN Steps = 1..Len(Steps) /\ Len(Steps) \in Nat
    BY <1>2
  <1>4. QED
    BY <1>2, <1>3 DEF Expected

LEMMA OtherIsPlain ==
  /\ Other \notin Consequential
  /\ \A e : ~Weighty(e) => e \notin Consequential
  /\ \A e : Seen(e) \in Consequential => Seen(e) = e
  <1>1. \A e : ~Weighty(e) => e \notin Consequential
    BY DEF Consequential, Weighty
  <1>2. ~Weighty(Other)
    BY DEF Weighty, Other, E
  <1>3. \A e : Seen(e) \in Consequential => Seen(e) = e
    BY <1>1, <1>2 DEF Seen
  <1>4. QED
    BY <1>1, <1>2, <1>3

-----------------------------------------------------------------------------
(* The guide's operations                                                  *)

LEMMA EarnedGrows ==
  ASSUME NEW g, NEW H, NEW J, Earned(g, H), H \subseteq J
  PROVE  Earned(g, J)
  BY DEF Earned

\* Queueing keeps what was earned when the observation reports something that
\* happened, or no success.
LEMMA EnqueueKeeps ==
  ASSUME NEW g \in Guide, NEW H, NEW o \in Note, Earned(g, H),
         o.ok /\ o.event \in Consequential => o.event \in H
  PROVE  /\ Enqueue(g, o) \in Guide
         /\ Earned(Enqueue(g, o), H)
         /\ Enqueue(g, o).active = g.active /\ Enqueue(g, o).transition = g.transition
  <1> DEFINE q == IF Len(g.pending) = ObservationLimit THEN Tail(g.pending) ELSE g.pending
  <1>1. g.pending \in Seq(Note) /\ Len(g.pending) \in Nat
    BY DEF Guide
  <1>2. /\ q \in Seq(Note)
        /\ \A k \in 1..Len(q) : \E j \in 1..Len(g.pending) : q[k] = g.pending[j]
    <2>1. CASE Len(g.pending) = ObservationLimit
      <3>1. g.pending # <<>>
        BY <1>1, <2>1, TourAssumption
      <3>2. /\ Tail(g.pending) \in Seq(Note)
            /\ Len(Tail(g.pending)) = Len(g.pending) - 1
            /\ \A k \in 1..Len(Tail(g.pending)) :
                  k + 1 \in 1..Len(g.pending) /\ Tail(g.pending)[k] = g.pending[k + 1]
        BY <1>1, <3>1
      <3>3. QED
        BY <2>1, <3>2
    <2>2. CASE Len(g.pending) # ObservationLimit
      BY <1>1, <2>2
    <2>3. QED
      BY <2>1, <2>2
  <1>3. Enqueue(g, o) = [g EXCEPT !.pending = Append(q, o)]
    BY DEF Enqueue
  <1> HIDE DEF q
  <1>4. Append(q, o) \in Seq(Note) /\ Len(Append(q, o)) = Len(q) + 1 /\ Len(q) \in Nat
        /\ DOMAIN Append(q, o) = 1..Len(q) + 1
    BY <1>2
  <1>5. \A k \in DOMAIN Append(q, o) :
           Append(q, o)[k].ok /\ Append(q, o)[k].event \in Consequential =>
              Append(q, o)[k].event \in H
    <2>1. SUFFICES ASSUME NEW k \in 1..Len(q) + 1
                   PROVE  Append(q, o)[k].ok /\ Append(q, o)[k].event \in Consequential =>
                             Append(q, o)[k].event \in H
      BY <1>4
    <2>2. CASE k = Len(q) + 1
      BY <2>2, <1>2, <1>4
    <2>3. CASE k \in 1..Len(q)
      <3>1. Append(q, o)[k] = q[k]
        BY <2>3, <1>2
      <3>2. PICK j \in 1..Len(g.pending) : q[k] = g.pending[j]
        BY <2>3, <1>2
      <3>3. j \in DOMAIN g.pending
        BY <1>1
      <3>4. QED
        BY <3>1, <3>2, <3>3 DEF Earned
    <2>4. QED
      BY <2>1, <2>2, <2>3, <1>4
  <1>6. Enqueue(g, o) \in Guide /\ Enqueue(g, o).pending = Append(q, o)
        /\ Enqueue(g, o).index = g.index
        /\ Enqueue(g, o).active = g.active /\ Enqueue(g, o).transition = g.transition
    BY <1>3, <1>4 DEF Guide
  <1>7. QED
    BY <1>5, <1>6 DEF Earned

LEMMA ObserveKeeps ==
  ASSUME NEW g \in Guide, NEW H, NEW e, NEW ok \in BOOLEAN, Earned(g, H),
         ok /\ e \in Consequential => e \in H
  PROVE  /\ Observe(g, e, ok) \in Guide
         /\ Earned(Observe(g, e, ok), H)
         /\ Observe(g, e, ok).active = g.active
         /\ Observe(g, e, ok).transition = g.transition
  <1>1. Observation(e, ok) \in Note
        /\ Observation(e, ok).ok = ok /\ Observation(e, ok).event = Seen(e)
    BY DEF Observation, Note, Seen
  <1>2. ok /\ Seen(e) \in Consequential => Seen(e) \in H
    BY OtherIsPlain
  <1>3. QED
    BY <1>1, <1>2, EnqueueKeeps DEF Observe

LEMMA ApplyKeeps ==
  ASSUME NEW g \in Guide, NEW H, NEW o \in Note, Earned(g, H),
         o.ok /\ o.event \in Consequential => o.event \in H
  PROVE  /\ Apply(g, o) \in Guide
         /\ Earned(Apply(g, o), H)
         /\ Apply(g, o).active = g.active /\ Apply(g, o).transition = g.transition
  <1>1. CASE ~Done(g) /\ o.ok /\ Matches(Steps[g.index + 1], o)
    <2>1. Apply(g, o) = [g EXCEPT !.index = @ + 1]
      BY <1>1 DEF Apply
    <2>2. /\ Apply(g, o) \in Guide
          /\ Apply(g, o).index = g.index + 1 /\ Apply(g, o).pending = g.pending
          /\ Apply(g, o).active = g.active /\ Apply(g, o).transition = g.transition
          /\ g.index \in Nat
      BY <2>1 DEF Guide
    <2>3. Steps[g.index + 1] \in Consequential => Steps[g.index + 1] \in H
      BY <1>1 DEF Matches
    <2>4. \A i \in 1..g.index + 1 : i \in 1..g.index \/ i = g.index + 1
      BY <2>2
    <2>5. QED
      BY <2>2, <2>3, <2>4 DEF Earned
  <1>2. CASE ~(~Done(g) /\ o.ok /\ Matches(Steps[g.index + 1], o))
    BY <1>2 DEF Apply
  <1>3. QED
    BY <1>1, <1>2

\* The observation at the head of the queue, applied
LEMMA PumpKeeps ==
  ASSUME NEW g \in Guide, NEW H, Earned(g, H), g.pending # <<>>
  PROVE  LET o == Head(g.pending)
             h == Apply([g EXCEPT !.pending = Tail(@)], o)
         IN  /\ h \in Guide /\ Earned(h, H)
             /\ h.active = g.active /\ h.transition = g.transition
             /\ Enqueue(h, o) \in Guide /\ Earned(Enqueue(h, o), H)
             /\ Enqueue(h, o).active = g.active /\ Enqueue(h, o).transition = g.transition
  <1> DEFINE o == Head(g.pending)
             t == [g EXCEPT !.pending = Tail(@)]
             h == Apply(t, o)
  <1>1. g.pending \in Seq(Note) /\ Len(g.pending) \in Nat \ {0}
    BY DEF Guide
  <1>2. /\ o \in Note /\ o = g.pending[1] /\ 1 \in DOMAIN g.pending
        /\ Tail(g.pending) \in Seq(Note)
        /\ DOMAIN Tail(g.pending) = 1..(Len(g.pending) - 1)
        /\ \A k \in 1..(Len(g.pending) - 1) :
              k + 1 \in DOMAIN g.pending /\ Tail(g.pending)[k] = g.pending[k + 1]
    BY <1>1
  <1>3. o.ok /\ o.event \in Consequential => o.event \in H
    BY <1>2 DEF Earned
  <1>4. /\ t \in Guide /\ t.pending = Tail(g.pending) /\ t.index = g.index
        /\ t.active = g.active /\ t.transition = g.transition
    BY <1>2 DEF Guide
  <1>5. Earned(t, H)
    BY <1>2, <1>4 DEF Earned
  <1> HIDE DEF t, o
  <1>6. h \in Guide /\ Earned(h, H) /\ h.active = t.active /\ h.transition = t.transition
    BY <1>2, <1>3, <1>4, <1>5, ApplyKeeps
  <1> HIDE DEF h
  <1>7. /\ Enqueue(h, o) \in Guide /\ Earned(Enqueue(h, o), H)
        /\ Enqueue(h, o).active = h.active /\ Enqueue(h, o).transition = h.transition
    BY <1>2, <1>3, <1>6, EnqueueKeeps
  <1>8. /\ h \in Guide /\ Earned(h, H)
        /\ h.active = g.active /\ h.transition = g.transition
        /\ Enqueue(h, o) \in Guide /\ Earned(Enqueue(h, o), H)
        /\ Enqueue(h, o).active = g.active /\ Enqueue(h, o).transition = g.transition
    BY <1>4, <1>6, <1>7
  <1>9. QED
    BY <1>8 DEF h, t, o

LEMMA SwitchKeeps ==
  ASSUME NEW g \in Guide, NEW H, Earned(g, H)
  PROVE  /\ Start(g) \in Guide /\ Earned(Start(g), H)
         /\ Stop(g) \in Guide /\ Earned(Stop(g), H)
         /\ FinishResponse(g) \in Guide /\ Earned(FinishResponse(g), H)
  <1>1. /\ Start(g) \in Guide /\ Start(g).index = g.index /\ Start(g).pending = g.pending
        /\ Stop(g) \in Guide /\ Stop(g).index = g.index /\ Stop(g).pending = g.pending
    BY DEF Guide, Start, Stop
  <1>2. /\ FinishResponse(g) \in Guide /\ FinishResponse(g).index = g.index
        /\ FinishResponse(g).pending = g.pending
    BY DEF Guide, FinishResponse
  <1>3. QED
    BY <1>1, <1>2 DEF Earned

LEMMA FreshIsEarned ==
  ASSUME NEW H
  PROVE  /\ Default \in Guide /\ Earned(Default, H)
         /\ Restart \in Guide /\ Earned(Restart, H) /\ Restart.active = TRUE
  <1>1. <<>> \in Seq(Note) /\ DOMAIN <<>> = {}
    OBVIOUS
  <1>2. /\ Default \in Guide /\ Default.index = 0 /\ Default.pending = <<>>
        /\ Restart \in Guide /\ Restart.index = 0 /\ Restart.pending = <<>>
        /\ Restart.active = TRUE
    BY <1>1 DEF Default, Restart, Guide
  <1>3. \A i \in 1..0 : FALSE
    OBVIOUS
  <1>4. QED
    BY <1>1, <1>2, <1>3 DEF Earned

LEMMA SkipKeeps ==
  ASSUME NEW g \in Guide, NEW H, Earned(g, H)
  PROVE  /\ Skip(g) \in Guide
         /\ Earned(Skip(g), H \cup ({Steps[g.index + 1]} \cap Consequential))
         /\ Skip(g).active = g.active /\ Skip(g).transition = g.transition
  <1>1. <<>> \in Seq(Note) /\ DOMAIN <<>> = {}
    OBVIOUS
  <1>2. /\ Skip(g) \in Guide /\ Skip(g).index = g.index + 1 /\ Skip(g).pending = <<>>
        /\ g.index \in Nat
        /\ Skip(g).active = g.active /\ Skip(g).transition = g.transition
    <2>1. g.index \in Nat /\ g.index + 1 \in Nat
      BY DEF Guide
    <2>2. Skip(g) = [active |-> g.active, index |-> g.index + 1, pending |-> <<>>,
                     transition |-> g.transition]
      <3>1. g = [active |-> g.active, index |-> g.index, pending |-> g.pending,
                 transition |-> g.transition]
        BY DEF Guide
      <3> DEFINE n == g.index + 1
      <3>2. Skip(g) = [g EXCEPT !.pending = <<>>, !.index = n]
        BY DEF Skip
      <3> HIDE DEF n
      <3>3. Skip(g) = [active |-> g.active, index |-> n, pending |-> <<>>,
                       transition |-> g.transition]
        BY <3>1, <3>2
      <3>4. QED
        BY <3>3 DEF n
    <2>3. g.active \in BOOLEAN /\ g.transition \in BOOLEAN
      BY DEF Guide
    <2>4. QED
      BY <1>1, <2>1, <2>2, <2>3 DEF Guide
  <1>3. \A i \in 1..g.index + 1 : i \in 1..g.index \/ i = g.index + 1
    BY <1>2
  <1>4. QED
    BY <1>1, <1>2, <1>3 DEF Earned

-----------------------------------------------------------------------------
(* Tags                                                                    *)

\* Only ConfirmReview tags a job with a confirmation.
LEMMA StartJobKeeps ==
  ASSUME TourType, TagInv, review' = review,
         NEW does, NEW kind, NEW tag, StartJob(does, kind, tag),
         does # "operation", ~Weighty(tag), tag[1] # "confirmed"
  PROVE  (job' # NoJob => JobShape(job')) /\ TagInv'
  <1> DEFINE j == IF Accepts(does) THEN [does |-> does, kind |-> kind, tag |-> NoTag] ELSE job
  <1>1. ~Weighty(Seen(tag)) /\ Seen(tag)[1] # "confirmed"
    <2>1. ~Weighty(Other) /\ Other[1] # "confirmed"
      BY DEF Other, E, Weighty
    <2>2. QED
      BY <2>1 DEF Seen
  <1>2. j # NoJob => JobShape(j) /\ (j.does = "operation" => review = NoReview)
    BY DEF JobShape, TourType, TagInv
  <1>3. CASE j = NoJob
    BY <1>3 DEF StartJob, Tagged, TagInv
  <1>4. CASE j # NoJob
    <2>1. job' = [j EXCEPT !.tag = Seen(tag)]
      BY <1>4 DEF StartJob, Tagged
    <2> HIDE DEF j
    <2>2. job' = [does |-> j.does, kind |-> j.kind, tag |-> Seen(tag)]
      BY <1>2, <1>4, <2>1 DEF JobShape
    <2>3. JobShape(job') /\ job'.does = j.does /\ job'.tag = Seen(tag)
      BY <2>2 DEF JobShape
    <2>4. QED
      BY <1>1, <1>2, <1>4, <2>3 DEF TagInv
  <1>5. QED
    BY <1>3, <1>4

LEMMA StartPlainKeeps ==
  ASSUME TourType, TagInv, review' = review, NEW does, StartPlain(does), does # "operation"
  PROVE  (job' # NoJob => JobShape(job')) /\ TagInv'
  <1>1. ~Weighty(NoTag)
    BY DEF NoTag, E, Weighty
  <1>2. CASE Accepts(does)
    <2>1. job' = [does |-> does, kind |-> NoReview, tag |-> NoTag]
      BY <1>2 DEF StartPlain
    <2>2. JobShape(job') /\ job'.does = does /\ job'.tag = NoTag
      BY <2>1 DEF JobShape
    <2>3. QED
      BY <1>1, <2>2 DEF TagInv
  <1>3. CASE ~Accepts(does)
    BY <1>3 DEF StartPlain, TourType, TagInv
  <1>4. QED
    BY <1>2, <1>3

-----------------------------------------------------------------------------
(* LessonInv: what the jobs report                                         *)

LEMMA PollOperationKeeps ==
  ASSUME LessonInv, PollOperation
  PROVE  LessonInv'
  <1> USE DEF LessonInv
  <1>1. job' = NoJob /\ guide \in Guide /\ Earned(guide, happened)
    BY DEF PollOperation, TourType
  <1>2. guide' \in Guide /\ Earned(guide', happened')
    <2>1. CASE /\ guide' = Observe(guide, Committed(ReportedKind(job.tag)), TRUE)
               /\ Happens(Committed(job.kind))
      <3> DEFINE e == Committed(ReportedKind(job.tag))
      <3>1. happened \subseteq happened'
        BY <2>1 DEF Happens
      <3>2. e \in Consequential => e \in happened'
        <4>1. CASE job.tag[1] = "confirmed"
          <5>1. e = Committed(job.kind)
            BY <4>1 DEF ReportedKind, TagInv, PollOperation
          <5>2. QED
            BY <5>1, <2>1 DEF Happens
        <4>2. CASE job.tag[1] # "confirmed"
          <5>1. e = Committed("export")
            BY <4>2 DEF ReportedKind
          <5>2. QED
            BY <5>1, StepsType DEF Consequential
        <4>3. QED
          BY <4>1, <4>2
      <3>3. Earned(guide, happened')
        BY <1>1, <3>1, EarnedGrows
      <3> HIDE DEF e
      <3>4. QED
        BY <1>1, <2>1, <3>2, <3>3, ObserveKeeps DEF e
    <2>2. CASE /\ guide' = Observe(guide, Confirmed(ReportedKind(job.tag)), FALSE)
               /\ UNCHANGED happened
      BY <1>1, <2>2, ObserveKeeps
    <2>3. QED
      BY <2>1, <2>2 DEF PollOperation
  <1>3. QED
    BY <1>1, <1>2 DEF TourType, TagInv

LEMMA PollReviewKeeps ==
  ASSUME LessonInv, PollReview
  PROVE  LessonInv'
  <1> DEFINE e == Opened(job.kind)
  <1>1. job' = NoJob /\ guide \in Guide /\ Earned(guide, happened)
        /\ guide' = Observe(guide, e, TRUE)
    BY DEF PollReview, LessonInv, TourType
  <1>2. happened \subseteq happened' /\ (e \in Consequential => e \in happened')
    BY DEF PollReview, Happens
  <1> HIDE DEF e
  <1>3. Earned(guide, happened')
    BY <1>1, <1>2, EarnedGrows
  <1>4. guide' \in Guide /\ Earned(guide', happened')
    BY <1>1, <1>2, <1>3, ObserveKeeps
  <1>5. QED
    BY <1>1, <1>4 DEF LessonInv, TourType, TagInv

LEMMA PollUpdateKeeps ==
  ASSUME LessonInv, PollUpdate
  PROVE  LessonInv'
  <1>1. guide \in Guide /\ Earned(guide, happened) /\ happened' = happened
    BY DEF PollUpdate, LessonInv, TourType
  <1>2. OwnEvent(job.does) \notin Consequential
    <2>1. ~Weighty(OwnEvent(job.does))
      BY DEF Weighty, OwnEvent, E, Command
    <2>2. QED
      BY <2>1, OtherIsPlain
  <1>3. job.tag \notin Consequential
    BY OtherIsPlain DEF PollUpdate, LessonInv, TagInv
  <1>4. \/ guide' = guide
        \/ guide' = Observe(guide, OwnEvent(job.does), TRUE)
        \/ guide' = Observe(guide, job.tag, TRUE)
    BY DEF PollUpdate
  <1>5. guide' \in Guide /\ Earned(guide', happened')
    BY <1>1, <1>2, <1>3, <1>4, ObserveKeeps
  <1>6. (job' # NoJob => JobShape(job')) /\ TagInv'
    <2>1. CASE job' = NoJob
      BY <2>1 DEF TagInv
    <2>2. CASE job' = [does |-> "catalog", kind |-> NoReview, tag |-> NoTag]
      <3>1. JobShape(job') /\ job'.does = "catalog" /\ job'.tag = NoTag
        BY <2>2 DEF JobShape
      <3>2. ~Weighty(NoTag)
        BY DEF NoTag, E, Weighty
      <3>3. QED
        BY <3>1, <3>2 DEF TagInv
    <2>3. QED
      BY <2>1, <2>2 DEF PollUpdate
  <1>7. QED
    BY <1>5, <1>6 DEF LessonInv, TourType

LEMMA PollErrorKeeps ==
  ASSUME LessonInv, PollError
  PROVE  LessonInv'
  <1>1. /\ guide \in Guide /\ Earned(guide, happened) /\ happened' = happened /\ job' = NoJob
        /\ guide' = guide \/ guide' = Observe(guide, job.tag, FALSE)
    BY DEF PollError, LessonInv, TourType
  <1>2. guide' \in Guide /\ Earned(guide', happened')
    BY <1>1, ObserveKeeps
  <1>3. QED
    BY <1>1, <1>2 DEF LessonInv, TourType, TagInv

-----------------------------------------------------------------------------
(* LessonInv: keys and commands                                            *)

\* The events of keys and commands are neither reviews nor confirmations.
Plain(e) == ~Weighty(e) /\ e[1] # "confirmed"

LEMMA PlainEvents ==
  /\ \A w : Plain(Command(w))
  /\ \A w \in {"help", "scroll", "selection", "examples", "section", "pageNext",
               "pagePrevious", "refresh", "open", "preview", "stop", "searchOpen",
               "search", "recovery"} : Plain(E(w))
  BY DEF Plain, Weighty, Command, E

LEMMA ObserveSteps ==
  ASSUME LessonInv, NEW e, NEW ok \in BOOLEAN, Plain(e) \/ ok = FALSE,
         guide' = Observe(guide, e, ok), happened' = happened
  PROVE  guide' \in Guide /\ Earned(guide', happened')
  <1>1. guide \in Guide /\ Earned(guide, happened)
    BY DEF LessonInv, TourType
  <1>2. ok /\ e \in Consequential => e \in happened
    BY OtherIsPlain DEF Plain
  <1>3. QED
    BY <1>1, <1>2, ObserveKeeps

LEMMA ObservesKeeps ==
  ASSUME LessonInv, NEW e, NEW ok \in BOOLEAN, Plain(e) \/ ok = FALSE, Observes(e, ok)
  PROVE  LessonInv'
  <1>1. guide' \in Guide /\ Earned(guide', happened')
    BY ObserveSteps DEF Observes
  <1>2. job' = job /\ review' = review
    BY DEF Observes
  <1>3. QED
    BY <1>1, <1>2 DEF LessonInv, TourType, TagInv

LEMMA ReadsKeeps ==
  ASSUME LessonInv, NEW does, NEW e, Plain(e), does # "operation", Reads(does, e)
  PROVE  LessonInv'
  <1>1. (job' # NoJob => JobShape(job')) /\ TagInv'
    BY StartJobKeeps DEF Reads, LessonInv, Plain
  <1>2. guide' = guide /\ happened' = happened
    BY DEF Reads
  <1>3. QED
    BY <1>1, <1>2 DEF LessonInv, TourType

LEMMA KeysKeep ==
  ASSUME LessonInv,
         \/ HelpKey \/ ScrollKey \/ SelectKey \/ ExamplesKey \/ PageKey
         \/ RefreshKey \/ OpenKey \/ PreviewKey
  PROVE  LessonInv'
  <1>1. CASE HelpKey
    BY <1>1, PlainEvents, ObservesKeeps DEF HelpKey
  <1>2. CASE ScrollKey
    BY <1>2, PlainEvents, ObservesKeeps DEF ScrollKey
  <1>3. CASE SelectKey
    BY <1>3, PlainEvents, ObservesKeeps DEF SelectKey
  <1>4. CASE ExamplesKey
    BY <1>4, PlainEvents, ObservesKeeps DEF ExamplesKey
  <1>5. CASE PageKey
    <2>1. PICK e \in {E("pageNext"), E("pagePrevious")} : Reads("catalog", e) \/ Observes(e, TRUE)
      BY <1>5 DEF PageKey
    <2>2. Plain(e)
      BY PlainEvents
    <2>3. QED
      BY <2>1, <2>2, ReadsKeeps, ObservesKeeps
  <1>6. CASE RefreshKey
    BY <1>6, PlainEvents, ReadsKeeps DEF RefreshKey
  <1>7. CASE OpenKey
    BY <1>7, PlainEvents, ReadsKeeps DEF OpenKey
  <1>8. CASE PreviewKey
    BY <1>8, PlainEvents, ReadsKeeps, ObservesKeeps DEF PreviewKey
  <1>9. QED
    BY <1>1, <1>2, <1>3, <1>4, <1>5, <1>6, <1>7, <1>8

LEMMA TabKeeps ==
  ASSUME LessonInv, TabKey
  PROVE  LessonInv'
  <1>1. guide' \in Guide /\ Earned(guide', happened')
    BY ObserveSteps, PlainEvents DEF TabKey
  <1>2. (job' # NoJob => JobShape(job')) /\ TagInv'
    <2>1. review' = review /\ (job' = job \/ StartPlain("view"))
      BY DEF TabKey
    <2>2. CASE job' = job
      BY <2>1, <2>2 DEF LessonInv, TourType, TagInv
    <2>3. CASE StartPlain("view")
      BY <2>1, <2>3, StartPlainKeeps DEF LessonInv
    <2>4. QED
      BY <2>1, <2>2, <2>3
  <1>3. QED
    BY <1>1, <1>2 DEF LessonInv, TourType

LEMMA StopKeyKeeps ==
  ASSUME LessonInv, StopKey
  PROVE  LessonInv'
  <1>1. guide' \in Guide /\ Earned(guide', happened')
    BY ObserveSteps, PlainEvents DEF StopKey
  <1>2. job' = job /\ review' = review
    BY DEF StopKey
  <1>3. QED
    BY <1>1, <1>2 DEF LessonInv, TourType, TagInv

LEMMA OpenInputKeeps ==
  ASSUME LessonInv, OpenInput
  PROVE  LessonInv'
  <1>1. job' = job /\ review' = review /\ happened' = happened
        /\ (guide' = guide \/ guide' = Observe(guide, E("searchOpen"), TRUE))
    BY DEF OpenInput
  <1>2. guide' \in Guide /\ Earned(guide', happened')
    <2>1. CASE guide' = guide
      BY <1>1, <2>1 DEF LessonInv, TourType
    <2>2. CASE guide' = Observe(guide, E("searchOpen"), TRUE)
      BY <1>1, <2>2, ObserveSteps, PlainEvents
    <2>3. QED
      BY <1>1, <2>1, <2>2
  <1>3. QED
    BY <1>1, <1>2 DEF LessonInv, TourType, TagInv

LEMMA SearchKeeps ==
  ASSUME LessonInv, Search
  PROVE  LessonInv'
  <1>1. (job' # NoJob => JobShape(job')) /\ TagInv'
    <2>1. Plain(E("search"))
      BY PlainEvents
    <2>2. QED
      BY <2>1, StartJobKeeps DEF Search, LessonInv, Plain
  <1>2. guide' = guide /\ happened' = happened
    BY DEF Search
  <1>3. QED
    BY <1>1, <1>2 DEF LessonInv, TourType

LEMMA StartAgentKeeps ==
  ASSUME LessonInv, StartAgent
  PROVE  LessonInv'
  <1>1. job' = job /\ review' = review /\ happened' = happened
        /\ (guide' = guide \/ guide' = [guide EXCEPT !.transition = FALSE])
    BY DEF StartAgent
  <1>2. guide' \in Guide /\ guide'.index = guide.index /\ guide'.pending = guide.pending
    BY <1>1 DEF LessonInv, TourType, Guide
  <1>3. QED
    BY <1>1, <1>2 DEF LessonInv, TourType, TagInv, Earned

LEMMA JobCommandKeeps ==
  ASSUME LessonInv, JobCommand
  PROVE  LessonInv'
  <1> DEFINE Goal == (job' # NoJob => JobShape(job')) /\ TagInv'
  <1>1. ASSUME NEW does, NEW kind, NEW tag, StartJob(does, kind, tag),
               does # "operation", Plain(tag)
        PROVE  Goal
    BY <1>1, StartJobKeeps DEF JobCommand, LessonInv, Plain
  <1> HIDE DEF Goal
  <1>2. Goal
    BY <1>1, PlainEvents DEF JobCommand
  <1>3. guide' = guide /\ happened' = happened
    BY DEF JobCommand
  <1>4. QED
    BY <1>2, <1>3 DEF Goal, LessonInv, TourType

LEMMA LocalCommandKeeps ==
  ASSUME LessonInv, LocalCommand
  PROVE  LessonInv'
  <1>1. \E w : \E ok \in BOOLEAN : guide' = Observe(guide, Command(w), ok)
    BY DEF LocalCommand
  <1>2. job' = job /\ review' = review /\ happened' = happened
    BY DEF LocalCommand
  <1>3. guide' \in Guide /\ Earned(guide', happened')
    BY <1>1, <1>2, ObserveSteps, PlainEvents
  <1>4. QED
    BY <1>2, <1>3 DEF LessonInv, TourType, TagInv

LEMMA ValidateKeeps ==
  ASSUME LessonInv, ValidateDraft
  PROVE  LessonInv'
  <1> DEFINE e == Opened("inspection")
  <1>1. job = NoJob /\ job' = NoJob /\ guide \in Guide /\ Earned(guide, happened)
        /\ guide' = Observe(guide, e, TRUE)
    BY DEF ValidateDraft, Submit, LessonInv, TourType
  <1>2. happened \subseteq happened' /\ (e \in Consequential => e \in happened')
    BY DEF ValidateDraft, Happens
  <1> HIDE DEF e
  <1>3. Earned(guide, happened')
    BY <1>1, <1>2, EarnedGrows
  <1>4. guide' \in Guide /\ Earned(guide', happened')
    BY <1>1, <1>2, <1>3, ObserveKeeps
  <1>5. QED
    BY <1>1, <1>4 DEF LessonInv, TourType, TagInv

LEMMA ReplaceKeeps ==
  ASSUME LessonInv, Replace
  PROVE  LessonInv'
  <1>1. job = NoJob /\ guide' = Default
    BY DEF Replace, Submit
  <1>2. (job' # NoJob => JobShape(job')) /\ TagInv'
    <2>1. CASE job' = job
      BY <1>1, <2>1 DEF TagInv
    <2>2. CASE StartPlain("catalog")
      <3>1. job' = NoJob \/ job' = [does |-> "catalog", kind |-> NoReview, tag |-> NoTag]
        BY <1>1, <2>2 DEF StartPlain
      <3>2. CASE job' = NoJob
        BY <3>2 DEF TagInv
      <3>3. CASE job' = [does |-> "catalog", kind |-> NoReview, tag |-> NoTag]
        <4>1. JobShape(job') /\ job'.does = "catalog" /\ job'.tag = NoTag
          BY <3>3 DEF JobShape
        <4>2. ~Weighty(NoTag)
          BY DEF NoTag, E, Weighty
        <4>3. QED
          BY <4>1, <4>2 DEF TagInv
      <3>4. QED
        BY <3>1, <3>2, <3>3
    <2>3. QED
      BY <2>1, <2>2 DEF Replace
  <1>3. QED
    BY <1>1, <1>2, FreshIsEarned DEF LessonInv, TourType

-----------------------------------------------------------------------------
(* LessonInv: reviews                                                      *)

\* The job that carries a confirmation is the one it starts, or one that is
\* not an operation, since a review was open beside it.
LEMMA ConfirmKeeps ==
  ASSUME LessonInv, ConfirmReview
  PROVE  LessonInv'
  <1> DEFINE tag == Confirmed(review)
             Goal == (job' # NoJob => JobShape(job')) /\ TagInv'
  <1>1. tag[1] = "confirmed" /\ tag[2] = review /\ ~Weighty(tag)
    BY DEF Confirmed, Weighty
  <1>2. review # NoReview /\ review' = NoReview /\ guide' = guide /\ happened' = happened
    BY DEF ConfirmReview
  <1>3. ASSUME NEW does, NEW kind, StartJob(does, kind, tag),
               does = "operation" => kind = review
        PROVE  Goal
    <2> DEFINE j == IF Accepts(does) THEN [does |-> does, kind |-> kind, tag |-> NoTag] ELSE job
    <2>1. j # NoJob => JobShape(j) /\ (j.does = "operation" => j.kind = review)
      BY <1>2, <1>3 DEF LessonInv, TourType, TagInv, JobShape
    <2>2. job' = IF j = NoJob THEN j ELSE [j EXCEPT !.tag = tag]
      BY <1>1, <1>3 DEF StartJob, Tagged
    <2> HIDE DEF j, tag
    <2>3. CASE j = NoJob
      BY <2>2, <2>3 DEF TagInv
    <2>4. CASE j # NoJob
      <3>1. job' = [does |-> j.does, kind |-> j.kind, tag |-> tag]
        BY <2>1, <2>2, <2>4 DEF JobShape
      <3>2. JobShape(job') /\ job'.does = j.does /\ job'.kind = j.kind /\ job'.tag = tag
        BY <3>1 DEF JobShape
      <3>3. QED
        BY <1>1, <1>2, <2>1, <2>4, <3>2 DEF TagInv
    <2>5. QED
      BY <2>3, <2>4
  <1> HIDE DEF Goal
  <1>4. \/ StartJob("review", "publication", tag)
        \/ StartJob("save", "export", tag)
        \/ StartJob("operation", review, tag)
    BY DEF ConfirmReview
  <1>5. Goal
    BY <1>3, <1>4
  <1>6. QED
    BY <1>2, <1>5 DEF Goal, LessonInv, TourType

LEMMA DenyKeeps ==
  ASSUME LessonInv, DenyReview
  PROVE  LessonInv'
  <1> DEFINE e == Denied(review)
  <1>1. job' = job /\ review' = NoReview /\ guide \in Guide /\ Earned(guide, happened)
        /\ guide' = Observe(guide, e, TRUE)
    BY DEF DenyReview, LessonInv, TourType
  <1>2. happened \subseteq happened' /\ (e \in Consequential => e \in happened')
    BY DEF DenyReview, Happens
  <1> HIDE DEF e
  <1>3. Earned(guide, happened')
    BY <1>1, <1>2, EarnedGrows
  <1>4. guide' \in Guide /\ Earned(guide', happened')
    BY <1>1, <1>2, <1>3, ObserveKeeps
  <1>5. QED
    BY <1>1, <1>4 DEF LessonInv, TourType, TagInv

-----------------------------------------------------------------------------
(* LessonInv: the assistant and the guide                                  *)

LEMMA PollAgentKeeps ==
  ASSUME LessonInv, PollAgent
  PROVE  LessonInv'
  <1>1. job' = job /\ happened' = happened /\ guide \in Guide /\ Earned(guide, happened)
        /\ (guide' = guide \/ guide' = FinishResponse(guide))
    BY DEF PollAgent, LessonInv, TourType
  <1>2. guide' \in Guide /\ Earned(guide', happened')
    BY <1>1, SwitchKeeps
  <1>3. review' = review \/ ~Mutates(job)
    BY DEF PollAgent
  <1>4. QED
    BY <1>1, <1>2, <1>3 DEF LessonInv, TourType, TagInv, Mutates

LEMMA PumpGuideKeeps ==
  ASSUME LessonInv, PumpGuide
  PROVE  LessonInv'
  <1>1. job' = job /\ review' = review /\ happened' = happened
        /\ guide \in Guide /\ Earned(guide, happened) /\ guide.pending # <<>>
    BY DEF PumpGuide, LessonInv, TourType
  <1>2. guide' \in Guide /\ Earned(guide', happened')
    BY <1>1, PumpKeeps DEF PumpGuide
  <1>3. QED
    BY <1>1, <1>2 DEF LessonInv, TourType, TagInv

LEMMA GuideStepKeeps ==
  ASSUME LessonInv, job' = job, review' = review,
         (\E restart \in BOOLEAN : StartGuide(restart)) \/ StopGuide \/ SkipGuide
  PROVE  LessonInv'
  <1>1. guide \in Guide /\ Earned(guide, happened)
    BY DEF LessonInv, TourType
  <1>2. guide' \in Guide /\ Earned(guide', happened')
    <2>1. ASSUME NEW restart \in BOOLEAN, StartGuide(restart)
          PROVE  guide' \in Guide /\ Earned(guide', happened')
      <3> DEFINE g == IF restart THEN Restart ELSE Start(guide)
      <3>1. happened' = IF restart THEN {} ELSE happened
        BY <2>1 DEF StartGuide
      <3>2. g \in Guide /\ Earned(g, happened')
        BY <1>1, <3>1, FreshIsEarned, SwitchKeeps
      <3>3. guide' = g \/ guide' = Stop(g)
        BY <2>1 DEF StartGuide
      <3> HIDE DEF g
      <3>4. QED
        BY <3>2, <3>3, SwitchKeeps
    <2>2. CASE StopGuide
      BY <1>1, <2>2, SwitchKeeps DEF StopGuide
    <2>3. CASE SkipGuide
      BY <1>1, <2>3, SkipKeeps DEF SkipGuide, Happens
    <2>4. QED
      BY <2>1, <2>2, <2>3
  <1>3. QED
    BY <1>2 DEF LessonInv, TourType, TagInv

\* LessonInv is inductive.
LEMMA LessonNext ==
  ASSUME LessonInv, [Next]_vars
  PROVE  LessonInv'
  <1>1. CASE UNCHANGED vars
    BY <1>1 DEF vars, LessonInv, TourType, TagInv
  <1>2. CASE AgentLost \/ RecorderChanges \/ LeaveInput \/ HandOver
    BY <1>2 DEF AgentLost, RecorderChanges, LeaveInput, HandOver, LessonInv, TourType, TagInv
  <1>3. CASE GuideKey
    BY <1>3, GuideStepKeeps DEF GuideKey
  <1>4. CASE GuideCommand
    BY <1>4, GuideStepKeeps DEF GuideCommand
  <1>5. QED
    BY <1>1, <1>2, <1>3, <1>4, PollOperationKeeps, PollReviewKeeps, PollUpdateKeeps,
       PollErrorKeeps, PollAgentKeeps, PumpGuideKeeps, ConfirmKeeps, DenyKeeps, KeysKeep,
       TabKeeps, StopKeyKeeps, OpenInputKeeps, SearchKeeps, StartAgentKeeps, JobCommandKeeps,
       LocalCommandKeeps, ValidateKeeps, ReplaceKeeps
    DEF Next

LEMMA LessonInit ==
  ASSUME Init
  PROVE  LessonInv
  BY FreshIsEarned DEF Init, LessonInv, TourType, TagInv

-----------------------------------------------------------------------------
(* ModeInv                                                                 *)

\* Steps that leave the guide's switch alone: the assistant may fall idle, the
\* conversation be lost, and a text field close.
Quiet ==
    /\ guide'.active = guide.active /\ guide'.transition = guide.transition
    /\ agent' \in {agent, "idle"}
    /\ mode' \in {mode, "none"}
    /\ input' \in {input, "none"}

LEMMA QuietKeeps ==
  ASSUME ModeInv, Quiet
  PROVE  ModeInv'
  BY DEF ModeInv, Quiet, GuidedWithoutTools, ModeNoticeKept

LEMMA ObserveIsQuiet ==
  ASSUME TourType, NEW e, NEW ok \in BOOLEAN
  PROVE  /\ Observe(guide, e, ok).active = guide.active
         /\ Observe(guide, e, ok).transition = guide.transition
  BY DEF Observe, Enqueue, TourType, Guide

LEMMA PollsAreQuiet ==
  ASSUME TourType, PollOperation \/ PollReview \/ PollUpdate \/ PollError
  PROVE  Quiet
  <1>1. agent' = agent /\ mode' = mode /\ input' = input
    BY DEF PollOperation, PollReview, PollUpdate, PollError
  <1>2. guide' = guide \/ \E e : \E ok \in BOOLEAN : guide' = Observe(guide, e, ok)
    BY DEF PollOperation, PollReview, PollUpdate, PollError
  <1>3. QED
    BY <1>1, <1>2, ObserveIsQuiet DEF Quiet

LEMMA KeysAreQuiet ==
  ASSUME TourType,
         \/ ConfirmReview \/ DenyReview \/ HandOver
         \/ HelpKey \/ ScrollKey \/ SelectKey \/ ExamplesKey \/ TabKey \/ PageKey
         \/ RefreshKey \/ OpenKey \/ PreviewKey \/ StopKey
  PROVE  Quiet
  <1>1. CASE ConfirmReview \/ HandOver
    BY <1>1 DEF ConfirmReview, HandOver, Quiet
  <1>2. CASE DenyReview \/ TabKey \/ StopKey
    BY <1>2, ObserveIsQuiet DEF DenyReview, TabKey, StopKey, Quiet
  <1>3. ASSUME NEW e, NEW ok \in BOOLEAN, Observes(e, ok) PROVE Quiet
    BY <1>3, ObserveIsQuiet DEF Observes, Quiet
  <1>4. ASSUME NEW does, NEW e, Reads(does, e) PROVE Quiet
    BY <1>4 DEF Reads, Quiet
  <1>5. QED
    BY <1>1, <1>2, <1>3, <1>4
    DEF HelpKey, ScrollKey, SelectKey, ExamplesKey, PageKey, RefreshKey, OpenKey, PreviewKey

LEMMA CommandsAreQuiet ==
  ASSUME TourType,
         \/ AgentLost \/ RecorderChanges \/ LeaveInput \/ Search
         \/ JobCommand \/ LocalCommand \/ ValidateDraft
  PROVE  Quiet
  <1>1. CASE AgentLost \/ RecorderChanges \/ LeaveInput
    BY <1>1 DEF AgentLost, RecorderChanges, LeaveInput, Quiet
  <1>2. CASE Search \/ JobCommand
    BY <1>2 DEF Search, JobCommand, Submit, Enter, Quiet
  <1>3. CASE LocalCommand
    <2>1. \E e : \E ok \in BOOLEAN : guide' = Observe(guide, e, ok)
      BY <1>3 DEF LocalCommand
    <2>2. agent' = agent /\ mode' = mode /\ input' = "none"
      BY <1>3 DEF LocalCommand, Submit, Enter
    <2>3. QED
      BY <2>1, <2>2, ObserveIsQuiet DEF Quiet
  <1>4. CASE ValidateDraft
    BY <1>4, ObserveIsQuiet DEF ValidateDraft, Submit, Enter, Quiet
  <1>5. QED
    BY <1>1, <1>2, <1>3, <1>4

\* Switching guidance on needs an idle assistant; switching it off after a
\* guided request leaves the notice.
LEMMA GuideStepMode ==
  ASSUME TourType, ModeInv, input' = "none",
         (\E restart \in BOOLEAN : StartGuide(restart)) \/ StopGuide \/ SkipGuide
  PROVE  ModeInv'
  <1>1. guide \in Guide
    BY DEF TourType
  <1>2. ASSUME NEW restart \in BOOLEAN, StartGuide(restart)
        PROVE  ModeInv'
    <2> DEFINE g == IF restart THEN Restart ELSE Start(guide)
    <2>1. g \in Guide /\ g.active = TRUE
      BY <1>1, FreshIsEarned DEF Start, Guide
    <2> HIDE DEF g
    <2>2. Stop(g).active = FALSE /\ Stop(g).transition = TRUE
      BY <2>1 DEF Stop, Guide
    <2>3. \/ guide' = g /\ agent' = "lesson"
          \/ guide' = Stop(g) /\ agent' = agent /\ mode' = mode
      BY <1>2 DEF StartGuide, Ask, g
    <2>4. agent = "idle"
      BY <1>2 DEF StartGuide
    <2>5. QED
      BY <2>1, <2>2, <2>3, <2>4 DEF ModeInv, GuidedWithoutTools, ModeNoticeKept
  <1>3. CASE StopGuide
    <2>1. guide'.active = FALSE /\ guide'.transition = (guide.transition \/ guide.active)
      BY <1>1, <1>3 DEF StopGuide, Stop, Guide
    <2>2. agent' = agent /\ mode' = mode
      BY <1>3 DEF StopGuide
    <2>3. QED
      BY <2>1, <2>2 DEF ModeInv, GuidedWithoutTools, ModeNoticeKept
  <1>4. CASE SkipGuide
    <2>1. guide.active = TRUE /\ guide'.active = TRUE
      BY <1>1, <1>4 DEF SkipGuide, Skip, Guide
    <2>2. agent' = agent \/ agent' = "observation"
      BY <1>4 DEF SkipGuide, Ask
    <2>3. QED
      BY <2>1, <2>2 DEF ModeInv, GuidedWithoutTools, ModeNoticeKept
  <1>5. QED
    BY <1>2, <1>3, <1>4

LEMMA PollAgentMode ==
  ASSUME TourType, ModeInv, PollAgent
  PROVE  ModeInv'
  <1>1. /\ agent' = "idle" /\ mode' = mode /\ input' = input
        /\ guide' = guide \/ guide' = FinishResponse(guide)
    BY DEF PollAgent
  <1>2. \/ guide'.active = guide.active /\ guide'.transition = guide.transition
        \/ guide'.active = FALSE /\ guide'.transition = TRUE
    BY <1>1 DEF FinishResponse, TourType, Guide
  <1>3. QED
    BY <1>1, <1>2 DEF ModeInv, GuidedWithoutTools, ModeNoticeKept

LEMMA PumpGuideMode ==
  ASSUME LessonInv, ModeInv, PumpGuide
  PROVE  ModeInv'
  <1>1. guide \in Guide /\ Earned(guide, happened) /\ guide.pending # <<>>
    BY DEF PumpGuide, LessonInv, TourType
  <1>2. guide'.active = guide.active
    <2> DEFINE o == Head(guide.pending)
               h == Apply([guide EXCEPT !.pending = Tail(@)], o)
    <2>1. guide' = h \/ guide' = Enqueue(h, o)
      BY DEF PumpGuide
    <2>2. h.active = guide.active /\ Enqueue(h, o).active = guide.active
      BY <1>1, PumpKeeps
    <2> HIDE DEF h, o
    <2>3. QED
      BY <2>1, <2>2
  <1>3. guide.active = TRUE /\ (agent' = agent \/ agent' = "observation")
    BY <1>1 DEF PumpGuide, Ask, Guide
  <1>4. QED
    BY <1>2, <1>3 DEF ModeInv, GuidedWithoutTools, ModeNoticeKept

LEMMA OpenInputMode ==
  ASSUME LessonInv, ModeInv, OpenInput
  PROVE  ModeInv'
  <1>1. guide' = guide \/ guide' = Observe(guide, E("searchOpen"), TRUE)
    BY DEF OpenInput
  <1>2. guide'.active = guide.active /\ guide'.transition = guide.transition
    BY <1>1, ObserveIsQuiet DEF LessonInv
  <1>3. agent' = agent /\ mode' = mode /\ (input' = "agent" => agent = "idle")
    BY DEF OpenInput
  <1>4. QED
    BY <1>2, <1>3 DEF ModeInv, GuidedWithoutTools, ModeNoticeKept

\* The notice is taken into the conversation or lost with a refused turn: an
\* ordinary request finds the assistant idle.
LEMMA StartAgentMode ==
  ASSUME LessonInv, ModeInv, StartAgent
  PROVE  ModeInv'
  <1>1. guide \in Guide /\ input = "agent" /\ input' = "none"
    BY DEF LessonInv, TourType, StartAgent, Enter
  <1>2. CASE guide.active
    <2>1. guide' = guide /\ (agent' = agent \/ agent' = "question")
      BY <1>2 DEF StartAgent, RequestKind, Ask
    <2>2. QED
      BY <1>1, <1>2, <2>1 DEF ModeInv, GuidedWithoutTools, ModeNoticeKept
  <1>3. CASE ~guide.active
    <2>1. agent = "idle"
      BY <1>1, <1>3 DEF ModeInv
    <2>2. /\ guide' = [guide EXCEPT !.transition = FALSE]
          /\ mode' \in {"ordinary", IF mode = "guided" /\ guide.transition THEN "untold" ELSE mode}
      BY <1>3, <2>1 DEF StartAgent, RequestKind, Ask
    <2>3. guide'.active = guide.active
      BY <1>1, <2>2 DEF Guide
    <2>4. mode' # "guided"
      BY <1>3, <2>2 DEF ModeInv, ModeNoticeKept
    <2>5. QED
      BY <1>1, <1>3, <2>3, <2>4 DEF ModeInv, GuidedWithoutTools, ModeNoticeKept
  <1>4. QED
    BY <1>2, <1>3

LEMMA ReplaceMode ==
  ASSUME Replace
  PROVE  ModeInv'
  <1>1. guide'.active = FALSE /\ mode' = "none" /\ agent' = "idle"
    BY DEF Replace, Default
  <1>2. QED
    BY <1>1 DEF ModeInv, GuidedWithoutTools, ModeNoticeKept

LEMMA ModeNext ==
  ASSUME LessonInv, ModeInv, [Next]_vars
  PROVE  ModeInv'
  <1>1. TourType
    BY DEF LessonInv
  <1>2. CASE UNCHANGED vars
    BY <1>2, QuietKeeps DEF vars, Quiet
  <1>3. CASE GuideKey
    BY <1>1, <1>3, GuideStepMode DEF GuideKey
  <1>4. CASE GuideCommand
    BY <1>1, <1>4, GuideStepMode DEF GuideCommand, Submit, Enter
  <1>5. QED
    BY <1>1, <1>2, <1>3, <1>4, QuietKeeps, PollsAreQuiet, KeysAreQuiet, CommandsAreQuiet,
       PollAgentMode, PumpGuideMode, OpenInputMode, StartAgentMode, ReplaceMode
    DEF Next

LEMMA ModeInit ==
  ASSUME Init
  PROVE  ModeInv
  BY DEF Init, Default, ModeInv, GuidedWithoutTools, ModeNoticeKept

-----------------------------------------------------------------------------
(* Theorems                                                                *)

LEMMA InvHolds == Spec => []IInv
  <1>1. Init => IInv
    BY LessonInit, ModeInit DEF IInv
  <1>2. IInv /\ [Next]_vars => IInv'
    BY LessonNext, ModeNext DEF IInv
  <1>3. QED
    BY <1>1, <1>2, PTL DEF Spec

\* For every stretch of the curriculum and every queue length: a step about a
\* review or its outcome is behind the user only if it happened in this tour
\* or was skipped, although observations wait in a queue that loses its oldest
\* one, are applied again when a request cannot start, and take the tag of
\* whatever job is pending (guide.rs apply, lib.rs tag_pending, poll_core).
THEOREM LessonsEarnedHolds == Spec => []LessonsEarned
  <1>1. IInv => LessonsEarned
    BY DEF IInv, LessonInv, Earned, LessonsEarned
  <1>2. QED
    BY <1>1, InvHolds, PTL

\* While guidance is on, no request with tools is pending (start_guide refuses
\* a busy assistant, start_agent asks guided questions).
THEOREM GuidedWithoutToolsHolds == Spec => []GuidedWithoutTools
  <1>1. IInv => GuidedWithoutTools
    BY DEF IInv, ModeInv
  <1>2. QED
    BY <1>1, InvHolds, PTL

\* After a guided turn, once guidance is off, the notice that it has ended is
\* pending until an ordinary turn takes it into the conversation or, refused by
\* run_mode, away (GuideState::stop, finish_response, take_ordinary_transition).
THEOREM ModeNoticeHolds == Spec => []ModeNoticeKept
  <1>1. IInv => ModeNoticeKept
    BY DEF IInv, ModeInv
  <1>2. QED
    BY <1>1, InvHolds, PTL
=============================================================================
