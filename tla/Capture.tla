------------------------------ MODULE Capture ------------------------------
(***************************************************************************)
(* The research capture of the interactive application                     *)
(* (mesh_tui/src/capture.rs): emit hands events to a bounded channel       *)
(* without waiting, a thread submits them to the collector one by one and  *)
(* repeats a submission until it is acknowledged, and a gap, once there    *)
(* is one, stays.                                                          *)
(*                                                                         *)
(* An event is Other, or an operation whose approval it reports.  The      *)
(* collector is external: it keeps what reaches it and knows duplicates.   *)
(***************************************************************************)
EXTENDS Naturals, Sequences, FiniteSets

CONSTANTS Ops,           \* operations that get prepared for review
          ChannelLimit,  \* capacity of the channel (32)
          Other, NoEvent

ASSUME CaptureAssumption ==
    /\ ChannelLimit \in Nat \ {0}
    /\ Other \notin Ops /\ NoEvent \notin Ops /\ Other # NoEvent

VARIABLES
    channel,   \* events the thread has not taken yet
    hand,      \* the event it is submitting, or NoEvent
    health,    \* Capture.state
    lost,      \* Capture.lost
    recorded,  \* approvals the collector holds
    dropped    \* an emitted event never entered the channel

cap == <<channel, hand, health, lost, recorded, dropped>>

\* from_environment and start, whose first event is the session's.  Without a
\* configuration capture is off; with a bad one there is no thread either.
CaptureInit ==
    /\ \/ health \in {"off", "broken"} /\ channel = <<>>
       \/ health = "connecting" /\ channel = <<Other>>
    /\ hand = NoEvent
    /\ lost = FALSE /\ dropped = FALSE
    /\ recorded = {}

\* There is a thread to send to.
On == health \notin {"off", "broken"}

Ready == ~lost /\ health \in {"off", "ready"}

\* Capture.pending
Outstanding == Len(channel) + IF hand = NoEvent THEN 0 ELSE 1

Sends(events) ==
    LET room == ChannelLimit - Len(channel)
    IN IF Len(events) <= room THEN events ELSE SubSeq(events, 1, room)

\* emit: try_send; what does not fit is a gap.
Emit(events) ==
    IF ~On THEN UNCHANGED cap
    ELSE LET full == Len(channel) + Len(events) > ChannelLimit IN
         /\ channel' = channel \o Sends(events)
         /\ lost' = (lost \/ full)
         /\ dropped' = (dropped \/ full)
         /\ UNCHANGED <<hand, health, recorded>>

\* begin_request finds no random bytes for the request's id.
NoRequestId ==
    /\ On /\ Ready
    /\ lost' = TRUE
    /\ UNCHANGED <<channel, hand, health, recorded, dropped>>

\* The thread takes the next event.
Receive ==
    /\ On /\ hand = NoEvent /\ channel # <<>>
    /\ hand' = Head(channel) /\ channel' = Tail(channel)
    /\ UNCHANGED <<health, lost, recorded, dropped>>

Keeps(event) == recorded' = recorded \cup ({event} \cap Ops)

\* submit: acknowledged, perhaps with a gap the collector found, or not, in
\* which case the event may have reached the collector all the same and is
\* submitted again.
Submit ==
    /\ hand # NoEvent
    /\ \/ /\ Keeps(hand) /\ hand' = NoEvent /\ health' = "ready"
          /\ lost' \in {lost, TRUE}
       \/ /\ health' = "failed"
          /\ Keeps(hand) \/ UNCHANGED recorded
          /\ UNCHANGED <<hand, lost>>
    /\ UNCHANGED <<channel, dropped>>

\* finish: everything acknowledged, and no gap.
Complete == Outstanding = 0 /\ ~lost
=============================================================================
