---------------------------- MODULE RouterStream ----------------------------
(***************************************************************************)
(* How a streamed completion of the hosted model is read                   *)
(* (mesh_agent/src/provider.rs): bytes arrive in chunks cut anywhere, a    *)
(* parser turns them into events, and tool calls are put together from the *)
(* fragments in the events and passed on only as one complete batch.       *)
(*                                                                         *)
(* A symbol is a run of bytes nobody looks inside: "data" is the field     *)
(* name, ":" starts a comment, "u1" and "u2" are the halves of a character,*)
(* "cr" and "lf" end lines, everything else is text.                       *)
(***************************************************************************)
EXTENDS Naturals, Sequences, SequencesExt, FiniteSets

CONSTANTS Symbols,    \* of the streams that are tried
          MaxInput,   \* their length
          Frames,     \* what one event can say, as [done, finish, error, parts]
          MaxFrames,
          Schema,     \* wire name -> local name of the advertised tools
          MaxBatch,   \* calls of one answer: 8 in the code
          None

\* "[DONE]" is a frame of its own: it carries nothing else.
ASSUME StreamAssumption ==
    /\ {MaxInput, MaxFrames, MaxBatch} \subseteq Nat /\ None \notin DOMAIN Schema
    /\ \A f \in Frames :
          /\ {f.done, f.error} \subseteq BOOLEAN
          /\ f.parts \in Seq(Range(f.parts))
          /\ \A p \in Range(f.parts) : p.index \in Nat /\ p.arguments \in Seq(STRING)
          /\ f.done => ~f.error /\ f.parts = <<>>

UpTo(S, n) == UNION {[1..k -> S] : k \in 0..n}

-----------------------------------------------------------------------------
(* SseParser                                                               *)

NewParser == [undecoded |-> <<>>, line |-> <<>>, data |-> <<>>, events |-> <<>>, ok |-> TRUE]

\* An event is its data lines, joined when it is complete.
ProcessLine(p, line) ==
    IF line = <<>>
    THEN IF p.data = <<>> THEN p
         ELSE [p EXCEPT !.events = Append(@, p.data), !.data = <<>>]
    ELSE IF Head(line) = "data" THEN [p EXCEPT !.data = Append(@, Tail(line))] ELSE p

StripCr(part) == IF part # <<>> /\ Last(part) = "cr" THEN Front(part) ELSE part

\* A line is what the parser kept of it and the part that this chunk adds;
\* only that part loses its carriage return.
TextStep(acc, c) ==
    IF c = "lf"
    THEN [parser |-> ProcessLine([acc.parser EXCEPT !.line = <<>>],
                                 acc.parser.line \o StripCr(acc.part)),
          part |-> <<>>]
    ELSE [acc EXCEPT !.part = Append(@, c)]

PushText(p, text) ==
    LET end == FoldLeft(TextStep, [parser |-> p, part |-> <<>>], text)
    IN  [end.parser EXCEPT !.line = @ \o end.part]

BadAt(b, i) == IF b[i] = "u1" THEN i < Len(b) /\ b[i + 1] # "u2"
                              ELSE b[i] = "u2" /\ (i = 1 \/ b[i - 1] # "u1")

\* Mutant: a character that the chunk cuts in two is malformed.
PushWhole(p, chunk) ==
    LET b == p.undecoded \o chunk
    IN  IF ~p.ok THEN p
        ELSE IF \E i \in DOMAIN b : BadAt(b, i) \/ (i = Len(b) /\ b[i] = "u1")
             THEN [p EXCEPT !.ok = FALSE]
        ELSE PushText([p EXCEPT !.undecoded = <<>>], b)

\* An unfinished character waits for the next chunk.
Push(p, chunk) ==
    LET b == p.undecoded \o chunk
        cut == b # <<>> /\ Last(b) = "u1"
    IN  IF ~p.ok THEN p
        ELSE IF \E i \in DOMAIN b : BadAt(b, i) THEN [p EXCEPT !.ok = FALSE]
        ELSE PushText([p EXCEPT !.undecoded = IF cut THEN <<"u1">> ELSE <<>>],
                      IF cut THEN Front(b) ELSE b)

\* finish: the last line may lack its end.
FinishParser(p) ==
    IF p.undecoded # <<>> THEN [p EXCEPT !.ok = FALSE]
    ELSE IF p.line # <<>> THEN ProcessLine([p EXCEPT !.line = <<>>], p.line) ELSE p

-----------------------------------------------------------------------------
(* The tool calls of a stream                                              *)

\* Argument text is complete when it is all of the JSON.
CompleteJson == <<"open", "close">>

NoPart == [id |-> None, name |-> None, arguments |-> <<>>]
NewAnswer == [calls |-> <<>>, done |-> FALSE, finish |-> None, ok |-> TRUE]

Changes(old, new) == old # None /\ new # None /\ old # new
Given(old, new) == IF new = None THEN old ELSE new

\* One element of delta.tool_calls
AddPart(a, part) ==
    LET old == IF part.index \in DOMAIN a.calls THEN a.calls[part.index] ELSE NoPart
    IN  IF \/ ~a.ok \/ part.index >= MaxBatch
           \/ Changes(old.id, part.id) \/ Changes(old.name, part.name)
        THEN [a EXCEPT !.ok = FALSE]
        ELSE [a EXCEPT !.calls = [i \in {part.index} \cup DOMAIN a.calls |->
                 IF i = part.index
                 THEN [id |-> Given(old.id, part.id),
                       name |-> Given(old.name, part.name),
                       arguments |-> old.arguments \o part.arguments]
                 ELSE a.calls[i]]]

\* process_router_event, with the finish reason its caller looks for
ProcessEvent(a, frame) ==
    IF ~a.ok THEN a
    ELSE IF frame.done THEN [a EXCEPT !.done = TRUE]
    ELSE IF frame.error THEN [a EXCEPT !.ok = FALSE]
    ELSE FoldLeft(AddPart, [a EXCEPT !.finish = Given(@, frame.finish)], frame.parts)

Ended(a) == a.done /\ a.finish \in {"stop", "tool_calls"}

\* The order in which the BTreeMap of the calls is drained
Ascending(S) ==
    CHOOSE s \in [1..Cardinality(S) -> S] : \A i, j \in DOMAIN s : i < j => s[i] < s[j]

\* stream_async after the response: a batch, or none and an error.
Batch(frames) ==
    LET a == FoldLeft(ProcessEvent, NewAnswer, frames)
        order == Ascending(DOMAIN a.calls)
        valid == /\ a.ok /\ Ended(a)
                 /\ \A i \in DOMAIN a.calls :
                       /\ a.calls[i].id # None
                       /\ a.calls[i].name \in DOMAIN Schema
                       /\ a.calls[i].arguments = CompleteJson
                       /\ \A j \in DOMAIN a.calls : a.calls[j].id = a.calls[i].id => j = i
    IN  IF valid
        THEN [ok |-> TRUE, calls |-> [k \in DOMAIN order |->
                 <<a.calls[order[k]].id, Schema[a.calls[order[k]].name]>>]]
        ELSE [ok |-> FALSE, calls |-> <<>>]

\* RouterProvider::stream: the deadline or a cancellation drops the call
\* after some of the frames, before anything of the batch is passed on.
Stream(frames, after) ==
    IF after < Len(frames) THEN [ok |-> FALSE, calls |-> <<>>] ELSE Batch(frames)

\* RouterToolNames: dots become two underscores, and the result must be new.
WireName(local) == FlattenSeq([i \in DOMAIN local |->
    IF local[i] = "." THEN <<"_", "_">> ELSE <<local[i]>>])

ToolNames(tools) ==
    IF \E i \in DOMAIN tools : WireName(tools[i]) = <<>>
          \/ \E j \in 1..i-1 : WireName(tools[j]) = WireName(tools[i])
    THEN [ok |-> FALSE, to_local |-> <<>>]
    ELSE [ok |-> TRUE,
          to_local |-> [w \in {WireName(t) : t \in Range(tools)} |->
                           CHOOSE t \in Range(tools) : WireName(t) = w]]

-----------------------------------------------------------------------------
(* What reading an answer should compute                                   *)

\* push_text strips a CR only when its LF is in the same chunk: a cut between
\* the two leaves the CR in the line.
SplitsCrLf(s, k) == k \in 1..Len(s)-1 /\ s[k] = "cr" /\ s[k + 1] = "lf"

\* Where else the network cuts a stream makes no difference to its events,
\* also inside a line, a frame or a character.
CutsDoNotMatter ==
    \A s \in UpTo(Symbols, MaxInput) : \A k \in 0..Len(s) :
        LET whole == FinishParser(Push(NewParser, s))
            cut == FinishParser(Push(Push(NewParser, SubSeq(s, 1, k)), SubSeq(s, k + 1, Len(s))))
        IN  SplitsCrLf(s, k) \/ (whole.ok = cut.ok /\ (whole.ok => whole = cut))

\* What the frames say of the call at an index: its ids, its names and its
\* argument text, fragment by fragment
Parts(frames) == UNION {Range(f.parts) : f \in Range(frames)}
IdsAt(ps, i) == {p.id : p \in {q \in ps : q.index = i}} \ {None}
NamesAt(ps, i) == {p.name : p \in {q \in ps : q.index = i}} \ {None}
Fragments(i, parts, text) ==
    FoldLeft(LAMBDA t, p : IF p.index = i THEN t \o p.arguments ELSE t, text, parts)
TextAt(i, frames) == FoldLeft(LAMBDA t, f : Fragments(i, f.parts, t), <<>>, frames)

\* No tool call is passed on unless the whole answer arrived and every call
\* of it is whole: one id and one advertised name however often they are
\* repeated, all its argument fragments in order, and no id twice.
OnlyCompleteBatches ==
    \A fs \in UpTo(Frames, MaxFrames) : \A after \in 0..Len(fs) :
        LET b == Stream(fs, after) ps == Parts(fs) used == {p.index : p \in ps} IN
        b.calls # <<>> =>
            /\ after = Len(fs)
            /\ \E f \in Range(fs) : f.done
            /\ ~\E f \in Range(fs) : f.error
            /\ Len(b.calls) = Cardinality(used)
            /\ Cardinality({c[1] : c \in Range(b.calls)}) = Len(b.calls)
            /\ \A i \in used :
                  /\ TextAt(i, fs) = CompleteJson
                  /\ \E n \in DOMAIN Schema : \E id \in IdsAt(ps, i) :
                        /\ NamesAt(ps, i) = {n}
                        /\ IdsAt(ps, i) = {id}
                        /\ <<id, Schema[n]>> \in Range(b.calls)

\* A wire name of the request stands for one local tool and every tool has
\* one, so an answer can only name a tool that was advertised.
WireNamesInjective ==
    \A ts \in UpTo(UpTo({".", "_", "a"}, 2), 2) :
        ToolNames(ts).ok =>
            /\ \A t \in Range(ts) : ToolNames(ts).to_local[WireName(t)] = t
            /\ Cardinality(DOMAIN ToolNames(ts).to_local) = Len(ts)
=============================================================================
