------------------------ MODULE MCAssistantSession ------------------------
EXTENDS AssistantSession

\* A read that needs consent, a draft patch, and a proposal
MCActs == {"verify", "patch"} \cup Ops

MCSymbols == {"data", "x", "lf", "cr", "u1", "u2"}
MCSchema == [n \in {"n1", "n2"} |-> IF n = "n1" THEN "tool.1" ELSE "tool.2"]

Blank == [done |-> FALSE, finish |-> None, error |-> FALSE, parts |-> <<>>]
Part(i, id, n, args) == [index |-> i, id |-> id, name |-> n, arguments |-> args]
With(part) == [Blank EXCEPT !.parts = <<part>>]

\* Two calls whole and in pieces, and what can be wrong with each
MCFrames ==
    {[Blank EXCEPT !.done = TRUE], [Blank EXCEPT !.error = TRUE],
     [Blank EXCEPT !.finish = "tool_calls"], [Blank EXCEPT !.finish = "length"],
     With(Part(0, "i1", "n1", <<"open">>)), With(Part(0, None, None, <<"close">>)),
     With(Part(0, "i2", None, <<>>)), With(Part(0, None, "n2", <<"close">>)),
     With(Part(1, "i2", "n2", CompleteJson)), With(Part(1, "i1", "nx", CompleteJson)),
     With(Part(MaxBatch, "i2", "n2", CompleteJson)),
     [done |-> FALSE, finish |-> "tool_calls", error |-> FALSE,
      parts |-> <<Part(0, "i1", "n1", CompleteJson), Part(1, "i1", "n1", CompleteJson)>>]}
===========================================================================
