------------------------- MODULE MCPeerPublication -------------------------
(* Two contents of different sizes: the smallest set on which the size and *)
(* the digest of a file that is rewritten meanwhile can disagree.          *)
EXTENDS PeerPublication, TLC

MCContents == {"c1", "c2"}

MCSizes == {1, 2}

MCSize == [c \in Contents |-> IF c = "c2" THEN 2 ELSE 1]

MCProcSymmetry == Permutations(Procs)
=============================================================================
