---------------------------- MODULE MCPeerCatalog ----------------------------
EXTENDS PeerCatalog

CONSTANTS serving, dirA, dirB

\* The local project, a peer, and a second directory with the peer's name
MCConfig == <<"home", "peer">>
MCOwner == [d \in Dirs |-> IF d = serving THEN "home" ELSE "peer"]
MCSpace == [i \in Items |-> IF i = 1 THEN "home" ELSE "peer"]

MCDirSymmetry == Permutations({dirA, dirB})
==============================================================================
