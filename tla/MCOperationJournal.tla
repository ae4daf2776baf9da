------------------------- MODULE MCOperationJournal -------------------------
(* Two operations and no retained completed record: the second operation's *)
(* pruning meets a completed, an unknown or an interrupted first one.      *)
EXTENDS OperationJournal
=============================================================================
