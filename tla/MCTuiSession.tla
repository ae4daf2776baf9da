---------------------------- MODULE MCTuiSession ----------------------------
(* Two operations, one project switch, a capture channel of two events.    *)
EXTENDS TuiSession
=============================================================================
