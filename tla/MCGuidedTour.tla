---------------------------- MODULE MCGuidedTour ----------------------------
(* Steps 31 to 33: the publication's commit, the resolve that verifies it, *)
(* and the review of a staging.                                            *)
EXTENDS GuidedTour, TLC
=============================================================================
