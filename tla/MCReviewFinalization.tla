------------------------ MODULE MCReviewFinalization ------------------------
(* The files of MCEditScript, diffed, their drafts refined and finalised. *)
EXTENDS ReviewFinalization, MCEditScript
=============================================================================
