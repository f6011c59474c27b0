---------------------------- MODULE MCReviewFlow ----------------------------
(* Small instances of ReviewFlow. *)
EXTENDS ReviewFlow
=============================================================================
