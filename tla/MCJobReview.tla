---------------------------- MODULE MCJobReview ----------------------------
(* JobReview with two reviewers. *)
EXTENDS JobReview, TLC
CONSTANTS u1, u2
MCSymmetry == Permutations({u1, u2})
=============================================================================
