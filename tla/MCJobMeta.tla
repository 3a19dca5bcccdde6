----------------------------- MODULE MCJobMeta -----------------------------
(* JobMeta with two writers, one copied and one other key. *)
EXTENDS JobMeta, TLC
CONSTANTS w1, w2
MCSymmetry == Permutations({w1, w2})
=============================================================================
