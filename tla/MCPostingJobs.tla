----------------------------- MODULE MCPostingJobs -----------------------------
(* Small instances of PostingJobs for TLC.                                 *)
EXTENDS PostingJobs, TLC

CONSTANTS d1, p1, v1, v2, v3, acc, r1, c1, a1, a2, w1, w2

Names == Permutations(Proposals) \cup Permutations(Vouchers) \cup Permutations(Workers)
=============================================================================
