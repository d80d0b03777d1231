------------------------------- MODULE MCBooks -------------------------------
(* Small instances of Books for TLC.                                       *)
EXTENDS Books, TLC

CONSTANTS d1, d2, p1, p2, p3, v1, v2, v3, v4, acc, own, r1, r2, c1, c2, a1, a2

(* Names are interchangeable except that OverCap and OwnerAccounts single  *)
(* members out, so only proposals, vouchers and rule contents are.         *)
Names == Permutations(Proposals) \cup Permutations(Vouchers) \cup Permutations(Contents)
=============================================================================
