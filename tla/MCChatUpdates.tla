----------------------------- MODULE MCChatUpdates -----------------------------
(* Small instances of ChatUpdates for TLC.                                 *)
EXTENDS ChatUpdates, TLC

CONSTANTS q1, q2, w1, w2

Processes == Permutations(Requests) \cup Permutations(Workers)
=============================================================================
