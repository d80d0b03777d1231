----------------------------- MODULE MCOnboarding -----------------------------
(* A small instance of Onboarding for TLC.                                 *)
EXTENDS Onboarding, TLC

CONSTANTS n1, n2, khan

(* Two account numbers that end in the same four digits.                   *)
LastFour == [n \in Numbers \cup {NoNumber} |-> IF n = n2 THEN n1 ELSE n]

(* A company that is not in the VAT register, and one that is and whose    *)
(* bank is known from the start.                                           *)
Starts ==
  {[vat |-> FALSE, stock |-> FALSE, rows |-> {}],
   [vat |-> TRUE, stock |-> TRUE, rows |-> {[bank |-> khan, currency |-> MNT, number |-> NoNumber]}]}

(* Two stock lists of different length.                                    *)
TwoLists == <<1, 2>>
=============================================================================
