--------------------------- MODULE MCStatementLines ---------------------------
(* Small instances of StatementLines for TLC.                              *)
EXTENDS StatementLines, TLC

CONSTANTS bankA, bankB, out, in, pay, fee,
          t1, t2, t3, v1, v2, v3, v4, p1, p2, i1

(* An own transfer of 4 from A to B; a payment and a fee of 2 at A.       *)
Said ==
  [l \in Lines |->
     CASE l = out  -> [bank |-> bankA, amount |-> -4, narrative |-> "own"]
       [] l = in   -> [bank |-> bankB, amount |-> 4, narrative |-> "own"]
       [] l = pay  -> [bank |-> bankA, amount |-> -2, narrative |-> "plain"]
       [] OTHER    -> [bank |-> bankA, amount |-> -2, narrative |-> "fee"]]

(* The files of a month: A's first half, its second half with an overlap,  *)
(* and B's.                                                                *)
Files == {{out, pay}, {in}, {pay, fee}}

AnInvoiceOf4 == [i \in Invoices |-> -4]

(* Vouchers out of A: one of the transfer's amount, and one that is off by *)
(* the tolerance from the transfer, from the payment and from the fee.     *)
MovesOfA == {[b \in Banks |-> IF b = bankA THEN m ELSE 0] : m \in {-4, -3}}

Names == Permutations(Rows) \cup Permutations(Vouchers) \cup Permutations(Proposals)
=============================================================================
