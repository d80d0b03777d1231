--------------------------- MODULE MCStatementFiles ---------------------------
EXTENDS StatementFiles, TLC

CONSTANTS f1, f2, x, A, B, u1, u2

(* One format: column 1 is money out, 2 is money in, 3 the balance.         *)
Column(debit, credit, balance) ==
  [role \in MoneyRoles |->
     CASE role = "debit" -> debit [] role = "credit" -> credit
       [] role = "balance" -> balance [] OTHER -> Unmapped]

Mapping(description, column) ==
  [date |-> "dates", description |-> description, column |-> column]

Right == Mapping(TRUE, Column(1, 2, 3))
Swapped == Mapping(TRUE, Column(2, 1, 3))
NoNarrative == Mapping(FALSE, Column(1, 2, 3))

MCMappings == {Right, Swapped, NoNarrative}
MCTrueMapping == Right

Line(out, in, balance) ==
  [dated |-> TRUE, summary |-> FALSE, cell |-> <<out, in, {balance}>>]

(* A deposit, a payment; the totals stand in a dated summary row.           *)
MCRows ==
  << [dated |-> TRUE, summary |-> TRUE, cell |-> <<{}, {}, {5}>>],
     Line({}, {2}, 7), Line({3}, {}, 4) >>

MCRowsOf == [f \in {f1, f2} |-> MCRows]
MCFormatOf == [f \in {f1, f2} |-> x]
MCSenderOf == f1 :> u1 @@ f2 :> u2
MCLinked == u1 :> {A} @@ u2 :> {A, B}
MCKeeps == u1 :> {} @@ u2 :> {A, B}
TwoCompanies == f1 :> A @@ f2 :> B
=============================================================================
