---------------------------- MODULE MCReceiptIntake ----------------------------
(* A small instance of ReceiptIntake for TLC: a company that pays VAT from *)
(* day 2 on, a chart of the v1 scheme under settings that say v03, and     *)
(* photos of which the first may be read in many ways.                     *)
EXTENDS ReceiptIntake, TLC

CONSTANTS f1, s, t, id

Chart == {"1110", "2110", "1810", "6910", "1510"}

Types ==
  [c \in Chart |-> CASE c = "1110" -> "Cash" [] c = "2110" -> "Payable" [] c = "1810" -> "Tax"
                     [] c = "6910" -> "Expense" [] c = "1510" -> "Stock"]

Roles ==
  [v03 |-> [payable |-> "3101", cash |-> "1001", bank |-> "1101", input_vat |-> "1210",
            default_expense |-> "7090", goods |-> "1501"],
   v1  |-> [payable |-> "2110", cash |-> "1110", bank |-> "1120", input_vat |-> "1810",
            default_expense |-> "6910", goods |-> "1510"]]

Draws(role, side, kind, opt) == [role |-> role, side |-> side, kind |-> kind, optional |-> opt]

Pattern(i, family, vat, lines) ==
  [id |-> i, family |-> family, vat |-> vat, cit |-> "any", docs |-> {"Purchase Invoice"},
   enabled |-> TRUE, lines |-> lines]

SeedPatterns ==
  <<Pattern("expense_payer", "purchase_expense", "vat_payer",
      <<Draws("class", "debit", "net", FALSE), Draws("input_vat", "debit", "vat", TRUE),
        Draws("payable", "credit", "gross", FALSE)>>),
    Pattern("expense_non_vat", "purchase_expense", "non_vat",
      <<Draws("class", "debit", "gross", FALSE), Draws("payable", "credit", "gross", FALSE)>>),
    Pattern("goods_payer", "purchase_inventory", "vat_payer",
      <<Draws("goods", "debit", "net", FALSE), Draws("input_vat", "debit", "vat", TRUE),
        Draws("payable", "credit", "gross", FALSE)>>)>>

History == {[regime |-> "simplified_1pct", from |-> 1, to |-> 1], [regime |-> "vat_payer", from |-> 2, to |-> 3]}

VatRates == {[name |-> "vat.rate", from |-> 1, to |-> 3, percent |-> 10, pending |-> FALSE]}

Aliases ==
  [c \in {"3101", "1001", "1101", "1210", "7090", "1501"} |->
     IF c \in {"1001", "1101"} THEN "1110" ELSE "6910"]

Truth == [i \in Ids |-> "non_payer"]

Printed == [i \in Ids |-> s]

Usual == [name |-> s, id |-> NoId, date |-> 2, total |-> 11000, vat |-> 1000, item |-> "fuel",
          sure |-> TRUE, clean |-> TRUE, cash |-> FALSE]

Says(r, code, treatment) == [reading |-> r, answer |-> [code |-> code, treatment |-> treatment]]

Sayings ==
  [f \in Files |->
     IF f = f1
     THEN {Says(Usual, "6910", "withheld"),
           Says([Usual EXCEPT !.id = id], "1510", "none"),
           Says([Usual EXCEPT !.vat = 1200], "6910", "withheld"),
           Says([Usual EXCEPT !.vat = 0, !.cash = TRUE], "9999", "withheld"),
           Says([Usual EXCEPT !.date = 1], "6910", "withheld"),
           Says([Usual EXCEPT !.date = None, !.name = Nameless], "6910", "exempt"),
           Says([Usual EXCEPT !.total = 0], "6910", "withheld")}
     ELSE {Says(Usual, "6910", "withheld"),
           Says([Usual EXCEPT !.name = t, !.id = id], "6910", "withheld")}]

Written ==
  <<[kind |-> "item", value |-> "fuel", code |-> "6910", treatment |-> "withheld", pattern |-> NoPattern,
     status |-> "disabled", hits |-> 0]>>
=============================================================================
