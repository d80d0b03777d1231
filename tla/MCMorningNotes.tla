---------------------------- MODULE MCMorningNotes ----------------------------
(* A small instance of MorningNotes for TLC: two clients of one accountant *)
(* in late August.  a became a VAT payer in July and lets a fuel bill, a   *)
(* landlord and a statement line wait; b is in the simplified regime, near *)
(* its threshold, with a gain that is no revenue of the trade.             *)
EXTENDS MorningNotes

CONSTANTS a, b, cash, bank, fuel, rent, sales, gain, outvat, invat, payable, shop, lord,
          atm, grain, rule

Accounts9 == {cash, bank, fuel, rent, sales, gain, outvat, invat, payable}
Chart2 == [c \in {a, b} |-> Accounts9]
Roots == [x \in Accounts9 |->
            CASE x \in {fuel, rent} -> "Expense"
              [] x \in {sales, gain} -> "Income"
              [] OTHER -> "Balance"]
Matched == [n \in {shop, lord} |-> n]
FiguresOfNames == [n \in {shop, lord} \cup Accounts9 |-> IF n = lord THEN {24} ELSE {}]

Named1 == [role \in Roles |->
             CASE role = "cash" -> cash
               [] role = "bank" -> bank
               [] role = "revenue_sales" -> sales
               [] role = "output_vat" -> outvat
               [] role = "input_vat" -> invat
               [] OTHER -> None]
Codes == [v1 |-> Named1, v03 |-> [role \in Roles |-> None]]
Schemes == [c \in {a, b} |-> IF c = a THEN "v1" ELSE "v03"]
NoAlias == [c \in {a, b} |-> [x \in Accounts9 |-> None]]
BanksOf == [c \in {a, b} |-> IF c = a THEN {atm} ELSE {}]
LedgerOfBank == [x \in {atm} |-> bank]

August == 2026 * 12 + 7
Ever == 2030 * 12
History ==
  [c \in {a, b} |->
     {[vat |-> FALSE, from |-> August - 20, to |-> Ever]} \cup
       (IF c = a THEN {[vat |-> TRUE, from |-> August - 1, to |-> Ever]} ELSE {})]
ClearedMonths == [c \in {a, b} |-> (August - 20)..(August + 1)]

Nothing == [x \in Accounts9 |-> 0]
Moves(plus, minus, amount) == [Nothing EXCEPT ![plus] = amount, ![minus] = -amount]
Voucher(no, c, type, supplier, month, day, moves) ==
  [no |-> no, company |-> c, type |-> type, supplier |-> supplier, month |-> month,
   day |-> day, moves |-> moves, rule |-> None, unverified |-> FALSE]

RentOf(no, month) == Voucher(no, a, "invoice", lord, month, 5, Moves(rent, payable, 30))
FuelOf(no, month, amount) ==
  Voucher(no, a, "invoice", shop, month, 10, Moves(fuel, payable, amount))

Found1 ==
  [vouchers |->
     {RentOf(1, August - 3), RentOf(2, August - 2), RentOf(3, August - 1),
      FuelOf(4, August - 1, 40),
      Voucher(9, a, "payment", shop, August, 2, Moves(payable, cash, 30)),
      [Voucher(5, b, "journal", None, August - 12, 3, Moves(cash, sales, 90))
         EXCEPT !.unverified = TRUE],
      Voucher(6, b, "journal", None, August - 1, 3, Moves(cash, sales, 70))},
   lines |-> {[no |-> 1, company |-> a, bank |-> atm, amount |-> -30, month |-> August,
               day |-> 12, left |-> 30, narrative |-> {}]},
   settled |-> {[no |-> 2, company |-> a, bank |-> atm, amount |-> 10, month |-> August - 1,
                 day |-> 2, left |-> 0, narrative |-> {}]},
   closings |-> {[no |-> 1, company |-> a, bank |-> atm,
                  on |-> [month |-> August, day |-> 15], balance |-> None]},
   proposals |-> {[no |-> 1, company |-> b, month |-> August, day |-> 23]},
   flagged |-> {shop},
   stock |-> {[company |-> b, item |-> grain, qty |-> 5, value |-> 50],
              [company |-> b, item |-> grain, qty |-> -2, value |-> -20]},
   rules |-> {[company |-> b, rule |-> rule]}]

(* Fuel in August with its VAT, a little of it returned; what b gained and *)
(* sold.                                                                   *)
Later ==
  {Voucher(7, a, "invoice", shop, August, 20,
           [Moves(fuel, payable, 90) EXCEPT ![invat] = 9, ![payable] = -99]),
   Voucher(8, a, "return", shop, August, 21, Moves(payable, fuel, 20)),
   [Voucher(10, b, "journal", None, August, 24, [Moves(cash, sales, 40)
           EXCEPT ![gain] = -5, ![cash] = 45]) EXCEPT !.rule = rule]}

Days2 == <<[month |-> August, day |-> 24], [month |-> August, day |-> 25]>>
Rows == <<a, b>>
Written == {{30, 24}}
=============================================================================
