----------------------------- MODULE MCQuestions -----------------------------
(* A small instance of Questions for TLC: two clients who buy from one     *)
(* supplier.  777 is what one of them owes, a year long past, a name that  *)
(* is in no register, an article that a rule cites, and the figure a       *)
(* careless model would state.                                             *)
EXTENDS Questions

CONSTANTS a, b, fuel, sales, outvat, invat, payable, shop, ghost

Chart2 == [c \in {a, b} |-> {fuel, sales, outvat, invat, payable}]
Roots == [x \in Chart2[a] |->
            IF x = fuel THEN "Expense" ELSE IF x = sales THEN "Income" ELSE "Balance"]
Matched == [n \in {shop, ghost} |-> IF n = shop THEN shop ELSE None]
FiguresOfNames ==
  [n \in {shop, ghost} \cup Chart2[a] |-> IF n = ghost THEN {777} ELSE {}]

August == 2026 * 12 + 7
Moves(plus, minus, amount) ==
  [x \in Chart2[a] |-> IF x = plus THEN amount ELSE IF x = minus THEN -amount ELSE 0]
Voucher(no, c, type, moves, proposal) ==
  [no |-> no, company |-> c, type |-> type, supplier |-> shop, month |-> August,
   moves |-> moves, proposal |-> proposal]

Bought1 == Voucher(1, a, "invoice", Moves(fuel, payable, 100), 11)
Bought2 == Voucher(2, b, "invoice", Moves(fuel, payable, 777), None)
Undone3 == Voucher(3, a, "return", Moves(payable, fuel, 40), None)
Paid4 == Voucher(4, a, "payment", Moves(payable, sales, 60), 12)

(* A posted one of a receipt, one of a line, not posted yet, whose rule    *)
(* cites an article 777, and one of the other client.                      *)
Proposal(name, c, received, total, citation, explanation, posted) ==
  [name |-> name, company |-> c, month |-> August, received |-> received, total |-> total,
   account |-> fuel, supplier |-> shop, citation |-> citation, explanation |-> explanation,
   posted |-> posted]
Posted11 == Proposal(11, a, August, 100, {}, {777}, 1)
Waiting12 == Proposal(12, a, None, 60, {777}, {777}, None)
Theirs13 == Proposal(13, b, None, 777, {}, {}, None)

Books1 ==
  [vouchers |-> {Bought1, Bought2, Undone3},
   lines |-> {[no |-> 1, company |-> a, amount |-> -60, month |-> August, narrative |-> {777},
              explains |-> 4]},
   decisions |-> {Posted11, Theirs13}]
Later == {Paid4}
Proposed == {Waiting12}

Read(kind, args) == [tool |-> "answer_from_books", kind |-> kind, args |-> args]
Other(tool, kind) == [tool |-> tool, kind |-> kind, args |-> NoSubject]
Rest == <<"last_entries_for_supplier", "vat_position", "top_spend_accounts",
          "unmatched_count", "explain_entry", "monthly_trend", "top_suppliers">>
Turns ==
  {<<>>,
   <<Read("explain_entry", [NoSubject EXCEPT !.entry = 12]),
     Read("explain_entry", [NoSubject EXCEPT !.entry = 13]),
     Read("account_entries", [NoSubject EXCEPT !.account = fuel]),
     Read("balance_on_date", [NoSubject EXCEPT !.account = fuel, !.period = Typo])>>,
   [i \in 1..7 |-> Read(Rest[i], [NoSubject EXCEPT !.supplier = shop, !.entry = 1])]
     \o
   <<Read("supplier_total", [NoSubject EXCEPT !.supplier = ghost]),
     Read("spend_by_account", [NoSubject EXCEPT !.account = fuel, !.period = 777 * 12])>>,
   <<Read("unmatched_lines", Previous)>>,
   <<Other("record_transaction", None)>>,
   <<Other("escalate_to_admin", None), Other("answer_faq", None)>>}
Said == {{777}}
=============================================================================
