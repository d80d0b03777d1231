----------------------------- MODULE BooksReports -----------------------------
(***************************************************************************)
(* What the cards, forms and notes compute from the books: the month and   *)
(* its trend, the close card with its trial balance and tax summaries, the *)
(* journals, bank balances, stock, and the signals of the morning note.    *)
(* Every figure is read again each time; nothing is kept.                  *)
(*                                                                         *)
(* Besides vouchers and the open lines the books hold settled lines, what  *)
(* statements say of their closing balance, proposals, flagged suppliers,  *)
(* stock entries and the rules nobody cleared for a company.  A day is a   *)
(* record of month and day; a month has thirty of them.                    *)
(***************************************************************************)
EXTENDS BooksReads

CONSTANTS
  CodeRoles,    \* [{"v1", "v03"} -> [Roles -> Accounts \cup {None}]]
  Configured,   \* [Companies -> {"v1", "v03", "accountant", None}]
  Alias,        \* [Companies -> [Accounts -> Accounts \cup {None}]]
  CashTyped,    \* accounts of type Cash or Bank
  Banks,        \* [Companies -> SUBSET bank accounts]: those in its settings
  LedgerOf,     \* [bank accounts -> Accounts]
  Regimes,      \* [Companies -> SUBSET [vat: BOOLEAN, from: Int, to: Int]]
  Cleared,      \* [Companies -> SUBSET Int]: months whose tax parameters are in
                \* force, and verified or accepted by the company's accountant
  Threshold,    \* of the simplified regime
  SpikeMin,
  VoucherLimit, PendingLimit, StockLimit

RevenueRoles == {"revenue_sales", "revenue_services", "sales_discount", "sales_return"}
CashRoles == {"cash", "bank", "petty_cash"}
Roles == RevenueRoles \cup CashRoles \cup {"output_vat", "input_vat"}

-----------------------------------------------------------------------------
(* Roles and accounts.  The scheme in the settings is trusted if its cash  *)
(* account is one of the chart.                                            *)
RoleScheme(scheme) == IF scheme = "accountant" THEN "v03" ELSE scheme
Fits(c, scheme) == CodeRoles[RoleScheme(scheme)]["cash"] \in Chart[c]

ChartScheme(c) ==
  LET given == IF Configured[c] = None THEN {} ELSE {Configured[c]}
  IN IF \E s \in given : Fits(c, s) THEN Configured[c]
     ELSE IF Fits(c, "v1") THEN "v1"
     ELSE IF Fits(c, "v03") THEN "v03"
     ELSE IF given = {} THEN "v1" ELSE Configured[c]

Aliased(c, code) ==
  IF code = None \/ ChartScheme(c) # "accountant" THEN code
  ELSE IF Alias[c][code] = None THEN code ELSE Alias[c][code]
RoleCode(c, role) == Aliased(c, CodeRoles[RoleScheme(ChartScheme(c))][role])

ByNumber(c, code) == IF code \in Chart[c] THEN code ELSE None
RoleAccount(c, role) == ByNumber(c, RoleCode(c, role))

CashBank(c) ==
  (CashTyped \cap Chart[c]) \cup ({RoleAccount(c, role) : role \in CashRoles} \ {None})

OfRootType(c, root) == {a \in Chart[c] : RootType[a] = root}

ASSUME ReportsAssumption ==
  /\ CodeRoles \in [{"v1", "v03"} -> [Roles -> Accounts \cup {None}]]
  /\ Configured \in [Companies -> {"v1", "v03", "accountant", None}]
  /\ Alias \in [Companies -> [Accounts -> Accounts \cup {None}]]
  /\ \A c \in Companies : Banks[c] \subseteq DOMAIN LedgerOf
  /\ {Threshold, SpikeMin} \subseteq Nat
  /\ {VoucherLimit, PendingLimit, StockLimit} \subseteq Nat \ {0}
  /\ \A c \in Companies, role \in {"output_vat", "input_vat"} :
       RoleAccount(c, role) =
         LET named == IF role = "output_vat" THEN OutputVat ELSE InputVat
         IN IF named \in Chart[c] THEN named ELSE None

-----------------------------------------------------------------------------
(* Ranges, sums and percentages.                                           *)
YearStart(month) == month - (month % 12)
QuarterStart(month) == month - (month % 3)
Upto(x, day) == x.month < day.month \/ (x.month = day.month /\ x.day =< day.day)
Age(day, x) == (day.month - x.month) * 30 + day.day - x.day

Moved(vouchers, accounts) ==
  {row \in [voucher : vouchers, account : accounts] :
     row.voucher.moves[row.account] # 0}

(* Mutant: the last month of the range is left out.                        *)
RowsOf_Exclusive(books, c, from, to, accounts) ==
  Moved({v \in books.vouchers : v.company = c /\ v.month \in from..(to - 1)}, accounts)

RowsOf(books, c, from, to, accounts) ==
  Moved({v \in books.vouchers : v.company = c /\ v.month \in from..to}, accounts)

NetCredit(rows) == -NetDebit(rows)
Debits(rows) == Plus(rows, LAMBDA r : IF Amount(r) > 0 THEN Amount(r) ELSE 0)
Credits(rows) == Plus(rows, LAMBDA r : IF Amount(r) < 0 THEN -Amount(r) ELSE 0)
TotalsRow(rows) == [debit |-> Debits(rows), credit |-> Credits(rows)]
BalanceOf(books, c, account, day) ==
  NetDebit(Moved({v \in books.vouchers : v.company = c /\ Upto(v, day)}, {account}))

(* int(round(part / whole * 100)), a half to the even side.                *)
Percent(part, whole) ==
  LET q == (part * 100) \div whole
      r == (part * 100) % whole
  IN IF 2 * r > whole \/ (2 * r = whole /\ q % 2 = 1) THEN q + 1 ELSE q
PctChange(before, after) ==
  IF before = 0 THEN None ELSE Percent(after - before, Magnitude(before))

SumOf(f) == Plus(DOMAIN f, LAMBDA x : f[x])
SeqSum(s, value(_)) == Plus(DOMAIN s, LAMBDA i : value(s[i]))

-----------------------------------------------------------------------------
(* The month.                                                              *)
MonthTotals(books, c, month) ==
  LET revenue == NetCredit(RowsOf(books, c, month, month, OfRootType(c, "Income")))
      expense == NetDebit(RowsOf(books, c, month, month, OfRootType(c, "Expense")))
  IN [revenue |-> revenue, expense |-> expense, profit |-> revenue - expense]

MonthWithDelta(books, c, month) ==
  LET now == MonthTotals(books, c, month)
      before == MonthTotals(books, c, month - 1)
  IN [now |-> now, before |-> before,
      pct |-> [key \in DOMAIN now |-> PctChange(before[key], now[key])]]

(* Mutant: the months up to the one asked for, and not that one.           *)
RevenueTrend_Shifted(books, c, until) ==
  [i \in 1..TrendMonths |->
     LET month == until - TrendMonths + i - 1
         now == MonthTotals(books, c, month)
     IN [month |-> month, revenue |-> now.revenue, expense |-> now.expense,
         pct |-> IF i = 1 THEN None
                 ELSE PctChange(MonthTotals(books, c, month - 1).revenue, now.revenue)]]

RevenueTrend(books, c, until) ==
  [i \in 1..TrendMonths |->
     LET month == until - TrendMonths + i
         now == MonthTotals(books, c, month)
     IN [month |-> month, revenue |-> now.revenue, expense |-> now.expense,
         pct |-> IF i = 1 THEN None
                 ELSE PctChange(MonthTotals(books, c, month - 1).revenue, now.revenue)]]

TopExpenses(books, c, month, limit) ==
  LET spent == [a \in OfRootType(c, "Expense") |->
                  NetDebit(RowsOf(books, c, month, month, {a}))]
      ranked == {a \in DOMAIN spent : spent[a] > 0}
      total == SumOf([a \in ranked |-> spent[a]])
      shown == First(limit, LargestFirst(ranked, spent))
  IN [total |-> total, count |-> Cardinality(ranked),
      rows |-> [i \in DOMAIN shown |->
                  [account |-> shown[i], amount |-> spent[shown[i]],
                   share |-> Percent(spent[shown[i]], total)]]]

(* One row per voucher; money that leaves a cash or bank account is "out", *)
(* also where it arrives at another.                                       *)
Direction(c, v) ==
  IF \E a \in CashBank(c) : v.moves[a] < 0 THEN "out"
  ELSE IF \E a \in CashBank(c) : v.moves[a] > 0 THEN "in" ELSE "none"

RecentVouchers(books, c, month, limit) ==
  LET moved == {row.voucher : row \in RowsOf(books, c, month, month, Accounts)}
      newest == Ordered(moved, LAMBDA v, w :
                          v.day > w.day \/ (v.day = w.day /\ v.no > w.no))
      shown == First(limit, newest)
  IN [count |-> Cardinality(moved),
      rows |-> [i \in DOMAIN shown |->
                  [no |-> shown[i].no, amount |-> TotalDebit(shown[i]),
                   direction |-> Direction(c, shown[i])]]]

(* An item whose quantity is used up is not listed, whatever value is left.*)
Inventory(books, c, limit) ==
  LET entries == {e \in books.stock : e.company = c}
      Of(item) == {e \in entries : e.item = item}
      qty == [item \in {e.item : e \in entries} |-> Plus(Of(item), LAMBDA e : e.qty)]
      value == [item \in DOMAIN qty |-> Plus(Of(item), LAMBDA e : e.value)]
      held == {item \in DOMAIN qty : qty[item] # 0}
  IN [rows |-> First(limit, LargestFirst(held, value)),
      total |-> SumOf([item \in held |-> value[item]]),
      count |-> Cardinality(held), qty |-> qty, value |-> value]

-----------------------------------------------------------------------------
(* What waits on a tap.                                                    *)
Waiting(books, c) == {p \in books.proposals : p.company = c}
UnclearedRules(books, c) == {r \in books.rules : r.company = c}

PendingCounts(books, c) ==
  [proposals |-> Cardinality(Waiting(books, c)),
   unmatched |-> Cardinality(Unmatched(books, c)),
   rules |-> Cardinality(UnclearedRules(books, c))]

PendingProposals(books, c, limit) ==
  First(limit, Ordered(Waiting(books, c), LAMBDA p, q : p.no > q.no))

-----------------------------------------------------------------------------
(* A bank account: what its statement says against what the books say, on  *)
(* the day its latest statement closes.                                    *)
BankLines(books, bank) == {l \in books.lines \cup books.settled : l.bank = bank}
Latest(said) == IF said = {} THEN None ELSE CHOOSE s \in said : \A t \in said : t.no =< s.no
LatestClosing(books, c, bank) ==
  Latest({s \in books.closings : s.company = c /\ s.bank = bank})

BankStatus(books, c, bank, today) ==
  LET latest == LatestClosing(books, c, bank)
      on == IF latest = None THEN today
            ELSE IF latest.on = None THEN today ELSE latest.on
      printed == IF latest = None THEN None ELSE latest.balance
      statement == IF printed # None THEN printed
                   ELSE Plus({l \in BankLines(books, bank) : Upto(l, on)},
                             LAMBDA l : l.amount)
      ledger == BalanceOf(books, c, LedgerOf[bank], on)
  IN [on |-> on, statement |-> statement, ledger |-> ledger,
      diff |-> statement - ledger,
      unmatched |-> Cardinality({l \in BankLines(books, bank) : l.left > 0})]

BankSummary(books, c, today) ==
  [bank \in Banks[c] |-> BankStatus(books, c, bank, today)]

-----------------------------------------------------------------------------
(* The regime of a company in a month: of the rows that cover it the one   *)
(* that started last.  None where no row does.                             *)
RegimeOn(c, month) ==
  LET covering == {r \in Regimes[c] : month \in r.from..r.to}
  IN IF covering = {} THEN None
     ELSE CHOOSE r \in covering : \A s \in covering : s.from =< r.from

IsVatPayer(c, month) ==
  LET regime == RegimeOn(c, month) IN IF regime = None THEN None ELSE regime.vat

-----------------------------------------------------------------------------
(* A month's VAT, per document and in total; a chart without the accounts  *)
(* of the two roles is refused.                                            *)
VatRefused(c) ==
  None \in {RoleAccount(c, "output_vat"), RoleAccount(c, "input_vat")}

VatOf(rows) ==
  [output |-> NetCredit({r \in rows : r.account = OutputVat}),
   input |-> NetDebit({r \in rows : r.account = InputVat})]

VatSummary(books, c, month) ==
  LET rows == RowsOf(books, c, month, month, {OutputVat, InputVat})
      documents == {r.voucher : r \in rows}
      total == VatOf(rows)
  IN [output |-> total.output, input |-> total.input,
      net |-> total.output - total.input,
      documents |-> [v \in documents |-> VatOf({r \in rows : r.voucher = v})]]

-----------------------------------------------------------------------------
(* The quarter of a company in the simplified regime.  Its base is what    *)
(* the revenue roles name; other income is shown as excluded; a chart that *)
(* resolves no role falls back to all income.                              *)
Divided(income, base) ==
  [base |-> IF base = {} THEN income ELSE base,
   other |-> IF base = {} THEN {} ELSE income \ base,
   resolved |-> base # {}]

RevenueAccounts(c) ==
  LET income == OfRootType(c, "Income")
  IN Divided(income, {RoleAccount(c, role) : role \in RevenueRoles} \cap income)

(* The conditions on the last day of a quarter: the parameters must be     *)
(* cleared, and a VAT payer is outside; revenue of the year before can     *)
(* only raise the question.                                                *)
Eligibility(books, c, month) ==
  LET year == YearStart(month)
      prior == NetCredit(RowsOf(books, c, year - 12, year - 1, RevenueAccounts(c).base))
  IN [refused |-> month \notin Cleared[c] \/ IsVatPayer(c, month) = TRUE,
      prior |-> prior,
      over |-> IF prior > 0 THEN prior >= Threshold ELSE None]

SimplifiedSummary(books, c, month) ==
  LET start == QuarterStart(month)
      eligible == Eligibility(books, c, start + 2)
      accounts == RevenueAccounts(c)
      months == [i \in 1..3 |->
                   NetCredit(RowsOf(books, c, start + i - 1, start + i - 1, accounts.base))]
      excluded == NetCredit(RowsOf(books, c, start, start + 2, accounts.other))
  IN [refused |-> eligible.refused, months |-> months,
      revenue |-> SeqSum(months, LAMBDA m : m),
      excluded |-> excluded,
      asks |-> eligible.over = TRUE \/ ~accounts.resolved \/ excluded # 0]

-----------------------------------------------------------------------------
(* The journals and the trial balance, as the general ledger has it.       *)
TrialBalance(books, c, month) ==
  LET rows == RowsOf(books, c, month, month, Accounts)
      moved == {r.account : r \in rows}
      per == [a \in moved |-> TotalsRow({r \in rows : r.account = a})]
  IN [rows |-> per,
      debit |-> SumOf([a \in moved |-> per[a].debit]),
      credit |-> SumOf([a \in moved |-> per[a].credit])]

GeneralJournal(books, c, month) ==
  LET rows == RowsOf(books, c, month, month, Accounts)
  IN [rows |-> rows, total |-> TotalsRow(rows)]

CashJournal(books, c, month) ==
  LET rows == RowsOf(books, c, month, month, CashBank(c))
      Balances(day) == [a \in CashBank(c) |-> BalanceOf(books, c, a, day)]
  IN [rows |-> rows, total |-> TotalsRow(rows),
      opening |-> Balances([month |-> month - 1, day |-> 30]),
      closing |-> Balances([month |-> month, day |-> 30])]

-----------------------------------------------------------------------------
(* Closing a month.  Flagged suppliers are those of every company.         *)
Dated(books, c, month) == {v \in books.vouchers : v.company = c /\ v.month = month}

Checklist(books, c, month) ==
  [proposals |-> Cardinality(Waiting(books, c)),
   unmatched |-> Cardinality({l \in Unmatched(books, c) : l.month = month}),
   unverified_docs |->
     Cardinality({v \in Dated(books, c, month) : v.type # "payment" /\ v.unverified}),
   pending_suppliers |-> Cardinality(books.flagged),
   unverified_rules |->
     Cardinality({v \in Dated(books, c, month) :
                    \E r \in UnclearedRules(books, c) : r.rule = v.rule}),
   inventory_count |-> MonthOfYear(month) = 12]

(* The card of /close, and whether it can be drawn at all.                 *)
CloseCard(books, c, month) ==
  [checklist |-> Checklist(books, c, month),
   balance |-> TrialBalance(books, c, month),
   tax |-> CASE IsVatPayer(c, month) = TRUE -> VatSummary(books, c, month)
             [] IsVatPayer(c, month) = FALSE -> SimplifiedSummary(books, c, month)
             [] OTHER -> None,
   refused |-> CASE IsVatPayer(c, month) = TRUE -> VatRefused(c)
                 [] IsVatPayer(c, month) = FALSE ->
                      SimplifiedSummary(books, c, month).refused
                 [] OTHER -> FALSE]

-----------------------------------------------------------------------------
(* The dashboard of the chat and the page of the mini app.                 *)
Overview(books, c, today) ==
  [month |-> MonthWithDelta(books, c, today.month),
   banks |-> BankSummary(books, c, today),
   pending |-> PendingCounts(books, c)]

Page(books, c, month, today) ==
  [month |-> MonthWithDelta(books, c, month),
   trend |-> RevenueTrend(books, c, month),
   top |-> TopExpenses(books, c, month, TopLimit),
   vouchers |-> RecentVouchers(books, c, month, VoucherLimit),
   pending |-> PendingCounts(books, c),
   banks |-> BankSummary(books, c, today),
   stock |-> Inventory(books, c, StockLimit)]
=============================================================================
