------------------------------- MODULE BooksReads -------------------------------
(***************************************************************************)
(* The read-only queries an answer about the books is made of.  Each takes *)
(* the books, a company and the arguments of one call, and returns the     *)
(* subject it resolved, the figures it read off or worked out, and what    *)
(* its sentence merely quotes.                                             *)
(*                                                                         *)
(* A date is its month, counted from year 0; an amount is an integer; the  *)
(* figures of a sentence are naturals, as the digits of a text are.        *)
(***************************************************************************)
EXTENDS Integers, Sequences, FiniteSets, FiniteSetsExt, SequencesExt

CONSTANTS
  Companies,
  Accounts,     \* account codes
  Suppliers,    \* names in the register, which all companies share
  Names,        \* every name a question, a card or a model may use
  Register,     \* [Names -> Suppliers \cup {None}]: what a name is matched to
  Chart,        \* [Companies -> SUBSET Accounts]
  RootType,     \* [Accounts -> {"Income", "Expense", "Balance"}]
  OutputVat, InputVat, Payable,    \* the accounts of these roles
  VatPayers,    \* companies in the general regime
  Digits,       \* [Names \cup Accounts -> SUBSET Nat]: figures inside a name
  ListLimit, EntryLimit, TopLimit, \* how many rows an answer shows
  TrendMonths,
  Typo,         \* what is no month, no day, no account
  None

Kinds == {"balance_on_date", "spend_by_account", "account_entries",
          "last_entries_for_supplier", "supplier_total", "vat_position",
          "top_spend_accounts", "unmatched_count", "unmatched_lines",
          "explain_entry", "monthly_trend", "top_suppliers"}

ASSUME ReadsAssumption ==
  /\ Suppliers \subseteq Names
  /\ Register \in [Names -> Suppliers \cup {None}]
  /\ \A s \in Suppliers : Register[s] = s
  /\ Chart \in [Companies -> SUBSET Accounts]
  /\ RootType \in [Accounts -> {"Income", "Expense", "Balance"}]
  /\ {OutputVat, InputVat, Payable} \subseteq Accounts
  /\ VatPayers \subseteq Companies
  /\ Digits \in [Names \cup Accounts -> SUBSET Nat]
  /\ {ListLimit, EntryLimit, TopLimit, TrendMonths} \subseteq Nat \ {0}
  /\ None \notin Names \cup Accounts \cup Nat /\ Typo \notin Nat
  /\ None \notin {"invalid_arguments", "unknown_account", "ValidationError", "unknown_tool"}

Magnitude(n) == IF n < 0 THEN -n ELSE n
Year(month) == month \div 12
MonthOfYear(month) == (month % 12) + 1
(* _calendar: the month of a read and not its year.                        *)
Calendar(month) == {MonthOfYear(month)}
DateFigures(month) == {Year(month), MonthOfYear(month)}

Plus(S, value(_)) == MapThenSumSet(value, S)
First(n, s) == SubSeq(s, 1, IF n < Len(s) THEN n ELSE Len(s))

(* The elements of a set, each after those that are ahead of it; of any    *)
(* two, one is ahead.  (First makes of it a tuple, which TLC works out     *)
(* once and not again for every element it looks at.)                      *)
Ordered(S, ahead(_, _)) ==
  First(Cardinality(S),
        [i \in 1..Cardinality(S) |->
           CHOOSE x \in S : Cardinality({y \in S : ahead(y, x)}) = i - 1])

-----------------------------------------------------------------------------
(* The books: posted vouchers, the lines of bank statements, and what was  *)
(* decided about vouchers, the proposals.  A voucher moves accounts,       *)
(* debits positive; a GL Entry is a voucher's movement of one account, and *)
(* the row on the payable carries the supplier.                            *)
Gl(books, c) ==
  {row \in [voucher : books.vouchers, account : Accounts] :
     /\ row.voucher.company = c
     /\ row.voucher.moves[row.account] # 0}

Amount(row) == row.voucher.moves[row.account]
NetDebit(rows) == Plus(rows, Amount)
TotalDebit(v) ==
  Plus(Accounts, LAMBDA a : IF v.moves[a] > 0 THEN v.moves[a] ELSE 0)

Invoices(books, c) ==
  {v \in books.vouchers : v.company = c /\ v.type \in {"invoice", "return"}}

Unmatched(books, c) == {line \in books.lines : line.company = c}

(* The books of one company and nothing else.                              *)
OnlyOf(books, c) ==
  [vouchers |-> {v \in books.vouchers : v.company = c},
   lines |-> {line \in books.lines : line.company = c},
   decisions |-> {d \in books.decisions : d.company = c}]

Newer(x, y) == x.month > y.month \/ (x.month = y.month /\ x.no > y.no)
NewestRows(rows) == Ordered(rows, LAMBDA r, s : Newer(r.voucher, s.voucher))
NewestLines(lines) == Ordered(lines, Newer)
(* Equals in any order.                                                    *)
LargestFirst(S, size) ==
  LET given == SetToSeq(S)
      large == First(Len(given), [i \in DOMAIN given |-> size[given[i]]])
      order == Ordered(DOMAIN given,
                       LAMBDA i, j : large[i] > large[j] \/ (large[i] = large[j] /\ i < j))
  IN [i \in DOMAIN order |-> given[order[i]]]

-----------------------------------------------------------------------------
NoSubject == [account |-> None, period |-> None, supplier |-> None,
              on |-> None, entry |-> None]

Refusal(code) ==
  [error |-> code, found |-> FALSE, subject |-> NoSubject,
   figures |-> {}, quoted |-> {}]

Reading(subject, figures, quoted) ==
  [error |-> None, found |-> TRUE, subject |-> subject,
   figures |-> figures, quoted |-> quoted]

(* A sentence that quotes the wording it could not resolve.                *)
NotFound(quoted) ==
  [error |-> None, found |-> FALSE, subject |-> NoSubject,
   figures |-> {}, quoted |-> quoted]

(* The month asked for, else the one the clock is in.                      *)
PeriodOf(args, today) == IF args.period = None THEN today ELSE args.period
InMonth(rows, month) == {row \in rows : row.voucher.month = month}

BalanceOnDate(books, c, args, today) ==
  LET on == IF args.on = None THEN today ELSE args.on
      rows == {row \in Gl(books, c) :
                 row.account = args.account /\ row.voucher.month =< on}
  IN Reading([NoSubject EXCEPT !.account = args.account, !.on = on],
             {Magnitude(NetDebit(rows))} \cup Digits[args.account] \cup Calendar(on),
             DateFigures(on))

SpendByAccount(books, c, args, today) ==
  LET month == PeriodOf(args, today)
      rows == {row \in InMonth(Gl(books, c), month) : row.account = args.account}
  IN Reading([NoSubject EXCEPT !.account = args.account, !.period = month],
             {Magnitude(NetDebit(rows))} \cup Digits[args.account] \cup Calendar(month),
             DateFigures(month))

AccountEntries(books, c, args, today) ==
  LET month == PeriodOf(args, today)
      rows == {row \in InMonth(Gl(books, c), month) : row.account = args.account}
      shown == First(EntryLimit, NewestRows(rows))
  IN Reading([NoSubject EXCEPT !.account = args.account, !.period = month],
             UNION {{Magnitude(Amount(shown[i])), shown[i].voucher.no}
                      \cup DateFigures(month) : i \in DOMAIN shown}
               \cup {Cardinality(rows), Len(shown)}
               \cup Digits[args.account] \cup Calendar(month),
             DateFigures(month))

(* The rows a supplier is the party of.                                    *)
PartyRows(books, c, supplier) ==
  {row \in Gl(books, c) :
     row.account = Payable /\ row.voucher.supplier = supplier}

(* Mutant: nothing is a return.                                            *)
ReturnVouchers_Guessed(rows) == {}

(* _return_vouchers: asked of the voucher, because a debit note debits the *)
(* payable as a payment does.                                              *)
ReturnVouchers(rows) ==
  {row.voucher : row \in {r \in rows : r.voucher.type = "return"}}

Listed(row, returned) ==
  IF row.voucher \in returned
  THEN -Magnitude(Amount(row)) ELSE Magnitude(Amount(row))

LastEntries(books, c, supplier) ==
  First(ListLimit, NewestRows(PartyRows(books, c, supplier)))

LastEntriesForSupplier(books, c, args) ==
  LET supplier == Register[args.supplier]
      rows == PartyRows(books, c, supplier)
      shown == LastEntries(books, c, supplier)
  IN Reading([NoSubject EXCEPT !.supplier = supplier],
             UNION {{Magnitude(Amount(shown[i])), shown[i].voucher.no}
                      \cup DateFigures(shown[i].voucher.month) : i \in DOMAIN shown}
               \cup {Cardinality(rows), Len(shown)} \cup Digits[supplier],
             {})

Straight(rows) == {row \in rows : row.voucher \notin ReturnVouchers(rows)}
Gross(rows) ==
  Plus(Straight(rows), LAMBDA r : IF Amount(r) < 0 THEN -Amount(r) ELSE 0)
Returns(rows) == NetDebit(rows \ Straight(rows))
Purchases(rows) == Gross(rows) - Returns(rows)
Payments(rows) ==
  Plus(Straight(rows), LAMBDA r : IF Amount(r) > 0 THEN Amount(r) ELSE 0)

SupplierTotal(books, c, args, today) ==
  LET supplier == Register[args.supplier]
      month == PeriodOf(args, today)
      rows == InMonth(PartyRows(books, c, supplier), month)
  IN Reading([NoSubject EXCEPT !.supplier = supplier, !.period = month],
             {Magnitude(Gross(rows)), Magnitude(Purchases(rows)),
              Magnitude(Payments(rows)), Magnitude(Returns(rows))}
               \cup Digits[supplier] \cup Calendar(month),
             DateFigures(month))

SpentOn(books, c, account, month) ==
  NetDebit({row \in InMonth(Gl(books, c), month) : row.account = account})

VatPosition(books, c, args, today) ==
  LET month == PeriodOf(args, today)
      output == -SpentOn(books, c, OutputVat, month)
      input == SpentOn(books, c, InputVat, month)
  IN Reading([NoSubject EXCEPT !.period = month],
             Calendar(month) \cup
               (IF c \in VatPayers
                THEN {Magnitude(output), Magnitude(input), Magnitude(output - input)}
                ELSE {}),
             DateFigures(month))

TopSpendAccounts(books, c, args, today) ==
  LET month == PeriodOf(args, today)
      spent == [a \in Chart[c] |-> SpentOn(books, c, a, month)]
      ranked == {a \in Chart[c] : RootType[a] = "Expense" /\ spent[a] > 0}
      shown == First(TopLimit, LargestFirst(ranked, spent))
  IN Reading([NoSubject EXCEPT !.period = month],
             UNION {{spent[shown[i]]} \cup Digits[shown[i]] : i \in DOMAIN shown}
               \cup {Cardinality(ranked), Len(shown)} \cup Calendar(month),
             DateFigures(month))

UnmatchedCount(books, c) ==
  Reading(NoSubject, {Cardinality(Unmatched(books, c))}, {})

(* The bank's own narrative is shown and vouches for nothing.              *)
UnmatchedLines(books, c) ==
  LET lines == Unmatched(books, c)
      shown == First(ListLimit, NewestLines(lines))
  IN Reading(NoSubject,
             UNION {{Magnitude(shown[i].amount)} \cup DateFigures(shown[i].month)
                      : i \in DOMAIN shown}
               \cup {Cardinality(lines), Len(shown)},
             UNION {shown[i].narrative : i \in DOMAIN shown})

(* Nyabo Proposal: the proposal of that name, posted or not, else one that *)
(* a voucher of that name was posted from.                                 *)
Decisions(books, c, entry) ==
  LET own == {d \in books.decisions : d.company = c /\ d.name = entry}
  IN IF own # {} THEN own
     ELSE {d \in books.decisions : d.company = c /\ d.posted = entry}

Named(books, c, entry) == {v \in books.vouchers : v.company = c /\ v.no = entry}

(* A proposal is explained by its own total, and it is vouched for with    *)
(* the days it was received and is posted on and the text its rule cites.  *)
(* The explanation is prose: it is shown and not vouched for.              *)
Decision(d) ==
  LET shown == IF d.posted = None THEN d.name ELSE d.posted
      months == {d.month, d.received} \ {None}
  IN Reading([NoSubject EXCEPT !.entry = shown, !.supplier = d.supplier, !.account = d.account],
             {d.total, shown} \cup UNION {Calendar(m) : m \in months}
               \cup (IF d.account = None THEN {} ELSE Digits[d.account]) \cup d.citation,
             d.explanation \cup UNION {DateFigures(m) : m \in months})

(* A voucher that no proposal led to, by its own figures.                  *)
Explanation(v) ==
  Reading([NoSubject EXCEPT !.entry = v.no],
          {TotalDebit(v), v.no} \cup Calendar(v.month),
          DateFigures(v.month))

ExplainEntry(books, c, args) ==
  IF Decisions(books, c, args.entry) # {}
  THEN Decision(CHOOSE d \in Decisions(books, c, args.entry) : TRUE)
  ELSE IF Named(books, c, args.entry) # {}
  THEN Explanation(CHOOSE v \in Named(books, c, args.entry) : TRUE)
  ELSE NotFound({args.entry})

OfRoot(books, c, month, root) ==
  NetDebit({row \in InMonth(Gl(books, c), month) : RootType[row.account] = root})

MonthlyTrend(books, c, args, today) ==
  LET until == PeriodOf(args, today)
      months == (until - TrendMonths + 1) .. until
  IN Reading([NoSubject EXCEPT !.period = until],
             UNION {{Magnitude(OfRoot(books, c, m, "Income")),
                     Magnitude(OfRoot(books, c, m, "Expense"))}
                      \cup Calendar(m) : m \in months}
               \cup {TrendMonths},
             UNION {DateFigures(m) : m \in months})

(* grand_total: ERPNext stores a return's total as a negative amount.      *)
GrandTotal(v) == IF v.type = "return" THEN -TotalDebit(v) ELSE TotalDebit(v)

(* _top_suppliers negates what is negative already: a return is added to   *)
(* what was bought.                                                        *)
Bought(invoices) ==
  Plus(invoices, LAMBDA v : IF v.type = "return" THEN -GrandTotal(v) ELSE GrandTotal(v))
BoughtFrom(books, c, supplier, month) ==
  Bought({v \in Invoices(books, c) : v.supplier = supplier /\ v.month = month})

TopSuppliers(books, c, args, today) ==
  LET month == PeriodOf(args, today)
      bought == [s \in Suppliers |-> BoughtFrom(books, c, s, month)]
      ranked == {s \in Suppliers : bought[s] > 0}
      shown == First(TopLimit, LargestFirst(ranked, bought))
  IN Reading([NoSubject EXCEPT !.period = month],
             UNION {{bought[shown[i]]} \cup Digits[shown[i]] : i \in DOMAIN shown}
               \cup {Cardinality(ranked), Len(shown)} \cup Calendar(month),
             DateFigures(month))

-----------------------------------------------------------------------------
(* QUERY_ARGS: what each kind reads of its arguments.                      *)
QueryArgs(kind) ==
  CASE kind = "balance_on_date" -> {"account", "on"}
    [] kind \in {"spend_by_account", "account_entries"} -> {"account", "period"}
    [] kind = "last_entries_for_supplier" -> {"supplier"}
    [] kind = "supplier_total" -> {"supplier", "period"}
    [] kind \in {"vat_position", "top_spend_accounts", "monthly_trend",
                 "top_suppliers"} -> {"period"}
    [] kind = "explain_entry" -> {"entry"}
    [] OTHER -> {}

Mistyped(kind, args) ==
  \E key \in QueryArgs(kind) \cap {"period", "on"} : args[key] = Typo
Unnamed(args) ==
  IF args.supplier = None THEN TRUE ELSE Register[args.supplier] = None

(* The error a call is refused with, else None: by the handlers, in the     *)
(* order they look at it, or by a chart that has no VAT accounts.           *)
Fault(c, kind, args) ==
  IF kind \notin Kinds THEN "invalid_arguments"
  ELSE IF kind = "explain_entry" /\ args.entry = None THEN "invalid_arguments"
  ELSE IF "account" \in QueryArgs(kind) /\ args.account \notin Chart[c]
       THEN "unknown_account"
  ELSE IF Mistyped(kind, args) THEN "invalid_arguments"
  ELSE IF kind = "vat_position" /\ c \in VatPayers
            /\ ~({OutputVat, InputVat} \subseteq Chart[c])
       THEN "ValidationError"
  ELSE None

(* _books: the query a call names.                                         *)
Query(books, c, kind, args, today) ==
  IF Fault(c, kind, args) # None THEN Refusal(Fault(c, kind, args))
  ELSE IF "supplier" \in QueryArgs(kind) /\ Unnamed(args)
  THEN NotFound(IF args.supplier = None THEN {} ELSE Digits[args.supplier])
  ELSE
  CASE kind = "balance_on_date" -> BalanceOnDate(books, c, args, today)
    [] kind = "spend_by_account" -> SpendByAccount(books, c, args, today)
    [] kind = "account_entries" -> AccountEntries(books, c, args, today)
    [] kind = "last_entries_for_supplier" -> LastEntriesForSupplier(books, c, args)
    [] kind = "supplier_total" -> SupplierTotal(books, c, args, today)
    [] kind = "vat_position" -> VatPosition(books, c, args, today)
    [] kind = "top_spend_accounts" -> TopSpendAccounts(books, c, args, today)
    [] kind = "unmatched_count" -> UnmatchedCount(books, c)
    [] kind = "unmatched_lines" -> UnmatchedLines(books, c)
    [] kind = "explain_entry" -> ExplainEntry(books, c, args)
    [] kind = "monthly_trend" -> MonthlyTrend(books, c, args, today)
    [] kind = "top_suppliers" -> TopSuppliers(books, c, args, today)
=============================================================================
