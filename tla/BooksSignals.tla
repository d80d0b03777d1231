----------------------------- MODULE BooksSignals -----------------------------
(***************************************************************************)
(* What an accountant would notice in the books of a company on a day: the *)
(* detectors of the morning note, each with its figures, and what a note   *)
(* over them may say.                                                      *)
(*                                                                         *)
(* A signal is how loud it is (1 worth knowing, 2 needs a look, 3 act      *)
(* today), the figures of its sentence and the view its button opens.      *)
(***************************************************************************)
EXTENDS BooksReports

SpikeLimit == 50
RecurringMonths == 3
RecurringGrace == 5
UnmatchedAge == 7
ProposalAge == 2
MonthEndFrom == 25

Sign(kind, severity, figures, view) ==
  [kind |-> kind, severity |-> severity, figures |-> figures, view |-> view]
Signal(kind, severity, figures, view) == <<Sign(kind, severity, figures, view)>>
Silent == <<>>

OldestAge(today, S) ==
  LET ages == {Age(today, x) : x \in S}
  IN CHOOSE n \in ages : \A m \in ages : m =< n

-----------------------------------------------------------------------------
CashBalance(books, c, till, today) ==
  IF till = None THEN 0 ELSE BalanceOf(books, c, till, today)

CashSignal(books, c, today) ==
  LET balance == CashBalance(books, c, RoleAccount(c, "cash"), today)
  IN IF balance >= 0 THEN Silent
     ELSE Signal("cash_negative", 3, {Magnitude(balance)}, "tx")

(* Unlike the tax base, the year's revenue is all income of the chart.     *)
ThresholdSignal(books, c, today) ==
  LET months == YearStart(today.month)..today.month
      ytd == SumOf([m \in months |-> MonthTotals(books, c, m).revenue])
  IN IF \/ IsVatPayer(c, today.month) # FALSE
        \/ Eligibility(books, c, today.month).refused
        \/ Threshold = 0
        \/ ytd * 10 < Threshold * 8
     THEN Silent
     ELSE Signal("threshold_near", IF ytd >= Threshold THEN 3 ELSE 2,
                 {ytd, Threshold, Percent(ytd, Threshold)}, "rev")

AgingSignal(lines, today) ==
  LET age == OldestAge(today, lines)
      oldest == CHOOSE l \in lines : Age(today, l) = age
  IN IF lines = {} THEN Silent
     ELSE IF age < UnmatchedAge THEN Silent
     ELSE Signal("unmatched_aging", IF age >= 30 THEN 3 ELSE 2,
                 {Cardinality(lines), age, oldest.day} \cup DateFigures(oldest.month),
                 "unm")

UnmatchedSignal(books, c, today) == AgingSignal(Unmatched(books, c), today)

ProposalsSignal(books, c, today) ==
  LET waiting == Waiting(books, c)
      age == OldestAge(today, waiting)
  IN IF waiting = {} THEN Silent
     ELSE IF age < ProposalAge THEN Silent
     ELSE Signal("proposals_waiting", 2, {Cardinality(waiting), age}, "pend")

RulesSignal(books, c) ==
  LET count == Cardinality(UnclearedRules(books, c))
  IN IF count = 0 THEN Silent ELSE Signal("rules_blocking", 2, {count}, "rules")

(* The two accounts that rose most, of those that rose by a third and by   *)
(* enough to matter.                                                       *)
Shown(rows) == {rows[i].account : i \in DOMAIN rows}
Spent(books, c, month) ==
  [a \in Shown(TopExpenses(books, c, month, SpikeLimit).rows) |->
     NetDebit(RowsOf(books, c, month, month, {a}))]

Jumped(now, before) ==
  {a \in DOMAIN now \cap DOMAIN before :
     now[a] * 10 >= before[a] * 13 /\ now[a] - before[a] >= SpikeMin}

Spikes(now, before) ==
  LET pct == [a \in Jumped(now, before) |-> PctChange(before[a], now[a])]
      shown == First(2, LargestFirst(DOMAIN pct, pct))
      Spike(a) == Sign("expense_spike", 2,
                       {now[a], before[a], pct[a]} \cup Digits[a], "top")
  IN [i \in DOMAIN shown |-> Spike(shown[i])]

ExpenseSignals(books, c, month) ==
  Spikes(Spent(books, c, month), Spent(books, c, month - 1))

Drop(now, before, pct) ==
  IF before =< 0 \/ now =< 0 \/ now * 10 > before * 7 THEN Silent
  ELSE Signal("revenue_drop", 2, {now, before, Magnitude(pct)}, "rev")

RevenueSignal(books, c, today) ==
  LET month == MonthWithDelta(books, c, today.month)
  IN IF today.day < MonthEndFrom THEN Silent
     ELSE Drop(month.now.revenue, month.before.revenue, month.pct.revenue)

(* Suppliers who billed in each of the last months and not in this one,    *)
(* once their usual day is well past.                                      *)
Expected(today) == (today.month - RecurringMonths)..(today.month - 1)
Billed(bills, s, month) == \E v \in bills : v.supplier = s /\ v.month = month
UsualDay(bills, s, today) ==
  LET days == {v.day : v \in {w \in bills : w.supplier = s /\ w.month \in Expected(today)}}
  IN CHOOSE d \in days : \A e \in days : e =< d

Overdue(bills, today) ==
  {s \in Suppliers : /\ ~Billed(bills, s, today.month)
                     /\ \A m \in Expected(today) : Billed(bills, s, m)
                     /\ today.day > UsualDay(bills, s, today) + RecurringGrace}

MissingBills(bills, today) ==
  LET shown == First(2, SetToSeq(Overdue(bills, today)))
      Missing(s) == Sign("recurring_missing", 2,
                         {RecurringMonths, UsualDay(bills, s, today)} \cup Digits[s], "tx")
  IN [i \in DOMAIN shown |-> Missing(shown[i])]

RecurringSignals(books, c, today) ==
  MissingBills({v \in books.vouchers :
                  v.company = c /\ v.type = "invoice" /\ Upto(v, today)}, today)

MonthEndSignal(books, c, today) ==
  LET pending == PendingCounts(books, c)
      open == pending.proposals + pending.unmatched
  IN IF today.day < MonthEndFrom \/ open = 0 THEN Silent
     ELSE Signal("month_end_due", 1, {open} \cup DateFigures(today.month),
                 IF pending.proposals > 0 THEN "pend" ELSE "unm")

-----------------------------------------------------------------------------
(* Everything the detectors found, loudest first.                          *)
LoudestFirst(found) ==
  LET Louder(i, j) == \/ found[i].severity > found[j].severity
                      \/ found[i].severity = found[j].severity /\ i < j
      order == Ordered(DOMAIN found, Louder)
  IN [i \in DOMAIN order |-> found[order[i]]]

Signals(books, c, today) ==
  LoudestFirst(CashSignal(books, c, today) \o ThresholdSignal(books, c, today)
                 \o UnmatchedSignal(books, c, today) \o ProposalsSignal(books, c, today)
                 \o RulesSignal(books, c) \o ExpenseSignals(books, c, today.month)
                 \o RevenueSignal(books, c, today) \o RecurringSignals(books, c, today)
                 \o MonthEndSignal(books, c, today))

Severity(found) == IF found = <<>> THEN 0 ELSE found[1].severity
Allowed(found) == UNION {found[i].figures : i \in DOMAIN found}

(* Mutant: whatever the model wrote is kept.                               *)
Narrate_Unchecked(found, draft) ==
  [figures |-> IF draft = None THEN Allowed(found) ELSE draft, by_model |-> draft # None]

(* narrate: the model's draft if every figure of it is a detector's, else  *)
(* the detectors' own sentences.  A model that fails, or writes nothing or *)
(* too much, leaves no draft.                                              *)
Narrate(found, draft) ==
  LET honest == IF draft = None THEN FALSE ELSE draft \subseteq Allowed(found)
  IN [figures |-> IF honest THEN draft ELSE Allowed(found), by_model |-> honest]

(* The signals whose button is worth a row, one per view.                  *)
MaxActions == 3
Actions(found) ==
  LET firsts == {i \in DOMAIN found : \A j \in 1..(i - 1) : found[j].view # found[i].view}
      order == First(MaxActions, Ordered(firsts, <))
  IN [i \in DOMAIN order |-> found[order[i]]]
=============================================================================
