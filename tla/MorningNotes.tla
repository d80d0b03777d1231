----------------------------- MODULE MorningNotes -----------------------------
(***************************************************************************)
(* The morning note, and everything else that shows the books.  A job of   *)
(* the scheduler takes the companies one after the other and sends each    *)
(* whose books need a look one card; a dashboard opened in the chat shows  *)
(* the same note.  Both keep the note in the cache, under the company, the *)
(* day and the signals it was written over.                                *)
(*                                                                         *)
(* The job is one transaction: it reads the books as they were when it     *)
(* began, and what it recorded is lost if it dies, though cards went out.  *)
(***************************************************************************)
EXTENDS BooksSignals

CONSTANTS
  BooksFound,   \* the books as they are found
  VouchersToCome, \* what may be posted meanwhile
  Dates,        \* a sequence of days
  Order,        \* a sequence of companies: the settings, as they are read
  Chats,        \* companies whose accountant or owner has a chat
  Drafts,       \* sets of figures a model's note may state, or None
  MaxPasses, MaxFaults, MaxViews, MaxChanges

ASSUME NotesAssumption ==
  /\ Order \in Seq(Companies) /\ Chats \subseteq Companies
  /\ DOMAIN BooksFound = {"vouchers", "lines", "settled", "closings", "proposals",
                           "flagged", "stock", "rules"}
  /\ \A line \in BooksFound.lines \cup BooksFound.settled :
       /\ {"company", "bank"} \subseteq DOMAIN line
       /\ \A c \in Companies : line.bank \in Banks[c] => line.company = c
  /\ Dates \in Seq([month : Nat, day : 1..30]) /\ Dates # <<>>
  /\ {MaxPasses, MaxFaults, MaxViews, MaxChanges} \subseteq Nat

(* ERPNext submits no other voucher: its entries balance, on accounts of   *)
(* its company.                                                            *)
DoubleEntry(v) ==
  /\ v.company \in Companies /\ v.month \in Nat /\ v.day \in 1..30
  /\ v.moves \in [Accounts -> Int]
  /\ Plus(Accounts, LAMBDA a : v.moves[a]) = 0
  /\ \A a \in Accounts : v.moves[a] # 0 => a \in Chart[v.company]

(* An invoice is owed, what is returned or paid is owed no longer: the     *)
(* payments are Nyabo's (payment_type "Pay").                              *)
OfItsType(v) ==
  /\ v.type \in {"invoice", "return", "payment", "journal"}
  /\ v.type = "invoice" => v.moves[Payable] =< 0
  /\ v.type \in {"return", "payment"} => v.moves[Payable] >= 0

ASSUME DoubleEntryAssumption ==
  /\ IsFiniteSet(Accounts)
  /\ IsFiniteSet(BooksFound.vouchers) /\ IsFiniteSet(VouchersToCome)
  /\ \A v \in BooksFound.vouchers \cup VouchersToCome : DoubleEntry(v)

(* A number is one voucher's; a bank line waits as long as something of it *)
(* is left, at a bank of its company.                                      *)
ASSUME TablesAssumption ==
  /\ IsFiniteSet(Suppliers) /\ IsFiniteSet(BooksFound.lines)
  /\ IsFiniteSet(BooksFound.proposals)
  /\ \A c \in Companies : IsFiniteSet(Banks[c])
  /\ \A v, w \in BooksFound.vouchers \cup VouchersToCome : v.no = w.no => v = w
  /\ \A v \in BooksFound.vouchers \cup VouchersToCome : v.no \in Nat /\ OfItsType(v)
  /\ \A line \in BooksFound.lines :
       "left" \in DOMAIN line /\ line.left > 0 /\ line.bank \in Banks[line.company]
  /\ \A line \in BooksFound.settled : line.left = 0

VARIABLES
  ledgers,      \* the books of all companies
  today,        \* index of Dates
  cache,        \* key -> note
  pass,         \* the job that runs, or NoPass
  events,       \* <<company, day>>: insight_sent, as committed
  delivered,    \* [Slots -> Nat]: cards in the chat
  shown,        \* the note a step showed, or None
  passes, faults, views, changes

notesVars == <<ledgers, today, cache, pass, events, delivered, shown, passes, faults, views, changes>>

Days == DOMAIN Dates
Slots == Companies \X Days

(* Between two rounds.                                                     *)
NoPass == [day |-> 0]


NotesInit ==
  /\ ledgers = BooksFound
  /\ today = 1
  /\ cache = <<>>
  /\ pass = NoPass
  /\ events = {}
  /\ delivered = [slot \in Slots |-> 0]
  /\ shown = None
  /\ passes = 0 /\ views = 0 /\ changes = 0
  /\ faults = [slot \in Slots |-> 0]

-----------------------------------------------------------------------------
(* What changes the books: a voucher is posted, a line is settled, a       *)
(* proposal is decided.                                                    *)
Change ==
  /\ changes < MaxChanges
  /\ changes' = changes + 1
  /\ shown' = None
  /\ UNCHANGED <<today, cache, pass, events, delivered, passes, faults, views>>

PostVoucher(v) ==
  /\ v \in VouchersToCome \ ledgers.vouchers
  /\ ledgers' = [ledgers EXCEPT !.vouchers = @ \cup {v}]
  /\ Change

Settle(line) ==
  /\ line \in ledgers.lines
  /\ ledgers' = [ledgers EXCEPT !.lines = @ \ {line},
                            !.settled = @ \cup {[line EXCEPT !.left = 0]}]
  /\ Change

Decide(p) ==
  /\ p \in ledgers.proposals
  /\ ledgers' = [ledgers EXCEPT !.proposals = @ \ {p}]
  /\ Change

NextDay ==
  /\ today + 1 \in Days
  /\ today' = today + 1
  /\ shown' = None
  /\ UNCHANGED <<ledgers, cache, pass, events, delivered, passes, faults, views, changes>>

-----------------------------------------------------------------------------
(* Mutant: the note of a company and a day, whatever the signals are now.  *)
Key_OfTheDay(c, day, found) == <<c, day>>

(* _fingerprint: kind, severity and facts of what was found; the view of a *)
(* signal's button, which goes with the kind, adds nothing to it.          *)
Key(c, day, found) == <<c, day, found>>

(* note_for: the note over what was found, from the cache if it is still   *)
(* there; the cache lets a note go after some hours, or sooner.            *)
Notes(c, day, found) ==
  {Narrate(found, draft) : draft \in Drafts} \cup
    {cache[key] : key \in {Key(c, day, found)} \cap DOMAIN cache}

Keep(c, day, found, note) ==
  cache' = [key \in DOMAIN cache \cup {Key(c, day, found)} |->
              IF key = Key(c, day, found) THEN note ELSE cache[key]]

Show(to, c, day, found, note) ==
  shown' = [to |-> to, company |-> c, day |-> day, figures |-> note.figures,
            buttons |-> Actions(found)]

(* home_card: a dashboard is opened.                                       *)
OpenHome(c) ==
  LET found == Signals(ledgers, c, Dates[today])
  IN /\ views < MaxViews
     /\ found # <<>>
     /\ \E note \in Notes(c, today, found) :
          Show("home", c, today, found, note) /\ Keep(c, today, found, note)
     /\ views' = views + 1
     /\ UNCHANGED <<ledgers, today, pass, events, delivered, passes, faults, changes>>

-----------------------------------------------------------------------------
(* push_daily.                                                             *)
BeginPass ==
  /\ pass = NoPass
  /\ passes < MaxPasses
  /\ pass' = [seen |-> ledgers, day |-> today, queue |-> Order, recorded |-> events,
              failed |-> {}]
  /\ passes' = passes + 1
  /\ shown' = None
  /\ UNCHANGED <<ledgers, today, cache, events, delivered, faults, views, changes>>

Company == Head(pass.queue)
Slot == <<Company, pass.day>>
Found == Signals(pass.seen, Company, Dates[pass.day])
SentToday == Slot \in pass.recorded
Loud == Severity(Found) >= 2
AtWork == pass # NoPass /\ pass.queue # <<>>

NotesFound == Notes(Company, pass.day, Found)
KeepFound(note) == Keep(Company, pass.day, Found, note)
ShowFound(note) == Show("chat", Company, pass.day, Found, note)

(* Nothing to say, nobody to say it to, or it was said.                    *)
Skip ==
  /\ AtWork
  /\ SentToday \/ ~Loud \/ Company \notin Chats
  /\ IF SentToday \/ Found = <<>> THEN cache' = cache
     ELSE \E note \in NotesFound : KeepFound(note)
  /\ pass' = [pass EXCEPT !.queue = Tail(@)]
  /\ shown' = None
  /\ UNCHANGED <<ledgers, today, events, delivered, passes, faults, views, changes>>

Wanted == AtWork /\ ~SentToday /\ Loud /\ Company \in Chats

Send ==
  /\ Wanted
  /\ \E note \in NotesFound : KeepFound(note) /\ ShowFound(note)
  /\ delivered' = [delivered EXCEPT ![Slot] = @ + 1]
  /\ pass' = [pass EXCEPT !.queue = Tail(@), !.recorded = @ \cup {Slot}]
  /\ UNCHANGED <<ledgers, today, events, passes, faults, views, changes>>

(* Mutant: the first failure ends the round.                               *)
Failed_Ends == [pass EXCEPT !.queue = <<>>, !.failed = @ \cup {Company}]

(* One company's failure must not silence the others.                      *)
Failed == [pass EXCEPT !.queue = Tail(@), !.failed = @ \cup {Company}]

(* The call to the chat raises: the card may have arrived all the same.    *)
SendFails(arrived) ==
  /\ Wanted
  /\ SumOf(faults) < MaxFaults
  /\ \E note \in NotesFound :
       /\ KeepFound(note)
       /\ IF arrived THEN ShowFound(note) ELSE shown' = None
  /\ delivered' = [delivered EXCEPT ![Slot] = @ + (IF arrived THEN 1 ELSE 0)]
  /\ faults' = [faults EXCEPT ![Slot] = @ + 1]
  /\ pass' = Failed
  /\ UNCHANGED <<ledgers, today, events, passes, views, changes>>

EndPass ==
  /\ pass # NoPass
  /\ pass.queue = <<>>
  /\ events' = pass.recorded
  /\ pass' = NoPass
  /\ shown' = None
  /\ UNCHANGED <<ledgers, today, cache, delivered, passes, faults, views, changes>>

(* The worker is killed: what the round recorded goes with it.             *)
PassDies ==
  LET lost == pass.recorded \ events
  IN /\ pass # NoPass
     /\ lost # {} /\ SumOf(faults) < MaxFaults
     /\ faults' = [slot \in DOMAIN faults |->
                     faults[slot] + (IF slot \in lost THEN 1 ELSE 0)]
     /\ pass' = NoPass
     /\ shown' = None
     /\ UNCHANGED <<ledgers, today, cache, events, delivered, passes, views, changes>>

NotesNext ==
  \/ \E v \in VouchersToCome : PostVoucher(v)
  \/ \E line \in ledgers.lines : Settle(line)
  \/ \E p \in ledgers.proposals : Decide(p)
  \/ NextDay
  \/ \E c \in Companies : OpenHome(c)
  \/ BeginPass
  \/ Skip
  \/ Send
  \/ \E arrived \in BOOLEAN : SendFails(arrived)
  \/ EndPass
  \/ PassDies

NotesSpec == NotesInit /\ [][NotesNext]_notesVars

-----------------------------------------------------------------------------
TypeOK ==
  /\ today \in Days /\ passes \in 0..MaxPasses /\ views \in 0..MaxViews
  /\ events \subseteq Slots
  /\ delivered \in [Slots -> Nat]
  /\ faults \in [Slots -> Nat] /\ changes \in 0..MaxChanges
  /\ pass # NoPass =>
       /\ events \subseteq pass.recorded
       /\ Range(pass.queue) \cup pass.failed \subseteq Companies

(* A note tells the day: whatever wrote it and wherever it was kept, its   *)
(* figures are of signals in the books that were read, on the day they     *)
(* were read, and its buttons open these; and nobody is sent a note that   *)
(* needs no look (insights.py "a note with a figure the detectors did not  *)
(* produce is dropped").                                                   *)
SeenBy(to) == IF to = "chat" THEN pass.seen ELSE ledgers

NotesTellTheDay ==
  [][shown' # None =>
       \A found \in {Signals(SeenBy(shown'.to), shown'.company, Dates[shown'.day])} :
         /\ found # <<>> /\ shown'.figures \subseteq Allowed(found)
         /\ shown'.buttons = Actions(found)
         /\ shown'.to = "chat" => Severity(found) >= 2]_notesVars

(* Everyone hears once: a round that ends has told each company whose      *)
(* books need a look, on that day, but for those whose own card could not  *)
(* be sent; and no chat is told again, except that what a call or a round  *)
(* broke on was not written down.                                          *)
HeardOnce == \A slot \in DOMAIN delivered : delivered[slot] =< 1 + faults[slot]

Needs(c) == c \in Chats /\ Severity(Signals(pass.seen, c, Dates[pass.day])) >= 2

EveryoneHearsOnce ==
  /\ []HeardOnce
  /\ [][pass # NoPass /\ pass' = NoPass /\ faults' = faults
          => \A c \in Range(Order) : Needs(c) =>
               c \in pass.failed \/ <<c, pass.day>> \in events']_notesVars

(* hooks.py:108 says "never twice a day".  Not so where the call or the job*)
(* breaks after the card arrived: nothing was written down, and a second   *)
(* round tells it again.                                                   *)
NeverTwiceADay == \A slot \in DOMAIN delivered : delivered[slot] =< 1

(* The card of /close can be drawn for every month whose own regime is     *)
(* cleared.  Not so for the months before a registration for VAT in the    *)
(* middle of a quarter: the summary asks of the quarter's last day.        *)
EveryMonthCanBeClosed ==
  \A c \in Companies : \A v \in ledgers.vouchers :
    v.company = c /\ v.month \in Cleared[c] => ~CloseCard(ledgers, c, v.month).refused

-----------------------------------------------------------------------------
(* The reports agree with one another, whatever was posted, for each       *)
(* company and month of the books.                                         *)
MonthsOf(c) == {v.month : v \in {w \in ledgers.vouchers : w.company = c}}
All == Cardinality(ledgers.vouchers) + 1
Asking == [NoSubject EXCEPT !.period = None]
Chat(c, kind, month) ==
  Query(ledgers, c, kind, [Asking EXCEPT !.period = month], month).figures

(* What the journals, the month, the quarter and the VAT of a month are    *)
(* sums of: the trial balance balances and its journal totals the same,    *)
(* cash moves from one month's opening to the next; what is earned is what *)
(* the balance accounts gained, what was spent what the accounts it was    *)
(* spent on add up to; documents add up to the month, months to the        *)
(* quarter, and none of its income is neither taxed nor shown.             *)
SumsAgree(c, m) ==
  LET tb == TrialBalance(ledgers, c, m)
      money == CashJournal(ledgers, c, m)
      month == MonthTotals(ledgers, c, m)
      kept == RowsOf(ledgers, c, m, m, OfRootType(c, "Balance"))
      vat == VatSummary(ledgers, c, m)
      quarter == SimplifiedSummary(ledgers, c, m)
      earned == Plus(QuarterStart(m)..(QuarterStart(m) + 2),
                     LAMBDA i : MonthTotals(ledgers, c, i).revenue)
  IN /\ tb.debit = tb.credit
     /\ GeneralJournal(ledgers, c, m).total = [debit |-> tb.debit, credit |-> tb.credit]
     /\ SumOf(money.opening) + money.total.debit - money.total.credit = SumOf(money.closing)
     /\ CashJournal(ledgers, c, m + 1).opening = money.closing
     /\ month.profit = NetDebit(kept)
     /\ (\A a \in OfRootType(c, "Expense") : SpentOn(ledgers, c, a, m) >= 0)
          => TopExpenses(ledgers, c, m, All).total = month.expense
     /\ vat.output = Plus(DOMAIN vat.documents, LAMBDA v : vat.documents[v].output)
     /\ vat.input = Plus(DOMAIN vat.documents, LAMBDA v : vat.documents[v].input)
     /\ quarter.revenue + quarter.excluded = earned

(* The list of vouchers totals what the trial balance does; the month of   *)
(* the dashboard is the last of the trend; and the chat says what the cards*)
(* say.                                                                    *)
CardsAgree(c, m) ==
  LET month == MonthWithDelta(ledgers, c, m)
      trend == RevenueTrend(ledgers, c, m)
      last == trend[TrendMonths]
      top == TopExpenses(ledgers, c, m, All)
      vat == VatSummary(ledgers, c, m)
  IN /\ SeqSum(RecentVouchers(ledgers, c, m, All).rows, LAMBDA r : r.amount)
          = TrialBalance(ledgers, c, m).debit
     /\ last.month = m
     /\ last.revenue = month.now.revenue /\ last.expense = month.now.expense
     /\ TrendMonths > 1 => last.pct = month.pct.revenue
     /\ \A i \in 1..TopLimit : i \in DOMAIN top.rows =>
          top.rows[i].amount \in Chat(c, "top_spend_accounts", m)
     /\ {Magnitude(month.now.revenue), Magnitude(month.now.expense)}
          \subseteq Chat(c, "monthly_trend", m)
     /\ c \in VatPayers /\ ~VatRefused(c) =>
          {Magnitude(vat.output), Magnitude(vat.input), Magnitude(vat.net)}
            \subseteq Chat(c, "vat_position", m)

(* The lines nobody matched are as many on the dashboard as in the chat    *)
(* and at the banks, and those of a month to be closed are among them; the *)
(* list of proposals is as long as their count says.                       *)
LinesAgree(c, day) ==
  LET home == Overview(ledgers, c, day)
      banks == home.banks
      count == home.pending.unmatched
      list == PendingProposals(ledgers, c, PendingLimit)
  IN /\ Len(list) = PendingLimit \/ Len(list) = home.pending.proposals
     /\ count = Plus(Banks[c], LAMBDA b : banks[b].unmatched)
     /\ Cardinality(Unmatched(ledgers, c)) \in UnmatchedCount(ledgers, c).figures
     /\ Checklist(ledgers, c, day.month).unmatched =< count

(* The two cards about one supplier: what a month's total says was bought  *)
(* and paid is what its list of entries shows.                             *)
ShownAs(rows, types) ==
  Plus({row \in rows : row.voucher.type \in types},
       LAMBDA row : Listed(row, ReturnVouchers(rows)))

SuppliersAgree(c, m) ==
  \A s \in Suppliers :
    LET all == PartyRows(ledgers, c, s)
        rows == InMonth(all, m)
    IN /\ \A row \in all : row.voucher.type # "journal"
       /\ Len(LastEntries(ledgers, c, s)) = Cardinality(all)
       => /\ Purchases(rows) = ShownAs(rows, {"invoice", "return"})
          /\ Payments(rows) = ShownAs(rows, {"payment"})

(* Nobody reads another client's books, but for the suppliers a checklist  *)
(* counts.                                                                 *)
OwnPart(books, c) ==
  [key \in DOMAIN books |->
     IF key = "flagged" THEN books[key] ELSE {x \in books[key] : x.company = c}]
OwnBooks(c) == OwnPart(ledgers, c)

OwnOnly(c, m, day) ==
  /\ Page(ledgers, c, m, day) = Page(OwnBooks(c), c, m, day)
  /\ CloseCard(ledgers, c, m) = CloseCard(OwnBooks(c), c, m)
  /\ Signals(ledgers, c, day) = Signals(OwnBooks(c), c, day)

(* The first button of a note opens the loudest signal, and no two open    *)
(* the same view.                                                          *)
ButtonsAgree(c, day) ==
  LET found == Signals(ledgers, c, day)
      buttons == Actions(found)
  IN found # <<>> =>
       /\ buttons[1].view = found[1].view
       /\ \A i, j \in DOMAIN buttons : buttons[i].view = buttons[j].view => i = j

(* Neither a round nor a dashboard writes to the books: what can be in     *)
(* them can be before the first of either, and is looked at there.         *)
ReportsAgree ==
  passes = 0 /\ views = 0 =>
    \A c \in Companies :
      /\ LinesAgree(c, Dates[today])
      /\ ButtonsAgree(c, Dates[today])
      /\ \A m \in MonthsOf(c) :
           /\ SumsAgree(c, m)
           /\ CardsAgree(c, m)
           /\ SuppliersAgree(c, m)
           /\ OwnOnly(c, m, Dates[today])
=============================================================================
