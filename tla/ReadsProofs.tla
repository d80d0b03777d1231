-------------------------------- MODULE ReadsProofs --------------------------------
(***************************************************************************)
(* Whoever reads the books: questions of a chat, the cards and the morning *)
(* note.                                                                   *)
(*                                                                         *)
(* For any books, any model and any number of workers, the figures a       *)
(* sentence of the model states are the calendar's or were read from the   *)
(* books and proposals of the company that was asked, and the subject a    *)
(* chat remembers is never an older one than before.  Nothing that is      *)
(* shown to a company depends on another's books, and the figures of its   *)
(* month are one set of figures; a note tells the books and the day it was *)
(* read for, and a round tells every company that needs it once, but for   *)
(* what broke.                                                             *)
(***************************************************************************)
EXTENDS Questions, MorningNotes, Sums, SequenceTheorems, TLAPS

-----------------------------------------------------------------------------
(* A read sees its own company's books and nothing else: one lemma for the *)
(* places the books are looked at, one for each query.                     *)

(* The general ledger of a company is the same in all books that agree on  *)
(* its own vouchers.                                                       *)
LEMMA GlAlone ==
  ASSUME NEW bk, NEW c
  PROVE  Gl(OnlyOf(bk, c), c) = Gl(bk, c)
BY DEF Gl, OnlyOf

LEMMA InvoicesAlone ==
  ASSUME NEW bk, NEW c
  PROVE  Invoices(OnlyOf(bk, c), c) = Invoices(bk, c)
BY DEF Invoices, OnlyOf

LEMMA UnmatchedAlone ==
  ASSUME NEW bk, NEW c
  PROVE  Unmatched(OnlyOf(bk, c), c) = Unmatched(bk, c)
BY DEF Unmatched, OnlyOf

LEMMA PartyRowsAlone ==
  ASSUME NEW bk, NEW c, NEW s
  PROVE  PartyRows(OnlyOf(bk, c), c, s) = PartyRows(bk, c, s)
BY GlAlone DEF PartyRows

LEMMA LastEntriesAlone ==
  ASSUME NEW bk, NEW c, NEW s
  PROVE  LastEntries(OnlyOf(bk, c), c, s) = LastEntries(bk, c, s)
BY PartyRowsAlone DEF LastEntries

LEMMA SpentOnAlone ==
  ASSUME NEW bk, NEW c, NEW x, NEW month
  PROVE  SpentOn(OnlyOf(bk, c), c, x, month) = SpentOn(bk, c, x, month)
BY GlAlone DEF SpentOn

LEMMA OfRootAlone ==
  ASSUME NEW bk, NEW c, NEW month, NEW root
  PROVE  OfRoot(OnlyOf(bk, c), c, month, root) = OfRoot(bk, c, month, root)
BY GlAlone DEF OfRoot

LEMMA BoughtFromAlone ==
  ASSUME NEW bk, NEW c, NEW s, NEW month
  PROVE  BoughtFrom(OnlyOf(bk, c), c, s, month) = BoughtFrom(bk, c, s, month)
BY InvoicesAlone DEF BoughtFrom

LEMMA BalanceAlone ==
  ASSUME NEW bk, NEW c, NEW args, NEW day
  PROVE  BalanceOnDate(OnlyOf(bk, c), c, args, day) = BalanceOnDate(bk, c, args, day)
BY GlAlone DEF BalanceOnDate

LEMMA SpendAlone ==
  ASSUME NEW bk, NEW c, NEW args, NEW day
  PROVE  SpendByAccount(OnlyOf(bk, c), c, args, day) = SpendByAccount(bk, c, args, day)
BY GlAlone DEF SpendByAccount

LEMMA EntriesAlone ==
  ASSUME NEW bk, NEW c, NEW args, NEW day
  PROVE  AccountEntries(OnlyOf(bk, c), c, args, day) = AccountEntries(bk, c, args, day)
BY GlAlone DEF AccountEntries

LEMMA SupplierEntriesAlone ==
  ASSUME NEW bk, NEW c, NEW args
  PROVE  LastEntriesForSupplier(OnlyOf(bk, c), c, args) = LastEntriesForSupplier(bk, c, args)
BY PartyRowsAlone, LastEntriesAlone DEF LastEntriesForSupplier

LEMMA SupplierTotalAlone ==
  ASSUME NEW bk, NEW c, NEW args, NEW day
  PROVE  SupplierTotal(OnlyOf(bk, c), c, args, day) = SupplierTotal(bk, c, args, day)
BY PartyRowsAlone DEF SupplierTotal

LEMMA VatAlone ==
  ASSUME NEW bk, NEW c, NEW args, NEW day
  PROVE  VatPosition(OnlyOf(bk, c), c, args, day) = VatPosition(bk, c, args, day)
BY SpentOnAlone DEF VatPosition

LEMMA TopSpendAlone ==
  ASSUME NEW bk, NEW c, NEW args, NEW day
  PROVE  TopSpendAccounts(OnlyOf(bk, c), c, args, day) = TopSpendAccounts(bk, c, args, day)
BY SpentOnAlone DEF TopSpendAccounts

LEMMA CountAlone ==
  ASSUME NEW bk, NEW c
  PROVE  UnmatchedCount(OnlyOf(bk, c), c) = UnmatchedCount(bk, c)
BY UnmatchedAlone DEF UnmatchedCount

LEMMA LinesAlone ==
  ASSUME NEW bk, NEW c
  PROVE  UnmatchedLines(OnlyOf(bk, c), c) = UnmatchedLines(bk, c)
BY UnmatchedAlone DEF UnmatchedLines

LEMMA ExplainAlone ==
  ASSUME NEW bk, NEW c, NEW args
  PROVE  ExplainEntry(OnlyOf(bk, c), c, args) = ExplainEntry(bk, c, args)
<1>1. Named(OnlyOf(bk, c), c, args.entry) = Named(bk, c, args.entry)
  BY DEF Named, OnlyOf
<1>2. Decisions(OnlyOf(bk, c), c, args.entry) = Decisions(bk, c, args.entry)
  BY DEF Decisions, OnlyOf
<1> QED  BY <1>1, <1>2 DEF ExplainEntry

LEMMA TrendAlone ==
  ASSUME NEW bk, NEW c, NEW args, NEW day
  PROVE  MonthlyTrend(OnlyOf(bk, c), c, args, day) = MonthlyTrend(bk, c, args, day)
<1> DEFINE Of(b, m) == {Magnitude(OfRoot(b, c, m, "Income")),
                        Magnitude(OfRoot(b, c, m, "Expense"))} \cup Calendar(m)
<1>1. \A m : Of(OnlyOf(bk, c), m) = Of(bk, m)
  BY OfRootAlone
<1> HIDE DEF Of
<1>2. ASSUME NEW months
      PROVE  {Of(OnlyOf(bk, c), m) : m \in months} = {Of(bk, m) : m \in months}
  BY <1>1
<1> QED  BY <1>2 DEF MonthlyTrend, Of

LEMMA TopSuppliersAlone ==
  ASSUME NEW bk, NEW c, NEW args, NEW day
  PROVE  TopSuppliers(OnlyOf(bk, c), c, args, day) = TopSuppliers(bk, c, args, day)
BY BoughtFromAlone DEF TopSuppliers

(* What the dispatcher returns is the same for the books of the company    *)
(* alone: whatever kind and arguments the model or a button names.         *)
LEMMA QueryAlone ==
  ASSUME NEW bk, NEW c, NEW kind, NEW args, NEW day
  PROVE  Query(OnlyOf(bk, c), c, kind, args, day) = Query(bk, c, kind, args, day)
<1>1. CASE Fault(c, kind, args) # None
  BY <1>1 DEF Query
<1>2. CASE Fault(c, kind, args) = None /\ kind \notin Kinds
  BY <1>2, ReadsAssumption DEF Fault
<1>3. CASE Fault(c, kind, args) = None /\ kind = "balance_on_date"
  BY <1>3, BalanceAlone DEF Query
<1>4. CASE Fault(c, kind, args) = None /\ kind = "spend_by_account"
  BY <1>4, SpendAlone DEF Query
<1>5. CASE Fault(c, kind, args) = None /\ kind = "account_entries"
  BY <1>5, EntriesAlone DEF Query
<1>6. CASE Fault(c, kind, args) = None /\ kind = "last_entries_for_supplier"
  BY <1>6, SupplierEntriesAlone DEF Query
<1>7. CASE Fault(c, kind, args) = None /\ kind = "supplier_total"
  BY <1>7, SupplierTotalAlone DEF Query
<1>8. CASE Fault(c, kind, args) = None /\ kind = "vat_position"
  BY <1>8, VatAlone DEF Query
<1>9. CASE Fault(c, kind, args) = None /\ kind = "top_spend_accounts"
  BY <1>9, TopSpendAlone DEF Query
<1>10. CASE Fault(c, kind, args) = None /\ kind = "unmatched_count"
  BY <1>10, CountAlone DEF Query
<1>11. CASE Fault(c, kind, args) = None /\ kind = "unmatched_lines"
  BY <1>11, LinesAlone DEF Query
<1>12. CASE Fault(c, kind, args) = None /\ kind = "explain_entry"
  BY <1>12, ExplainAlone DEF Query
<1>13. CASE Fault(c, kind, args) = None /\ kind = "monthly_trend"
  BY <1>13, TrendAlone DEF Query
<1>14. CASE Fault(c, kind, args) = None /\ kind = "top_suppliers"
  BY <1>14, TopSuppliersAlone DEF Query
<1> QED  BY <1>1, <1>2, <1>3, <1>4, <1>5, <1>6, <1>7, <1>8, <1>9, <1>10, <1>11, <1>12, <1>13, <1>14 DEF Kinds

-----------------------------------------------------------------------------
(* The order of the updates: whoever may still save the row of the chat    *)
(* was taken after the update that wrote the memory last.                  *)
Fields == {"number", "company", "books", "at", "before", "calls", "text", "turn", "tries", "over"}

Types ==
  /\ written \in Nat /\ arrived \in Nat /\ taken \in Nat
  /\ DOMAIN question = Workers
  /\ \E S : cards \in Seq(S)
  /\ \A w \in Workers : question[w] # None =>
       /\ DOMAIN question[w] = Fields
       /\ question[w].number \in Nat
       /\ \E S : question[w].calls \in Seq(S)

InOrder ==
  /\ written =< taken
  /\ \A w \in Workers : question[w] # None =>
       /\ question[w].number =< taken
       /\ w \notin stale => written < question[w].number

(* Every result in the trace of a question is what the dispatcher returns  *)
(* for the call it belongs to.                                             *)
CallsAreReads ==
  \A w \in Workers : question[w] # None =>
    \A i \in DOMAIN question[w].calls :
      question[w].calls[i].result = Run(question[w], question[w].calls[i].request)

IInv == Types /\ InOrder /\ CallsAreReads

(* A request to the model makes a function of the places of its calls.     *)
LEMMA CallsAreSeq ==
  ASSUME NEW n \in Nat, NEW f, f = [i \in 1..n |-> f[i]]
  PROVE  \E S : f \in Seq(S)
<1> DEFINE S == {f[i] : i \in 1..n}
<1>1. f \in [1..n -> S]
  OBVIOUS
<1>2. f \in Seq(S)
  BY <1>1
<1> QED  BY <1>2

(* The row of the chat is written in the order updates are taken.          *)
LEMMA InOrderInit == Init => IInv
<1> SUFFICES ASSUME Init PROVE IInv
  OBVIOUS
<1>1. cards \in Seq({})
  BY DEF Init
<1> QED  BY <1>1 DEF Init, IInv, Types, InOrder, CallsAreReads

(* Steps that leave every question as it is: memory, row and cards may     *)
(* change, as they do for an update that is taken and done with at once.   *)
LEMMA SameQuestions ==
  ASSUME IInv, UNCHANGED question,
         written' \in Nat, arrived' \in Nat, taken' \in Nat, \E S : cards' \in Seq(S),
         taken =< taken', written' =< taken',
         \/ written' = written /\ stale \subseteq stale'
         \/ stale' = Answerers
  PROVE  IInv'
<1>1. Types'
  BY DEF IInv, Types
<1>2. InOrder'
  BY DEF IInv, Types, InOrder, Answerers
<1>3. CallsAreReads'
  BY DEF IInv, CallsAreReads
<1> QED  BY <1>1, <1>2, <1>3 DEF IInv

(* A card more, or another face for one: the chat is a sequence of cards.  *)
LEMMA CardsStay ==
  ASSUME NEW S, NEW s \in Seq(S), NEW x
  PROVE  /\ Append(s, x) \in Seq(S \cup {x}) /\ Len(Append(s, x)) = Len(s) + 1
         /\ Append(s, x)[Len(s) + 1] = x
         /\ \A i \in DOMAIN s : /\ [s EXCEPT ![i] = x] \in Seq(S \cup {x})
                                /\ Len([s EXCEPT ![i] = x]) = Len(s)
<1>1. s \in Seq(S \cup {x})
  OBVIOUS
<1> QED  BY <1>1

LEMMA AppendCard ==
  ASSUME Types, NEW x, cards' = Append(cards, x)
  PROVE  /\ \E S : cards' \in Seq(S)
         /\ Len(cards) \in Nat /\ Len(cards') = Len(cards) + 1
         /\ cards'[Len(cards')] = x
<1>1. PICK S : cards \in Seq(S)
  BY DEF Types
<1>2. cards' \in Seq(S \cup {x}) /\ Len(cards') = Len(cards) + 1 /\ cards'[Len(cards) + 1] = x
  BY <1>1, CardsStay
<1>3. Len(cards) \in Nat
  BY <1>1
<1> QED  BY <1>2, <1>3

LEMMA EditCard ==
  ASSUME Types, NEW i \in DOMAIN cards, NEW x, cards' = [cards EXCEPT ![i] = x]
  PROVE  /\ \E S : cards' \in Seq(S)
         /\ Len(cards) \in Nat /\ Len(cards') = Len(cards)
<1>1. PICK S : cards \in Seq(S)
  BY DEF Types
<1>2. cards' \in Seq(S \cup {x}) /\ Len(cards') = Len(cards)
  BY <1>1, CardsStay
<1>3. Len(cards) \in Nat
  BY <1>1
<1> QED  BY <1>2, <1>3

(* A worker is rid of its question, whether it wrote the row or not.       *)
LEMMA QuestionOver ==
  ASSUME IInv, NEW w \in Workers, question' = [question EXCEPT ![w] = None],
         UNCHANGED <<arrived, taken>>, \E S : cards' \in Seq(S), question[w] # None,
         \/ written' = written /\ stale' = stale \ {w}
         \/ written' = question[w].number /\ stale' = Answerers \ {w}
  PROVE  IInv'
<1>1. Types'
  BY DEF IInv, Types
<1>2. InOrder'
  BY DEF IInv, Types, InOrder, Answerers
<1>3. CallsAreReads'
  BY DEF IInv, CallsAreReads, Types
<1> QED  BY <1>1, <1>2, <1>3 DEF IInv

LEMMA TakeStep ==
  ASSUME IInv, NEW w \in Workers, TakeQuestion(w)
  PROVE  IInv'
<1> DEFINE q == [number |-> taken + 1, company |-> active, books |-> books, at |-> now,
                 before |-> memory, calls |-> <<>>, text |-> None, turn |-> 0,
                 tries |-> 0, over |-> FALSE]
<1>1. question' = [question EXCEPT ![w] = q] /\ taken' = taken + 1 /\ stale' = stale \ {w}
      /\ UNCHANGED <<written, arrived, cards>>
  BY DEF TakeQuestion, Takes
<1>2. DOMAIN q = Fields /\ q.number = taken + 1 /\ q.calls = <<>>
  BY DEF Fields
<1>3. q.calls \in Seq({})
  BY <1>2
<1> HIDE DEF q
<1>4. Types'
  <2>1. q.number \in Nat
    BY <1>2 DEF IInv, Types
  <2>2. \A v \in Workers : question'[v] = IF v = w THEN q ELSE question[v]
    BY <1>1 DEF IInv, Types
  <2>3. DOMAIN question' = Workers /\ {written', arrived', taken'} \subseteq Nat /\ cards' = cards
    BY <1>1 DEF IInv, Types
  <2> QED  BY <1>2, <1>3, <2>1, <2>2, <2>3 DEF IInv, Types
<1>5. InOrder'
  BY <1>1, <1>2 DEF IInv, Types, InOrder
<1>6. CallsAreReads'
  BY <1>1, <1>2 DEF IInv, Types, CallsAreReads
<1> QED  BY <1>4, <1>5, <1>6 DEF IInv

(* A turn appends calls, each with the result of its own read; nothing the *)
(* reads depend on changes while the question is answered.                 *)
LEMMA ReplyStep ==
  ASSUME IInv, NEW w \in Workers, ModelReplies(w)
  PROVE  IInv'
<1>1. PICK q0 \in {question[w]} \ {None}, text \in Texts \cup {None}, requests \in Requests :
        /\ ~q0.over
        /\ question' = [question EXCEPT ![w] =
             [q0 EXCEPT !.text = IF text = None THEN @ ELSE text,
                        !.calls = @ \o [i \in DOMAIN requests |-> Called(q0, requests[i])],
                        !.turn = @ + 1,
                        !.tries = 0,
                        !.over = requests = <<>> \/ q0.turn + 1 = MaxTurns]]
        /\ UNCHANGED <<books, now, active, memory, written, arrived, taken, stale, cards, drafts, escalations>>
  BY Zenon DEF ModelReplies
<1>2. question[w] # None /\ UNCHANGED <<written, arrived, taken, stale, cards>>
  BY <1>1
<1> DEFINE q == question[w]
           new == [i \in DOMAIN requests |-> Called(q, requests[i])]
           r == question'[w]
<1>3. PICK S : q.calls \in Seq(S)
  BY <1>2 DEF IInv, Types
<1>4. PICK T : new \in Seq(T)
  <2>1. Len(requests) \in Nat /\ DOMAIN requests = 1..Len(requests)
    BY QuestionsAssumption
  <2> QED  BY <2>1, CallsAreSeq
<1>5. /\ DOMAIN r = Fields /\ r.number = q.number /\ r.calls = q.calls \o new
      /\ r.books = q.books /\ r.company = q.company /\ r.at = q.at
  BY <1>1, <1>2 DEF IInv, Types, Fields
<1>6. \A v \in Workers \ {w} : question'[v] = question[v]
  BY <1>1
<1>7. DOMAIN question' = Workers
  BY <1>1 DEF IInv, Types
<1>8. q.calls \in Seq(S \cup T) /\ new \in Seq(S \cup T)
  BY <1>3, <1>4
<1>9. \A request : Run(r, request) = Run(q, request)
  BY <1>5 DEF Run
<1>10. \A i \in DOMAIN new : new[i].result = Run(q, new[i].request)
  BY DEF Called
<1> HIDE DEF q, new, r
<1>11. r.calls \in Seq(S \cup T)
  BY <1>5, <1>8
<1>12. \A i \in DOMAIN r.calls : r.calls[i].result = Run(r, r.calls[i].request)
  <2> SUFFICES ASSUME NEW i \in DOMAIN r.calls
               PROVE  r.calls[i].result = Run(r, r.calls[i].request)
    OBVIOUS
  <2>1. CASE i \in DOMAIN q.calls
    <3>1. r.calls[i] = q.calls[i]
      BY <1>5, <1>8, <2>1
    <3>2. q.calls[i].result = Run(q, q.calls[i].request)
      BY <1>2, <2>1 DEF IInv, CallsAreReads, q
    <3> QED  BY <1>9, <3>1, <3>2
  <2>2. CASE i \notin DOMAIN q.calls
    <3>1. i - Len(q.calls) \in DOMAIN new /\ r.calls[i] = new[i - Len(q.calls)]
      BY <1>5, <1>8, <2>2
    <3> QED  BY <1>9, <1>10, <3>1
  <2> QED  BY <2>1, <2>2
<1>13. Types'
  <2>1. DOMAIN question'[w] = Fields /\ question'[w].number \in Nat /\ question'[w].calls \in Seq(S \cup T)
    BY <1>2, <1>5, <1>11 DEF IInv, Types, r, q
  <2> QED  BY <1>2, <1>6, <1>7, <2>1 DEF IInv, Types
<1>14. InOrder'
  BY <1>2, <1>5, <1>6 DEF IInv, InOrder, r, q
<1>15. CallsAreReads'
  BY <1>6, <1>12 DEF IInv, CallsAreReads, r
<1> QED  BY <1>13, <1>14, <1>15 DEF IInv

LEMMA RetryStep ==
  ASSUME IInv, NEW w \in Workers, RequestIsRetried(w)
  PROVE  IInv'
<1>1. /\ question[w] # None /\ UNCHANGED <<written, arrived, taken, stale, cards>>
      /\ question' = [question EXCEPT ![w].tries = NextTry(@)]
  BY DEF RequestIsRetried
<1> DEFINE q == question[w]
           r == question'[w]
<1>2. /\ DOMAIN r = Fields /\ r.number = q.number /\ r.calls = q.calls
      /\ r.books = q.books /\ r.company = q.company /\ r.at = q.at
  BY <1>1 DEF IInv, Types, Fields
<1>3. DOMAIN question' = Workers /\ \A v \in Workers \ {w} : question'[v] = question[v]
  BY <1>1 DEF IInv, Types
<1>4. \A request : Run(r, request) = Run(q, request)
  BY <1>2 DEF Run
<1> HIDE DEF q, r
<1>5. Types'
  BY <1>1, <1>2, <1>3 DEF IInv, Types, q, r
<1>6. InOrder'
  BY <1>1, <1>2, <1>3 DEF IInv, InOrder, q, r
<1>7. CallsAreReads'
  <2>1. \A i \in DOMAIN r.calls : r.calls[i].result = Run(r, r.calls[i].request)
    BY <1>1, <1>2, <1>4 DEF IInv, CallsAreReads, q
  <2> QED  BY <1>3, <2>1 DEF IInv, CallsAreReads, r
<1> QED  BY <1>5, <1>6, <1>7 DEF IInv

LEMMA FailStep ==
  ASSUME IInv, NEW w \in Workers, RequestFails(w)
  PROVE  IInv'
<1>1. PICK q \in {question[w]} \ {None} : cards' = Append(cards, Apology(q.company))
  BY DEF RequestFails
<1>2. \E S : cards' \in Seq(S)
  BY <1>1, AppendCard DEF IInv
<1>3. /\ question' = [question EXCEPT ![w] = None] /\ question[w] # None
      /\ stale' = stale \ {w} /\ UNCHANGED <<written, arrived, taken>>
  BY DEF RequestFails
<1> QED  BY <1>2, <1>3, QuestionOver

(* What is delivered: the answer, or an apology when the row of the chat   *)
(* has moved on.                                                           *)
LEMMA Delivered ==
  ASSUME NEW w \in Workers, Deliver(w)
  PROVE  /\ question[w] # None /\ question' = [question EXCEPT ![w] = None]
         /\ UNCHANGED <<arrived, taken>>
         /\ \E card : /\ cards' = Append(cards, card)
                      /\ card.by = "model" =>
                           Answer(question[w]).by = "model" /\ card.words = Answer(question[w]).words
         /\ \/ /\ UNCHANGED <<memory, written>> /\ stale' = stale \ {w}
            \/ /\ w \notin stale
               /\ written' = question[w].number /\ stale' = Answerers \ {w}
<1>1. PICK q \in {question[w]} \ {None} : \E sentence \in {Answer(q)}, kept \in {Kept(q)} :
        /\ question' = [question EXCEPT ![w] = None]
        /\ IF SaveFails(w, q, kept)
           THEN /\ cards' = Append(cards, Apology(q.company))
                /\ stale' = stale \ {w}
                /\ UNCHANGED <<memory, written>>
           ELSE /\ cards' = Append(cards, Card(q.company, sentence, Offered(q, sentence.answered)))
                /\ IF Saves(q.before, kept)
                   THEN memory' = kept /\ written' = q.number /\ stale' = Answerers \ {w}
                   ELSE stale' = stale \ {w} /\ UNCHANGED <<memory, written>>
        /\ UNCHANGED <<books, now, active, arrived, taken>>
  BY Zenon DEF Deliver
<1>2. q = question[w] /\ question[w] # None
  BY <1>1
<1>3. CASE SaveFails(w, q, Kept(q))
  <2>1. cards' = Append(cards, Apology(q.company)) /\ Apology(q.company).by = "apology"
    BY <1>1, <1>3 DEF Apology, Card, Sentence
  <2> QED  BY <1>1, <1>2, <1>3, <2>1
<1>4. CASE ~SaveFails(w, q, Kept(q))
  <2> DEFINE card == Card(q.company, Answer(q), Offered(q, Answer(q).answered))
  <2>1. cards' = Append(cards, card)
    BY <1>1, <1>4
  <2>2. card.by = Answer(q).by /\ card.words = Answer(q).words
    BY DEF Card
  <2>3. \/ UNCHANGED <<memory, written>> /\ stale' = stale \ {w}
        \/ w \notin stale /\ written' = q.number /\ stale' = Answerers \ {w}
    BY <1>1, <1>4 DEF SaveFails
  <2> QED  BY <1>1, <1>2, <2>1, <2>2, <2>3
<1> QED  BY <1>3, <1>4

LEMMA DeliverStep ==
  ASSUME IInv, NEW w \in Workers, Deliver(w)
  PROVE  IInv'
<1>1. \E S : cards' \in Seq(S)
  BY Delivered, AppendCard DEF IInv
<1> QED  BY <1>1, Delivered, QuestionOver

(* Updates that are handled at once, and what moves by itself.             *)
LEMMA OtherSteps ==
  ASSUME IInv,
         Arrives \/ RefuseInjection \/ TapQuery \/ TapEscalate \/ Command \/ SwitchOrOther
           \/ Post \/ Propose \/ Tick
  PROVE  IInv'
<1> USE DEF Takes
<1>1. /\ {written, arrived, taken} \subseteq Nat /\ written =< taken
      /\ \E S : cards \in Seq(S)
  BY DEF IInv, Types, InOrder
<1>2. CASE Arrives
  BY <1>1, <1>2, SameQuestions DEF Arrives
<1>3. CASE RefuseInjection
  <2>1. \E S : cards' \in Seq(S)
    BY <1>3, AppendCard DEF IInv, RefuseInjection
  <2>2. /\ taken' = taken + 1 /\ UNCHANGED <<arrived, question>>
        /\ \/ UNCHANGED <<written, stale>>
           \/ written' = taken + 1 /\ stale' = Answerers
    BY <1>3 DEF RefuseInjection
  <2> QED  BY <1>1, <2>1, <2>2, SameQuestions
<1>4. CASE TapQuery
  <2>1. /\ taken' = taken + 1 /\ UNCHANGED <<arrived, question>>
        /\ \/ UNCHANGED <<written, stale>>
           \/ written' = taken + 1 /\ stale' = Answerers
    BY <1>4 DEF TapQuery
  <2>2. \/ \E x : cards' = Append(cards, x)
        \/ \E i \in DOMAIN cards : \E x : cards' = [cards EXCEPT ![i] = x]
    BY <1>4 DEF TapQuery
  <2>3. \E S : cards' \in Seq(S)
    BY <2>2, AppendCard, EditCard DEF IInv
  <2> QED  BY <1>1, <2>1, <2>3, SameQuestions
<1>5. CASE TapEscalate
  <2>1. \E i \in DOMAIN cards : \E x : cards' = [cards EXCEPT ![i] = x]
    BY <1>5 DEF TapEscalate
  <2>2. \E S : cards' \in Seq(S)
    BY <2>1, EditCard DEF IInv
  <2>3. taken' = taken + 1 /\ UNCHANGED <<written, question, stale, arrived>>
    BY <1>5 DEF TapEscalate
  <2> QED  BY <1>1, <2>2, <2>3, SameQuestions
<1>6. CASE Command
  BY <1>1, <1>6, SameQuestions DEF Command
<1>7. CASE SwitchOrOther
  BY <1>1, <1>7, SameQuestions DEF SwitchOrOther
<1>8. CASE Post \/ Propose
  BY <1>1, <1>8, SameQuestions DEF Post, Propose
<1>9. CASE Tick
  BY <1>1, <1>9, SameQuestions DEF Tick
<1> QED  BY <1>2, <1>3, <1>4, <1>5, <1>6, <1>7, <1>8, <1>9

(* The order of the updates, and that the traces are reads, hold always.   *)
THEOREM QuestionsInvariant == Spec => []IInv
<1>1. IInv /\ [Next]_vars => IInv'
  <2> SUFFICES ASSUME IInv, [Next]_vars PROVE IInv'
    OBVIOUS
  <2>1. CASE \E w \in Workers : TakeQuestion(w) \/ Answering(w)
    BY <2>1, TakeStep, ReplyStep, RetryStep, FailStep, DeliverStep DEF Answering
  <2>2. CASE Arrives \/ RefuseInjection \/ TapQuery \/ TapEscalate \/ Command
               \/ SwitchOrOther \/ Post \/ Propose \/ Tick
    BY <2>2, OtherSteps
  <2>3. CASE UNCHANGED vars
    BY <2>3, SameQuestions DEF vars, IInv, Types, InOrder
  <2> QED  BY <2>1, <2>2, <2>3 DEF Next
<1> QED  BY <1>1, InOrderInit, PTL DEF Spec

-----------------------------------------------------------------------------
(* What the chat is about never goes back to an earlier update's subject:  *)
(* whoever may still write was taken after the last one who did.           *)
THEOREM ContextOnlyMovesOn == Spec => ContextNeverGoesBack
<1>1. IInv /\ [Next]_vars => [memory' # memory => written' > written]_vars
  <2> SUFFICES ASSUME IInv, Next, memory' # memory PROVE written' > written
    BY DEF vars
  <2> USE DEF Takes
  <2>1. written \in Nat /\ taken \in Nat /\ written =< taken
    BY DEF IInv, Types, InOrder
  <2>2. ASSUME NEW w \in Workers, Deliver(w) PROVE written' > written
    <3>1. question[w] # None /\ w \notin stale /\ written' = question[w].number
      BY <2>2, Delivered
    <3> QED  BY <2>1, <3>1 DEF IInv, Types, InOrder
  <2>3. ASSUME NEW w \in Workers, TakeQuestion(w) \/ Answering(w) PROVE written' > written
    BY <2>2, <2>3 DEF TakeQuestion, Answering, ModelReplies, RequestIsRetried, RequestFails
  <2>4. CASE RefuseInjection \/ Command
    <3>1. written' = taken + 1
      BY <2>4 DEF RefuseInjection, Command
    <3> QED  BY <2>1, <3>1
  <2>5. CASE TapQuery
    <3>1. \/ UNCHANGED memory
          \/ written' = taken + 1
          \/ memory = None /\ memory' = None
      BY <2>5 DEF TapQuery, Saves
    <3> QED  BY <2>1, <3>1
  <2> QED  BY <2>3, <2>4, <2>5 DEF Next, Arrives, TapEscalate, SwitchOrOther, Post, Propose, Tick
<1> QED  BY <1>1, QuestionsInvariant, PTL DEF Spec, ContextNeverGoesBack

-----------------------------------------------------------------------------
(* A sentence of the model is sent only when every figure in it is known.  *)
LEMMA ModelSaysWhatIsKnown ==
  ASSUME NEW q, Answer(q).by = "model"
  PROVE  Answer(q).words \subseteq KnownNumbers(q.calls, Month(q.at))
<1>1. Fallback(q.calls).by # "model" /\ [Fallback(q.calls) EXCEPT !.answered = FALSE].by # "model"
  BY DEF Fallback, Sentence
<1>2. Sentence("ours", {}, TRUE).by # "model" /\ Sentence("ours", {}, FALSE).by # "model"
      /\ Sentence("draft", {}, TRUE).by # "model"
  BY DEF Sentence
<1>3. Answer(q) = Sentence("model", q.text, TRUE) /\ ~Invented(q.text, q.calls, Month(q.at))
  BY <1>1, <1>2 DEF Answer
<1> QED  BY <1>3 DEF Sentence, Invented

(* Only reads of the books vouch for figures: the other tools have none.   *)
LEMMA OnlyReadsVouch ==
  ASSUME NEW q, NEW request
  PROVE  Run(q, request).figures =
           IF request.tool = "answer_from_books"
           THEN Query(OnlyOf(q.books, q.company), q.company, request.kind, request.args,
                      Month(q.at)).figures
           ELSE {}
<1>1. CASE request.tool = "answer_from_books"
  BY <1>1, QueryAlone DEF Run
<1>2. CASE request.tool # "answer_from_books"
  <2>1. \/ Run(q, request) = Reading(NoSubject, {}, FaqFigures)
        \/ Run(q, request) = Reading(NoSubject, {}, {})
        \/ Run(q, request) = Refusal(request.kind)
        \/ Run(q, request) = Refusal("unknown_tool")
    BY <1>2 DEF Run
  <2> QED  BY <1>2, <2>1 DEF Reading, Refusal
<1> QED  BY <1>1, <1>2

LEMMA KnownAreFigures ==
  ASSUME NEW q,
         \A i \in DOMAIN q.calls : q.calls[i].result = Run(q, q.calls[i].request)
  PROVE  KnownNumbers(q.calls, Month(q.at)) \subseteq FiguresOf(q)
<1> DEFINE month == Month(q.at)
<1>1. ClockFigures(month) \subseteq CalendarFigures(month)
  BY DEF CalendarFigures
<1>2. \A result : ResolvedYear(result, month) \subseteq CalendarFigures(month)
  BY DEF ResolvedYear, BooksAreKept, CalendarFigures
<1>3. ASSUME NEW i \in DOMAIN q.calls
      PROVE  q.calls[i].result.figures \subseteq FiguresOf(q)
  <2>1. q.calls[i].result.figures = Run(q, q.calls[i].request).figures
    OBVIOUS
  <2>2. CASE q.calls[i].request.tool = "answer_from_books"
    <3>1. q.calls[i].result.figures = ReadAlone(q, q.calls[i]).figures
      BY <2>1, <2>2, OnlyReadsVouch DEF ReadAlone
    <3> QED  BY <2>2, <3>1 DEF FiguresOf
  <2>3. CASE q.calls[i].request.tool # "answer_from_books"
    BY <2>1, <2>3, OnlyReadsVouch
  <2> QED  BY <2>2, <2>3
<1>4. CalendarFigures(month) \subseteq FiguresOf(q)
  BY DEF FiguresOf
<1>5. \A result \in Results(q.calls) :
        result.figures \cup ResolvedYear(result, month) \subseteq FiguresOf(q)
  <2>1. \A result \in Results(q.calls) : \E i \in DOMAIN q.calls : result = q.calls[i].result
    BY DEF Results
  <2> QED  BY <1>2, <1>3, <1>4, <2>1
<1> QED  BY <1>1, <1>4, <1>5 DEF KnownNumbers

(* Every figure the model states is the calendar's or was read from the    *)
(* books of the company that was asked, as the question found them: its    *)
(* vouchers, its lines, its proposals, posted or not, and what their rules *)
(* cite (explain_entry).                                                   *)
THEOREM FiguresCannotBeInvented == Spec => FiguresAreTheBooks
<1> DEFINE Stated(w) ==
      /\ question[w] # None
      /\ Len(cards') = Len(cards) + 1
      /\ question'[w] = None
      /\ cards'[Len(cards')].by = "model"
<1>1. ASSUME IInv, Next, NEW w \in Workers, Stated(w)
      PROVE  cards'[Len(cards')].words \subseteq FiguresOf(question[w])
  <2>1. Len(cards) \in Nat /\ DOMAIN question = Workers
    BY <1>1 DEF IInv, Types
  <2>2. cards' # cards /\ question' # question
    BY <1>1, <2>1
  <2>3. PICK v \in Workers : RequestFails(v) \/ Deliver(v)
    BY <1>1, <2>2 DEF Next, Arrives, TakeQuestion, Answering, ModelReplies, RequestIsRetried,
       RefuseInjection, TapQuery, TapEscalate, Command, SwitchOrOther, Post, Propose, Tick
  <2>4. v = w
    <3>1. question' = [question EXCEPT ![v] = None]
      BY <2>3, Delivered DEF RequestFails
    <3> QED  BY <1>1, <2>1, <3>1
  <2>5. CASE RequestFails(v)
    <3>1. PICK q : cards' = Append(cards, Apology(q.company))
      BY <2>5 DEF RequestFails
    <3>2. cards'[Len(cards')] = Apology(q.company)
      BY <1>1, <3>1, AppendCard DEF IInv
    <3> QED  BY <1>1, <3>2 DEF Apology, Card, Sentence
  <2>6. CASE Deliver(v)
    <3>1. PICK card :
            /\ cards' = Append(cards, card)
            /\ card.by = "model" =>
                 Answer(question[v]).by = "model" /\ card.words = Answer(question[v]).words
      BY <2>6, Delivered
    <3>2. cards'[Len(cards')] = card
      BY <1>1, <3>1, AppendCard DEF IInv
    <3>3. Answer(question[w]).by = "model" /\ card.words = Answer(question[w]).words
      BY <1>1, <2>4, <3>1, <3>2
    <3>4. KnownNumbers(question[w].calls, Month(question[w].at)) \subseteq FiguresOf(question[w])
      BY <1>1, KnownAreFigures DEF IInv, CallsAreReads
    <3> QED  BY <3>2, <3>3, <3>4, ModelSaysWhatIsKnown
  <2> QED  BY <2>3, <2>5, <2>6
<1>2. IInv /\ [Next]_vars =>
        [\A w \in Workers : Stated(w) => cards'[Len(cards')].words \subseteq FiguresOf(question[w])]_vars
  BY <1>1
<1> QED  BY <1>2, QuestionsInvariant, PTL DEF Spec, FiguresAreTheBooks

-----------------------------------------------------------------------------
(* What is shown to a company depends on its own books only.               *)

(* Books in which a line is of the company whose bank account it is on.    *)
Tables == {"vouchers", "lines", "settled", "closings", "proposals", "flagged", "stock",
           "rules"}

WellKept(bk) ==
  /\ DOMAIN bk = Tables
  /\ \A line \in bk.lines \cup bk.settled :
       /\ {"company", "bank"} \subseteq DOMAIN line
       /\ \A c \in Companies : line.bank \in Banks[c] => line.company = c

OwnRows(S, c) == {x \in S : x.company = c}

LEMMA OwnTables ==
  ASSUME NEW bk, WellKept(bk), NEW c
  PROVE  /\ OwnPart(bk, c).vouchers = OwnRows(bk.vouchers, c)
         /\ OwnPart(bk, c).lines = OwnRows(bk.lines, c)
         /\ OwnPart(bk, c).settled = OwnRows(bk.settled, c)
         /\ OwnPart(bk, c).closings = OwnRows(bk.closings, c)
         /\ OwnPart(bk, c).proposals = OwnRows(bk.proposals, c)
         /\ OwnPart(bk, c).stock = OwnRows(bk.stock, c)
         /\ OwnPart(bk, c).rules = OwnRows(bk.rules, c)
         /\ OwnPart(bk, c).flagged = bk.flagged
<1> USE DEF WellKept, Tables, OwnPart, OwnRows
<1>1. OwnPart(bk, c).vouchers = OwnRows(bk.vouchers, c)
  OBVIOUS
<1>2. OwnPart(bk, c).lines = OwnRows(bk.lines, c)
  OBVIOUS
<1>3. OwnPart(bk, c).settled = OwnRows(bk.settled, c)
  OBVIOUS
<1>4. OwnPart(bk, c).closings = OwnRows(bk.closings, c)
  OBVIOUS
<1>5. OwnPart(bk, c).proposals = OwnRows(bk.proposals, c)
  OBVIOUS
<1>6. OwnPart(bk, c).stock = OwnRows(bk.stock, c)
  OBVIOUS
<1>7. OwnPart(bk, c).rules = OwnRows(bk.rules, c)
  OBVIOUS
<1>8. OwnPart(bk, c).flagged = bk.flagged
  OBVIOUS
<1> QED  BY <1>1, <1>2, <1>3, <1>4, <1>5, <1>6, <1>7, <1>8

LEMMA OwnRowsOf ==
  ASSUME NEW bk, WellKept(bk), NEW c, NEW from, NEW to, NEW accounts
  PROVE  RowsOf(OwnPart(bk, c), c, from, to, accounts) = RowsOf(bk, c, from, to, accounts)
<1>1. {v \in OwnRows(bk.vouchers, c) : v.company = c /\ v.month \in from..to}
        = {v \in bk.vouchers : v.company = c /\ v.month \in from..to}
  BY DEF OwnRows
<1> QED  BY <1>1, OwnTables DEF RowsOf

LEMMA OwnBalanceOf ==
  ASSUME NEW bk, WellKept(bk), NEW c, NEW account, NEW day
  PROVE  BalanceOf(OwnPart(bk, c), c, account, day) = BalanceOf(bk, c, account, day)
<1>1. {v \in OwnRows(bk.vouchers, c) : v.company = c /\ Upto(v, day)}
        = {v \in bk.vouchers : v.company = c /\ Upto(v, day)}
  BY DEF OwnRows
<1> QED  BY <1>1, OwnTables DEF BalanceOf

LEMMA OwnWaits ==
  ASSUME NEW bk, WellKept(bk), NEW c
  PROVE  /\ Unmatched(OwnPart(bk, c), c) = Unmatched(bk, c)
         /\ Waiting(OwnPart(bk, c), c) = Waiting(bk, c)
         /\ UnclearedRules(OwnPart(bk, c), c) = UnclearedRules(bk, c)
         /\ PendingCounts(OwnPart(bk, c), c) = PendingCounts(bk, c)
<1>1. Unmatched(OwnPart(bk, c), c) = Unmatched(bk, c)
  BY OwnTables DEF Unmatched, OwnRows
<1>2. Waiting(OwnPart(bk, c), c) = Waiting(bk, c)
  BY OwnTables DEF Waiting, OwnRows
<1>3. UnclearedRules(OwnPart(bk, c), c) = UnclearedRules(bk, c)
  BY OwnTables DEF UnclearedRules, OwnRows
<1> QED  BY <1>1, <1>2, <1>3 DEF PendingCounts

LEMMA OwnMonth ==
  ASSUME NEW bk, WellKept(bk), NEW c, NEW month
  PROVE  /\ MonthTotals(OwnPart(bk, c), c, month) = MonthTotals(bk, c, month)
         /\ MonthWithDelta(OwnPart(bk, c), c, month) = MonthWithDelta(bk, c, month)
         /\ RevenueTrend(OwnPart(bk, c), c, month) = RevenueTrend(bk, c, month)
<1>1. \A m : MonthTotals(OwnPart(bk, c), c, m) = MonthTotals(bk, c, m)
  BY OwnRowsOf DEF MonthTotals
<1>2. MonthWithDelta(OwnPart(bk, c), c, month) = MonthWithDelta(bk, c, month)
  BY <1>1 DEF MonthWithDelta
<1>3. RevenueTrend(OwnPart(bk, c), c, month) = RevenueTrend(bk, c, month)
  BY <1>1 DEF RevenueTrend
<1> QED  BY <1>1, <1>2, <1>3

LEMMA OwnTop ==
  ASSUME NEW bk, WellKept(bk), NEW c, NEW month, NEW limit
  PROVE  TopExpenses(OwnPart(bk, c), c, month, limit) = TopExpenses(bk, c, month, limit)
<1>1. [a \in OfRootType(c, "Expense") |-> NetDebit(RowsOf(OwnPart(bk, c), c, month, month, {a}))]
        = [a \in OfRootType(c, "Expense") |-> NetDebit(RowsOf(bk, c, month, month, {a}))]
  BY OwnRowsOf
<1> QED  BY <1>1, Zenon DEF TopExpenses

LEMMA OwnVouchers ==
  ASSUME NEW bk, WellKept(bk), NEW c, NEW month, NEW limit
  PROVE  RecentVouchers(OwnPart(bk, c), c, month, limit) = RecentVouchers(bk, c, month, limit)
<1>1. RowsOf(OwnPart(bk, c), c, month, month, Accounts) = RowsOf(bk, c, month, month, Accounts)
  BY OwnRowsOf
<1> QED  BY <1>1 DEF RecentVouchers

LEMMA OwnStock ==
  ASSUME NEW bk, WellKept(bk), NEW c, NEW limit
  PROVE  Inventory(OwnPart(bk, c), c, limit) = Inventory(bk, c, limit)
<1>1. {e \in OwnPart(bk, c).stock : e.company = c} = {e \in bk.stock : e.company = c}
  BY OwnTables DEF OwnRows
<1> QED  BY <1>1, Zenon DEF Inventory

LEMMA OwnBank ==
  ASSUME NEW bk, WellKept(bk), NEW c \in Companies, NEW day
  PROVE  BankSummary(OwnPart(bk, c), c, day) = BankSummary(bk, c, day)
<1>1. ASSUME NEW bank \in Banks[c]
      PROVE  BankStatus(OwnPart(bk, c), c, bank, day) = BankStatus(bk, c, bank, day)
  <2>1. BankLines(OwnPart(bk, c), bank) = BankLines(bk, bank)
    <3>1. OwnRows(bk.lines, c) \cup OwnRows(bk.settled, c) \subseteq bk.lines \cup bk.settled
      BY DEF OwnRows
    <3>2. \A l \in bk.lines \cup bk.settled :
            l.bank = bank => l \in OwnRows(bk.lines, c) \cup OwnRows(bk.settled, c)
      BY DEF WellKept, OwnRows
    <3> QED  BY <3>1, <3>2, OwnTables DEF BankLines
  <2>2. LatestClosing(OwnPart(bk, c), c, bank) = LatestClosing(bk, c, bank)
    <3>1. {s \in OwnPart(bk, c).closings : s.company = c /\ s.bank = bank}
            = {s \in bk.closings : s.company = c /\ s.bank = bank}
      BY OwnTables DEF OwnRows
    <3> QED  BY <3>1 DEF LatestClosing
  <2>3. \A account, on : BalanceOf(OwnPart(bk, c), c, account, on) = BalanceOf(bk, c, account, on)
    BY OwnBalanceOf
  <2> QED  BY <2>1, <2>2, <2>3 DEF BankStatus
<1> QED  BY <1>1 DEF BankSummary

LEMMA OwnPage ==
  ASSUME NEW bk, WellKept(bk), NEW c \in Companies, NEW month, NEW day
  PROVE  Page(OwnPart(bk, c), c, month, day) = Page(bk, c, month, day)
BY OwnMonth, OwnTop, OwnVouchers, OwnWaits, OwnBank, OwnStock DEF Page

LEMMA OwnTrialBalance ==
  ASSUME NEW bk, WellKept(bk), NEW c, NEW month
  PROVE  TrialBalance(OwnPart(bk, c), c, month) = TrialBalance(bk, c, month)
<1>1. RowsOf(OwnPart(bk, c), c, month, month, Accounts) = RowsOf(bk, c, month, month, Accounts)
  BY OwnRowsOf
<1> QED  BY <1>1 DEF TrialBalance

LEMMA OwnVat ==
  ASSUME NEW bk, WellKept(bk), NEW c, NEW month
  PROVE  VatSummary(OwnPart(bk, c), c, month) = VatSummary(bk, c, month)
<1>1. \A accounts : RowsOf(OwnPart(bk, c), c, month, month, accounts)
                      = RowsOf(bk, c, month, month, accounts)
  BY OwnRowsOf
<1> QED  BY <1>1 DEF VatSummary

LEMMA OwnEligibility ==
  ASSUME NEW bk, WellKept(bk), NEW c, NEW month
  PROVE  Eligibility(OwnPart(bk, c), c, month) = Eligibility(bk, c, month)
BY OwnRowsOf DEF Eligibility

LEMMA OwnQuarter ==
  ASSUME NEW bk, WellKept(bk), NEW c, NEW month
  PROVE  SimplifiedSummary(OwnPart(bk, c), c, month) = SimplifiedSummary(bk, c, month)
BY OwnRowsOf, OwnEligibility DEF SimplifiedSummary

LEMMA OwnChecklist ==
  ASSUME NEW bk, WellKept(bk), NEW c, NEW month
  PROVE  Checklist(OwnPart(bk, c), c, month) = Checklist(bk, c, month)
<1>1. Dated(OwnPart(bk, c), c, month) = Dated(bk, c, month)
  BY OwnTables DEF Dated, OwnRows
<1> QED  BY <1>1, OwnWaits, OwnTables, Zenon DEF Checklist

LEMMA OwnClose ==
  ASSUME NEW bk, WellKept(bk), NEW c, NEW month
  PROVE  CloseCard(OwnPart(bk, c), c, month) = CloseCard(bk, c, month)
BY OwnChecklist, OwnTrialBalance, OwnVat, OwnQuarter DEF CloseCard

LEMMA OwnSignals ==
  ASSUME NEW bk, WellKept(bk), NEW c, NEW day
  PROVE  Signals(OwnPart(bk, c), c, day) = Signals(bk, c, day)
<1>1. CashSignal(OwnPart(bk, c), c, day) = CashSignal(bk, c, day)
  BY OwnBalanceOf, Zenon DEF CashSignal, CashBalance
<1>2. ThresholdSignal(OwnPart(bk, c), c, day) = ThresholdSignal(bk, c, day)
  <2>1. \A months : [m \in months |-> MonthTotals(OwnPart(bk, c), c, m).revenue]
                      = [m \in months |-> MonthTotals(bk, c, m).revenue]
    BY OwnMonth
  <2> QED  BY <2>1, OwnEligibility, Zenon DEF ThresholdSignal
<1>3. UnmatchedSignal(OwnPart(bk, c), c, day) = UnmatchedSignal(bk, c, day)
  BY OwnWaits, Zenon DEF UnmatchedSignal
<1>4. ProposalsSignal(OwnPart(bk, c), c, day) = ProposalsSignal(bk, c, day)
  BY OwnWaits, Zenon DEF ProposalsSignal
<1>5. RulesSignal(OwnPart(bk, c), c) = RulesSignal(bk, c)
  BY OwnWaits, Zenon DEF RulesSignal
<1>6. \A month : Spent(OwnPart(bk, c), c, month) = Spent(bk, c, month)
  BY OwnTop, OwnRowsOf DEF Spent
<1>7. ExpenseSignals(OwnPart(bk, c), c, day.month) = ExpenseSignals(bk, c, day.month)
  BY <1>6 DEF ExpenseSignals
<1>8. RevenueSignal(OwnPart(bk, c), c, day) = RevenueSignal(bk, c, day)
  BY OwnMonth DEF RevenueSignal
<1>9. RecurringSignals(OwnPart(bk, c), c, day) = RecurringSignals(bk, c, day)
  <2>1. {v \in OwnPart(bk, c).vouchers :
           v.company = c /\ v.type = "invoice" /\ Upto(v, day)}
          = {v \in bk.vouchers : v.company = c /\ v.type = "invoice" /\ Upto(v, day)}
    BY OwnTables DEF OwnRows
  <2> QED  BY <2>1 DEF RecurringSignals
<1>10. MonthEndSignal(OwnPart(bk, c), c, day) = MonthEndSignal(bk, c, day)
  BY OwnWaits, Zenon DEF MonthEndSignal
<1> QED  BY <1>1, <1>2, <1>3, <1>4, <1>5, <1>7, <1>8, <1>9, <1>10 DEF Signals

LEMMA BooksAreWellKept == NotesSpec => []WellKept(ledgers)
<1>1. NotesInit => WellKept(ledgers)
  BY NotesAssumption DEF NotesInit, WellKept, Tables
<1>2. WellKept(ledgers) /\ [NotesNext]_notesVars => WellKept(ledgers)'
  <2> SUFFICES ASSUME WellKept(ledgers), [NotesNext]_notesVars PROVE WellKept(ledgers')
    OBVIOUS
  <2>1. ASSUME NEW v \in VouchersToCome, PostVoucher(v) PROVE WellKept(ledgers')
    BY <2>1 DEF PostVoucher, WellKept, Tables
  <2>2. ASSUME NEW line \in ledgers.lines, Settle(line) PROVE WellKept(ledgers')
    <3> DEFINE paid == [line EXCEPT !.left = 0]
    <3>1. /\ {"company", "bank"} \subseteq DOMAIN line
          /\ \A c \in Companies : line.bank \in Banks[c] => line.company = c
      BY <2>2 DEF WellKept
    <3>2. DOMAIN paid = DOMAIN line /\ paid.company = line.company /\ paid.bank = line.bank
      BY <3>1
    <3>3. /\ DOMAIN ledgers' = Tables
          /\ ledgers'.lines = ledgers.lines \ {line}
          /\ ledgers'.settled = ledgers.settled \cup {paid}
      BY <2>2 DEF Settle, WellKept, Tables
    <3> HIDE DEF paid
    <3> QED  BY <3>1, <3>2, <3>3 DEF WellKept
  <2>3. ASSUME NEW p \in ledgers.proposals, Decide(p) PROVE WellKept(ledgers')
    BY <2>3 DEF Decide, WellKept, Tables
  <2>4. CASE ledgers' = ledgers
    BY <2>4
  <2> QED  BY <2>1, <2>2, <2>3, <2>4
           DEF NotesNext, notesVars, NextDay, OpenHome, BeginPass, Skip, Send, SendFails,
               EndPass, PassDies
<1> QED  BY <1>1, <1>2, PTL DEF NotesSpec

(* No page, no card of /close and no signal of a company shows anything of *)
(* another's books, whatever is in them and for whichever month and day it *)
(* is drawn (the suppliers that a checklist counts are shared).            *)
THEOREM NobodyReadsAnothersBooks ==
  NotesSpec => [](\A c \in Companies : \A m, day : OwnOnly(c, m, day))
<1>1. WellKept(ledgers) => \A c \in Companies : \A m, day : OwnOnly(c, m, day)
  BY OwnPage, OwnClose, OwnSignals DEF OwnOnly, OwnBooks
<1> QED  BY <1>1, BooksAreWellKept, PTL

-----------------------------------------------------------------------------
(* The reports add up.  Each of their figures is a total over rows: what   *)
(* some vouchers moved on some accounts.                                   *)
DebitOf(r) == IF Amount(r) > 0 THEN Amount(r) ELSE 0
CreditOf(r) == IF Amount(r) < 0 THEN -Amount(r) ELSE 0

Amounts(rows) == [r \in rows |-> Amount(r)]
Debited(rows) == [r \in rows |-> DebitOf(r)]
Credited(rows) == [r \in rows |-> CreditOf(r)]

LEMMA NetDebitIs == \A rows : NetDebit(rows) = Total(Amounts(rows), rows)
<1> TAKE rows
<1>1. \A g : IsFold(g, Amounts(rows), rows) <=>
        g = [s \in SUBSET rows |-> IF s = {} THEN 0
                ELSE Amount(CHOOSE x \in s : TRUE) + g[s \ {CHOOSE x \in s : TRUE}]]
  <2> SUFFICES ASSUME NEW g PROVE IsFold(g, Amounts(rows), rows) <=>
        g = [s \in SUBSET rows |-> IF s = {} THEN 0
                ELSE Amount(CHOOSE x \in s : TRUE) + g[s \ {CHOOSE x \in s : TRUE}]]
    OBVIOUS
  <2>1. \A s \in SUBSET rows : s # {} => Amounts(rows)[Pick(s)] = Amount(Pick(s))
    BY DEF Amounts, Pick
  <2> QED BY <2>1 DEF IsFold, Pick
<1>2. NetDebit(rows) = (CHOOSE g : g = [s \in SUBSET rows |-> IF s = {} THEN 0
                ELSE Amount(CHOOSE x \in s : TRUE) + g[s \ {CHOOSE x \in s : TRUE}]])[rows]
  BY DEF NetDebit, Plus, MapThenSumSet, MapThenFoldSet
<1> QED BY <1>1, <1>2 DEF Total

LEMMA DebitsIs == \A rows : Debits(rows) = Total(Debited(rows), rows)
<1> TAKE rows
<1>1. \A g : IsFold(g, Debited(rows), rows) <=>
        g = [s \in SUBSET rows |-> IF s = {} THEN 0
                ELSE DebitOf(CHOOSE x \in s : TRUE) + g[s \ {CHOOSE x \in s : TRUE}]]
  <2> SUFFICES ASSUME NEW g PROVE IsFold(g, Debited(rows), rows) <=>
        g = [s \in SUBSET rows |-> IF s = {} THEN 0
                ELSE DebitOf(CHOOSE x \in s : TRUE) + g[s \ {CHOOSE x \in s : TRUE}]]
    OBVIOUS
  <2>1. \A s \in SUBSET rows : s # {} => Debited(rows)[Pick(s)] = DebitOf(Pick(s))
    BY DEF Debited, Pick
  <2> QED BY <2>1 DEF IsFold, Pick
<1>2. Debits(rows) = (CHOOSE g : g = [s \in SUBSET rows |-> IF s = {} THEN 0
                ELSE DebitOf(CHOOSE x \in s : TRUE) + g[s \ {CHOOSE x \in s : TRUE}]])[rows]
  BY DEF Debits, Plus, MapThenSumSet, MapThenFoldSet, DebitOf
<1> QED BY <1>1, <1>2 DEF Total

LEMMA CreditsIs == \A rows : Credits(rows) = Total(Credited(rows), rows)
<1> TAKE rows
<1>1. \A g : IsFold(g, Credited(rows), rows) <=>
        g = [s \in SUBSET rows |-> IF s = {} THEN 0
                ELSE CreditOf(CHOOSE x \in s : TRUE) + g[s \ {CHOOSE x \in s : TRUE}]]
  <2> SUFFICES ASSUME NEW g PROVE IsFold(g, Credited(rows), rows) <=>
        g = [s \in SUBSET rows |-> IF s = {} THEN 0
                ELSE CreditOf(CHOOSE x \in s : TRUE) + g[s \ {CHOOSE x \in s : TRUE}]]
    OBVIOUS
  <2>1. \A s \in SUBSET rows : s # {} => Credited(rows)[Pick(s)] = CreditOf(Pick(s))
    BY DEF Credited, Pick
  <2> QED BY <2>1 DEF IsFold, Pick
<1>2. Credits(rows) = (CHOOSE g : g = [s \in SUBSET rows |-> IF s = {} THEN 0
                ELSE CreditOf(CHOOSE x \in s : TRUE) + g[s \ {CHOOSE x \in s : TRUE}]])[rows]
  BY DEF Credits, Plus, MapThenSumSet, MapThenFoldSet, CreditOf
<1> QED BY <1>1, <1>2 DEF Total

(* A sum written over any function is its total.                           *)
LEMMA PlusIs == \A S, f : Plus(S, LAMBDA x : f[x]) = Total(f, S)
<1> TAKE S, f
<1>1. \A g : IsFold(g, f, S) <=>
        g = [s \in SUBSET S |-> IF s = {} THEN 0
                ELSE f[CHOOSE x \in s : TRUE] + g[s \ {CHOOSE x \in s : TRUE}]]
  BY DEF IsFold, Pick
<1>2. Plus(S, LAMBDA x : f[x]) = (CHOOSE g : g = [s \in SUBSET S |-> IF s = {} THEN 0
                ELSE f[CHOOSE x \in s : TRUE] + g[s \ {CHOOSE x \in s : TRUE}]])[S]
  BY DEF Plus, MapThenSumSet, MapThenFoldSet
<1> QED BY <1>1, <1>2 DEF Total

LEMMA SumOfIs == \A f : SumOf(f) = Total(f, DOMAIN f)
<1> TAKE f
<1>1. SumOf(f) = Plus(DOMAIN f, LAMBDA x : f[x])
  BY DEF SumOf
<1> QED BY <1>1, PlusIs

(* Vouchers whose movements can be summed.                                 *)
Posted(W) == IsFiniteSet(W) /\ \A v \in W : v.moves \in [Accounts -> Int]

LEMMA RowsAre ==
  ASSUME NEW W, NEW A
  PROVE  \A r : r \in Moved(W, A) <=>
           r \in [voucher : W, account : A] /\ Amount(r) # 0
BY DEF Moved, Amount

LEMMA RowsAreFinite ==
  ASSUME NEW W, Posted(W), NEW A \in SUBSET Accounts
  PROVE  /\ IsFiniteSet(Moved(W, A))
         /\ \A r \in Moved(W, A) : r.voucher \in W /\ r.account \in A /\ Amount(r) \in Int
<1>1. IsFiniteSet(W) /\ IsFiniteSet(A)
  BY DoubleEntryAssumption, FS_Subset DEF Posted
<1>2. PICK P : P = W \X A
  OBVIOUS
<1>3. IsFiniteSet(P)
  BY <1>1, <1>2, FS_Product
<1>4. PICK n : n = [p \in P |-> [voucher |-> p[1], account |-> p[2]]]
  OBVIOUS
<1>5. PICK I : I = {n[p] : p \in P}
  OBVIOUS
<1>6. IsFiniteSet(I)
  BY <1>3, <1>5, FiniteImage
<1>7. ASSUME NEW r \in Moved(W, A)
      PROVE  r \in I /\ r.voucher \in W /\ r.account \in A /\ Amount(r) \in Int
  <2>1. r \in [voucher : W, account : A]
    BY RowsAre
  <2>2. r.voucher \in W /\ r.account \in A /\ r = [voucher |-> r.voucher, account |-> r.account]
    BY <2>1
  <2>3. <<r.voucher, r.account>> \in P
    BY <1>2, <2>2
  <2>4. n[<<r.voucher, r.account>>] = r
    BY <1>4, <2>2, <2>3
  <2>5. r \in I
    BY <1>5, <2>3, <2>4
  <2>6. Amount(r) \in Int
    BY <2>2 DEF Posted, Amount
  <2> QED BY <2>2, <2>5, <2>6
<1>8. Moved(W, A) \subseteq I
  BY <1>7
<1> QED BY <1>6, <1>7, <1>8, FS_Subset

(* What one reads off some of the rows, as totals of one function.         *)
LEMMA PartsOfRows ==
  ASSUME NEW rows, IsFiniteSet(rows), NEW some \in SUBSET rows
  PROVE  /\ NetDebit(some) = Total(Amounts(rows), some)
         /\ Debits(some) = Total(Debited(rows), some)
         /\ Credits(some) = Total(Credited(rows), some)
<1>1. IsFiniteSet(some)
  BY FS_Subset
<1>2. Total(Amounts(some), some) = Total(Amounts(rows), some)
  BY <1>1, TotalAgrees DEF Amounts
<1>3. Total(Debited(some), some) = Total(Debited(rows), some)
  BY <1>1, TotalAgrees DEF Debited
<1>4. Total(Credited(some), some) = Total(Credited(rows), some)
  BY <1>1, TotalAgrees DEF Credited
<1> QED BY <1>2, <1>3, <1>4, NetDebitIs, DebitsIs, CreditsIs

LEMMA NetSplits ==
  ASSUME NEW rows, IsFiniteSet(rows), \A r \in rows : Amount(r) \in Int, NEW some \in SUBSET rows
  PROVE  /\ NetDebit(rows) = NetDebit(some) + NetDebit(rows \ some)
         /\ NetDebit(some) \in Int
         /\ NetDebit(rows) = Debits(rows) - Credits(rows)
         /\ Debits(rows) \in Int /\ Credits(rows) \in Int
<1>1. \A r \in rows : Amounts(rows)[r] \in Int
  BY DEF Amounts
<1>2. Total(Amounts(rows), rows) = Total(Amounts(rows), some) + Total(Amounts(rows), rows \ some)
  BY <1>1, TotalSplit
<1>3. /\ NetDebit(rows) = Total(Amounts(rows), rows)
      /\ NetDebit(some) = Total(Amounts(rows), some)
      /\ NetDebit(rows \ some) = Total(Amounts(rows), rows \ some)
      /\ Debits(rows) = Total(Debited(rows), rows)
      /\ Credits(rows) = Total(Credited(rows), rows)
  <2>1. some \in SUBSET rows /\ rows \ some \in SUBSET rows /\ rows \in SUBSET rows
    OBVIOUS
  <2> QED BY <2>1, PartsOfRows
<1>4. \A r \in rows : /\ Amounts(rows)[r] \in Int /\ Credited(rows)[r] \in Int
                      /\ Debited(rows)[r] \in Int
                      /\ Debited(rows)[r] = Amounts(rows)[r] + Credited(rows)[r]
  BY DEF Amounts, Debited, Credited, DebitOf, CreditOf
<1>5. Total(Debited(rows), rows) = Total(Amounts(rows), rows) + Total(Credited(rows), rows)
  BY <1>4, TotalPlus
<1>6. IsFiniteSet(some)
  BY FS_Subset
<1>7. Total(Amounts(rows), some) \in Int
  BY <1>1, <1>6, TotalType
<1>8. /\ Total(Amounts(rows), rows) \in Int /\ Total(Debited(rows), rows) \in Int
      /\ Total(Credited(rows), rows) \in Int
  BY <1>4, TotalType
<1>9. NetDebit(rows) = Debits(rows) - Credits(rows)
  BY <1>3, <1>5, <1>8
<1> QED BY <1>2, <1>3, <1>7, <1>8, <1>9

-----------------------------------------------------------------------------
(* A total over vouchers and accounts.                                     *)
Net(W, A) == NetDebit(Moved(W, A))

LEMMA NetType ==
  ASSUME NEW W, Posted(W), NEW A \in SUBSET Accounts
  PROVE  /\ Net(W, A) \in Int
         /\ Net(W, A) = Debits(Moved(W, A)) - Credits(Moved(W, A))
         /\ Debits(Moved(W, A)) \in Int /\ Credits(Moved(W, A)) \in Int
<1>1. PICK rows : rows = Moved(W, A)
  OBVIOUS
<1>2. IsFiniteSet(rows) /\ \A r \in rows : Amount(r) \in Int
  BY <1>1, RowsAreFinite
<1>3. rows \in SUBSET rows
  OBVIOUS
<1>4. /\ NetDebit(rows) \in Int /\ NetDebit(rows) = Debits(rows) - Credits(rows)
      /\ Debits(rows) \in Int /\ Credits(rows) \in Int
  BY <1>2, <1>3, NetSplits
<1> QED BY <1>1, <1>4 DEF Net

LEMMA NetOfAccounts ==
  ASSUME NEW W, Posted(W), NEW A \in SUBSET Accounts, NEW B \in SUBSET A
  PROVE  Net(W, A) = Net(W, B) + Net(W, A \ B)
<1>1. PICK rows : rows = Moved(W, A)
  OBVIOUS
<1>2. PICK some : some = Moved(W, B)
  OBVIOUS
<1>3. some \in SUBSET rows /\ rows \ some = Moved(W, A \ B)
  <2>1. \A r : r \in some => r \in rows
    BY <1>1, <1>2 DEF Moved
  <2>2. \A r : r \in rows \ some <=> r \in Moved(W, A \ B)
    BY <1>1, <1>2 DEF Moved
  <2> QED BY <2>1, <2>2
<1>4. IsFiniteSet(rows) /\ \A r \in rows : Amount(r) \in Int
  BY <1>1, RowsAreFinite
<1>5. NetDebit(rows) = NetDebit(some) + NetDebit(rows \ some)
  BY <1>3, <1>4, NetSplits
<1> QED BY <1>1, <1>2, <1>3, <1>5 DEF Net

LEMMA NetOfVouchers ==
  ASSUME NEW W, Posted(W), NEW V \in SUBSET W, NEW A \in SUBSET Accounts
  PROVE  Net(W, A) = Net(V, A) + Net(W \ V, A)
<1>1. PICK rows : rows = Moved(W, A)
  OBVIOUS
<1>2. PICK some : some = Moved(V, A)
  OBVIOUS
<1>3. some \in SUBSET rows /\ rows \ some = Moved(W \ V, A)
  <2>1. \A r : r \in some => r \in rows
    BY <1>1, <1>2 DEF Moved
  <2>2. \A r : r \in rows \ some <=> r \in Moved(W \ V, A)
    BY <1>1, <1>2 DEF Moved
  <2> QED BY <2>1, <2>2
<1>4. IsFiniteSet(rows) /\ \A r \in rows : Amount(r) \in Int
  BY <1>1, RowsAreFinite
<1>5. NetDebit(rows) = NetDebit(some) + NetDebit(rows \ some)
  BY <1>3, <1>4, NetSplits
<1> QED BY <1>1, <1>2, <1>3, <1>5 DEF Net

LEMMA NetByAccount ==
  ASSUME NEW W, Posted(W), NEW A \in SUBSET Accounts, NEW part,
         \A a \in A : part[a] = Net(W, {a})
  PROVE  Net(W, A) = Total(part, A)
<1>1. PICK rows : rows = Moved(W, A)
  OBVIOUS
<1>2. IsFiniteSet(rows) /\ \A r \in rows : Amount(r) \in Int /\ r.account \in A
  BY <1>1, RowsAreFinite
<1>3. PICK key : key = [r \in rows |-> r.account]
  OBVIOUS
<1>4. \A r \in rows : Amounts(rows)[r] \in Int /\ key[r] \in A
  BY <1>2, <1>3 DEF Amounts
<1>5. \A a \in A : part[a] = Total(Amounts(rows), {r \in rows : key[r] = a})
  <2> SUFFICES ASSUME NEW a \in A PROVE part[a] = Total(Amounts(rows), {r \in rows : key[r] = a})
    OBVIOUS
  <2>1. PICK some : some = Moved(W, {a})
    OBVIOUS
  <2>2. \A r : r \in some <=> r \in rows /\ key[r] = a
    BY <1>1, <1>3, <2>1 DEF Moved
  <2>3. some = {r \in rows : key[r] = a} /\ some \in SUBSET rows
    BY <2>2
  <2>4. NetDebit(some) = Total(Amounts(rows), some)
    BY <1>2, <2>3, PartsOfRows
  <2>5. part[a] = NetDebit(some)
    BY <2>1 DEF Net
  <2> QED BY <2>3, <2>4, <2>5
<1>6. IsFiniteSet(A)
  BY DoubleEntryAssumption, FS_Subset
<1>7. Total(Amounts(rows), rows) = Total(part, A)
  <2>1. PICK f : f = Amounts(rows)
    OBVIOUS
  <2>2. \A r \in rows : f[r] \in Int /\ key[r] \in A
    BY <1>4, <2>1
  <2>3. SumsOfParts(part, f, rows, key, A)
    BY <1>5, <2>1 DEF SumsOfParts
  <2>4. IsFiniteSet(rows)
    BY <1>2
  <2>5. Total(f, rows) = Total(part, A)
    BY <1>6, <2>2, <2>3, <2>4, TotalParts
  <2> QED BY <2>1, <2>5
<1> QED BY <1>1, <1>7, NetDebitIs DEF Net

(* Vouchers sorted by some key: one by one, or month by month.             *)
NetsOfKeys(part, W, of, A, K) == \A k \in K : part[k] = Net({v \in W : of[v] = k}, A)

LEMMA NetByKey ==
  ASSUME NEW W, Posted(W), NEW A \in SUBSET Accounts, NEW K, IsFiniteSet(K), NEW of, NEW part,
         \A v \in W : of[v] \in K, NetsOfKeys(part, W, of, A, K)
  PROVE  Net(W, A) = Total(part, K)
<1>1. PICK rows : rows = Moved(W, A)
  OBVIOUS
<1>2. IsFiniteSet(rows) /\ \A r \in rows : Amount(r) \in Int /\ r.voucher \in W
  BY <1>1, RowsAreFinite
<1>3. PICK key : key = [r \in rows |-> of[r.voucher]]
  OBVIOUS
<1>4. \A r \in rows : Amounts(rows)[r] \in Int /\ key[r] \in K
  BY <1>2, <1>3 DEF Amounts
<1>5. \A k \in K : part[k] = Total(Amounts(rows), {r \in rows : key[r] = k})
  <2> SUFFICES ASSUME NEW k \in K PROVE part[k] = Total(Amounts(rows), {r \in rows : key[r] = k})
    OBVIOUS
  <2>1. PICK V : V = {v \in W : of[v] = k}
    OBVIOUS
  <2>2. PICK some : some = Moved(V, A)
    OBVIOUS
  <2>3. \A r : r \in some <=> r \in rows /\ key[r] = k
    BY <1>1, <1>3, <2>1, <2>2 DEF Moved
  <2>4. some = {r \in rows : key[r] = k} /\ some \in SUBSET rows
    BY <2>3
  <2>5. NetDebit(some) = Total(Amounts(rows), some)
    BY <1>2, <2>4, PartsOfRows
  <2>6. part[k] = NetDebit(some)
    BY <2>1, <2>2 DEF Net, NetsOfKeys
  <2> QED BY <2>4, <2>5, <2>6
<1>6. Total(Amounts(rows), rows) = Total(part, K)
  <2>1. PICK f : f = Amounts(rows)
    OBVIOUS
  <2>2. \A r \in rows : f[r] \in Int /\ key[r] \in K
    BY <1>4, <2>1
  <2>3. SumsOfParts(part, f, rows, key, K)
    BY <1>5, <2>1 DEF SumsOfParts
  <2>4. IsFiniteSet(rows)
    BY <1>2
  <2>5. Total(f, rows) = Total(part, K)
    BY <2>2, <2>3, <2>4, TotalParts
  <2> QED BY <2>1, <2>5
<1> QED BY <1>1, <1>6, NetDebitIs DEF Net

(* A voucher on its own: what it moves is what it says.                    *)
LEMMA NetOfOne ==
  ASSUME NEW v, v.moves \in [Accounts -> Int]
  PROVE  Net({v}, Accounts) = Total(v.moves, Accounts)
<1>1. PICK f : f = v.moves
  OBVIOUS
<1>2. PICK S : S = {a \in Accounts : f[a] # 0}
  OBVIOUS
<1>3. PICK rows : rows = Moved({v}, Accounts)
  OBVIOUS
<1>4. PICK n : n = [a \in S |-> [voucher |-> v, account |-> a]]
  OBVIOUS
<1>5. rows = {n[a] : a \in S}
  <2>1. ASSUME NEW r \in rows PROVE r \in {n[a] : a \in S}
    <3>1. r \in [voucher : {v}, account : Accounts] /\ f[r.account] # 0
      BY <1>1, <1>3 DEF Moved
    <3>2. r = [voucher |-> v, account |-> r.account] /\ r.account \in S
      BY <1>2, <3>1
    <3>3. r = n[r.account]
      BY <1>4, <3>2
    <3> QED BY <3>2, <3>3
  <2>2. ASSUME NEW a \in S PROVE n[a] \in rows
    <3>1. PICK r : r = [voucher |-> v, account |-> a]
      OBVIOUS
    <3>2. n[a] = r
      BY <1>4, <3>1
    <3>3. a \in Accounts /\ f[a] # 0
      BY <1>2
    <3>4. r \in [voucher : {v}, account : Accounts] /\ r.voucher.moves[r.account] # 0
      BY <1>1, <3>1, <3>3
    <3>5. r \in rows
      BY <1>3, <3>4 DEF Moved
    <3> QED BY <3>2, <3>5
  <2> QED BY <2>1, <2>2
<1>6. IsFiniteSet(S) /\ S \subseteq Accounts /\ IsFiniteSet(Accounts)
  BY <1>2, DoubleEntryAssumption, FS_Subset
<1>7. \A a \in S : f[a] \in Int /\ Amounts(rows)[n[a]] = f[a]
  <2> SUFFICES ASSUME NEW a \in S PROVE f[a] \in Int /\ Amounts(rows)[n[a]] = f[a]
    OBVIOUS
  <2>1. n[a] \in rows /\ a \in Accounts
    BY <1>5, <1>6
  <2>2. n[a].voucher = v /\ n[a].account = a
    BY <1>4
  <2>3. Amount(n[a]) = f[a]
    BY <1>1, <2>2 DEF Amount
  <2> QED BY <1>1, <2>1, <2>3 DEF Amounts
<1>8. \A a, b \in S : n[a] = n[b] => a = b
  <2>1. \A a \in S : n[a].account = a
    BY <1>4
  <2> QED BY <2>1
<1>9. Total(Amounts(rows), {n[a] : a \in S}) = Total(f, S)
  BY <1>6, <1>7, <1>8, TotalRenamed
<1>10. Total(f, Accounts) = Total(f, S) + Total(f, Accounts \ S)
  <2>1. \A a \in Accounts : f[a] \in Int
    BY <1>1
  <2> QED BY <1>6, <2>1, TotalSplit
<1>11. Total(f, Accounts \ S) = 0
  <2>1. IsFiniteSet(Accounts \ S) /\ \A a \in Accounts \ S : f[a] = 0
    BY <1>2, <1>6, FS_Subset
  <2> QED BY <2>1, TotalZero
<1>12. Total(f, S) \in Int
  BY <1>6, <1>7, TotalType
<1>13. Total(f, Accounts) = Total(f, S)
  BY <1>10, <1>11, <1>12
<1>14. Net({v}, Accounts) = Total(Amounts(rows), rows)
  BY <1>3, NetDebitIs DEF Net
<1> QED BY <1>1, <1>5, <1>9, <1>13, <1>14

(* Vouchers that balance each, balance together.                           *)
LEMMA NetBalances ==
  ASSUME NEW W, IsFiniteSet(W), \A v \in W : DoubleEntry(v)
  PROVE  Posted(W) /\ Net(W, Accounts) = 0
<1>1. Posted(W)
  BY DEF DoubleEntry, Posted
<1>2. PICK of : of = [v \in W |-> v]
  OBVIOUS
<1>3. PICK part : part = [v \in W |-> 0]
  OBVIOUS
<1>4. ASSUME NEW v \in W PROVE part[v] = Net({w \in W : of[w] = v}, Accounts)
  <2>1. {w \in W : of[w] = v} = {v}
    BY <1>2
  <2>2. v.moves \in [Accounts -> Int] /\ Plus(Accounts, LAMBDA a : v.moves[a]) = 0
    BY DEF DoubleEntry
  <2>3. PICK f : f = v.moves
    OBVIOUS
  <2>4. Plus(Accounts, LAMBDA a : f[a]) = Total(f, Accounts)
    BY PlusIs
  <2>5. Total(v.moves, Accounts) = 0
    BY <2>2, <2>3, <2>4
  <2>6. Net({v}, Accounts) = 0
    BY <2>2, <2>5, NetOfOne
  <2> QED BY <1>3, <2>1, <2>6
<1>5. (\A v \in W : of[v] \in W) /\ Accounts \in SUBSET Accounts
  BY <1>2
<1>6. NetsOfKeys(part, W, of, Accounts, W)
  BY <1>4 DEF NetsOfKeys
<1>7. Net(W, Accounts) = Total(part, W)
  BY <1>1, <1>5, <1>6, NetByKey
<1>8. Total(part, W) = 0
  BY <1>3, TotalZero
<1> QED BY <1>1, <1>7, <1>8

-----------------------------------------------------------------------------
(* The books of the reports: vouchers as they are entered.                 *)
DoubleEntries(bk) == IsFiniteSet(bk.vouchers) /\ \A v \in bk.vouchers : DoubleEntry(v)

Within(bk, c, from, to) == {v \in bk.vouchers : v.company = c /\ v.month \in from..to}
Until(bk, c, day) == {v \in bk.vouchers : v.company = c /\ Upto(v, day)}

LEMMA EntriesAreDated ==
  ASSUME NEW bk, DoubleEntries(bk)
  PROVE  \A v \in bk.vouchers : v.month \in Nat /\ v.month \in Int /\ v.day \in 1..30
<1>1. \A v \in bk.vouchers : DoubleEntry(v)
  BY Zenon DEF DoubleEntries
<1>2. \A v : DoubleEntry(v) => v.month \in Nat /\ v.day \in 1..30
  BY Zenon DEF DoubleEntry
<1>3. \A n : n \in Nat => n \in Int
  OBVIOUS
<1> QED BY <1>1, <1>2, <1>3

LEMMA SomeBalance ==
  ASSUME NEW bk, DoubleEntries(bk), NEW W \in SUBSET bk.vouchers
  PROVE  Posted(W) /\ Net(W, Accounts) = 0
<1>1. IsFiniteSet(W) /\ \A v \in W : DoubleEntry(v)
  BY FS_Subset DEF DoubleEntries
<1> QED BY <1>1, NetBalances

LEMMA WithinIs ==
  ASSUME NEW bk, DoubleEntries(bk), NEW c, NEW from, NEW to
  PROVE  /\ Within(bk, c, from, to) \in SUBSET bk.vouchers
         /\ Posted(Within(bk, c, from, to)) /\ Net(Within(bk, c, from, to), Accounts) = 0
         /\ \A A : /\ RowsOf(bk, c, from, to, A) = Moved(Within(bk, c, from, to), A)
                   /\ NetDebit(RowsOf(bk, c, from, to, A)) = Net(Within(bk, c, from, to), A)
<1>1. PICK W : W = Within(bk, c, from, to)
  OBVIOUS
<1>2. W \in SUBSET bk.vouchers
  BY <1>1 DEF Within
<1>3. Posted(W) /\ Net(W, Accounts) = 0
  BY <1>2, SomeBalance
<1>4. \A A : RowsOf(bk, c, from, to, A) = Moved(W, A)
  BY <1>1 DEF RowsOf, Within
<1>5. \A A : NetDebit(RowsOf(bk, c, from, to, A)) = Net(W, A)
  BY <1>4 DEF Net
<1> QED BY <1>1, <1>2, <1>3, <1>4, <1>5

LEMMA UntilIs ==
  ASSUME NEW bk, DoubleEntries(bk), NEW c, NEW day
  PROVE  /\ Until(bk, c, day) \in SUBSET bk.vouchers /\ Posted(Until(bk, c, day))
         /\ \A x : BalanceOf(bk, c, x, day) = Net(Until(bk, c, day), {x})
<1>1. PICK W : W = Until(bk, c, day)
  OBVIOUS
<1>2. W \in SUBSET bk.vouchers
  BY <1>1 DEF Until
<1>3. Posted(W)
  BY <1>2, SomeBalance
<1>4. \A x : BalanceOf(bk, c, x, day) = Net(W, {x})
  BY <1>1 DEF BalanceOf, Until, Net
<1> QED BY <1>1, <1>2, <1>3, <1>4

(* The trial balance: what it has per account is what all rows have, and   *)
(* its two sides are equal.                                                *)
PerAccount(rows) ==
  [x \in {r.account : r \in rows} |-> TotalsRow({r \in rows : r.account = x})]

LEMMA PerAccountTotals ==
  ASSUME NEW rows, IsFiniteSet(rows), \A r \in rows : Amount(r) \in Int
  PROVE  /\ SumOf([x \in DOMAIN PerAccount(rows) |-> PerAccount(rows)[x].debit]) = Debits(rows)
         /\ SumOf([x \in DOMAIN PerAccount(rows) |-> PerAccount(rows)[x].credit]) = Credits(rows)
<1>1. PICK key : key = [r \in rows |-> r.account]
  OBVIOUS
<1>2. PICK K : K = {key[r] : r \in rows}
  OBVIOUS
<1>3. IsFiniteSet(K) /\ K = {r.account : r \in rows}
  <2>1. IsFiniteSet(K)
    BY <1>2, FiniteImage
  <2>2. K = {r.account : r \in rows}
    BY <1>1, <1>2
  <2> QED BY <2>1, <2>2
<1>4. \A x \in K : {r \in rows : r.account = x} = {r \in rows : key[r] = x}
  BY <1>1
<1>5. \A x \in K : /\ PerAccount(rows)[x].debit = Debits({r \in rows : key[r] = x})
                   /\ PerAccount(rows)[x].credit = Credits({r \in rows : key[r] = x})
  BY <1>3, <1>4 DEF PerAccount, TotalsRow
<1>6. PICK d : d = [x \in DOMAIN PerAccount(rows) |-> PerAccount(rows)[x].debit]
  OBVIOUS
<1>7. PICK k : k = [x \in DOMAIN PerAccount(rows) |-> PerAccount(rows)[x].credit]
  OBVIOUS
<1>8. DOMAIN PerAccount(rows) = K
  BY <1>3 DEF PerAccount
<1>9. DOMAIN d = K /\ DOMAIN k = K
  BY <1>6, <1>7, <1>8
<1>10. \A x \in K : {r \in rows : key[r] = x} \in SUBSET rows
  OBVIOUS
<1>11. SumsOfParts(d, Debited(rows), rows, key, K)
  BY <1>5, <1>6, <1>8, <1>10, PartsOfRows DEF SumsOfParts
<1>12. SumsOfParts(k, Credited(rows), rows, key, K)
  BY <1>5, <1>7, <1>8, <1>10, PartsOfRows DEF SumsOfParts
<1>13. \A r \in rows : Debited(rows)[r] \in Int /\ Credited(rows)[r] \in Int /\ key[r] \in K
  BY <1>2 DEF Debited, Credited, DebitOf, CreditOf
<1>14. Total(Debited(rows), rows) = Total(d, K)
  BY <1>3, <1>11, <1>13, TotalParts
<1>15. Total(Credited(rows), rows) = Total(k, K)
  BY <1>3, <1>12, <1>13, TotalParts
<1>16. SumOf(d) = Total(d, K) /\ SumOf(k) = Total(k, K)
  BY <1>9, SumOfIs
<1>17. SumOf(d) = Debits(rows) /\ SumOf(k) = Credits(rows)
  BY <1>14, <1>15, <1>16, DebitsIs, CreditsIs
<1> QED BY <1>6, <1>7, <1>17

LEMMA TrialBalances ==
  ASSUME NEW bk, DoubleEntries(bk), NEW c, NEW m
  PROVE  /\ TrialBalance(bk, c, m).debit = TrialBalance(bk, c, m).credit
         /\ GeneralJournal(bk, c, m).total =
              [debit |-> TrialBalance(bk, c, m).debit, credit |-> TrialBalance(bk, c, m).credit]
<1>1. PICK rows : rows = RowsOf(bk, c, m, m, Accounts)
  OBVIOUS
<1>2. PICK W : W = Within(bk, c, m, m)
  OBVIOUS
<1>3. Posted(W) /\ Net(W, Accounts) = 0 /\ rows = Moved(W, Accounts)
  BY <1>1, <1>2, WithinIs
<1>4. Accounts \in SUBSET Accounts
  OBVIOUS
<1>5. IsFiniteSet(rows) /\ \A r \in rows : Amount(r) \in Int
  BY <1>3, <1>4, RowsAreFinite
<1>6. 0 = Debits(rows) - Credits(rows) /\ Debits(rows) \in Int /\ Credits(rows) \in Int
  BY <1>3, <1>4, NetType
<1>7. Debits(rows) = Credits(rows)
  BY <1>6
<1>8. PICK per : per = PerAccount(rows)
  OBVIOUS
<1>9. /\ DOMAIN per = {r.account : r \in rows}
      /\ per = [x \in {r.account : r \in rows} |-> TotalsRow({r \in rows : r.account = x})]
  BY <1>8 DEF PerAccount
<1>10. /\ SumOf([x \in DOMAIN per |-> per[x].debit]) = Debits(rows)
       /\ SumOf([x \in DOMAIN per |-> per[x].credit]) = Credits(rows)
  BY <1>5, <1>8, PerAccountTotals
<1>11. /\ TrialBalance(bk, c, m).debit = SumOf([x \in DOMAIN per |-> per[x].debit])
       /\ TrialBalance(bk, c, m).credit = SumOf([x \in DOMAIN per |-> per[x].credit])
  BY <1>1, <1>9, Zenon DEF TrialBalance
<1>12. GeneralJournal(bk, c, m).total = [debit |-> Debits(rows), credit |-> Credits(rows)]
  BY <1>1 DEF GeneralJournal, TotalsRow
<1> QED BY <1>7, <1>10, <1>11, <1>12

(* Cash: what a month moves leads from its opening to its closing.         *)
LEMMA ChartIs ==
  ASSUME NEW c \in Companies
  PROVE  /\ Chart[c] \in SUBSET Accounts /\ CashBank(c) \in SUBSET Accounts
         /\ \A root : OfRootType(c, root) \in SUBSET Chart[c]
<1>1. Chart[c] \in SUBSET Accounts
  BY ReadsAssumption
<1>2. \A role : RoleAccount(c, role) \in Chart[c] \cup {None}
  BY DEF RoleAccount, ByNumber
<1>3. CashBank(c) \subseteq Chart[c]
  BY <1>2 DEF CashBank
<1>4. \A root : OfRootType(c, root) \in SUBSET Chart[c]
  BY DEF OfRootType
<1> QED BY <1>1, <1>3, <1>4

LEMMA BalancesAddUp ==
  ASSUME NEW bk, DoubleEntries(bk), NEW c, NEW day, NEW A \in SUBSET Accounts
  PROVE  SumOf([x \in A |-> BalanceOf(bk, c, x, day)]) = Net(Until(bk, c, day), A)
<1>1. PICK W : W = Until(bk, c, day)
  OBVIOUS
<1>2. PICK f : f = [x \in A |-> BalanceOf(bk, c, x, day)]
  OBVIOUS
<1>3. Posted(W) /\ \A x \in A : f[x] = Net(W, {x})
  BY <1>1, <1>2, UntilIs
<1>4. Net(W, A) = Total(f, A)
  BY <1>3, NetByAccount
<1>5. DOMAIN f = A
  BY <1>2
<1>6. SumOf(f) = Total(f, A)
  BY <1>5, SumOfIs
<1> QED BY <1>1, <1>2, <1>4, <1>6

LEMMA MonthsFollow ==
  ASSUME NEW bk, DoubleEntries(bk), NEW c, NEW m \in Int
  PROVE  /\ Until(bk, c, [month |-> m - 1, day |-> 30]) \in SUBSET Until(bk, c, [month |-> m, day |-> 30])
         /\ Until(bk, c, [month |-> m, day |-> 30]) \ Until(bk, c, [month |-> m - 1, day |-> 30])
              = Within(bk, c, m, m)
<1>1. \A v \in bk.vouchers : v.month \in Int /\ v.day \in 1..30
  BY EntriesAreDated
<1>2. PICK last : last = [month |-> m, day |-> 30]
  OBVIOUS
<1>3. PICK before : before = [month |-> m - 1, day |-> 30]
  OBVIOUS
<1>4. \A v \in bk.vouchers : /\ Upto(v, last) <=> v.month <= m
                             /\ Upto(v, before) <=> v.month <= m - 1
                             /\ v.month \in m..m <=> v.month = m
  <2> SUFFICES ASSUME NEW v \in bk.vouchers
               PROVE  /\ Upto(v, last) <=> v.month <= m
                      /\ Upto(v, before) <=> v.month <= m - 1
                      /\ v.month \in m..m <=> v.month = m
    OBVIOUS
  <2>1. v.month \in Int /\ v.day \in Int /\ v.day <= 30
    BY <1>1
  <2>2. last.month = m /\ last.day = 30 /\ before.month = m - 1 /\ before.day = 30
    BY <1>2, <1>3
  <2>3. (Upto(v, last) <=> v.month <= m) /\ (Upto(v, before) <=> v.month <= m - 1)
    BY <2>1, <2>2 DEF Upto
  <2> QED BY <2>1, <2>3
<1>5. \A v \in bk.vouchers : v.month <= m - 1 => v.month <= m
  BY <1>1
<1>6. \A v \in bk.vouchers : v.month <= m /\ ~(v.month <= m - 1) <=> v.month = m
  BY <1>1
<1>7. Until(bk, c, before) \in SUBSET Until(bk, c, last)
  BY <1>4, <1>5 DEF Until
<1>8. \A v : v \in Until(bk, c, last) \ Until(bk, c, before) <=> v \in Within(bk, c, m, m)
  BY <1>4, <1>6 DEF Until, Within
<1>9. Until(bk, c, last) \ Until(bk, c, before) = Within(bk, c, m, m)
  BY <1>8
<1> QED BY <1>2, <1>3, <1>7, <1>9

LEMMA CashMoves ==
  ASSUME NEW bk, DoubleEntries(bk), NEW c \in Companies, NEW m \in Int
  PROVE  /\ SumOf(CashJournal(bk, c, m).opening) + CashJournal(bk, c, m).total.debit
              - CashJournal(bk, c, m).total.credit = SumOf(CashJournal(bk, c, m).closing)
         /\ CashJournal(bk, c, m + 1).opening = CashJournal(bk, c, m).closing
<1>1. PICK A : A = CashBank(c)
  OBVIOUS
<1>2. PICK last : last = [month |-> m, day |-> 30]
  OBVIOUS
<1>3. PICK before : before = [month |-> m - 1, day |-> 30]
  OBVIOUS
<1>4. PICK rows : rows = RowsOf(bk, c, m, m, A)
  OBVIOUS
<1>5. /\ CashJournal(bk, c, m).opening = [x \in A |-> BalanceOf(bk, c, x, before)]
      /\ CashJournal(bk, c, m).closing = [x \in A |-> BalanceOf(bk, c, x, last)]
      /\ CashJournal(bk, c, m).total = [debit |-> Debits(rows), credit |-> Credits(rows)]
  BY <1>1, <1>2, <1>3, <1>4 DEF CashJournal, TotalsRow
<1>6. A \in SUBSET Accounts
  BY <1>1, ChartIs
<1>7. PICK W : W = Until(bk, c, last)
  OBVIOUS
<1>8. PICK V : V = Until(bk, c, before)
  OBVIOUS
<1>9. Posted(W) /\ Posted(V) /\ V \in SUBSET W /\ W \ V = Within(bk, c, m, m)
  <2>1. Posted(W) /\ Posted(V)
    BY <1>7, <1>8, UntilIs
  <2>2. V \in SUBSET W /\ W \ V = Within(bk, c, m, m)
    BY <1>2, <1>3, <1>7, <1>8, MonthsFollow
  <2> QED BY <2>1, <2>2
<1>10. PICK M : M = Within(bk, c, m, m)
  OBVIOUS
<1>11. Posted(M) /\ rows = Moved(M, A)
  BY <1>4, <1>10, WithinIs
<1>12. Net(W, A) = Net(V, A) + Net(M, A) /\ Net(V, A) \in Int /\ Net(M, A) \in Int
  <2>1. Net(W, A) = Net(V, A) + Net(W \ V, A)
    BY <1>6, <1>9, NetOfVouchers
  <2>2. Net(V, A) \in Int /\ Net(M, A) \in Int
    BY <1>6, <1>9, <1>11, NetType
  <2> QED BY <1>9, <1>10, <2>1, <2>2
<1>13. /\ Net(M, A) = Debits(rows) - Credits(rows)
       /\ Debits(rows) \in Int /\ Credits(rows) \in Int
  BY <1>6, <1>11, NetType
<1>14. /\ SumOf([x \in A |-> BalanceOf(bk, c, x, before)]) = Net(V, A)
       /\ SumOf([x \in A |-> BalanceOf(bk, c, x, last)]) = Net(W, A)
  BY <1>6, <1>7, <1>8, BalancesAddUp
<1>15. Net(V, A) + Debits(rows) - Credits(rows) = Net(W, A)
  BY <1>12, <1>13
<1>16. CashJournal(bk, c, m + 1).opening = [x \in A |-> BalanceOf(bk, c, x, last)]
  <2>1. (m + 1) - 1 = m
    OBVIOUS
  <2> QED BY <1>1, <1>2, <2>1 DEF CashJournal
<1> QED BY <1>5, <1>14, <1>15, <1>16

(* The month: what is earned and not spent is what the balance accounts    *)
(* gained.                                                                 *)
LEMMA NothingOffTheChart ==
  ASSUME NEW bk, DoubleEntries(bk), NEW c \in Companies, NEW from, NEW to
  PROVE  Net(Within(bk, c, from, to), Chart[c]) = 0
<1>1. PICK W : W = Within(bk, c, from, to)
  OBVIOUS
<1>2. Net(W, Accounts) = 0
  BY <1>1, WithinIs
<1>3. \A v \in W : \A a \in Accounts : v.moves[a] # 0 => a \in Chart[c]
  BY <1>1 DEF Within, DoubleEntries, DoubleEntry
<1>4. Chart[c] \in SUBSET Accounts
  BY ChartIs
<1>5. \A r : r \in Moved(W, Accounts) <=> r \in Moved(W, Chart[c])
  BY <1>3, <1>4 DEF Moved
<1>6. Moved(W, Accounts) = Moved(W, Chart[c])
  <2>1. Moved(W, Accounts) \subseteq Moved(W, Chart[c]) /\ Moved(W, Chart[c]) \subseteq Moved(W, Accounts)
    BY <1>5
  <2> QED BY <2>1
<1> QED BY <1>1, <1>2, <1>6 DEF Net

LEMMA ProfitIsKept ==
  ASSUME NEW bk, DoubleEntries(bk), NEW c \in Companies, NEW m
  PROVE  MonthTotals(bk, c, m).profit = NetDebit(RowsOf(bk, c, m, m, OfRootType(c, "Balance")))
<1>1. PICK W : W = Within(bk, c, m, m)
  OBVIOUS
<1>2. PICK C, I, E, B : /\ C = Chart[c] /\ I = OfRootType(c, "Income")
                        /\ E = OfRootType(c, "Expense") /\ B = OfRootType(c, "Balance")
  OBVIOUS
<1>3. Posted(W) /\ Net(W, C) = 0 /\ C \in SUBSET Accounts
  BY <1>1, <1>2, WithinIs, NothingOffTheChart, ChartIs
<1>4. I \in SUBSET C /\ E \in SUBSET (C \ I) /\ (C \ I) \ E = B
  <2>1. \A a \in C : RootType[a] \in {"Income", "Expense", "Balance"}
    BY <1>2, <1>3, ReadsAssumption
  <2> QED BY <1>2, <2>1 DEF OfRootType
<1>5. C \ I \in SUBSET Accounts /\ I \in SUBSET Accounts /\ E \in SUBSET Accounts /\ B \in SUBSET Accounts
  BY <1>3, <1>4
<1>6. Net(W, C) = Net(W, I) + Net(W, C \ I)
  BY <1>3, <1>4, NetOfAccounts
<1>7. Net(W, C \ I) = Net(W, E) + Net(W, B)
  BY <1>3, <1>4, <1>5, NetOfAccounts
<1>8. Net(W, I) \in Int /\ Net(W, E) \in Int /\ Net(W, B) \in Int
  BY <1>3, <1>5, NetType
<1>9. -Net(W, I) - Net(W, E) = Net(W, B)
  BY <1>3, <1>6, <1>7, <1>8
<1>10. MonthTotals(bk, c, m).profit = -Net(W, I) - Net(W, E)
  BY <1>1, <1>2, WithinIs DEF MonthTotals, NetCredit
<1> QED BY <1>1, <1>2, <1>9, <1>10, WithinIs

(* What was spent: the accounts it was spent on add up to the month's.     *)
LEMMA SpentIs ==
  ASSUME NEW bk, DoubleEntries(bk), NEW c \in Companies, NEW m \in Int, NEW x \in Accounts
  PROVE  SpentOn(bk, c, x, m) = Net(Within(bk, c, m, m), {x})
<1>1. \A v \in bk.vouchers : v.month \in m..m <=> v.month = m
  BY EntriesAreDated
<1>2. \A r : r \in {row \in InMonth(Gl(bk, c), m) : row.account = x}
               <=> r \in Moved(Within(bk, c, m, m), {x})
  BY <1>1 DEF InMonth, Gl, Moved, Within
<1>3. {row \in InMonth(Gl(bk, c), m) : row.account = x} = Moved(Within(bk, c, m, m), {x})
  BY <1>2
<1> QED BY <1>3 DEF SpentOn, Net

LEMMA SpendingAddsUp ==
  ASSUME NEW bk, DoubleEntries(bk), NEW c \in Companies, NEW m \in Int, NEW limit,
         \A x \in OfRootType(c, "Expense") : SpentOn(bk, c, x, m) >= 0
  PROVE  TopExpenses(bk, c, m, limit).total = MonthTotals(bk, c, m).expense
<1>1. PICK W : W = Within(bk, c, m, m)
  OBVIOUS
<1>2. PICK E : E = OfRootType(c, "Expense")
  OBVIOUS
<1>3. E \in SUBSET Accounts /\ IsFiniteSet(E)
  BY <1>2, ChartIs, DoubleEntryAssumption, FS_Subset
<1>4. PICK spent : spent = [x \in E |-> NetDebit(RowsOf(bk, c, m, m, {x}))]
  OBVIOUS
<1>5. Posted(W) /\ \A x \in E : spent[x] = Net(W, {x}) /\ spent[x] \in Int /\ spent[x] >= 0
  <2>1. Posted(W)
    BY <1>1, WithinIs
  <2>2. ASSUME NEW x \in E PROVE spent[x] = Net(W, {x}) /\ spent[x] \in Int /\ spent[x] >= 0
    <3>1. spent[x] = Net(W, {x})
      BY <1>1, <1>4, WithinIs
    <3>2. {x} \in SUBSET Accounts /\ x \in Accounts
      BY <1>3
    <3>3. Net(W, {x}) \in Int
      BY <2>1, <3>2, NetType
    <3>4. Net(W, {x}) >= 0
      BY <1>1, <1>2, <3>2, SpentIs
    <3> QED BY <3>1, <3>3, <3>4
  <2> QED BY <2>1, <2>2
<1>6. PICK ranked : ranked = {x \in E : spent[x] > 0}
  OBVIOUS
<1>7. Net(W, E) = Total(spent, E)
  BY <1>3, <1>5, NetByAccount
<1>8. Total(spent, E) = Total(spent, ranked) + Total(spent, E \ ranked)
  BY <1>3, <1>5, <1>6, TotalSplit
<1>9. Total(spent, E \ ranked) = 0
  <2>1. PICK rest : rest = E \ ranked
    OBVIOUS
  <2>2. ASSUME NEW x \in rest PROVE spent[x] = 0
    <3>1. x \in E /\ ~(spent[x] > 0)
      BY <1>6, <2>1
    <3>2. spent[x] \in Int /\ spent[x] >= 0
      BY <1>5, <3>1
    <3> QED BY <3>1, <3>2
  <2>3. rest \in SUBSET E
    BY <2>1
  <2>4. IsFiniteSet(rest)
    BY <1>3, <2>3, FS_Subset
  <2> QED BY <2>1, <2>2, <2>4, TotalZero
<1>10. IsFiniteSet(ranked) /\ Total(spent, ranked) \in Int
  BY <1>3, <1>5, <1>6, FS_Subset, TotalType
<1>11. PICK f : f = [x \in ranked |-> spent[x]]
  OBVIOUS
<1>12. DOMAIN f = ranked /\ \A x \in ranked : f[x] = spent[x]
  BY <1>11
<1>13. SumOf(f) = Total(spent, ranked)
  BY <1>10, <1>12, SumOfIs, TotalAgrees
<1>14. DOMAIN spent = E
  BY <1>4
<1>15. ranked = {x \in DOMAIN spent : spent[x] > 0}
  BY <1>6, <1>14
<1>16. TopExpenses(bk, c, m, limit).total = SumOf(f)
  BY <1>2, <1>4, <1>11, <1>15, Zenon DEF TopExpenses
<1>17. MonthTotals(bk, c, m).expense = Net(W, E)
  BY <1>1, <1>2, WithinIs DEF MonthTotals
<1> QED BY <1>7, <1>8, <1>9, <1>10, <1>13, <1>16, <1>17

(* VAT: the documents add up to the month.                                 *)
Outputs(f, D, d) == \A v \in D : f[v] = d[v].output
Inputs(f, D, d) == \A v \in D : f[v] = d[v].input
OutputsOf(D, d) == Plus(D, LAMBDA v : d[v].output)
InputsOf(D, d) == Plus(D, LAMBDA v : d[v].input)

LEMMA OutputsAre ==
  ASSUME NEW D, NEW d, NEW f, Outputs(f, D, d)
  PROVE  OutputsOf(D, d) = Total(f, D)
<1>1. \A g : IsFold(g, f, D) <=>
        g = [s \in SUBSET D |-> IF s = {} THEN 0
                ELSE d[CHOOSE x \in s : TRUE].output + g[s \ {CHOOSE x \in s : TRUE}]]
  <2>1. \A s \in SUBSET D : s # {} => f[Pick(s)] = d[Pick(s)].output
    BY DEF Pick, Outputs
  <2> QED BY <2>1 DEF IsFold, Pick
<1>2. OutputsOf(D, d) = (CHOOSE g : g = [s \in SUBSET D |-> IF s = {} THEN 0
                ELSE d[CHOOSE x \in s : TRUE].output + g[s \ {CHOOSE x \in s : TRUE}]])[D]
  BY DEF OutputsOf, Plus, MapThenSumSet, MapThenFoldSet
<1> QED BY <1>1, <1>2 DEF Total

LEMMA InputsAre ==
  ASSUME NEW D, NEW d, NEW f, Inputs(f, D, d)
  PROVE  InputsOf(D, d) = Total(f, D)
<1>1. \A g : IsFold(g, f, D) <=>
        g = [s \in SUBSET D |-> IF s = {} THEN 0
                ELSE d[CHOOSE x \in s : TRUE].input + g[s \ {CHOOSE x \in s : TRUE}]]
  <2>1. \A s \in SUBSET D : s # {} => f[Pick(s)] = d[Pick(s)].input
    BY DEF Pick, Inputs
  <2> QED BY <2>1 DEF IsFold, Pick
<1>2. InputsOf(D, d) = (CHOOSE g : g = [s \in SUBSET D |-> IF s = {} THEN 0
                ELSE d[CHOOSE x \in s : TRUE].input + g[s \ {CHOOSE x \in s : TRUE}]])[D]
  BY DEF InputsOf, Plus, MapThenSumSet, MapThenFoldSet
<1> QED BY <1>1, <1>2 DEF Total

LEMMA DocumentsAreFinite ==
  ASSUME NEW rows, IsFiniteSet(rows)
  PROVE  IsFiniteSet({r.voucher : r \in rows})
<1>1. PICK key : key = [r \in rows |-> r.voucher]
  OBVIOUS
<1>2. IsFiniteSet({key[r] : r \in rows})
  BY FiniteImage
<1>3. {key[r] : r \in rows} = {r.voucher : r \in rows}
  BY <1>1
<1> QED BY <1>2, <1>3

(* The rows of one account, document by document.                          *)
NetsOfDocuments(part, rows, account, D) ==
  \A v \in D : part[v] = NetDebit({r \in {s \in rows : s.voucher = v} : r.account = account})

LEMMA RowsOfDocuments ==
  ASSUME NEW rows, IsFiniteSet(rows), \A r \in rows : Amount(r) \in Int,
         NEW account, NEW part, NEW D, D = {r.voucher : r \in rows},
         NetsOfDocuments(part, rows, account, D)
  PROVE  /\ NetDebit({r \in rows : r.account = account}) = Total(part, D)
         /\ IsFiniteSet(D) /\ \A v \in D : part[v] \in Int
<1>1. PICK key : key = [r \in rows |-> r.voucher]
  OBVIOUS
<1>2. D = {key[r] : r \in rows}
  BY <1>1
<1>3. IsFiniteSet(D)
  BY DocumentsAreFinite
<1>4. PICK some : some = {r \in rows : r.account = account}
  OBVIOUS
<1>5. IsFiniteSet(some) /\ some \in SUBSET rows
  BY <1>4, FS_Subset
<1>6. PICK f : f = Amounts(some)
  OBVIOUS
<1>7. \A r \in some : f[r] \in Int /\ key[r] \in D
  BY <1>2, <1>5, <1>6 DEF Amounts
<1>8. ASSUME NEW v \in D
      PROVE  part[v] = Total(f, {r \in some : key[r] = v}) /\ part[v] \in Int
  <2>1. PICK one : one = {r \in some : key[r] = v}
    OBVIOUS
  <2>2. one = {r \in {s \in rows : s.voucher = v} : r.account = account} /\ one \in SUBSET some
    BY <1>1, <1>4, <2>1
  <2>3. NetDebit(one) = Total(f, one)
    BY <1>5, <1>6, <2>2, PartsOfRows
  <2>4. part[v] = NetDebit(one)
    BY <2>2 DEF NetsOfDocuments
  <2>5. IsFiniteSet(one) /\ \A r \in one : f[r] \in Int
    BY <1>5, <1>7, <2>2, FS_Subset
  <2>6. Total(f, one) \in Int
    BY <2>5, TotalType
  <2> QED BY <2>1, <2>3, <2>4, <2>6
<1>9. SumsOfParts(part, f, some, key, D)
  BY <1>8 DEF SumsOfParts
<1>10. Total(f, some) = Total(part, D)
  BY <1>3, <1>5, <1>7, <1>9, TotalParts
<1>11. NetDebit(some) = Total(f, some)
  BY <1>6, NetDebitIs
<1> QED BY <1>3, <1>4, <1>8, <1>10, <1>11

LEMMA VatAddsUp ==
  ASSUME NEW bk, DoubleEntries(bk), NEW c, NEW m
  PROVE  LET vat == VatSummary(bk, c, m)
         IN /\ vat.output = OutputsOf(DOMAIN vat.documents, vat.documents)
            /\ vat.input = InputsOf(DOMAIN vat.documents, vat.documents)
<1>1. PICK rows : rows = RowsOf(bk, c, m, m, {OutputVat, InputVat})
  OBVIOUS
<1>2. IsFiniteSet(rows) /\ \A r \in rows : Amount(r) \in Int
  <2>1. PICK A : A = {OutputVat, InputVat}
    OBVIOUS
  <2>2. A \in SUBSET Accounts
    BY <2>1, ReadsAssumption
  <2>3. Posted(Within(bk, c, m, m)) /\ rows = Moved(Within(bk, c, m, m), A)
    BY <1>1, <2>1, WithinIs
  <2> QED BY <2>2, <2>3, RowsAreFinite
<1>3. PICK D : D = {r.voucher : r \in rows}
  OBVIOUS
<1>4. PICK d : d = [v \in D |-> VatOf({r \in rows : r.voucher = v})]
  OBVIOUS
<1>5. PICK sold : sold = [v \in D |->
          NetDebit({r \in {s \in rows : s.voucher = v} : r.account = OutputVat})]
  OBVIOUS
<1>6. PICK bought : bought = [v \in D |->
          NetDebit({r \in {s \in rows : s.voucher = v} : r.account = InputVat})]
  OBVIOUS
<1>7. \A v \in D : d[v].output = -sold[v] /\ d[v].input = bought[v]
  BY <1>4, <1>5, <1>6 DEF VatOf, NetCredit
<1>8. NetDebit({r \in rows : r.account = OutputVat}) = Total(sold, D) /\ IsFiniteSet(D)
      /\ \A v \in D : sold[v] \in Int
  <2>1. NetsOfDocuments(sold, rows, OutputVat, D)
    BY <1>5 DEF NetsOfDocuments
  <2> QED BY <1>2, <1>3, <2>1, RowsOfDocuments
<1>9. NetDebit({r \in rows : r.account = InputVat}) = Total(bought, D)
  <2>1. NetsOfDocuments(bought, rows, InputVat, D)
    BY <1>6 DEF NetsOfDocuments
  <2> QED BY <1>2, <1>3, <2>1, RowsOfDocuments
<1>10. PICK shares : shares = [v \in D |-> -sold[v]]
  OBVIOUS
<1>11. Total(shares, D) = -Total(sold, D)
  BY <1>8, <1>10, TotalNegated
<1>12. OutputsOf(D, d) = Total(shares, D)
  <2>1. Outputs(shares, D, d)
    BY <1>7, <1>10 DEF Outputs
  <2> QED BY <2>1, OutputsAre
<1>13. InputsOf(D, d) = Total(bought, D)
  <2>1. Inputs(bought, D, d)
    BY <1>7 DEF Inputs
  <2> QED BY <2>1, InputsAre
<1>14. PICK vat : vat = VatSummary(bk, c, m)
  OBVIOUS
<1>15. vat.documents = d /\ DOMAIN d = D
  BY <1>1, <1>3, <1>4, <1>14 DEF VatSummary
<1>16. /\ vat.output = -NetDebit({r \in rows : r.account = OutputVat})
       /\ vat.input = NetDebit({r \in rows : r.account = InputVat})
  BY <1>1, <1>14 DEF VatSummary, VatOf, NetCredit
<1>17. vat.output = OutputsOf(D, d) /\ vat.input = InputsOf(D, d)
  BY <1>8, <1>9, <1>11, <1>12, <1>13, <1>16
<1>18. /\ vat.output = OutputsOf(DOMAIN vat.documents, vat.documents)
       /\ vat.input = InputsOf(DOMAIN vat.documents, vat.documents)
  BY <1>15, <1>17
<1> QED BY <1>14, <1>18

(* The quarter: its months add up to it, and with what is shown apart to   *)
(* all that was earned.                                                    *)
EarnedOver(bk, c, months) == Plus(months, LAMBDA i : MonthTotals(bk, c, i).revenue)

LEMMA EarnedIs ==
  ASSUME NEW bk, NEW c, NEW months
  PROVE  EarnedOver(bk, c, months) =
           Total([i \in months |-> MonthTotals(bk, c, i).revenue], months)
<1>1. PICK f : f = [i \in months |-> MonthTotals(bk, c, i).revenue]
  OBVIOUS
<1>2. \A g : IsFold(g, f, months) <=>
        g = [s \in SUBSET months |-> IF s = {} THEN 0
                ELSE MonthTotals(bk, c, CHOOSE x \in s : TRUE).revenue
                       + g[s \ {CHOOSE x \in s : TRUE}]]
  <2>1. \A s \in SUBSET months : s # {} => f[Pick(s)] = MonthTotals(bk, c, Pick(s)).revenue
    BY <1>1 DEF Pick
  <2> QED BY <2>1 DEF IsFold, Pick
<1>3. EarnedOver(bk, c, months) =
        (CHOOSE g : g = [s \in SUBSET months |-> IF s = {} THEN 0
                ELSE MonthTotals(bk, c, CHOOSE x \in s : TRUE).revenue
                       + g[s \ {CHOOSE x \in s : TRUE}]])[months]
  BY DEF EarnedOver, Plus, MapThenSumSet, MapThenFoldSet
<1>4. EarnedOver(bk, c, months) = Total(f, months)
  BY <1>2, <1>3 DEF Total
<1> QED BY <1>1, <1>4

(* A range of months is the months of the range.                           *)
LEMMA NetByMonth ==
  ASSUME NEW bk, DoubleEntries(bk), NEW c, NEW from \in Int, NEW to \in Int,
         NEW A \in SUBSET Accounts
  PROVE  Total([i \in from..to |-> Net(Within(bk, c, i, i), A)], from..to)
           = Net(Within(bk, c, from, to), A)
<1>1. PICK W : W = Within(bk, c, from, to)
  OBVIOUS
<1>2. PICK K : K = from..to
  OBVIOUS
<1>3. PICK of : of = [v \in W |-> v.month]
  OBVIOUS
<1>4. PICK part : part = [i \in K |-> Net(Within(bk, c, i, i), A)]
  OBVIOUS
<1>5. Posted(W) /\ IsFiniteSet(K) /\ K \subseteq Int
  <2>1. IsFiniteSet(K)
    BY <1>2, FS_Interval
  <2>2. Posted(W)
    BY <1>1, WithinIs
  <2> QED BY <1>2, <2>1, <2>2
<1>6. \A v \in W : of[v] \in K
  BY <1>1, <1>2, <1>3 DEF Within
<1>7. ASSUME NEW i \in K PROVE part[i] = Net({v \in W : of[v] = i}, A)
  <2>1. \A v \in bk.vouchers : v.month \in Int
    BY EntriesAreDated
  <2>2. \A v \in bk.vouchers : v.month \in i..i <=> v.month = i
    BY <1>5, <2>1
  <2>3. \A v : v \in {w \in W : of[w] = i} <=> v \in Within(bk, c, i, i)
    BY <1>1, <1>2, <1>3, <2>2 DEF Within
  <2>4. {v \in W : of[v] = i} = Within(bk, c, i, i)
    BY <2>3
  <2> QED BY <1>4, <2>4
<1>8. Net(W, A) = Total(part, K)
  <2>1. NetsOfKeys(part, W, of, A, K)
    BY <1>7 DEF NetsOfKeys
  <2> QED BY <1>5, <1>6, <2>1, NetByKey
<1> QED BY <1>1, <1>2, <1>4, <1>8

LEMMA RevenueIs ==
  ASSUME NEW bk, DoubleEntries(bk), NEW c \in Companies, NEW from \in Int, NEW to \in Int
  PROVE  EarnedOver(bk, c, from..to) = -Net(Within(bk, c, from, to), OfRootType(c, "Income"))
<1>1. PICK I : I = OfRootType(c, "Income")
  OBVIOUS
<1>2. I \in SUBSET Accounts
  BY <1>1, ChartIs
<1>3. PICK K : K = from..to
  OBVIOUS
<1>4. PICK f : f = [i \in K |-> MonthTotals(bk, c, i).revenue]
  OBVIOUS
<1>5. PICK part : part = [i \in K |-> Net(Within(bk, c, i, i), I)]
  OBVIOUS
<1>6. \A i \in K : part[i] \in Int /\ f[i] = -part[i]
  <2> SUFFICES ASSUME NEW i \in K PROVE part[i] \in Int /\ f[i] = -part[i]
    OBVIOUS
  <2>1. Posted(Within(bk, c, i, i))
    BY WithinIs
  <2>2. part[i] \in Int
    BY <1>2, <1>5, <2>1, NetType
  <2>3. MonthTotals(bk, c, i).revenue = -Net(Within(bk, c, i, i), I)
    BY <1>1, WithinIs DEF MonthTotals, NetCredit
  <2> QED BY <1>4, <1>5, <2>2, <2>3
<1>7. IsFiniteSet(K)
  BY <1>3, FS_Interval
<1>8. Total(f, K) = -Total(part, K)
  BY <1>6, <1>7, TotalNegated
<1>9. Total(part, K) = Net(Within(bk, c, from, to), I)
  BY <1>2, <1>3, <1>5, NetByMonth
<1>10. EarnedOver(bk, c, K) = Total(f, K)
  BY <1>4, EarnedIs
<1> QED BY <1>1, <1>3, <1>8, <1>9, <1>10

LEMMA QuarterAddsUp ==
  ASSUME NEW bk, DoubleEntries(bk), NEW c \in Companies, NEW m \in Int
  PROVE  SimplifiedSummary(bk, c, m).revenue + SimplifiedSummary(bk, c, m).excluded
           = EarnedOver(bk, c, QuarterStart(m)..(QuarterStart(m) + 2))
<1>1. PICK start : start = QuarterStart(m)
  OBVIOUS
<1>2. start \in Int
  BY <1>1 DEF QuarterStart
<1>3. PICK last : last = start + 2
  OBVIOUS
<1>4. PICK I : I = OfRootType(c, "Income")
  OBVIOUS
<1>5. PICK base : base = RevenueAccounts(c).base
  OBVIOUS
<1>6. PICK other : other = RevenueAccounts(c).other
  OBVIOUS
<1>7. base \in SUBSET I /\ other = I \ base
  <2>1. PICK named : named = {RoleAccount(c, role) : role \in RevenueRoles} \cap I
    OBVIOUS
  <2>2. RevenueAccounts(c) = Divided(I, named)
    BY <1>4, <2>1 DEF RevenueAccounts
  <2>3. named \in SUBSET I
    BY <2>1
  <2>4. base = (IF named = {} THEN I ELSE named) /\ other = (IF named = {} THEN {} ELSE I \ named)
    BY <1>5, <1>6, <2>2 DEF Divided
  <2> QED BY <2>3, <2>4
<1>8. I \in SUBSET Accounts /\ base \in SUBSET Accounts /\ other \in SUBSET Accounts
  <2>1. I \in SUBSET Accounts
    BY <1>4, ChartIs
  <2> QED BY <1>7, <2>1
<1>9. PICK W : W = Within(bk, c, start, last)
  OBVIOUS
<1>10. Net(W, I) = Net(W, base) + Net(W, other) /\ Net(W, base) \in Int /\ Net(W, other) \in Int
  <2>1. Posted(W)
    BY <1>9, WithinIs
  <2>2. Net(W, I) = Net(W, base) + Net(W, I \ base)
    BY <1>7, <1>8, <2>1, NetOfAccounts
  <2>3. Net(W, base) \in Int /\ Net(W, other) \in Int
    BY <1>8, <2>1, NetType
  <2> QED BY <1>7, <2>2, <2>3
<1>11. PICK months : months = [i \in 1..3 |->
          NetCredit(RowsOf(bk, c, start + i - 1, start + i - 1, base))]
  OBVIOUS
<1>12. PICK of : of = [v \in W |-> v.month - start + 1]
  OBVIOUS
<1>13. PICK part : part = [i \in 1..3 |-> Net(Within(bk, c, start + i - 1, start + i - 1), base)]
  OBVIOUS
<1>14. \A v \in bk.vouchers : v.month \in Int
  BY EntriesAreDated
<1>15. \A v \in W : of[v] \in 1..3
  <2> SUFFICES ASSUME NEW v \in W PROVE of[v] \in 1..3
    OBVIOUS
  <2>1. v.month \in start..(start + 2)
    BY <1>3, <1>9 DEF Within
  <2>2. v.month - start + 1 \in 1..3
    BY <1>2, <2>1
  <2> QED BY <1>12, <2>2
<1>16. ASSUME NEW i \in 1..3
       PROVE  part[i] = Net({v \in W : of[v] = i}, base) /\ part[i] \in Int /\ months[i] = -part[i]
  <2>1. PICK n : n = start + i - 1
    OBVIOUS
  <2>2. n \in Int /\ n \in start..(start + 2)
    BY <1>2, <2>1
  <2>3. ASSUME NEW v \in bk.vouchers
        PROVE  v.month \in n..n <=> v.month \in start..(start + 2) /\ v.month - start + 1 = i
    <3>1. v.month \in Int
      BY <1>14
    <3> QED BY <1>2, <2>1, <2>2, <3>1
  <2>4. \A v : v \in W <=> v \in bk.vouchers /\ v.company = c /\ v.month \in start..(start + 2)
    BY <1>3, <1>9 DEF Within
  <2>5. \A v \in W : of[v] = v.month - start + 1
    BY <1>12
  <2>6. \A v : v \in Within(bk, c, n, n) <=> v \in bk.vouchers /\ v.company = c /\ v.month \in n..n
    BY DEF Within
  <2>7. \A v : v \in {w \in W : of[w] = i} <=> v \in Within(bk, c, n, n)
    BY <2>3, <2>4, <2>5, <2>6
  <2>8. {v \in W : of[v] = i} = Within(bk, c, n, n)
    BY <2>7
  <2>9. part[i] = Net(Within(bk, c, n, n), base)
    BY <1>13, <2>1
  <2>10. Posted(Within(bk, c, n, n))
    BY WithinIs
  <2>11. part[i] \in Int
    BY <1>8, <2>9, <2>10, NetType
  <2>12. months[i] = -part[i]
    BY <1>11, <2>1, <2>9, WithinIs DEF NetCredit
  <2> QED BY <2>8, <2>9, <2>11, <2>12
<1>17. IsFiniteSet(1..3)
  <2>1. 1 \in Int /\ 3 \in Int
    OBVIOUS
  <2> QED BY <2>1, FS_Interval, Zenon
<1>18. Net(W, base) = Total(part, 1..3)
  <2>1. NetsOfKeys(part, W, of, base, 1..3)
    BY <1>16 DEF NetsOfKeys
  <2>2. Posted(W)
    BY <1>9, WithinIs
  <2> QED BY <1>8, <1>15, <1>17, <2>1, <2>2, NetByKey
<1>19. Total(months, 1..3) = -Total(part, 1..3)
  BY <1>16, <1>17, TotalNegated
<1>20. SeqSum(months, LAMBDA x : x) = Total(months, 1..3)
  <2>1. DOMAIN months = 1..3
    BY <1>11
  <2>2. SeqSum(months, LAMBDA x : x) = Plus(DOMAIN months, LAMBDA i : months[i])
    BY DEF SeqSum
  <2> QED BY <2>1, <2>2, PlusIs
<1>21. SimplifiedSummary(bk, c, m).revenue = SeqSum(months, LAMBDA x : x)
  BY <1>1, <1>5, <1>11 DEF SimplifiedSummary
<1>22. SimplifiedSummary(bk, c, m).excluded = -Net(W, other)
  BY <1>1, <1>3, <1>6, <1>9, WithinIs DEF SimplifiedSummary, NetCredit
<1>23. EarnedOver(bk, c, start..last) = -Net(W, I)
  <2>1. last \in Int
    BY <1>2, <1>3
  <2> QED BY <1>2, <1>4, <1>9, <2>1, RevenueIs
<1>24. SimplifiedSummary(bk, c, m).revenue + SimplifiedSummary(bk, c, m).excluded
         = EarnedOver(bk, c, start..last)
  BY <1>10, <1>18, <1>19, <1>20, <1>21, <1>22, <1>23
<1> QED BY <1>1, <1>3, <1>24

-----------------------------------------------------------------------------
(* No voucher enters the books but as an entry that balances.              *)
LEMMA BooksAreDoubleEntry == NotesSpec => []DoubleEntries(ledgers)
<1>1. NotesInit => DoubleEntries(ledgers)
  BY DoubleEntryAssumption DEF NotesInit, DoubleEntries
<1>2. WellKept(ledgers) /\ DoubleEntries(ledgers) /\ [NotesNext]_notesVars => DoubleEntries(ledgers')
  <2> SUFFICES ASSUME WellKept(ledgers), DoubleEntries(ledgers), [NotesNext]_notesVars
               PROVE  DoubleEntries(ledgers')
    OBVIOUS
  <2>1. DOMAIN ledgers = Tables
    BY DEF WellKept
  <2>2. ASSUME NEW v \in VouchersToCome, PostVoucher(v) PROVE DoubleEntries(ledgers')
    <3>1. ledgers'.vouchers = ledgers.vouchers \cup {v}
      BY <2>1, <2>2 DEF PostVoucher, Tables
    <3>2. DoubleEntry(v) /\ IsFiniteSet(ledgers.vouchers)
      BY DoubleEntryAssumption DEF DoubleEntries
    <3>3. IsFiniteSet(ledgers'.vouchers)
      BY <3>1, <3>2, FS_AddElement
    <3> QED BY <3>1, <3>2, <3>3 DEF DoubleEntries
  <2>3. ASSUME NEW line \in ledgers.lines, Settle(line) PROVE DoubleEntries(ledgers')
    <3>1. ledgers'.vouchers = ledgers.vouchers
      BY <2>1, <2>3 DEF Settle, Tables
    <3> QED BY <3>1 DEF DoubleEntries
  <2>4. ASSUME NEW p \in ledgers.proposals, Decide(p) PROVE DoubleEntries(ledgers')
    <3>1. ledgers'.vouchers = ledgers.vouchers
      BY <2>1, <2>4 DEF Decide, Tables
    <3> QED BY <3>1 DEF DoubleEntries
  <2>5. CASE ledgers' = ledgers
    BY <2>5
  <2> QED  BY <2>2, <2>3, <2>4, <2>5
           DEF NotesNext, notesVars, NextDay, OpenHome, BeginPass, Skip, Send, SendFails,
               EndPass, PassDies
<1>3. (DoubleEntries(ledgers))' <=> DoubleEntries(ledgers')
  OBVIOUS
<1> QED  BY <1>1, <1>2, <1>3, BooksAreWellKept, PTL DEF NotesSpec

LEMMA SumsDoAgree ==
  ASSUME DoubleEntries(ledgers), NEW c \in Companies, NEW m \in Int
  PROVE  SumsAgree(c, m)
<1>1. /\ TrialBalance(ledgers, c, m).debit = TrialBalance(ledgers, c, m).credit
      /\ GeneralJournal(ledgers, c, m).total =
           [debit |-> TrialBalance(ledgers, c, m).debit,
            credit |-> TrialBalance(ledgers, c, m).credit]
  BY TrialBalances
<1>2. /\ SumOf(CashJournal(ledgers, c, m).opening) + CashJournal(ledgers, c, m).total.debit
           - CashJournal(ledgers, c, m).total.credit = SumOf(CashJournal(ledgers, c, m).closing)
      /\ CashJournal(ledgers, c, m + 1).opening = CashJournal(ledgers, c, m).closing
  BY CashMoves
<1>3. MonthTotals(ledgers, c, m).profit
        = NetDebit(RowsOf(ledgers, c, m, m, OfRootType(c, "Balance")))
  BY ProfitIsKept
<1>4. (\A x \in OfRootType(c, "Expense") : SpentOn(ledgers, c, x, m) >= 0)
        => TopExpenses(ledgers, c, m, All).total = MonthTotals(ledgers, c, m).expense
  BY SpendingAddsUp
<1>5. LET vat == VatSummary(ledgers, c, m)
      IN /\ vat.output = OutputsOf(DOMAIN vat.documents, vat.documents)
         /\ vat.input = InputsOf(DOMAIN vat.documents, vat.documents)
  BY VatAddsUp
<1>6. SimplifiedSummary(ledgers, c, m).revenue + SimplifiedSummary(ledgers, c, m).excluded
        = EarnedOver(ledgers, c, QuarterStart(m)..(QuarterStart(m) + 2))
  BY QuarterAddsUp
<1> QED BY <1>1, <1>2, <1>3, <1>4, <1>5, <1>6 DEF SumsAgree, OutputsOf, InputsOf, EarnedOver

(* The figures of a company's month are one set of figures, whatever was   *)
(* posted and whatever the chart: its books balance, journals and trial    *)
(* balance total the same, cash opens where it closed, profit is what the  *)
(* balance accounts gained, and accounts, documents and months add up to   *)
(* the month's spending, its VAT and the quarter.                          *)
THEOREM BooksAddUp ==
  NotesSpec => [](\A c \in Companies : \A m \in Int : SumsAgree(c, m))
<1>1. DoubleEntries(ledgers) => \A c \in Companies : \A m \in Int : SumsAgree(c, m)
  BY SumsDoAgree
<1> QED BY <1>1, BooksAreDoubleEntry, PTL

-----------------------------------------------------------------------------
(* The lists, the cards and the chat agree with these sums, and with one    *)
(* another.                                                                *)

(* Numbers stay names, and a line waits as long as something of it is left.*)
TablesKept(bk) ==
  /\ bk.vouchers \subseteq BooksFound.vouchers \cup VouchersToCome
  /\ IsFiniteSet(bk.lines) /\ IsFiniteSet(bk.proposals)
  /\ \A line \in bk.lines :
       "left" \in DOMAIN line /\ line.left > 0 /\ line.bank \in Banks[line.company]
  /\ \A line \in bk.settled : line.left = 0

LEMMA TablesAreKept == NotesSpec => []TablesKept(ledgers)
<1>1. NotesInit => TablesKept(ledgers)
  BY TablesAssumption DEF NotesInit, TablesKept
<1>2. WellKept(ledgers) /\ TablesKept(ledgers) /\ [NotesNext]_notesVars => TablesKept(ledgers')
  <2> SUFFICES ASSUME WellKept(ledgers), TablesKept(ledgers), [NotesNext]_notesVars
               PROVE  TablesKept(ledgers')
    OBVIOUS
  <2>0. DOMAIN ledgers = Tables
    BY DEF WellKept
  <2>1. ASSUME NEW v \in VouchersToCome, PostVoucher(v) PROVE TablesKept(ledgers')
    BY <2>0, <2>1 DEF PostVoucher, TablesKept, Tables
  <2>2. ASSUME NEW line \in ledgers.lines, Settle(line) PROVE TablesKept(ledgers')
    <3> DEFINE paid == [line EXCEPT !.left = 0]
    <3>1. "left" \in DOMAIN line
      BY DEF TablesKept
    <3>2. paid.left = 0
      BY <3>1
    <3>3. /\ ledgers'.vouchers = ledgers.vouchers /\ ledgers'.proposals = ledgers.proposals
          /\ ledgers'.lines = ledgers.lines \ {line}
          /\ ledgers'.settled = ledgers.settled \cup {paid}
      BY <2>0, <2>2 DEF Settle, Tables
    <3>4. IsFiniteSet(ledgers'.lines)
      BY <3>3, FS_RemoveElement DEF TablesKept
    <3> HIDE DEF paid
    <3> QED BY <3>2, <3>3, <3>4 DEF TablesKept
  <2>3. ASSUME NEW p \in ledgers.proposals, Decide(p) PROVE TablesKept(ledgers')
    <3>1. /\ ledgers'.vouchers = ledgers.vouchers /\ ledgers'.lines = ledgers.lines
          /\ ledgers'.settled = ledgers.settled
          /\ ledgers'.proposals = ledgers.proposals \ {p}
      BY <2>0, <2>3 DEF Decide, Tables
    <3>2. IsFiniteSet(ledgers'.proposals)
      BY <3>1, FS_RemoveElement DEF TablesKept
    <3> QED BY <3>1, <3>2 DEF TablesKept
  <2>4. CASE ledgers' = ledgers
    BY <2>4
  <2> QED  BY <2>1, <2>2, <2>3, <2>4
           DEF NotesNext, notesVars, NextDay, OpenHome, BeginPass, Skip, Send, SendFails,
               EndPass, PassDies
<1>3. (TablesKept(ledgers))' <=> TablesKept(ledgers')
  OBVIOUS
<1> QED BY <1>1, <1>2, <1>3, BooksAreWellKept, PTL DEF NotesSpec

(* A list of all elements of a set, each once.                             *)
Lists(s, S) ==
  /\ s \in Seq(S) /\ Len(s) = Cardinality(S)
  /\ \A x \in S : \E i \in 1..Len(s) : s[i] = x
  /\ \A i, j \in 1..Len(s) : s[i] = s[j] => i = j

Listing(s) == \E S : s \in Seq(S)

LEMMA ListingOf ==
  ASSUME NEW n \in Nat, NEW f, f = [i \in 1..n |-> f[i]]
  PROVE  f \in Seq({f[i] : i \in 1..n}) /\ Len(f) = n /\ DOMAIN f = 1..n
<1>1. f \in [1..n -> {f[i] : i \in 1..n}]
  OBVIOUS
<1> QED BY <1>1

LEMMA FirstIs ==
  ASSUME NEW S, NEW s \in Seq(S), NEW n \in Nat
  PROVE  /\ First(n, s) \in Seq(S)
         /\ Len(First(n, s)) = IF n < Len(s) THEN n ELSE Len(s)
         /\ \A i \in 1..Len(First(n, s)) : i \in 1..Len(s) /\ First(n, s)[i] = s[i]
         /\ Len(s) =< n => First(n, s) = s
<1>0. Len(s) \in Nat
  BY LenProperties
<1> DEFINE k == IF n < Len(s) THEN n ELSE Len(s)
<1>1. k \in Nat /\ k =< Len(s)
  BY <1>0
<1>2. First(n, s) = SubSeq(s, 1, k)
  BY DEF First
<1>3. \A i \in 1..k : s[i] \in S
  BY <1>0, <1>1, ElementOfSeq
<1>4. k = IF n < Len(s) THEN n ELSE Len(s)
  OBVIOUS
<1> HIDE DEF k
<1>5. 1 \in Int /\ k \in Int
  BY <1>1
<1>6. /\ SubSeq(s, 1, k) \in Seq(S)
      /\ Len(SubSeq(s, 1, k)) = IF 1 <= k THEN k - 1 + 1 ELSE 0
      /\ \A i \in 1..(k - 1 + 1) : SubSeq(s, 1, k)[i] = s[1 + i - 1]
  BY <1>3, <1>5, SubSeqProperties
<1>7. Len(SubSeq(s, 1, k)) = k
  BY <1>1, <1>6
<1>8. \A i \in 1..k : SubSeq(s, 1, k)[i] = s[i]
  BY <1>1, <1>6
<1>9. ASSUME Len(s) =< n PROVE First(n, s) = s
  <2>1. k = Len(s)
    BY <1>4, <1>9, <1>0
  <2> QED BY <1>2, <2>1, SubSeqFull
<1> QED BY <1>0, <1>1, <1>2, <1>4, <1>6, <1>7, <1>8, <1>9

(* What is put in its place by its rank.                                   *)
Placed(f, less, S) ==
  /\ f = [i \in 1..Cardinality(S) |-> f[i]]
  /\ \A i \in 1..Cardinality(S) :
       (\E x \in S : Cardinality(Before(less, S, x)) = i - 1)
         => f[i] \in S /\ Cardinality(Before(less, S, f[i])) = i - 1

LEMMA ListedByRank ==
  ASSUME NEW S, IsFiniteSet(S), NEW less, IsOrder(less, S), NEW f, Placed(f, less, S)
  PROVE  Lists(First(Cardinality(S), f), S)
<1>a. PICK n : n = Cardinality(S)
  OBVIOUS
<1>b. PICK rank : rank = [x \in S |-> Cardinality(Before(less, S, x))]
  OBVIOUS
<1>0. n \in Nat
  BY <1>a, FS_CardinalityType
<1>1. /\ \A x \in S : rank[x] \in 0..(n - 1)
      /\ \A x, y \in S : rank[x] = rank[y] => x = y
      /\ \A i \in 1..n : \E x \in S : rank[x] = i - 1
  <2>1. /\ \A x \in S : Cardinality(Before(less, S, x)) \in 0..(Cardinality(S) - 1)
        /\ \A x, y \in S : Cardinality(Before(less, S, x)) = Cardinality(Before(less, S, y))
                              => x = y
        /\ \A i \in 1..Cardinality(S) : \E x \in S : Cardinality(Before(less, S, x)) = i - 1
    BY RanksAreOnesOwn
  <2> QED BY <1>a, <1>b, <2>1
<1>2. f = [i \in 1..n |-> f[i]]
  BY <1>a DEF Placed
<1>3. \A i \in 1..n : f[i] \in S /\ rank[f[i]] = i - 1
  <2>1. \A i \in 1..n : (\E x \in S : rank[x] = i - 1)
                            => f[i] \in S /\ Cardinality(Before(less, S, f[i])) = i - 1
    BY <1>a, <1>b DEF Placed
  <2> QED BY <1>1, <1>b, <2>1
<1>4. f \in Seq(S) /\ Len(f) = n
  <2>1. f \in [1..n -> S]
    BY <1>2, <1>3
  <2> QED BY <1>0, <2>1
<1>5. First(n, f) = f
  BY <1>0, <1>4, FirstIs
<1>6. ASSUME NEW x \in S PROVE \E i \in 1..n : f[i] = x
  <2>1. PICK i : i = rank[x] + 1
    OBVIOUS
  <2>2. i \in 1..n /\ i - 1 = rank[x]
    BY <1>0, <1>1, <2>1
  <2>3. f[i] \in S /\ rank[f[i]] = rank[x]
    BY <1>3, <2>2
  <2>4. f[i] = x
    BY <1>1, <2>3
  <2> QED BY <2>2, <2>4
<1>7. ASSUME NEW i \in 1..n, NEW j \in 1..n, f[i] = f[j] PROVE i = j
  <2>1. i - 1 = j - 1
    BY <1>3, <1>7
  <2> QED BY <1>0, <2>1
<1> QED BY <1>a, <1>4, <1>5, <1>6, <1>7 DEF Lists

(* The newest vouchers of a month first.                                   *)
LaterThan(v, w) == v.day > w.day \/ (v.day = w.day /\ v.no > w.no)
NewestVouchers(V) == Ordered(V, LaterThan)

NthNewest(V, i) == CHOOSE v \in V : Cardinality({w \in V : LaterThan(w, v)}) = i - 1

LEMMA NewestListed ==
  ASSUME NEW V, IsFiniteSet(V),
         \A v \in V : v.no \in Int /\ v.day \in Int,
         \A v, w \in V : v.no = w.no => v = w
  PROVE  Lists(NewestVouchers(V), V)
<1>1. PICK less : less = {p \in V \X V : LaterThan(p[1], p[2])}
  OBVIOUS
<1>2. \A v, w \in V : <<v, w>> \in less <=> LaterThan(v, w)
  BY <1>1
<1>3. IsOrder(less, V)
  <2>1. \A v \in V : <<v, v>> \notin less
    BY <1>2 DEF LaterThan
  <2>2. \A v, w \in V : v # w => <<v, w>> \in less \/ <<w, v>> \in less
    BY <1>2 DEF LaterThan
  <2>3. \A v, w, u \in V : <<v, w>> \in less /\ <<w, u>> \in less => <<v, u>> \in less
    BY <1>2 DEF LaterThan
  <2> QED BY <2>1, <2>2, <2>3 DEF IsOrder
<1>4. \A v \in V : Before(less, V, v) = {w \in V : LaterThan(w, v)}
  BY <1>2 DEF Before
<1>5. PICK f : f = [i \in 1..Cardinality(V) |-> NthNewest(V, i)]
  OBVIOUS
<1>6. Placed(f, less, V)
  <2>1. f = [i \in 1..Cardinality(V) |-> f[i]]
    BY <1>5
  <2>2. ASSUME NEW i \in 1..Cardinality(V), \E v \in V : Cardinality(Before(less, V, v)) = i - 1
        PROVE  f[i] \in V /\ Cardinality(Before(less, V, f[i])) = i - 1
    <3>1. \E v \in V : Cardinality({w \in V : LaterThan(w, v)}) = i - 1
      BY <1>4, <2>2
    <3>2. f[i] = CHOOSE v \in V : Cardinality({w \in V : LaterThan(w, v)}) = i - 1
      BY <1>5 DEF NthNewest
    <3>3. f[i] \in V /\ Cardinality({w \in V : LaterThan(w, f[i])}) = i - 1
      BY <3>1, <3>2, Zenon
    <3> QED BY <1>4, <3>3
  <2> QED BY <2>1, <2>2 DEF Placed
<1>7. NewestVouchers(V) = First(Cardinality(V), f)
  BY <1>5 DEF NewestVouchers, Ordered, NthNewest
<1> QED BY <1>3, <1>6, <1>7, ListedByRank

(* A list adds up to what the set does.                                    *)
LEMMA ListTotal ==
  ASSUME NEW S, IsFiniteSet(S), NEW s, Lists(s, S), NEW f, \A x \in S : f[x] \in Int,
         NEW h, \A i \in 1..Len(s) : h[i] = f[s[i]]
  PROVE  Total(h, 1..Len(s)) = Total(f, S)
<1>1. PICK n, D : n = Len(s) /\ D = 1..n
  OBVIOUS
<1>2. n \in Nat /\ IsFiniteSet(D) /\ s \in Seq(S)
  <2>1. n \in Nat /\ s \in Seq(S)
    BY <1>1, LenProperties DEF Lists
  <2>2. 1 \in Int /\ n \in Int
    BY <2>1
  <2> QED BY <1>1, <2>1, <2>2, FS_Interval
<1>3. \A i \in D : s[i] \in S
  BY <1>1, <1>2, ElementOfSeq
<1>4. {s[i] : i \in D} = S
  BY <1>1, <1>3 DEF Lists
<1>5. \A i \in D : h[i] \in Int /\ f[s[i]] = h[i]
  BY <1>1, <1>3
<1>6. \A i, j \in D : s[i] = s[j] => i = j
  BY <1>1 DEF Lists
<1>7. Total(f, {s[i] : i \in D}) = Total(h, D)
  BY <1>2, <1>5, <1>6, TotalRenamed
<1> QED BY <1>1, <1>4, <1>7

(* What a voucher debits in all.                                           *)
DebitsOf(v) == [a \in Accounts |-> IF v.moves[a] > 0 THEN v.moves[a] ELSE 0]

LEMMA TotalDebitIs == \A v : TotalDebit(v) = Total(DebitsOf(v), Accounts)
<1> TAKE v
<1>1. PICK f : f = DebitsOf(v)
  OBVIOUS
<1>2. \A g : IsFold(g, f, Accounts) <=>
        g = [s \in SUBSET Accounts |-> IF s = {} THEN 0
                ELSE (IF v.moves[CHOOSE x \in s : TRUE] > 0 THEN v.moves[CHOOSE x \in s : TRUE] ELSE 0)
                       + g[s \ {CHOOSE x \in s : TRUE}]]
  <2>1. \A s \in SUBSET Accounts : s # {} =>
          f[CHOOSE x \in s : TRUE]
            = IF v.moves[CHOOSE x \in s : TRUE] > 0 THEN v.moves[CHOOSE x \in s : TRUE] ELSE 0
    BY <1>1 DEF DebitsOf
  <2> QED BY <2>1 DEF IsFold, Pick
<1>3. TotalDebit(v) = (CHOOSE g : g = [s \in SUBSET Accounts |-> IF s = {} THEN 0
                ELSE (IF v.moves[CHOOSE x \in s : TRUE] > 0 THEN v.moves[CHOOSE x \in s : TRUE] ELSE 0)
                       + g[s \ {CHOOSE x \in s : TRUE}]])[Accounts]
  BY DEF TotalDebit, Plus, MapThenSumSet, MapThenFoldSet
<1> QED BY <1>1, <1>2, <1>3 DEF Total

LEMMA DebitsOfOne ==
  ASSUME NEW v, v.moves \in [Accounts -> Int]
  PROVE  Debits(Moved({v}, Accounts)) = TotalDebit(v) /\ TotalDebit(v) \in Int
<1>1. PICK f : f = DebitsOf(v)
  OBVIOUS
<1>2. PICK S : S = {x \in Accounts : v.moves[x] # 0}
  OBVIOUS
<1>3. PICK rows : rows = Moved({v}, Accounts)
  OBVIOUS
<1>4. PICK n : n = [x \in S |-> [voucher |-> v, account |-> x]]
  OBVIOUS
<1>5. rows = {n[x] : x \in S}
  <2>1. ASSUME NEW r \in rows PROVE r \in {n[x] : x \in S}
    <3>1. r \in [voucher : {v}, account : Accounts] /\ v.moves[r.account] # 0
      BY <1>3, <2>1 DEF Moved
    <3>2. r = [voucher |-> v, account |-> r.account] /\ r.account \in S
      BY <1>2, <3>1
    <3>3. r = n[r.account]
      BY <1>4, <3>2
    <3> QED BY <3>2, <3>3
  <2>2. ASSUME NEW x \in S PROVE n[x] \in rows
    <3>1. PICK r : r = [voucher |-> v, account |-> x]
      OBVIOUS
    <3>2. n[x] = r
      BY <1>4, <3>1
    <3>3. x \in Accounts /\ v.moves[x] # 0
      BY <1>2
    <3>4. r \in [voucher : {v}, account : Accounts] /\ r.voucher.moves[r.account] # 0
      BY <3>1, <3>3
    <3>5. r \in rows
      BY <1>3, <3>4 DEF Moved
    <3> QED BY <3>2, <3>5
  <2> QED BY <2>1, <2>2
<1>6. IsFiniteSet(S) /\ S \subseteq Accounts /\ IsFiniteSet(Accounts)
  BY <1>2, DoubleEntryAssumption, FS_Subset
<1>7. \A x \in Accounts : f[x] \in Int /\ f[x] = IF v.moves[x] > 0 THEN v.moves[x] ELSE 0
  BY <1>1 DEF DebitsOf
<1>8. \A x \in S : f[x] \in Int /\ Debited(rows)[n[x]] = f[x]
  <2> SUFFICES ASSUME NEW x \in S PROVE f[x] \in Int /\ Debited(rows)[n[x]] = f[x]
    OBVIOUS
  <2>1. n[x] \in rows /\ x \in Accounts
    BY <1>5, <1>6
  <2>2. n[x].voucher = v /\ n[x].account = x
    BY <1>4
  <2>3. Amount(n[x]) = v.moves[x]
    BY <2>2 DEF Amount
  <2>4. DebitOf(n[x]) = f[x]
    BY <1>7, <2>1, <2>3 DEF DebitOf
  <2> QED BY <1>7, <2>1, <2>4 DEF Debited
<1>9. \A x, y \in S : n[x] = n[y] => x = y
  <2>1. \A x \in S : n[x].account = x
    BY <1>4
  <2> QED BY <2>1
<1>10. Total(Debited(rows), {n[x] : x \in S}) = Total(f, S)
  BY <1>6, <1>8, <1>9, TotalRenamed
<1>11. Total(f, Accounts) = Total(f, S) + Total(f, Accounts \ S)
  <2>1. \A x \in Accounts : f[x] \in Int
    BY <1>7
  <2> QED BY <1>6, <2>1, TotalSplit
<1>12. Total(f, Accounts \ S) = 0
  <2>1. IsFiniteSet(Accounts \ S) /\ \A x \in Accounts \ S : f[x] = 0
    BY <1>2, <1>6, <1>7, FS_Subset
  <2> QED BY <2>1, TotalZero
<1>13. Total(f, S) \in Int
  BY <1>6, <1>8, TotalType
<1>14. Total(f, Accounts) = Total(f, S)
  BY <1>11, <1>12, <1>13
<1>15. Debits(rows) = Total(Debited(rows), rows)
  BY DebitsIs
<1>16. TotalDebit(v) = Total(f, Accounts)
  BY <1>1, TotalDebitIs
<1> QED BY <1>3, <1>5, <1>10, <1>13, <1>14, <1>15, <1>16

(* The debits of some rows, voucher by voucher.                            *)
MovedVouchers(rows) == {r.voucher : r \in rows}
DebitsOfEach(W) == [v \in W |-> TotalDebit(v)]

LEMMA DebitsByVoucher ==
  ASSUME NEW W, Posted(W)
  PROVE  LET rows == Moved(W, Accounts)
         IN  /\ MovedVouchers(rows) \in SUBSET W /\ IsFiniteSet(MovedVouchers(rows))
             /\ \A v \in W : DebitsOfEach(W)[v] \in Int
             /\ Debits(rows) = Total(DebitsOfEach(W), MovedVouchers(rows))
<1>1. PICK rows : rows = Moved(W, Accounts)
  OBVIOUS
<1>2. PICK V : V = MovedVouchers(rows)
  OBVIOUS
<1>3. PICK part : part = DebitsOfEach(W)
  OBVIOUS
<1>4. Accounts \in SUBSET Accounts
  OBVIOUS
<1>5. IsFiniteSet(rows) /\ \A r \in rows : r.voucher \in W /\ Amount(r) \in Int
  BY <1>1, <1>4, RowsAreFinite
<1>6. PICK key : key = [r \in rows |-> r.voucher]
  OBVIOUS
<1>7. V = {key[r] : r \in rows}
  BY <1>2, <1>6 DEF MovedVouchers
<1>8. IsFiniteSet(V) /\ V \in SUBSET W
  BY <1>5, <1>6, <1>7, FiniteImage
<1>9. ASSUME NEW v \in W PROVE part[v] = Debits(Moved({v}, Accounts)) /\ part[v] \in Int
  <2>1. v.moves \in [Accounts -> Int]
    BY DEF Posted
  <2>2. part[v] = TotalDebit(v)
    BY <1>3 DEF DebitsOfEach
  <2> QED BY <2>1, <2>2, DebitsOfOne
<1>10. ASSUME NEW v \in V PROVE part[v] = Total(Debited(rows), {r \in rows : key[r] = v})
  <2>1. PICK some : some = Moved({v}, Accounts)
    OBVIOUS
  <2>2. v \in W
    BY <1>8
  <2>3. \A r : r \in some <=> r \in rows /\ key[r] = v
    BY <1>1, <1>6, <2>1, <2>2 DEF Moved
  <2>4. some = {r \in rows : key[r] = v} /\ some \in SUBSET rows
    BY <2>3
  <2>5. Debits(some) = Total(Debited(rows), some)
    BY <1>5, <2>4, PartsOfRows
  <2> QED BY <1>9, <2>1, <2>2, <2>4, <2>5
<1>11. SumsOfParts(part, Debited(rows), rows, key, V)
  BY <1>10 DEF SumsOfParts
<1>12. \A r \in rows : Debited(rows)[r] \in Int /\ key[r] \in V
  BY <1>5, <1>7 DEF Debited, DebitOf
<1>13. Total(Debited(rows), rows) = Total(part, V)
  BY <1>5, <1>8, <1>11, <1>12, TotalParts
<1> QED BY <1>1, <1>2, <1>3, <1>8, <1>9, <1>13, DebitsIs

LEMMA TrialDebits ==
  ASSUME NEW bk, DoubleEntries(bk), NEW c, NEW m
  PROVE  TrialBalance(bk, c, m).debit = Debits(Moved(Within(bk, c, m, m), Accounts))
<1>1. PICK rows : rows = RowsOf(bk, c, m, m, Accounts)
  OBVIOUS
<1>2. PICK W : W = Within(bk, c, m, m)
  OBVIOUS
<1>3. Posted(W) /\ rows = Moved(W, Accounts)
  BY <1>1, <1>2, WithinIs
<1>4. Accounts \in SUBSET Accounts
  OBVIOUS
<1>5. IsFiniteSet(rows) /\ \A r \in rows : Amount(r) \in Int
  BY <1>3, <1>4, RowsAreFinite
<1>6. PICK per : per = PerAccount(rows)
  OBVIOUS
<1>7. /\ DOMAIN per = {r.account : r \in rows}
      /\ per = [x \in {r.account : r \in rows} |-> TotalsRow({r \in rows : r.account = x})]
  BY <1>6 DEF PerAccount
<1>8. SumOf([x \in DOMAIN per |-> per[x].debit]) = Debits(rows)
  BY <1>5, <1>6, PerAccountTotals
<1>9. TrialBalance(bk, c, m).debit = SumOf([x \in DOMAIN per |-> per[x].debit])
  BY <1>1, <1>7, Zenon DEF TrialBalance
<1> QED BY <1>2, <1>3, <1>8, <1>9

AmountsOf(s) == SeqSum(s, LAMBDA r : r.amount)
AmountsAt(D, s) == Plus(D, LAMBDA i : s[i].amount)
AreAmounts(h, D, s) == \A i \in D : h[i] = s[i].amount

LEMMA AmountsAre ==
  ASSUME NEW D, NEW s, NEW h, AreAmounts(h, D, s)
  PROVE  AmountsAt(D, s) = Total(h, D)
<1>1. \A g : IsFold(g, h, D) <=>
        g = [t \in SUBSET D |-> IF t = {} THEN 0
                ELSE s[CHOOSE x \in t : TRUE].amount + g[t \ {CHOOSE x \in t : TRUE}]]
  <2>1. \A t \in SUBSET D : t # {} => h[Pick(t)] = s[Pick(t)].amount
    BY DEF Pick, AreAmounts
  <2> QED BY <2>1 DEF IsFold, Pick
<1>2. AmountsAt(D, s) = (CHOOSE g : g = [t \in SUBSET D |-> IF t = {} THEN 0
                ELSE s[CHOOSE x \in t : TRUE].amount + g[t \ {CHOOSE x \in t : TRUE}]])[D]
  BY DEF AmountsAt, Plus, MapThenSumSet, MapThenFoldSet
<1> QED BY <1>1, <1>2 DEF Total

LEMMA NumbersAreNames ==
  ASSUME NEW bk, DoubleEntries(bk), TablesKept(bk), NEW V \in SUBSET bk.vouchers
  PROVE  /\ IsFiniteSet(V)
         /\ \A v \in V : v.no \in Int /\ v.day \in Int /\ OfItsType(v)
         /\ \A v, w \in V : v.no = w.no => v = w
<1>1. IsFiniteSet(V)
  BY FS_Subset DEF DoubleEntries
<1>2. V \subseteq BooksFound.vouchers \cup VouchersToCome
  <2>1. bk.vouchers \subseteq BooksFound.vouchers \cup VouchersToCome
    BY Zenon DEF TablesKept
  <2> QED BY <2>1
<1>3. ASSUME NEW v \in V PROVE v.day \in Int
  <2>1. DoubleEntry(v)
    BY DEF DoubleEntries
  <2>2. v.day \in 1..30
    BY <2>1 DEF DoubleEntry
  <2> QED BY <2>2
<1>4. \A v \in V : v.no \in Int /\ OfItsType(v)
  BY <1>2, TablesAssumption
<1>5. \A v, w \in V : v.no = w.no => v = w
  BY <1>2, TablesAssumption
<1> QED BY <1>1, <1>3, <1>4, <1>5

LEMMA VouchersAddUp ==
  ASSUME NEW bk, DoubleEntries(bk), TablesKept(bk), NEW c, NEW m, NEW limit \in Nat,
         Cardinality(bk.vouchers) =< limit
  PROVE  AmountsOf(RecentVouchers(bk, c, m, limit).rows) = TrialBalance(bk, c, m).debit
<1>1. PICK W : W = Within(bk, c, m, m)
  OBVIOUS
<1>2. PICK rows : rows = Moved(W, Accounts)
  OBVIOUS
<1>3. PICK V : V = MovedVouchers(rows)
  OBVIOUS
<1>4. Posted(W) /\ W \in SUBSET bk.vouchers /\ RowsOf(bk, c, m, m, Accounts) = rows
  BY <1>1, <1>2, WithinIs
<1>5. V \in SUBSET W /\ IsFiniteSet(V)
  BY <1>2, <1>3, <1>4, DebitsByVoucher
<1>6. PICK part : part = DebitsOfEach(W)
  OBVIOUS
<1>7. (\A v \in W : part[v] \in Int) /\ Debits(rows) = Total(part, V)
  BY <1>2, <1>3, <1>4, <1>6, DebitsByVoucher
<1>8. PICK s : s = NewestVouchers(V)
  OBVIOUS
<1>9. Lists(s, V)
  <2>1. V \in SUBSET bk.vouchers
    BY <1>4, <1>5
  <2>2. /\ \A v \in V : v.no \in Int /\ v.day \in Int
        /\ \A v, w \in V : v.no = w.no => v = w
    BY <2>1, NumbersAreNames
  <2> QED BY <1>5, <1>8, <2>2, NewestListed
<1>10. s \in Seq(V) /\ Len(s) = Cardinality(V)
  BY <1>9 DEF Lists
<1>11. Len(s) =< limit
  <2>1. V \in SUBSET bk.vouchers /\ IsFiniteSet(bk.vouchers)
    BY <1>4, <1>5 DEF DoubleEntries
  <2>2. Cardinality(V) <= Cardinality(bk.vouchers)
    BY <2>1, FS_Subset
  <2>3. Cardinality(V) \in Nat /\ Cardinality(bk.vouchers) \in Nat
    BY <1>5, <2>1, FS_CardinalityType
  <2> QED BY <1>10, <2>2, <2>3
<1>12. First(limit, s) = s
  BY <1>10, <1>11, FirstIs
<1>13. RecentVouchers(bk, c, m, limit).rows
         = [i \in DOMAIN s |-> [no |-> s[i].no, amount |-> TotalDebit(s[i]),
                                direction |-> Direction(c, s[i])]]
  <2>1. {row.voucher : row \in RowsOf(bk, c, m, m, Accounts)} = V
    BY <1>3, <1>4 DEF MovedVouchers
  <2>2. Ordered(V, LAMBDA v, w : v.day > w.day \/ (v.day = w.day /\ v.no > w.no)) = s
    BY <1>8 DEF NewestVouchers, LaterThan
  <2>3. First(limit, Ordered(V, LAMBDA v, w : v.day > w.day \/ (v.day = w.day /\ v.no > w.no))) = s
    BY <1>12, <2>2
  <2> QED BY <2>1, <2>3 DEF RecentVouchers
<1>14. PICK list : list = RecentVouchers(bk, c, m, limit).rows
  OBVIOUS
<1>15. PICK h : h = [i \in 1..Len(s) |-> TotalDebit(s[i])]
  OBVIOUS
<1>16. DOMAIN s = 1..Len(s) /\ \A i \in 1..Len(s) : s[i] \in V
  BY <1>10, LenProperties, ElementOfSeq
<1>17. DOMAIN list = 1..Len(s) /\ \A i \in 1..Len(s) : list[i].amount = TotalDebit(s[i])
  BY <1>13, <1>14, <1>16
<1>18. AreAmounts(h, 1..Len(s), list)
  BY <1>15, <1>17 DEF AreAmounts
<1>19. AmountsOf(list) = Total(h, 1..Len(s))
  <2>1. AmountsOf(list) = AmountsAt(1..Len(s), list)
    BY <1>17 DEF AmountsOf, AmountsAt, SeqSum
  <2> QED BY <1>18, <2>1, AmountsAre
<1>20. \A i \in 1..Len(s) : h[i] = part[s[i]]
  BY <1>5, <1>6, <1>15, <1>16 DEF DebitsOfEach
<1>21. \A v \in V : part[v] \in Int
  BY <1>5, <1>7
<1>22. Total(h, 1..Len(s)) = Total(part, V)
  BY <1>5, <1>9, <1>20, <1>21, ListTotal
<1> QED BY <1>1, <1>2, <1>7, <1>14, <1>19, <1>22, TrialDebits

(* The largest first, of equals the one that was given first.              *)
Larger(large, i, j) == large[i] > large[j] \/ (large[i] = large[j] /\ i < j)
NthLargest(D, large, i) ==
  CHOOSE x \in D : Cardinality({y \in D : Larger(large, y, x)}) = i - 1
BySize(D, large) == Ordered(D, LAMBDA i, j : large[i] > large[j] \/ (large[i] = large[j] /\ i < j))

LEMMA LargestListed ==
  ASSUME NEW D \in SUBSET Int, IsFiniteSet(D), NEW large, \A i \in D : large[i] \in Int
  PROVE  Lists(BySize(D, large), D)
<1>1. PICK less : less = {p \in D \X D : Larger(large, p[1], p[2])}
  OBVIOUS
<1>2. \A x, y \in D : <<x, y>> \in less <=> Larger(large, x, y)
  BY <1>1
<1>3. IsOrder(less, D)
  <2>1. \A x \in D : <<x, x>> \notin less
    BY <1>2 DEF Larger
  <2>2. \A x, y \in D : x # y => <<x, y>> \in less \/ <<y, x>> \in less
    BY <1>2 DEF Larger
  <2>3. \A x, y, z \in D : <<x, y>> \in less /\ <<y, z>> \in less => <<x, z>> \in less
    BY <1>2 DEF Larger
  <2> QED BY <2>1, <2>2, <2>3 DEF IsOrder
<1>4. \A x \in D : Before(less, D, x) = {y \in D : Larger(large, y, x)}
  BY <1>2 DEF Before
<1>5. PICK f : f = [i \in 1..Cardinality(D) |-> NthLargest(D, large, i)]
  OBVIOUS
<1>6. Placed(f, less, D)
  <2>1. f = [i \in 1..Cardinality(D) |-> f[i]]
    BY <1>5
  <2>2. ASSUME NEW i \in 1..Cardinality(D), \E x \in D : Cardinality(Before(less, D, x)) = i - 1
        PROVE  f[i] \in D /\ Cardinality(Before(less, D, f[i])) = i - 1
    <3>1. \E x \in D : Cardinality({y \in D : Larger(large, y, x)}) = i - 1
      BY <1>4, <2>2
    <3>2. f[i] = CHOOSE x \in D : Cardinality({y \in D : Larger(large, y, x)}) = i - 1
      BY <1>5 DEF NthLargest
    <3>3. f[i] \in D /\ Cardinality({y \in D : Larger(large, y, f[i])}) = i - 1
      BY <3>1, <3>2, Zenon
    <3> QED BY <1>4, <3>3
  <2> QED BY <2>1, <2>2 DEF Placed
<1>7. BySize(D, large) = First(Cardinality(D), f)
  BY <1>5 DEF BySize, Ordered, NthLargest, Larger
<1> QED BY <1>3, <1>6, <1>7, ListedByRank

NthLeast(D, i) == CHOOSE x \in D : Cardinality({y \in D : y < x}) = i - 1
Rising(D) == Ordered(D, <)

LEMMA RisingListed ==
  ASSUME NEW D \in SUBSET Int, IsFiniteSet(D)
  PROVE  /\ Lists(Rising(D), D)
         /\ \A x \in D : (\A y \in D : x =< y) => Rising(D)[1] = x
<1>1. PICK less : less = {p \in D \X D : p[1] < p[2]}
  OBVIOUS
<1>2. \A x, y \in D : <<x, y>> \in less <=> x < y
  BY <1>1
<1>3. IsOrder(less, D)
  <2>1. \A x \in D : <<x, x>> \notin less
    BY <1>2
  <2>2. \A x, y \in D : x # y => <<x, y>> \in less \/ <<y, x>> \in less
    BY <1>2
  <2>3. \A x, y, z \in D : <<x, y>> \in less /\ <<y, z>> \in less => <<x, z>> \in less
    BY <1>2
  <2> QED BY <2>1, <2>2, <2>3 DEF IsOrder
<1>4. \A x \in D : Before(less, D, x) = {y \in D : y < x}
  BY <1>2 DEF Before
<1>5. PICK f : f = [i \in 1..Cardinality(D) |-> NthLeast(D, i)]
  OBVIOUS
<1>6. Placed(f, less, D)
  <2>1. f = [i \in 1..Cardinality(D) |-> f[i]]
    BY <1>5
  <2>2. ASSUME NEW i \in 1..Cardinality(D), \E x \in D : Cardinality(Before(less, D, x)) = i - 1
        PROVE  f[i] \in D /\ Cardinality(Before(less, D, f[i])) = i - 1
    <3>1. \E x \in D : Cardinality({y \in D : y < x}) = i - 1
      BY <1>4, <2>2
    <3>2. f[i] = CHOOSE x \in D : Cardinality({y \in D : y < x}) = i - 1
      BY <1>5 DEF NthLeast
    <3>3. f[i] \in D /\ Cardinality({y \in D : y < f[i]}) = i - 1
      BY <3>1, <3>2, Zenon
    <3> QED BY <1>4, <3>3
  <2> QED BY <2>1, <2>2 DEF Placed
<1>7. Rising(D) = First(Cardinality(D), f)
  BY <1>5 DEF Rising, Ordered, NthLeast
<1>8. Lists(Rising(D), D)
  BY <1>3, <1>6, <1>7, ListedByRank
<1>9. ASSUME NEW x \in D, \A y \in D : x =< y PROVE Rising(D)[1] = x
  <2>1. Cardinality(D) \in Nat /\ Cardinality(D) # 0
    BY FS_CardinalityType, FS_EmptySet
  <2>2. PICK n : n = Cardinality(D)
    OBVIOUS
  <2>3. n \in Nat /\ 1 \in 1..n
    BY <2>1, <2>2
  <2>4. PICK s : s = Rising(D)
    OBVIOUS
  <2>5. s \in Seq(D) /\ Len(s) = n
    BY <1>8, <2>2, <2>4 DEF Lists
  <2>6. f = [i \in 1..n |-> f[i]]
    BY <1>6, <2>2 DEF Placed
  <2>7. f \in Seq({f[i] : i \in 1..n}) /\ Len(f) = n
    BY <2>3, <2>6, ListingOf
  <2>8. s = f
    BY <1>7, <2>2, <2>3, <2>4, <2>7, FirstIs
  <2>10. Before(less, D, x) = {}
    <3> SUFFICES ASSUME NEW y \in Before(less, D, x) PROVE FALSE
      OBVIOUS
    <3>1. y \in D /\ y < x
      BY <1>2 DEF Before
    <3>2. x =< y /\ x \in Int /\ y \in Int
      BY <1>9, <3>1
    <3> QED BY <3>1, <3>2
  <2>11. Cardinality(Before(less, D, x)) = 1 - 1
    BY <2>10, FS_EmptySet
  <2>12. f[1] \in D /\ Cardinality(Before(less, D, f[1])) = 0
    BY <1>6, <2>2, <2>3, <2>11 DEF Placed
  <2>13. PICK B : B = Before(less, D, f[1])
    OBVIOUS
  <2>14. IsFiniteSet(B) /\ Cardinality(B) = 0
    <3>1. B \in SUBSET D
      BY <2>13 DEF Before
    <3> QED BY <2>12, <2>13, <3>1, FS_Subset
  <2>15. x \in Int /\ f[1] \in Int /\ x =< f[1] /\ ~(x < f[1])
    <3>1. B = {}
      BY <2>14, FS_EmptySet
    <3>2. ~(x < f[1])
      BY <1>2, <2>12, <2>13, <3>1 DEF Before
    <3> QED BY <1>9, <2>12, <3>2
  <2>16. f[1] = x
    BY <2>15
  <2> QED BY <2>4, <2>8, <2>16
<1> QED BY <1>8, <1>9

(* A set as it is given, in whatever order.                                *)
LEMMA GivenListed ==
  ASSUME NEW S, IsFiniteSet(S)
  PROVE  Lists(SetToSeq(S), S)
<1>1. PICK n, D : n = Cardinality(S) /\ D = 1..n
  OBVIOUS
<1>2. n \in Nat /\ ExistsBijection(D, S)
  BY <1>1, FS_CardinalityType
<1>3. PICK b : b \in Bijection(D, S)
  BY <1>2 DEF ExistsBijection
<1>4. b \in [D -> S] /\ \A x, y \in D : b[x] = b[y] => x = y
  BY <1>3 DEF Bijection, Injection, IsInjective
<1>5. PICK s : s = SetToSeq(S)
  OBVIOUS
<1>6. s = CHOOSE f \in [D -> S] : IsInjective(f)
  BY <1>1, <1>5 DEF SetToSeq
<1>7. IsInjective(b)
  BY <1>4 DEF IsInjective
<1>8. s \in [D -> S] /\ IsInjective(s)
  BY <1>4, <1>6, <1>7
<1>9. s \in Injection(D, S)
  BY <1>8 DEF Injection
<1>10. Cardinality(D) = n /\ IsFiniteSet(D)
  <2>1. 1 \in Int /\ n \in Int
    BY <1>2
  <2>2. IsFiniteSet(D) /\ Cardinality(D) = IF 1 > n THEN 0 ELSE n - 1 + 1
    BY <1>1, <2>1, FS_Interval
  <2> QED BY <1>2, <2>2
<1>11. s \in Surjection(D, S)
  BY <1>1, <1>9, <1>10, FS_Injection
<1>12. \A x \in S : \E i \in D : s[i] = x
  BY <1>11 DEF Surjection
<1>13. s \in Seq(S) /\ Len(s) = n
  BY <1>1, <1>2, <1>8
<1>14. \A i, j \in D : s[i] = s[j] => i = j
  BY <1>8 DEF IsInjective
<1> QED BY <1>1, <1>5, <1>12, <1>13, <1>14 DEF Lists

-----------------------------------------------------------------------------
(* The cards and the chat.                                                 *)
SizesOf(S, size) ==
  LET given == SetToSeq(S) IN First(Len(given), [i \in DOMAIN given |-> size[given[i]]])
LargestOf(S, large) ==
  LET given == SetToSeq(S)
      order == BySize(DOMAIN given, large)
  IN [i \in DOMAIN order |-> given[order[i]]]

LEMMA LargestFirstIs == \A S, size : LargestFirst(S, size) = LargestOf(S, SizesOf(S, size))
BY DEF LargestFirst, LargestOf, SizesOf, BySize

LEMMA SizesAre ==
  ASSUME NEW S, IsFiniteSet(S), NEW size
  PROVE  LET given == SetToSeq(S)
         IN  /\ DOMAIN given = 1..Len(given) /\ Len(given) \in Nat
             /\ \A i \in DOMAIN given : given[i] \in S
             /\ \A i \in DOMAIN given : SizesOf(S, size)[i] = size[given[i]]
             /\ SizesOf(S, size) = [i \in DOMAIN given |-> size[given[i]]]
<1>1. PICK given : given = SetToSeq(S)
  OBVIOUS
<1>2. given \in Seq(S)
  BY <1>1, GivenListed DEF Lists
<1>3. PICK n : n = Len(given)
  OBVIOUS
<1>4. n \in Nat /\ DOMAIN given = 1..n /\ \A i \in 1..n : given[i] \in S
  BY <1>2, <1>3, LenProperties, ElementOfSeq
<1>5. PICK f : f = [i \in 1..n |-> size[given[i]]]
  OBVIOUS
<1>6. f = [i \in 1..n |-> f[i]]
  BY <1>5
<1>7. f \in Seq({f[i] : i \in 1..n}) /\ Len(f) = n
  BY <1>4, <1>6, ListingOf
<1>8. First(n, f) = f
  BY <1>4, <1>7, FirstIs
<1>9. SizesOf(S, size) = First(n, f)
  BY <1>1, <1>3, <1>4, <1>5 DEF SizesOf
<1>10. SizesOf(S, size) = [i \in 1..n |-> size[given[i]]]
  BY <1>5, <1>8, <1>9
<1> QED BY <1>1, <1>3, <1>4, <1>10

(* The same sizes, the same list.                                          *)
LEMMA SameSizes ==
  ASSUME NEW S, IsFiniteSet(S), NEW one, NEW other, \A x \in S : one[x] = other[x]
  PROVE  LargestFirst(S, one) = LargestFirst(S, other)
<1>1. PICK given : given = SetToSeq(S)
  OBVIOUS
<1>2. \A i \in DOMAIN given : given[i] \in S
  BY <1>1, SizesAre
<1>3. SizesOf(S, one) = [i \in DOMAIN given |-> one[given[i]]]
  BY <1>1, SizesAre
<1>4. SizesOf(S, other) = [i \in DOMAIN given |-> other[given[i]]]
  BY <1>1, SizesAre
<1>5. SizesOf(S, one) = SizesOf(S, other)
  BY <1>2, <1>3, <1>4
<1> QED BY <1>5, LargestFirstIs

LEMMA LargestIsList ==
  ASSUME NEW S, IsFiniteSet(S), NEW size, \A x \in S : size[x] \in Int
  PROVE  LargestFirst(S, size) \in Seq(S)
<1>1. PICK given : given = SetToSeq(S)
  OBVIOUS
<1>2. PICK large : large = SizesOf(S, size)
  OBVIOUS
<1>3. PICK n, D : n = Len(given) /\ D = 1..n
  OBVIOUS
<1>4. n \in Nat /\ DOMAIN given = D /\ \A i \in D : given[i] \in S /\ large[i] = size[given[i]]
  BY <1>1, <1>2, <1>3, SizesAre
<1>5. \A i \in D : large[i] \in Int
  BY <1>4
<1>6. D \in SUBSET Int /\ IsFiniteSet(D)
  <2>1. 1 \in Int /\ n \in Int
    BY <1>4
  <2> QED BY <1>3, <2>1, FS_Interval
<1>7. PICK order : order = BySize(D, large)
  OBVIOUS
<1>8. order \in Seq(D)
  BY <1>5, <1>6, <1>7, LargestListed DEF Lists
<1>9. Len(order) \in Nat /\ DOMAIN order = 1..Len(order) /\ \A i \in 1..Len(order) : order[i] \in D
  BY <1>8, LenProperties, ElementOfSeq
<1>10. LargestFirst(S, size) = [i \in 1..Len(order) |-> given[order[i]]]
  BY <1>1, <1>2, <1>4, <1>7, <1>9, LargestFirstIs DEF LargestOf
<1>11. LargestFirst(S, size) \in [1..Len(order) -> S]
  BY <1>4, <1>9, <1>10
<1> QED BY <1>9, <1>11

(* The chat is asked for a month.                                          *)
MonthAsked(m) == [Asking EXCEPT !.period = m]

LEMMA Asked ==
  ASSUME NEW m \in Nat, NEW c
  PROVE  /\ PeriodOf(MonthAsked(m), m) = m
         /\ Chat(c, "top_spend_accounts", m) = TopSpendAccounts(ledgers, c, MonthAsked(m), m).figures
         /\ Chat(c, "monthly_trend", m) = MonthlyTrend(ledgers, c, MonthAsked(m), m).figures
         /\ {OutputVat, InputVat} \subseteq Chart[c] =>
              Chat(c, "vat_position", m) = VatPosition(ledgers, c, MonthAsked(m), m).figures
<1>1. PICK args : args = MonthAsked(m)
  OBVIOUS
<1>2. args.period = m
  BY <1>1 DEF MonthAsked, Asking, NoSubject
<1>3. m # Typo /\ m # None
  BY ReadsAssumption
<1>4. PeriodOf(args, m) = m
  BY <1>2 DEF PeriodOf
<1>5. \A kind \in {"top_spend_accounts", "monthly_trend", "vat_position"} :
        /\ kind \in Kinds /\ kind # "explain_entry"
        /\ QueryArgs(kind) = {"period"} /\ ~Mistyped(kind, args)
  <2>1. \A kind \in {"top_spend_accounts", "monthly_trend", "vat_position"} :
          /\ kind \in Kinds /\ kind # "explain_entry" /\ QueryArgs(kind) = {"period"}
    BY DEF Kinds, QueryArgs
  <2>2. args["period"] # Typo
    BY <1>2, <1>3
  <2> QED BY <2>1, <2>2 DEF Mistyped
<1>6. /\ Fault(c, "top_spend_accounts", args) = None /\ Fault(c, "monthly_trend", args) = None
      /\ {OutputVat, InputVat} \subseteq Chart[c] => Fault(c, "vat_position", args) = None
  BY <1>5 DEF Fault
<1>7. Query(ledgers, c, "top_spend_accounts", args, m) = TopSpendAccounts(ledgers, c, args, m)
  BY <1>5, <1>6 DEF Query
<1>8. Query(ledgers, c, "monthly_trend", args, m) = MonthlyTrend(ledgers, c, args, m)
  BY <1>5, <1>6 DEF Query
<1>9. {OutputVat, InputVat} \subseteq Chart[c] =>
        Query(ledgers, c, "vat_position", args, m) = VatPosition(ledgers, c, args, m)
  BY <1>5, <1>6 DEF Query
<1>10. \A kind : Chat(c, kind, m) = Query(ledgers, c, kind, args, m).figures
  BY <1>1 DEF Chat, MonthAsked
<1> QED BY <1>1, <1>4, <1>7, <1>8, <1>9, <1>10

(* What is spent most: the card and the chat rank the same accounts.       *)
LEMMA TopIsAsked ==
  ASSUME NEW bk, DoubleEntries(bk), NEW c \in Companies, NEW m \in Nat, NEW limit \in Nat,
         NEW args, PeriodOf(args, m) = m
  PROVE  LET rows == TopExpenses(bk, c, m, limit).rows
         IN  \A i \in 1..TopLimit :
               i \in DOMAIN rows => rows[i].amount \in TopSpendAccounts(bk, c, args, m).figures
<1>1. PICK W : W = Within(bk, c, m, m)
  OBVIOUS
<1>2. PICK E : E = OfRootType(c, "Expense")
  OBVIOUS
<1>3. E \in SUBSET Accounts /\ IsFiniteSet(E) /\ E \subseteq Chart[c] /\ Chart[c] \subseteq Accounts
  BY <1>2, ChartIs, DoubleEntryAssumption, FS_Subset
<1>4. PICK spent : spent = [x \in E |-> NetDebit(RowsOf(bk, c, m, m, {x}))]
  OBVIOUS
<1>5. PICK asked : asked = [x \in Chart[c] |-> SpentOn(bk, c, x, m)]
  OBVIOUS
<1>6. ASSUME NEW x \in E PROVE spent[x] = asked[x] /\ spent[x] \in Int
  <2>1. spent[x] = Net(W, {x})
    BY <1>1, <1>4, WithinIs
  <2>2. x \in Accounts /\ x \in Chart[c] /\ m \in Int /\ {x} \in SUBSET Accounts
    BY <1>3
  <2>3. asked[x] = Net(W, {x})
    BY <1>1, <1>5, <2>2, SpentIs
  <2>4. Posted(W)
    BY <1>1, WithinIs
  <2>5. Net(W, {x}) \in Int
    BY <2>2, <2>4, NetType
  <2> QED BY <2>1, <2>3, <2>5
<1>7. PICK ranked : ranked = {x \in E : spent[x] > 0}
  OBVIOUS
<1>8. ranked = {x \in DOMAIN spent : spent[x] > 0}
  BY <1>4, <1>7
<1>9. ranked = {x \in Chart[c] : RootType[x] = "Expense" /\ asked[x] > 0}
  BY <1>2, <1>6, <1>7 DEF OfRootType
<1>10. IsFiniteSet(ranked) /\ \A x \in ranked : spent[x] = asked[x] /\ spent[x] \in Int
  <2>1. ranked \in SUBSET E
    BY <1>7
  <2> QED BY <1>3, <1>6, <2>1, FS_Subset
<1>11. PICK s : s = LargestFirst(ranked, spent)
  OBVIOUS
<1>12. s = LargestFirst(ranked, asked)
  BY <1>10, <1>11, SameSizes
<1>13. s \in Seq(ranked)
  BY <1>10, <1>11, LargestIsList
<1>14. PICK top : top = First(limit, s)
  OBVIOUS
<1>15. PICK told : told = First(TopLimit, s)
  OBVIOUS
<1>16. TopLimit \in Nat
  BY ReadsAssumption
<1>17. Len(s) \in Nat /\ \A i \in 1..Len(s) : s[i] \in ranked
  BY <1>13, LenProperties, ElementOfSeq
<1>18. /\ top \in Seq(ranked) /\ Len(top) = IF limit < Len(s) THEN limit ELSE Len(s)
       /\ \A i \in 1..Len(top) : top[i] = s[i]
  BY <1>13, <1>14, FirstIs
<1>19. /\ told \in Seq(ranked) /\ Len(told) = IF TopLimit < Len(s) THEN TopLimit ELSE Len(s)
       /\ \A i \in 1..Len(told) : told[i] = s[i]
  BY <1>13, <1>15, <1>16, FirstIs
<1>20. DOMAIN top = 1..Len(top) /\ DOMAIN told = 1..Len(told)
  BY <1>18, <1>19, LenProperties
<1>21. PICK rows : rows = TopExpenses(bk, c, m, limit).rows
  OBVIOUS
<1>22. PICK total : total = SumOf([x \in ranked |-> spent[x]])
  OBVIOUS
<1>23. rows = [i \in DOMAIN top |-> [account |-> top[i], amount |-> spent[top[i]],
                                     share |-> Percent(spent[top[i]], total)]]
  BY <1>2, <1>4, <1>8, <1>11, <1>14, <1>21, <1>22, Zenon DEF TopExpenses
<1>24. PICK figures : figures = TopSpendAccounts(bk, c, args, m).figures
  OBVIOUS
<1>25. figures = UNION {{asked[told[i]]} \cup Digits[told[i]] : i \in DOMAIN told}
                   \cup {Cardinality(ranked), Len(told)} \cup Calendar(m)
  <2>1. TopSpendAccounts(bk, c, args, m)
          = Reading([NoSubject EXCEPT !.period = m],
                    UNION {{asked[told[i]]} \cup Digits[told[i]] : i \in DOMAIN told}
                      \cup {Cardinality(ranked), Len(told)} \cup Calendar(m),
                    DateFigures(m))
    BY <1>5, <1>9, <1>12, <1>15, Zenon DEF TopSpendAccounts
  <2> QED BY <1>24, <2>1 DEF Reading
<1>26. ASSUME NEW i \in 1..TopLimit, i \in DOMAIN rows PROVE rows[i].amount \in figures
  <2>1. i \in DOMAIN top /\ rows[i].amount = spent[top[i]]
    BY <1>23, <1>26
  <2>2. i \in DOMAIN told /\ told[i] = top[i] /\ top[i] \in ranked
    BY <1>16, <1>17, <1>18, <1>19, <1>20, <1>26, <2>1
  <2>3. spent[top[i]] = asked[told[i]]
    BY <1>10, <2>2
  <2>4. asked[told[i]] \in {asked[told[i]]} \cup Digits[told[i]]
    OBVIOUS
  <2>5. asked[told[i]] \in UNION {{asked[told[k]]} \cup Digits[told[k]] : k \in DOMAIN told}
    BY <2>2, <2>4
  <2> QED BY <1>25, <2>1, <2>3, <2>5
<1> QED BY <1>21, <1>24, <1>26

(* What was earned and spent: the chat sums over the kinds of accounts, the*)
(* card over the accounts of the chart.                                    *)
LEMMA RootsAreTheChart ==
  ASSUME NEW bk, DoubleEntries(bk), NEW c \in Companies, NEW m \in Int, NEW root
  PROVE  OfRoot(bk, c, m, root) = NetDebit(RowsOf(bk, c, m, m, OfRootType(c, root)))
<1>1. \A v \in bk.vouchers : v.month \in m..m <=> v.month = m
  BY EntriesAreDated
<1>2. \A v \in bk.vouchers : \A a \in Accounts :
        v.company = c /\ v.moves[a] # 0 => a \in Chart[c]
  BY DEF DoubleEntries, DoubleEntry
<1>3. Chart[c] \subseteq Accounts
  BY ChartIs
<1>4. PICK one : one = {row \in InMonth(Gl(bk, c), m) : RootType[row.account] = root}
  OBVIOUS
<1>5. PICK other : other = RowsOf(bk, c, m, m, OfRootType(c, root))
  OBVIOUS
<1>6. ASSUME NEW r \in one PROVE r \in other
  <2>1. /\ r \in [voucher : bk.vouchers, account : Accounts]
        /\ r.voucher.company = c /\ r.voucher.moves[r.account] # 0
        /\ r.voucher.month = m /\ RootType[r.account] = root
    BY <1>4, <1>6 DEF InMonth, Gl
  <2>2. r.voucher \in bk.vouchers /\ r.account \in Accounts
        /\ r = [voucher |-> r.voucher, account |-> r.account]
    BY <2>1
  <2>3. r.account \in OfRootType(c, root)
    BY <1>2, <2>1, <2>2 DEF OfRootType
  <2>4. r.voucher \in {v \in bk.vouchers : v.company = c /\ v.month \in m..m}
    BY <1>1, <2>1, <2>2
  <2> QED BY <1>5, <2>1, <2>2, <2>3, <2>4 DEF RowsOf, Moved
<1>7. ASSUME NEW r \in other PROVE r \in one
  <2>1. /\ r \in [voucher : {v \in bk.vouchers : v.company = c /\ v.month \in m..m},
                  account : OfRootType(c, root)]
        /\ r.voucher.moves[r.account] # 0
    BY <1>5, <1>7 DEF RowsOf, Moved
  <2>2. r.account \in OfRootType(c, root) /\ r.voucher \in bk.vouchers
        /\ r.voucher.company = c /\ r.voucher.month = m
        /\ r = [voucher |-> r.voucher, account |-> r.account]
    BY <1>1, <2>1
  <2>3. r.account \in Accounts /\ RootType[r.account] = root
    BY <1>3, <2>2 DEF OfRootType
  <2>4. r \in [voucher : bk.vouchers, account : Accounts]
    BY <2>2, <2>3
  <2> QED BY <1>4, <2>1, <2>2, <2>3, <2>4 DEF InMonth, Gl
<1>8. one = other
  BY <1>6, <1>7
<1> QED BY <1>4, <1>5, <1>8 DEF OfRoot

LEMMA TrendIsAsked ==
  ASSUME NEW bk, DoubleEntries(bk), NEW c \in Companies, NEW m \in Nat,
         NEW args, PeriodOf(args, m) = m
  PROVE  {Magnitude(MonthTotals(bk, c, m).revenue), Magnitude(MonthTotals(bk, c, m).expense)}
           \subseteq MonthlyTrend(bk, c, args, m).figures
<1>1. PICK W, I, E : /\ W = Within(bk, c, m, m)
                     /\ I = OfRootType(c, "Income") /\ E = OfRootType(c, "Expense")
  OBVIOUS
<1>2. I \in SUBSET Accounts /\ E \in SUBSET Accounts /\ Posted(W)
  BY <1>1, ChartIs, WithinIs
<1>3. /\ NetDebit(RowsOf(bk, c, m, m, I)) = Net(W, I) /\ NetDebit(RowsOf(bk, c, m, m, E)) = Net(W, E)
      /\ Net(W, I) \in Int /\ Net(W, E) \in Int
  BY <1>1, <1>2, WithinIs, NetType
<1>4. OfRoot(bk, c, m, "Income") = Net(W, I) /\ OfRoot(bk, c, m, "Expense") = Net(W, E)
  BY <1>1, <1>3, RootsAreTheChart
<1>5. MonthTotals(bk, c, m).revenue = -Net(W, I) /\ MonthTotals(bk, c, m).expense = Net(W, E)
  BY <1>1, <1>3 DEF MonthTotals, NetCredit
<1>6. \A n \in Int : Magnitude(-n) = Magnitude(n)
  BY DEF Magnitude
<1>7. Magnitude(MonthTotals(bk, c, m).revenue) = Magnitude(OfRoot(bk, c, m, "Income"))
  BY <1>3, <1>4, <1>5, <1>6
<1>8. Magnitude(MonthTotals(bk, c, m).expense) = Magnitude(OfRoot(bk, c, m, "Expense"))
  BY <1>4, <1>5
<1>9. m \in (m - TrendMonths + 1)..m
  <2>1. TrendMonths \in Nat \ {0}
    BY ReadsAssumption
  <2> QED BY <2>1
<1>10. PICK told : told = {{Magnitude(OfRoot(bk, c, k, "Income")), Magnitude(OfRoot(bk, c, k, "Expense"))}
                      \cup Calendar(k) : k \in (m - TrendMonths + 1)..m}
  OBVIOUS
<1>11. MonthlyTrend(bk, c, args, m).figures = UNION told \cup {TrendMonths}
  BY <1>10 DEF MonthlyTrend, Reading
<1>12. {Magnitude(OfRoot(bk, c, m, "Income")), Magnitude(OfRoot(bk, c, m, "Expense"))}
                      \cup Calendar(m) \in told
  BY <1>9, <1>10
<1> QED BY <1>7, <1>8, <1>11, <1>12

LEMMA VatIsAsked ==
  ASSUME NEW bk, DoubleEntries(bk), NEW c \in Companies, NEW m \in Nat, c \in VatPayers,
         NEW args, PeriodOf(args, m) = m
  PROVE  LET vat == VatSummary(bk, c, m)
         IN  {Magnitude(vat.output), Magnitude(vat.input), Magnitude(vat.net)}
               \subseteq VatPosition(bk, c, args, m).figures
<1>1. PICK W : W = Within(bk, c, m, m)
  OBVIOUS
<1>2. OutputVat \in Accounts /\ InputVat \in Accounts /\ m \in Int
  BY ReadsAssumption
<1>3. PICK rows : rows = RowsOf(bk, c, m, m, {OutputVat, InputVat})
  OBVIOUS
<1>4. rows = Moved(W, {OutputVat, InputVat})
  BY <1>1, <1>3, WithinIs
<1>5. /\ {r \in rows : r.account = OutputVat} = Moved(W, {OutputVat})
      /\ {r \in rows : r.account = InputVat} = Moved(W, {InputVat})
  BY <1>4 DEF Moved
<1>6. VatOf(rows).output = -SpentOn(bk, c, OutputVat, m) /\ VatOf(rows).input = SpentOn(bk, c, InputVat, m)
  <2>1. /\ SpentOn(bk, c, OutputVat, m) = Net(W, {OutputVat})
        /\ SpentOn(bk, c, InputVat, m) = Net(W, {InputVat})
    BY <1>1, <1>2, SpentIs
  <2>2. /\ VatOf(rows).output = -NetDebit({r \in rows : r.account = OutputVat})
        /\ VatOf(rows).input = NetDebit({r \in rows : r.account = InputVat})
    BY DEF VatOf, NetCredit
  <2> QED BY <1>5, <2>1, <2>2 DEF Net
<1>7. PICK vat : vat = VatSummary(bk, c, m)
  OBVIOUS
<1>8. vat.output = VatOf(rows).output /\ vat.input = VatOf(rows).input
      /\ vat.net = VatOf(rows).output - VatOf(rows).input
  BY <1>3, <1>7 DEF VatSummary
<1>9. VatPosition(bk, c, args, m).figures
        = Calendar(m) \cup {Magnitude(VatOf(rows).output), Magnitude(VatOf(rows).input),
                            Magnitude(VatOf(rows).output - VatOf(rows).input)}
  BY <1>6 DEF VatPosition, Reading
<1> QED BY <1>7, <1>8, <1>9

LEMMA CardsDoAgree ==
  ASSUME DoubleEntries(ledgers), TablesKept(ledgers), NEW c \in Companies, NEW m \in Nat
  PROVE  CardsAgree(c, m)
<1>1. Cardinality(ledgers.vouchers) \in Nat
  BY FS_CardinalityType DEF DoubleEntries
<1>2. PICK all : all = All
  OBVIOUS
<1>3. all \in Nat /\ Cardinality(ledgers.vouchers) =< all
  BY <1>1, <1>2 DEF All
<1>4. SeqSum(RecentVouchers(ledgers, c, m, all).rows, LAMBDA r : r.amount)
        = TrialBalance(ledgers, c, m).debit
  BY <1>3, VouchersAddUp DEF AmountsOf
<1>5. PICK args : args = MonthAsked(m)
  OBVIOUS
<1>6. PeriodOf(args, m) = m
  BY <1>5, Asked
<1>7. PICK top : top = TopExpenses(ledgers, c, m, all)
  OBVIOUS
<1>8. \A i \in 1..TopLimit : i \in DOMAIN top.rows =>
          top.rows[i].amount \in Chat(c, "top_spend_accounts", m)
  BY <1>3, <1>5, <1>6, <1>7, Asked, TopIsAsked
<1>9. {Magnitude(MonthTotals(ledgers, c, m).revenue), Magnitude(MonthTotals(ledgers, c, m).expense)}
          \subseteq Chat(c, "monthly_trend", m)
  BY <1>5, <1>6, Asked, TrendIsAsked
<1>10. PICK vat : vat = VatSummary(ledgers, c, m)
  OBVIOUS
<1>11. ASSUME c \in VatPayers, ~VatRefused(c)
       PROVE  {Magnitude(vat.output), Magnitude(vat.input), Magnitude(vat.net)}
                \subseteq Chat(c, "vat_position", m)
  <2>1. RoleAccount(c, "output_vat") # None /\ RoleAccount(c, "input_vat") # None
    BY <1>11 DEF VatRefused
  <2>2. /\ RoleAccount(c, "output_vat") = IF OutputVat \in Chart[c] THEN OutputVat ELSE None
        /\ RoleAccount(c, "input_vat") = IF InputVat \in Chart[c] THEN InputVat ELSE None
    BY ReportsAssumption
  <2>3. {OutputVat, InputVat} \subseteq Chart[c]
    BY <2>1, <2>2
  <2> QED BY <1>5, <1>6, <1>10, <1>11, <2>3, Asked, VatIsAsked
<1>12. PICK month : month = MonthWithDelta(ledgers, c, m)
  OBVIOUS
<1>13. PICK last : last = RevenueTrend(ledgers, c, m)[TrendMonths]
  OBVIOUS
<1>14. PICK this : this = MonthTotals(ledgers, c, m)
  OBVIOUS
<1>15. PICK before : before = MonthTotals(ledgers, c, m - 1)
  OBVIOUS
<1>16. month.now = this /\ (DOMAIN this = {"revenue", "expense", "profit"}
       => month.pct.revenue = PctChange(before.revenue, this.revenue))
  BY <1>12, <1>14, <1>15 DEF MonthWithDelta
<1>17. DOMAIN this = {"revenue", "expense", "profit"}
  BY <1>14 DEF MonthTotals
<1>18. TrendMonths \in 1..TrendMonths /\ m - TrendMonths + TrendMonths = m
  BY ReadsAssumption
<1>19. /\ last.month = m
       /\ last.revenue = this.revenue /\ last.expense = this.expense
       /\ last.pct = IF TrendMonths = 1 THEN None ELSE PctChange(before.revenue, this.revenue)
  BY <1>13, <1>14, <1>15, <1>18 DEF RevenueTrend
<1>20. TrendMonths > 1 => last.pct = month.pct.revenue
  BY <1>16, <1>17, <1>19
<1> QED BY <1>2, <1>4, <1>7, <1>8, <1>9, <1>10, <1>11, <1>12, <1>13, <1>14, <1>16, <1>19, <1>20
        DEF CardsAgree

(* What a list of entries shows of some rows.                              *)
ShownSum(S, returned) == Plus(S, LAMBDA row : Listed(row, returned))
AreShown(h, S, returned) == \A row \in S : h[row] = Listed(row, returned)

LEMMA ShownSumIs ==
  ASSUME NEW S, NEW returned, NEW h, AreShown(h, S, returned)
  PROVE  ShownSum(S, returned) = Total(h, S)
<1>1. \A g : IsFold(g, h, S) <=>
        g = [s \in SUBSET S |-> IF s = {} THEN 0
                ELSE Listed(CHOOSE x \in s : TRUE, returned) + g[s \ {CHOOSE x \in s : TRUE}]]
  <2>1. \A s \in SUBSET S : s # {} => h[Pick(s)] = Listed(Pick(s), returned)
    BY DEF Pick, AreShown
  <2> QED BY <2>1 DEF IsFold, Pick
<1>2. ShownSum(S, returned) = (CHOOSE g : g = [s \in SUBSET S |-> IF s = {} THEN 0
                ELSE Listed(CHOOSE x \in s : TRUE, returned) + g[s \ {CHOOSE x \in s : TRUE}]])[S]
  BY DEF ShownSum, Plus, MapThenSumSet, MapThenFoldSet
<1> QED BY <1>1, <1>2 DEF Total

LEMMA ShownAsIs ==
  ASSUME NEW rows, NEW types
  PROVE  ShownAs(rows, types)
           = ShownSum({row \in rows : row.voucher.type \in types}, ReturnVouchers(rows))
BY DEF ShownAs, ShownSum

(* Rows of a supplier: invoices, what was returned, and payments.          *)
OfTypes(rows, types) == {row \in rows : row.voucher.type \in types}
SupplierRows(rows) ==
  /\ IsFiniteSet(rows)
  /\ \A r \in rows : /\ Amount(r) \in Int
                     /\ r.voucher.type \in {"invoice", "return", "payment"}
                     /\ r.voucher.type = "invoice" => Amount(r) =< 0
                     /\ r.voucher.type \in {"return", "payment"} => Amount(r) >= 0

LEMMA SuppliersAddUp ==
  ASSUME NEW rows, SupplierRows(rows)
  PROVE  /\ Purchases(rows) = ShownAs(rows, {"invoice", "return"})
         /\ Payments(rows) = ShownAs(rows, {"payment"})
<1>1. PICK I, R, P : /\ I = OfTypes(rows, {"invoice"}) /\ R = OfTypes(rows, {"return"})
                     /\ P = OfTypes(rows, {"payment"})
  OBVIOUS
<1>2. PICK S : S = Straight(rows)
  OBVIOUS
<1>3. PICK returned : returned = ReturnVouchers(rows)
  OBVIOUS
<1>4. \A r \in rows : r.voucher \in returned <=> r.voucher.type = "return"
  BY <1>3 DEF ReturnVouchers
<1>5. \A r \in rows : r \in I <=> r.voucher.type = "invoice"
  BY <1>1 DEF OfTypes
<1>6. \A r \in rows : r \in R <=> r.voucher.type = "return"
  BY <1>1 DEF OfTypes
<1>7. \A r \in rows : r \in P <=> r.voucher.type = "payment"
  BY <1>1 DEF OfTypes
<1>8. I \subseteq rows /\ R \subseteq rows /\ P \subseteq rows /\ S \subseteq rows
  BY <1>1, <1>2 DEF OfTypes, Straight
<1>9. \A r \in rows : r \in S <=> r \in I \/ r \in P
  <2>1. \A r \in rows : r \in S <=> r.voucher \notin returned
    BY <1>2, <1>3 DEF Straight
  <2>2. \A r \in rows : r.voucher.type \in {"invoice", "return", "payment"}
    BY DEF SupplierRows
  <2> QED BY <1>4, <1>5, <1>7, <2>1, <2>2
<1>10. I \subseteq S /\ P = S \ I /\ R = rows \ S
  <2>1. \A r \in rows : ~(r \in I /\ r \in P) /\ ~(r \in R /\ r \in I) /\ ~(r \in R /\ r \in P)
    BY <1>5, <1>6, <1>7
  <2>2. \A r \in rows : r \in R \/ r \in I \/ r \in P
    BY <1>5, <1>6, <1>7 DEF SupplierRows
  <2> QED BY <1>8, <1>9, <2>1, <2>2
<1>11. PICK both : both = OfTypes(rows, {"invoice", "return"})
  OBVIOUS
<1>12. both \subseteq rows /\ I \subseteq both /\ R = both \ I
  <2>1. both \subseteq rows
    BY <1>11 DEF OfTypes
  <2>2. \A r \in rows : r \in both <=> r \in I \/ r \in R
    BY <1>1, <1>11 DEF OfTypes
  <2>3. \A r \in rows : ~(r \in R /\ r \in I)
    BY <1>5, <1>6
  <2> QED BY <1>8, <2>1, <2>2, <2>3
<1>13. IsFiniteSet(rows) /\ IsFiniteSet(S) /\ IsFiniteSet(both)
       /\ IsFiniteSet(I) /\ IsFiniteSet(R) /\ IsFiniteSet(P)
  BY <1>8, <1>12, FS_Subset DEF SupplierRows
<1>14. PICK cr, db, am : cr = Credited(rows) /\ db = Debited(rows) /\ am = Amounts(rows)
  OBVIOUS
<1>15. PICK h : h = [r \in rows |-> Listed(r, returned)]
  OBVIOUS
<1>16. \A r \in rows : cr[r] = CreditOf(r) /\ db[r] = DebitOf(r) /\ am[r] = Amount(r)
                       /\ h[r] = Listed(r, returned)
  BY <1>14, <1>15 DEF Credited, Debited, Amounts
<1>17. ASSUME NEW r \in I PROVE h[r] = cr[r] /\ cr[r] \in Int /\ db[r] = 0 /\ h[r] \in Int
  <2>1. r \in rows /\ r.voucher \notin returned /\ Amount(r) \in Int /\ Amount(r) =< 0
    BY <1>4, <1>5, <1>8 DEF SupplierRows
  <2> QED BY <1>16, <2>1 DEF CreditOf, DebitOf, Listed, Magnitude
<1>18. ASSUME NEW r \in R PROVE h[r] = -am[r] /\ am[r] \in Int /\ h[r] \in Int
  <2>1. r \in rows /\ r.voucher \in returned /\ Amount(r) \in Int /\ Amount(r) >= 0
    BY <1>4, <1>6, <1>8 DEF SupplierRows
  <2> QED BY <1>16, <2>1 DEF Listed, Magnitude
<1>19. ASSUME NEW r \in P PROVE h[r] = db[r] /\ db[r] \in Int /\ cr[r] = 0
  <2>1. r \in rows /\ r.voucher \notin returned /\ Amount(r) \in Int /\ Amount(r) >= 0
    BY <1>4, <1>7, <1>8 DEF SupplierRows
  <2> QED BY <1>16, <2>1 DEF CreditOf, DebitOf, Listed, Magnitude
<1>20. Credits(S) = Total(cr, S) /\ Debits(S) = Total(db, S) /\ NetDebit(R) = Total(am, R)
  BY <1>8, <1>13, <1>14, PartsOfRows
<1>21. Total(cr, S) = Total(cr, I) + Total(cr, P)
  <2>1. \A r \in S : cr[r] \in Int
    BY <1>8, <1>9, <1>17, <1>19
  <2> QED BY <1>10, <1>13, <2>1, TotalSplit
<1>22. Total(db, S) = Total(db, I) + Total(db, P)
  <2>1. \A r \in S : db[r] \in Int
    BY <1>8, <1>9, <1>17, <1>19
  <2> QED BY <1>10, <1>13, <2>1, TotalSplit
<1>23. Total(cr, P) = 0 /\ Total(db, I) = 0
  BY <1>13, <1>17, <1>19, TotalZero
<1>24. Total(h, both) = Total(h, I) + Total(h, R)
  <2>1. \A r \in both : h[r] \in Int
    BY <1>12, <1>17, <1>18
  <2> QED BY <1>12, <1>13, <2>1, TotalSplit
<1>25. Total(h, I) = Total(cr, I) /\ Total(h, P) = Total(db, P)
  BY <1>13, <1>17, <1>19, TotalAgrees
<1>26. Total(h, R) = -Total(am, R)
  BY <1>13, <1>18, TotalNegated
<1>27. /\ Total(cr, I) \in Int /\ Total(am, R) \in Int /\ Total(db, P) \in Int
  BY <1>13, <1>17, <1>18, <1>19, TotalType
<1>28. ShownAs(rows, {"invoice", "return"}) = Total(h, both)
  <2>1. AreShown(h, both, returned)
    BY <1>12, <1>16 DEF AreShown
  <2> QED BY <1>3, <1>11, <2>1, ShownAsIs, ShownSumIs DEF OfTypes
<1>29. ShownAs(rows, {"payment"}) = Total(h, P)
  <2>1. AreShown(h, P, returned)
    BY <1>8, <1>16 DEF AreShown
  <2> QED BY <1>1, <1>3, <2>1, ShownAsIs, ShownSumIs DEF OfTypes
<1>30. Gross(rows) = Credits(S) /\ Payments(rows) = Debits(S)
  BY <1>2 DEF Gross, Payments, Credits, Debits
<1>31. Purchases(rows) = Credits(S) - NetDebit(R)
  BY <1>2, <1>10, <1>30 DEF Purchases, Returns
<1>32. Purchases(rows) = ShownAs(rows, {"invoice", "return"})
  BY <1>20, <1>21, <1>23, <1>24, <1>25, <1>26, <1>27, <1>28, <1>31
<1>33. Payments(rows) = ShownAs(rows, {"payment"})
  BY <1>20, <1>22, <1>23, <1>25, <1>27, <1>29, <1>30
<1> QED BY <1>32, <1>33

LEMMA SuppliersDoAgree ==
  ASSUME DoubleEntries(ledgers), TablesKept(ledgers), NEW c, NEW m
  PROVE  SuppliersAgree(c, m)
<1>1. SUFFICES ASSUME NEW s \in Suppliers,
                      \A row \in PartyRows(ledgers, c, s) : row.voucher.type # "journal"
               PROVE  LET rows == InMonth(PartyRows(ledgers, c, s), m)
                      IN  /\ Purchases(rows) = ShownAs(rows, {"invoice", "return"})
                          /\ Payments(rows) = ShownAs(rows, {"payment"})
  BY DEF SuppliersAgree
<1>2. PICK rows : rows = InMonth(PartyRows(ledgers, c, s), m)
  OBVIOUS
<1>3. PICK V : V = ledgers.vouchers
  OBVIOUS
<1>4. PICK gl : gl = Moved(V, Accounts)
  OBVIOUS
<1>5. V \in SUBSET ledgers.vouchers /\ V \in SUBSET V
  BY <1>3
<1>6. Posted(V) /\ \A v \in V : OfItsType(v)
  BY <1>5, SomeBalance, NumbersAreNames
<1>7. Accounts \in SUBSET Accounts
  OBVIOUS
<1>8. IsFiniteSet(gl) /\ \A r \in gl : r.voucher \in V /\ Amount(r) \in Int
  BY <1>4, <1>6, <1>7, RowsAreFinite
<1>9. \A r \in rows : r \in gl /\ r \in PartyRows(ledgers, c, s) /\ r.account = Payable
  BY <1>2, <1>3, <1>4 DEF InMonth, PartyRows, Gl, Moved
<1>10. IsFiniteSet(rows)
  <2>1. rows \in SUBSET gl
    BY <1>9
  <2> QED BY <1>8, <2>1, FS_Subset
<1>11. ASSUME NEW r \in rows
       PROVE  /\ Amount(r) \in Int
              /\ r.voucher.type \in {"invoice", "return", "payment"}
              /\ r.voucher.type = "invoice" => Amount(r) =< 0
              /\ r.voucher.type \in {"return", "payment"} => Amount(r) >= 0
  <2>1. r.voucher.type # "journal"
    BY <1>1, <1>9
  <2>2. OfItsType(r.voucher) /\ Amount(r) \in Int
    BY <1>6, <1>8, <1>9
  <2>3. Amount(r) = r.voucher.moves[Payable]
    BY <1>9 DEF Amount
  <2> QED BY <2>1, <2>2, <2>3 DEF OfItsType
<1>12. SupplierRows(rows)
  BY <1>10, <1>11 DEF SupplierRows
<1> QED BY <1>2, <1>12, SuppliersAddUp

-----------------------------------------------------------------------------
(* What waits: bank lines and proposals.                                   *)
LEMMA CountIs ==
  ASSUME NEW S, IsFiniteSet(S), NEW f, \A x \in S : f[x] = 1
  PROVE  Total(f, S) = Cardinality(S)
<1> DEFINE C == {T \in SUBSET S : Total(f, T) = Cardinality(T)}
<1>1. ASSUME NEW T \in SUBSET S, \A x \in T : T \ {x} \in C PROVE T \in C
  <2>1. CASE T = {}
    BY <2>1, TotalEmpty, FS_EmptySet
  <2>2. CASE T # {}
    <3>1. PICK x \in T : TRUE
      BY <2>2
    <3>2. PICK R : R = T \ {x}
      OBVIOUS
    <3>3. IsFiniteSet(T) /\ f[x] = 1 /\ \A y \in T : f[y] \in Int
      BY FS_Subset
    <3>4. Total(f, T) = f[x] + Total(f, R)
      BY <3>2, <3>3, TotalRemove
    <3>5. Total(f, R) = Cardinality(R)
      BY <1>1, <3>2
    <3>6. Cardinality(R) = Cardinality(T) - 1
      BY <3>2, <3>3, FS_RemoveElement
    <3>7. Cardinality(T) \in Nat
      BY <3>3, FS_CardinalityType
    <3>8. Total(f, T) = Cardinality(T)
      BY <3>3, <3>4, <3>5, <3>6, <3>7
    <3> QED BY <3>8
  <2> QED BY <2>1, <2>2
<1>2. \A T \in SUBSET S : T \in C
  <2> HIDE DEF C
  <2> QED BY <1>1, SubsetInduction
<1> QED BY <1>2

UnmatchedAt(D, at) == Plus(D, LAMBDA b : at[b].unmatched)
AreUnmatched(h, D, at) == \A b \in D : h[b] = at[b].unmatched

LEMMA UnmatchedAre ==
  ASSUME NEW D, NEW at, NEW h, AreUnmatched(h, D, at)
  PROVE  UnmatchedAt(D, at) = Total(h, D)
<1>1. \A g : IsFold(g, h, D) <=>
        g = [t \in SUBSET D |-> IF t = {} THEN 0
                ELSE at[CHOOSE x \in t : TRUE].unmatched + g[t \ {CHOOSE x \in t : TRUE}]]
  <2>1. \A t \in SUBSET D : t # {} => h[Pick(t)] = at[Pick(t)].unmatched
    BY DEF Pick, AreUnmatched
  <2> QED BY <2>1 DEF IsFold, Pick
<1>2. UnmatchedAt(D, at) = (CHOOSE g : g = [t \in SUBSET D |-> IF t = {} THEN 0
                ELSE at[CHOOSE x \in t : TRUE].unmatched + g[t \ {CHOOSE x \in t : TRUE}]])[D]
  BY DEF UnmatchedAt, Plus, MapThenSumSet, MapThenFoldSet
<1> QED BY <1>1, <1>2 DEF Total

(* The lines of a company that wait are those of its banks.                *)
OpenAt(bk, bank) == {l \in BankLines(bk, bank) : l.left > 0}

LEMMA LinesOfBanks ==
  ASSUME NEW bk, WellKept(bk), TablesKept(bk), NEW c \in Companies, NEW day
  PROVE  LET at == BankSummary(bk, c, day)
         IN  Cardinality(Unmatched(bk, c)) = UnmatchedAt(Banks[c], at)
<1>1. PICK at : at = BankSummary(bk, c, day)
  OBVIOUS
<1>2. PICK U : U = Unmatched(bk, c)
  OBVIOUS
<1>3. PICK B : B = Banks[c]
  OBVIOUS
<1>4. U \in SUBSET bk.lines /\ IsFiniteSet(U) /\ IsFiniteSet(B)
  <2>1. U \in SUBSET bk.lines
    BY <1>2 DEF Unmatched
  <2>2. IsFiniteSet(bk.lines)
    BY DEF TablesKept
  <2>3. IsFiniteSet(B)
    BY <1>3, TablesAssumption
  <2> QED BY <2>1, <2>2, <2>3, FS_Subset
<1>5. PICK key : key = [l \in U |-> l.bank]
  OBVIOUS
<1>6. PICK ones : ones = [l \in U |-> 1]
  OBVIOUS
<1>7. PICK part : part = [b \in B |-> at[b].unmatched]
  OBVIOUS
<1>8. \A l \in U : ones[l] \in Int /\ key[l] \in B /\ ones[l] = 1
  <2> SUFFICES ASSUME NEW l \in U PROVE ones[l] \in Int /\ key[l] \in B /\ ones[l] = 1
    OBVIOUS
  <2>1. l \in bk.lines /\ l.company = c
    BY <1>2 DEF Unmatched
  <2>2. l.bank \in Banks[l.company]
    BY <2>1 DEF TablesKept
  <2> QED BY <1>3, <1>5, <1>6, <2>1, <2>2
<1>9. ASSUME NEW b \in B PROVE part[b] = Total(ones, {l \in U : key[l] = b})
  <2>1. PICK here : here = {l \in U : key[l] = b}
    OBVIOUS
  <2>2. here \in SUBSET U /\ \A l : l \in here <=> l \in U /\ l.bank = b
    BY <1>5, <2>1
  <2>3. ASSUME NEW l \in here PROVE l \in OpenAt(bk, b)
    <3>1. l \in bk.lines /\ l.bank = b
      BY <1>4, <2>2, <2>3
    <3>2. l.left > 0
      BY <3>1 DEF TablesKept
    <3> QED BY <3>1, <3>2 DEF OpenAt, BankLines
  <2>4. ASSUME NEW l \in OpenAt(bk, b) PROVE l \in here
    <3>1. l \in bk.lines \cup bk.settled /\ l.bank = b /\ l.left > 0
      BY <2>4 DEF OpenAt, BankLines
    <3>2. l \notin bk.settled
      <4>1. ASSUME l \in bk.settled PROVE FALSE
        <5>1. l.left = 0
          BY <4>1 DEF TablesKept
        <5> QED BY <3>1, <5>1
      <4> QED BY <4>1
    <3>3. l.company = c
      BY <1>3, <3>1 DEF WellKept
    <3> QED BY <1>2, <2>2, <3>1, <3>2, <3>3 DEF Unmatched
  <2>5. here = OpenAt(bk, b)
    BY <2>3, <2>4
  <2>6. at[b].unmatched = Cardinality(OpenAt(bk, b))
    <3>1. at[b] = BankStatus(bk, c, b, day)
      BY <1>1, <1>3 DEF BankSummary
    <3> QED BY <3>1 DEF BankStatus, OpenAt
  <2>7. IsFiniteSet(here) /\ \A l \in here : ones[l] = 1
    BY <1>4, <1>8, <2>2, FS_Subset
  <2>8. Total(ones, here) = Cardinality(here)
    BY <2>7, CountIs
  <2> QED BY <1>7, <2>1, <2>5, <2>6, <2>8
<1>10. SumsOfParts(part, ones, U, key, B)
  BY <1>9 DEF SumsOfParts
<1>11. Total(ones, U) = Total(part, B)
  BY <1>4, <1>8, <1>10, TotalParts
<1>12. Total(ones, U) = Cardinality(U)
  BY <1>4, <1>8, CountIs
<1>13. AreUnmatched(part, B, at)
  BY <1>7 DEF AreUnmatched
<1>14. UnmatchedAt(B, at) = Total(part, B)
  BY <1>13, UnmatchedAre
<1> QED BY <1>1, <1>2, <1>3, <1>11, <1>12, <1>14

(* A list of proposals is as long as there are proposals, or as the list   *)
(* may be.                                                                 *)
NthProposal(W, i) == CHOOSE x \in W : Cardinality({y \in W : y.no > x.no}) = i - 1

LEMMA ProposalsListed ==
  ASSUME NEW bk, TablesKept(bk), NEW c, NEW limit \in Nat
  PROVE  LET n == Cardinality(Waiting(bk, c))
         IN  Len(PendingProposals(bk, c, limit)) = IF limit < n THEN limit ELSE n
<1>1. PICK W, n : W = Waiting(bk, c) /\ n = Cardinality(W)
  OBVIOUS
<1>2. IsFiniteSet(W)
  <2>1. W \in SUBSET bk.proposals
    BY <1>1 DEF Waiting
  <2>2. IsFiniteSet(bk.proposals)
    BY DEF TablesKept
  <2> QED BY <2>1, <2>2, FS_Subset
<1>3. n \in Nat
  BY <1>1, <1>2, FS_CardinalityType
<1>4. PICK f : f = [i \in 1..n |-> NthProposal(W, i)]
  OBVIOUS
<1>5. f = [i \in 1..n |-> f[i]]
  BY <1>4
<1>6. f \in Seq({f[i] : i \in 1..n}) /\ Len(f) = n
  BY <1>3, <1>5, ListingOf
<1>7. First(n, f) = f
  BY <1>3, <1>6, FirstIs
<1>8. PendingProposals(bk, c, limit) = First(limit, First(n, f))
  <2>1. Ordered(W, LAMBDA p, q : p.no > q.no) = First(n, f)
    BY <1>1, <1>4 DEF Ordered, NthProposal
  <2>2. PendingProposals(bk, c, limit) = First(limit, Ordered(W, LAMBDA p, q : p.no > q.no))
    BY <1>1 DEF PendingProposals
  <2> QED BY <2>1, <2>2
<1>9. Len(First(limit, f)) = IF limit < n THEN limit ELSE n
  BY <1>6, FirstIs
<1> QED BY <1>1, <1>7, <1>8, <1>9

LEMMA LinesDoAgree ==
  ASSUME WellKept(ledgers), TablesKept(ledgers), NEW c \in Companies, NEW day
  PROVE  LinesAgree(c, day)
<1>1. PICK U : U = Unmatched(ledgers, c)
  OBVIOUS
<1>2. PICK home : home = Overview(ledgers, c, day)
  OBVIOUS
<1>3. /\ home.banks = BankSummary(ledgers, c, day)
      /\ home.pending.unmatched = Cardinality(U)
      /\ home.pending.proposals = Cardinality(Waiting(ledgers, c))
  BY <1>1, <1>2 DEF Overview, PendingCounts
<1>4. Cardinality(U) = Plus(Banks[c], LAMBDA b : home.banks[b].unmatched)
  <2>1. Cardinality(U) = UnmatchedAt(Banks[c], home.banks)
    BY <1>1, <1>3, LinesOfBanks
  <2> QED BY <2>1 DEF UnmatchedAt
<1>5. Len(PendingProposals(ledgers, c, PendingLimit)) = PendingLimit
       \/ Len(PendingProposals(ledgers, c, PendingLimit)) = home.pending.proposals
  <2>1. PendingLimit \in Nat
    BY ReportsAssumption
  <2> QED BY <1>3, <2>1, ProposalsListed
<1>6. Cardinality(U) \in UnmatchedCount(ledgers, c).figures
  BY <1>1 DEF UnmatchedCount, Reading
<1>7. Checklist(ledgers, c, day.month).unmatched =< Cardinality(U)
  <2>1. PICK some : some = {l \in U : l.month = day.month}
    OBVIOUS
  <2>2. U \in SUBSET ledgers.lines /\ IsFiniteSet(ledgers.lines)
    BY <1>1 DEF Unmatched, TablesKept
  <2>3. IsFiniteSet(U)
    BY <2>2, FS_Subset
  <2>4. Cardinality(some) <= Cardinality(U)
    BY <2>1, <2>3, FS_Subset
  <2>5. Checklist(ledgers, c, day.month).unmatched = Cardinality(some)
    BY <1>1, <2>1 DEF Checklist
  <2> QED BY <2>4, <2>5
<1> QED BY <1>1, <1>2, <1>3, <1>4, <1>5, <1>6, <1>7 DEF LinesAgree

-----------------------------------------------------------------------------
(* The signals of a day are a list, and its buttons one of the views.      *)
LEMMA ListingIs ==
  ASSUME NEW k \in Nat, NEW f, DOMAIN f = 1..k, f = [i \in DOMAIN f |-> f[i]]
  PROVE  Listing(f) /\ Len(f) = k
<1>1. f = [i \in 1..k |-> f[i]]
  OBVIOUS
<1>2. f \in Seq({f[i] : i \in 1..k}) /\ Len(f) = k
  BY <1>1, ListingOf
<1> QED BY <1>2 DEF Listing

LEMMA ListingHas ==
  ASSUME NEW s, Listing(s), NEW n \in Nat
  PROVE  /\ Len(s) \in Nat /\ DOMAIN s = 1..Len(s)
         /\ Listing(First(n, s))
<1>1. PICK S : s \in Seq(S)
  BY DEF Listing
<1>2. Len(s) \in Nat /\ DOMAIN s = 1..Len(s)
  BY <1>1, LenProperties
<1>3. First(n, s) \in Seq(S)
  BY <1>1, FirstIs
<1> QED BY <1>2, <1>3 DEF Listing

LEMMA ListingOfBoth ==
  ASSUME NEW s, Listing(s), NEW t, Listing(t)
  PROVE  Listing(s \o t)
<1>1. PICK S : s \in Seq(S)
  BY DEF Listing
<1>2. PICK T : t \in Seq(T)
  BY DEF Listing
<1>3. PICK U : U = S \cup T
  OBVIOUS
<1>4. S \subseteq U /\ T \subseteq U
  BY <1>3
<1>5. s \in Seq(U) /\ t \in Seq(U)
  BY <1>1, <1>2, <1>4, SeqMonotonic
<1>6. s \o t \in Seq(U)
  BY <1>5, ConcatProperties
<1> QED BY <1>6 DEF Listing

LEMMA SignalsList ==
  Listing(Silent) /\ \A kind, severity, figures, view : Listing(Signal(kind, severity, figures, view))
<1>1. <<>> \in Seq({})
  OBVIOUS
<1>2. \A x : <<x>> \in Seq({x})
  OBVIOUS
<1> QED BY <1>1, <1>2 DEF Listing, Silent, Signal

LEMMA LargestIsListing ==
  ASSUME NEW S, IsFiniteSet(S), NEW size
  PROVE  Listing(LargestFirst(S, size))
<1>1. PICK given : given = SetToSeq(S)
  OBVIOUS
<1>2. PICK large : large = SizesOf(S, size)
  OBVIOUS
<1>3. PICK D : D = DOMAIN given
  OBVIOUS
<1>4. D = 1..Len(given) /\ Len(given) \in Nat
  BY <1>1, <1>3, SizesAre
<1>5. IsFiniteSet(D)
  <2>1. 1 \in Int /\ Len(given) \in Int
    BY <1>4
  <2> QED BY <1>4, <2>1, FS_Interval
<1>6. PICK n : n = Cardinality(D)
  OBVIOUS
<1>7. n \in Nat
  BY <1>5, <1>6, FS_CardinalityType
<1>8. PICK f : f = [i \in 1..n |-> NthLargest(D, large, i)]
  OBVIOUS
<1>9. f = [i \in 1..n |-> f[i]]
  BY <1>8
<1>10. f \in Seq({f[i] : i \in 1..n}) /\ Len(f) = n
  BY <1>7, <1>9, ListingOf
<1>11. First(n, f) = f
  BY <1>7, <1>10, FirstIs
<1>12. BySize(D, large) = First(n, f)
  BY <1>6, <1>8 DEF BySize, Ordered, NthLargest, Larger
<1>13. PICK s : s = LargestFirst(S, size)
  OBVIOUS
<1>14. s = [i \in DOMAIN f |-> given[f[i]]]
  BY <1>1, <1>2, <1>3, <1>11, <1>12, <1>13, LargestFirstIs DEF LargestOf
<1>15. DOMAIN s = 1..n /\ s = [i \in DOMAIN s |-> s[i]]
  BY <1>9, <1>14
<1> QED BY <1>7, <1>13, <1>15, ListingIs

LEMMA ShownAreFinite ==
  ASSUME NEW bk, NEW c \in Companies, NEW month
  PROVE  IsFiniteSet(DOMAIN Spent(bk, c, month))
<1>1. PICK E : E = OfRootType(c, "Expense")
  OBVIOUS
<1>2. E \in SUBSET Accounts /\ IsFiniteSet(E)
  BY <1>1, ChartIs, DoubleEntryAssumption, FS_Subset
<1>3. PICK spent : spent = [x \in E |-> NetDebit(RowsOf(bk, c, month, month, {x}))]
  OBVIOUS
<1>4. PICK ranked : ranked = {x \in DOMAIN spent : spent[x] > 0}
  OBVIOUS
<1>5. ranked \in SUBSET E
  BY <1>3, <1>4
<1>6. IsFiniteSet(ranked)
  BY <1>2, <1>5, FS_Subset
<1>7. PICK list : list = First(SpikeLimit, LargestFirst(ranked, spent))
  OBVIOUS
<1>8. SpikeLimit \in Nat
  BY DEF SpikeLimit
<1>9. Listing(list)
  BY <1>6, <1>7, <1>8, LargestIsListing, ListingHas
<1>10. Len(list) \in Nat /\ DOMAIN list = 1..Len(list)
  BY <1>8, <1>9, ListingHas
<1>11. PICK rows : rows = TopExpenses(bk, c, month, SpikeLimit).rows
  OBVIOUS
<1>12. PICK total : total = SumOf([x \in ranked |-> spent[x]])
  OBVIOUS
<1>13. rows = [i \in DOMAIN list |-> [account |-> list[i], amount |-> spent[list[i]],
                                      share |-> Percent(spent[list[i]], total)]]
  BY <1>1, <1>3, <1>4, <1>7, <1>11, <1>12, Zenon DEF TopExpenses
<1>14. DOMAIN rows = DOMAIN list
  BY <1>13
<1>15. IsFiniteSet(DOMAIN rows)
  <2>1. 1 \in Int /\ Len(list) \in Int
    BY <1>10
  <2> QED BY <1>10, <1>14, <2>1, FS_Interval
<1>16. PICK n : n = [i \in DOMAIN rows |-> rows[i].account]
  OBVIOUS
<1>17. Shown(rows) = {n[i] : i \in DOMAIN rows}
  BY <1>16 DEF Shown
<1>18. IsFiniteSet(Shown(rows))
  BY <1>15, <1>17, FiniteImage
<1> QED BY <1>11, <1>18 DEF Spent

LEMMA SpikesList ==
  ASSUME NEW at, NEW before, IsFiniteSet(DOMAIN at)
  PROVE  Listing(Spikes(at, before))
<1>1. PICK J : J = Jumped(at, before)
  OBVIOUS
<1>2. J \in SUBSET DOMAIN at
  BY <1>1 DEF Jumped
<1>3. IsFiniteSet(J)
  BY <1>2, FS_Subset
<1>4. PICK pct : pct = [x \in J |-> PctChange(before[x], at[x])]
  OBVIOUS
<1>5. PICK list : list = First(2, LargestFirst(J, pct))
  OBVIOUS
<1>6. Listing(list)
  BY <1>3, <1>5, LargestIsListing, ListingHas
<1>7. Len(list) \in Nat /\ DOMAIN list = 1..Len(list)
  BY <1>6, ListingHas
<1>8. PICK s : s = Spikes(at, before)
  OBVIOUS
<1>9. DOMAIN pct = J
  BY <1>4
<1>10. s = [i \in DOMAIN list |->
              Sign("expense_spike", 2, {at[list[i]], before[list[i]], pct[list[i]]} \cup Digits[list[i]],
                   "top")]
  BY <1>1, <1>4, <1>5, <1>8, <1>9 DEF Spikes
<1>11. DOMAIN s = 1..Len(list) /\ s = [i \in DOMAIN s |-> s[i]]
  BY <1>7, <1>10
<1> QED BY <1>7, <1>8, <1>11, ListingIs

LEMMA MissingList ==
  ASSUME NEW bills, NEW day
  PROVE  Listing(MissingBills(bills, day))
<1>1. PICK missing : missing = Overdue(bills, day)
  OBVIOUS
<1>2. missing \in SUBSET Suppliers
  BY <1>1 DEF Overdue
<1>3. IsFiniteSet(missing)
  BY <1>2, TablesAssumption, FS_Subset
<1>4. SetToSeq(missing) \in Seq(missing)
  BY <1>3, GivenListed DEF Lists
<1>5. PICK list : list = First(2, SetToSeq(missing))
  OBVIOUS
<1>6. Listing(SetToSeq(missing))
  BY <1>4 DEF Listing
<1>7. Listing(list)
  BY <1>5, <1>6, ListingHas
<1>8. Len(list) \in Nat /\ DOMAIN list = 1..Len(list)
  BY <1>7, ListingHas
<1>9. PICK s : s = MissingBills(bills, day)
  OBVIOUS
<1>10. s = [i \in DOMAIN list |->
              Sign("recurring_missing", 2,
                   {RecurringMonths, UsualDay(bills, list[i], day)} \cup Digits[list[i]], "tx")]
  BY <1>1, <1>5, <1>9 DEF MissingBills
<1>11. DOMAIN s = 1..Len(list) /\ s = [i \in DOMAIN s |-> s[i]]
  BY <1>8, <1>10
<1> QED BY <1>8, <1>9, <1>11, ListingIs

(* The loudest first: as many as were found.                               *)
LouderThan(found, i, j) == \/ found[i].severity > found[j].severity
                           \/ found[i].severity = found[j].severity /\ i < j
NthLoudest(D, found, i) ==
  CHOOSE x \in D : Cardinality({y \in D : LouderThan(found, y, x)}) = i - 1
ByLoudness(D, found) ==
  Ordered(D, LAMBDA i, j : \/ found[i].severity > found[j].severity
                           \/ found[i].severity = found[j].severity /\ i < j)

LEMMA LoudestAreListed ==
  ASSUME NEW found, Listing(found)
  PROVE  Listing(LoudestFirst(found))
<1>1. PICK D : D = DOMAIN found
  OBVIOUS
<1>2. 0 \in Nat
  OBVIOUS
<1>3. Len(found) \in Nat /\ D = 1..Len(found)
  BY <1>1, <1>2, ListingHas
<1>4. IsFiniteSet(D)
  <2>1. 1 \in Int /\ Len(found) \in Int
    BY <1>3
  <2> QED BY <1>3, <2>1, FS_Interval
<1>5. PICK n : n = Cardinality(D)
  OBVIOUS
<1>6. n \in Nat
  BY <1>4, <1>5, FS_CardinalityType
<1>7. PICK f : f = [i \in 1..n |-> NthLoudest(D, found, i)]
  OBVIOUS
<1>8. f = [i \in 1..n |-> f[i]]
  BY <1>7
<1>9. f \in Seq({f[i] : i \in 1..n}) /\ Len(f) = n
  BY <1>6, <1>8, ListingOf
<1>10. First(n, f) = f
  BY <1>6, <1>9, FirstIs
<1>11. ByLoudness(D, found) = First(n, f)
  BY <1>5, <1>7 DEF ByLoudness, Ordered, NthLoudest, LouderThan
<1>12. PICK s : s = LoudestFirst(found)
  OBVIOUS
<1>13. PICK order : order = ByLoudness(D, found)
  OBVIOUS
<1>14. s = [i \in DOMAIN order |-> found[order[i]]]
  BY <1>1, <1>12, <1>13 DEF LoudestFirst, ByLoudness
<1>15. DOMAIN s = 1..n /\ s = [i \in DOMAIN s |-> s[i]]
  BY <1>8, <1>10, <1>11, <1>13, <1>14
<1> QED BY <1>6, <1>12, <1>15, ListingIs

LEMMA SignalsAreListed ==
  ASSUME NEW bk, NEW c \in Companies, NEW day
  PROVE  Listing(Signals(bk, c, day))
<1>1. Listing(CashSignal(bk, c, day))
  BY SignalsList DEF CashSignal
<1>2. Listing(ThresholdSignal(bk, c, day))
  BY SignalsList DEF ThresholdSignal
<1>3. Listing(UnmatchedSignal(bk, c, day))
  BY SignalsList DEF UnmatchedSignal, AgingSignal
<1>4. Listing(ProposalsSignal(bk, c, day))
  BY SignalsList DEF ProposalsSignal
<1>5. Listing(RulesSignal(bk, c))
  BY SignalsList DEF RulesSignal
<1>6. Listing(ExpenseSignals(bk, c, day.month))
  BY ShownAreFinite, SpikesList DEF ExpenseSignals
<1>7. Listing(RevenueSignal(bk, c, day))
  BY SignalsList DEF RevenueSignal, Drop
<1>8. Listing(RecurringSignals(bk, c, day))
  BY MissingList DEF RecurringSignals
<1>9. Listing(MonthEndSignal(bk, c, day))
  BY SignalsList DEF MonthEndSignal
<1>10. PICK found : found = CashSignal(bk, c, day) \o ThresholdSignal(bk, c, day)
                 \o UnmatchedSignal(bk, c, day) \o ProposalsSignal(bk, c, day)
                 \o RulesSignal(bk, c) \o ExpenseSignals(bk, c, day.month)
                 \o RevenueSignal(bk, c, day) \o RecurringSignals(bk, c, day)
                 \o MonthEndSignal(bk, c, day)
  OBVIOUS
<1>11. Listing(found)
  <2>1. PICK p2 : p2 = CashSignal(bk, c, day) \o ThresholdSignal(bk, c, day)
    OBVIOUS
  <2>2. PICK p3 : p3 = p2 \o UnmatchedSignal(bk, c, day)
    OBVIOUS
  <2>3. PICK p4 : p4 = p3 \o ProposalsSignal(bk, c, day)
    OBVIOUS
  <2>4. PICK p5 : p5 = p4 \o RulesSignal(bk, c)
    OBVIOUS
  <2>5. PICK p6 : p6 = p5 \o ExpenseSignals(bk, c, day.month)
    OBVIOUS
  <2>6. PICK p7 : p7 = p6 \o RevenueSignal(bk, c, day)
    OBVIOUS
  <2>7. PICK p8 : p8 = p7 \o RecurringSignals(bk, c, day)
    OBVIOUS
  <2>8. Listing(p2) /\ found = p8 \o MonthEndSignal(bk, c, day)
    BY <1>1, <1>2, <1>10, <2>1, <2>2, <2>3, <2>4, <2>5, <2>6, <2>7, ListingOfBoth
  <2>9. Listing(p3)
    BY <1>3, <2>2, <2>8, ListingOfBoth
  <2>10. Listing(p4)
    BY <1>4, <2>3, <2>9, ListingOfBoth
  <2>11. Listing(p5)
    BY <1>5, <2>4, <2>10, ListingOfBoth
  <2>12. Listing(p6)
    BY <1>6, <2>5, <2>11, ListingOfBoth
  <2>13. Listing(p7)
    BY <1>7, <2>6, <2>12, ListingOfBoth
  <2>14. Listing(p8)
    BY <1>8, <2>7, <2>13, ListingOfBoth
  <2> QED BY <1>9, <2>8, <2>14, ListingOfBoth
<1>12. Signals(bk, c, day) = LoudestFirst(found)
  BY <1>10 DEF Signals
<1> QED BY <1>11, <1>12, LoudestAreListed

(* The first of each view, in the order of the signals.                    *)
Firsts(found) == {i \in DOMAIN found : \A j \in 1..(i - 1) : found[j].view # found[i].view}

LEMMA ButtonsDoAgree ==
  ASSUME NEW c \in Companies, NEW day
  PROVE  ButtonsAgree(c, day)
<1>1. PICK found : found = Signals(ledgers, c, day)
  OBVIOUS
<1>2. PICK D, k : D = DOMAIN found /\ k = Len(found)
  OBVIOUS
<1>3. 0 \in Nat /\ Listing(found)
  BY <1>1, SignalsAreListed
<1>4. k \in Nat /\ D = 1..k
  BY <1>2, <1>3, ListingHas
<1>5. SUFFICES ASSUME found # <<>>
               PROVE  /\ Actions(found)[1].view = found[1].view
                      /\ \A i, j \in DOMAIN Actions(found) :
                           Actions(found)[i].view = Actions(found)[j].view => i = j
  BY <1>1 DEF ButtonsAgree
<1>6. k # 0
  <2>1. ASSUME k = 0 PROVE FALSE
    <3>1. PICK S : found \in Seq(S)
      BY <1>3 DEF Listing
    <3>2. found = <<>>
      BY <1>2, <2>1, <3>1, EmptySeq
    <3> QED BY <1>5, <3>2
  <2> QED BY <2>1
<1>7. PICK F : F = Firsts(found)
  OBVIOUS
<1>8. /\ F \in SUBSET D /\ F \in SUBSET Int
      /\ \A i \in F : i \in D /\ \A j \in 1..(i - 1) : found[j].view # found[i].view
      /\ 1 \in F
  BY <1>2, <1>4, <1>6, <1>7 DEF Firsts
<1>9. IsFiniteSet(F)
  <2>1. 1 \in Int /\ k \in Int
    BY <1>4
  <2>2. IsFiniteSet(D)
    BY <1>4, <2>1, FS_Interval
  <2> QED BY <1>8, <2>2, FS_Subset
<1>10. \A y \in F : 1 =< y
  BY <1>4, <1>8
<1>11. PICK s : s = Rising(F)
  OBVIOUS
<1>12. Lists(s, F) /\ s[1] = 1
  BY <1>8, <1>9, <1>10, <1>11, RisingListed
<1>13. /\ s \in Seq(F) /\ Len(s) = Cardinality(F)
       /\ \A i, j \in 1..Len(s) : s[i] = s[j] => i = j
  BY <1>12 DEF Lists
<1>14. PICK order : order = First(MaxActions, s)
  OBVIOUS
<1>15. MaxActions \in Nat /\ MaxActions >= 1
  BY DEF MaxActions
<1>16. /\ order \in Seq(F) /\ Len(order) = IF MaxActions < Len(s) THEN MaxActions ELSE Len(s)
       /\ \A i \in 1..Len(order) : i \in 1..Len(s) /\ order[i] = s[i]
  BY <1>13, <1>14, <1>15, FirstIs
<1>17. /\ Len(order) \in Nat /\ DOMAIN order = 1..Len(order)
       /\ \A i \in 1..Len(order) : order[i] \in F
  BY <1>16, LenProperties, ElementOfSeq
<1>18. Len(order) >= 1
  <2>1. Len(s) \in Nat /\ Len(s) # 0
    BY <1>8, <1>9, <1>13, FS_CardinalityType, FS_EmptySet
  <2> QED BY <1>15, <1>16, <2>1
<1>19. PICK buttons : buttons = Actions(found)
  OBVIOUS
<1>20. buttons = [i \in DOMAIN order |-> found[order[i]]]
  BY <1>7, <1>11, <1>14, <1>19 DEF Actions, Firsts, Rising
<1>21. buttons[1].view = found[1].view
  <2>1. 1 \in DOMAIN order /\ 1 \in 1..Len(order)
    BY <1>17, <1>18
  <2>2. order[1] = 1
    BY <1>12, <1>16, <2>1
  <2> QED BY <1>20, <2>1, <2>2
<1>22. ASSUME NEW i \in DOMAIN buttons, NEW j \in DOMAIN buttons, buttons[i].view = buttons[j].view
       PROVE  i = j
  <2>1. i \in 1..Len(order) /\ j \in 1..Len(order)
    BY <1>17, <1>20
  <2>2. PICK x, y : x = order[i] /\ y = order[j]
    OBVIOUS
  <2>3. x \in F /\ y \in F /\ x \in 1..k /\ y \in 1..k
    BY <1>4, <1>8, <1>17, <2>1, <2>2
  <2>4. found[x].view = found[y].view
    BY <1>17, <1>20, <1>22, <2>1, <2>2
  <2>5. ~(x < y)
    <3>1. ASSUME x < y PROVE FALSE
      <4>1. x \in 1..(y - 1)
        BY <1>4, <2>3, <3>1
      <4> QED BY <1>8, <2>3, <2>4, <4>1
    <3> QED BY <3>1
  <2>6. ~(y < x)
    <3>1. ASSUME y < x PROVE FALSE
      <4>1. y \in 1..(x - 1)
        BY <1>4, <2>3, <3>1
      <4> QED BY <1>8, <2>3, <2>4, <4>1
    <3> QED BY <3>1
  <2>7. x = y
    BY <1>4, <2>3, <2>5, <2>6
  <2>8. s[i] = s[j] /\ i \in 1..Len(s) /\ j \in 1..Len(s)
    BY <1>16, <2>1, <2>2, <2>7
  <2> QED BY <1>13, <2>8
<1> QED BY <1>19, <1>21, <1>22

(* Whatever is posted, settled and decided: what is shown of a company and *)
(* a month is one set of figures.                                          *)
THEOREM ReportsDoAgree == NotesSpec => []ReportsAgree
<1>1. ASSUME WellKept(ledgers), DoubleEntries(ledgers), TablesKept(ledgers)
      PROVE  ReportsAgree
  <2>1. ASSUME NEW c \in Companies, NEW m \in MonthsOf(c)
        PROVE  m \in Nat
    <3>1. PICK v \in ledgers.vouchers : m = v.month
      BY <2>1 DEF MonthsOf
    <3>2. DoubleEntry(v)
      BY <1>1 DEF DoubleEntries
    <3> QED BY <3>1, <3>2 DEF DoubleEntry
  <2>2. \A c \in Companies : \A day : LinesAgree(c, day) /\ ButtonsAgree(c, day)
    BY <1>1, LinesDoAgree, ButtonsDoAgree
  <2>3. \A c \in Companies : \A m \in Int : SumsAgree(c, m)
    BY <1>1, SumsDoAgree
  <2>4. \A c \in Companies : \A m \in Nat : CardsAgree(c, m) /\ SuppliersAgree(c, m)
    BY <1>1, CardsDoAgree, SuppliersDoAgree
  <2>5. \A c \in Companies : \A m, day : OwnOnly(c, m, day)
    BY <1>1, OwnPage, OwnClose, OwnSignals DEF OwnOnly, OwnBooks
  <2> QED BY <2>1, <2>2, <2>3, <2>4, <2>5 DEF ReportsAgree
<1> QED BY <1>1, BooksAreWellKept, BooksAreDoubleEntry, TablesAreKept, PTL

-----------------------------------------------------------------------------
(* The morning note.                                                       *)

PassFields == {"seen", "day", "queue", "recorded", "failed"}

(* What is written down, by a round that may still lose it.                *)
Recorded == IF pass = NoPass THEN events ELSE pass.recorded
Once(slot) == IF slot \in Recorded THEN 1 ELSE 0

NotesTyped ==
  /\ today \in Days
  /\ events \subseteq Slots
  /\ delivered \in [Slots -> Nat] /\ faults \in [Slots -> Nat]
  /\ pass # NoPass =>
       /\ DOMAIN pass = PassFields
       /\ pass.day \in Days
       /\ pass.queue \in Seq(Companies)
       /\ events \subseteq pass.recorded /\ pass.recorded \subseteq Slots

(* What was kept is a note over the signals it is kept under.              *)
CacheTells == \A key \in DOMAIN cache : cache[key].figures \subseteq Allowed(key[3])

(* A card is written down, or a call or a round broke on it.               *)
CardsCounted == \A slot \in Slots : delivered[slot] =< faults[slot] + Once(slot)

(* The round forgets nobody.                                               *)
NobodyForgotten ==
  pass # NoPass =>
    \A c \in Range(Order) :
      \/ c \in Range(pass.queue) \cup pass.failed
      \/ Needs(c) => <<c, pass.day>> \in pass.recorded

NotesInv == NotesTyped /\ CacheTells /\ CardsCounted /\ NobodyForgotten

-----------------------------------------------------------------------------
LEMMA DaysCount == Days = 1..Len(Dates) /\ Len(Dates) \in Nat \ {0} /\ 1 \in Days
BY NotesAssumption DEF Days

(* A note, of whichever writer and of whatever age.                        *)
LEMMA NarratedIsAllowed ==
  ASSUME NEW found, NEW draft
  PROVE  Narrate(found, draft).figures \subseteq Allowed(found)
BY DEF Narrate

LEMMA NotesTell ==
  ASSUME CacheTells, NEW c, NEW day, NEW found, NEW note \in Notes(c, day, found)
  PROVE  /\ note.figures \subseteq Allowed(found)
         /\ Keep(c, day, found, note) => CacheTells'
<1>1. note.figures \subseteq Allowed(found)
  <2>1. Key(c, day, found)[3] = found
    BY DEF Key
  <2> QED  BY <2>1, NarratedIsAllowed DEF Notes, CacheTells
<1>2. ASSUME Keep(c, day, found, note) PROVE CacheTells'
  <2>1. Key(c, day, found)[3] = found
    BY DEF Key
  <2> HIDE DEF Key
  <2> QED  BY <1>1, <1>2, <2>1 DEF Keep, CacheTells, Key
<1> QED  BY <1>1, <1>2

LEMMA TailKeepsTheOthers ==
  ASSUME NEW S, NEW q \in Seq(S), q # <<>>
  PROVE  /\ Tail(q) \in Seq(S) /\ Head(q) \in S
         /\ Range(q) = Range(Tail(q)) \cup {Head(q)}
<1>1. Tail(q) \in Seq(S) /\ Head(q) \in S /\ Len(q) \in Nat /\ Len(q) # 0
      /\ Head(q) = q[1] /\ Len(Tail(q)) = Len(q) - 1
      /\ \A i \in 1..(Len(q) - 1) : Tail(q)[i] = q[i + 1]
  OBVIOUS
<1>2. DOMAIN q = 1..Len(q) /\ DOMAIN Tail(q) = 1..(Len(q) - 1)
  BY <1>1
<1>3. Range(Tail(q)) \subseteq Range(q)
  BY <1>1, <1>2 DEF Range
<1>4. q[1] \in Range(q)
  BY <1>1, <1>2 DEF Range
<1>5. ASSUME NEW i \in DOMAIN q, i # 1 PROVE q[i] \in Range(Tail(q))
  <2>1. i - 1 \in DOMAIN Tail(q) /\ Tail(q)[i - 1] = q[i]
    BY <1>1, <1>2, <1>5
  <2> QED  BY <2>1 DEF Range
<1>6. \A x \in Range(q) : \E i \in DOMAIN q : x = q[i]
  BY DEF Range
<1> QED  BY <1>1, <1>3, <1>4, <1>5, <1>6

LEMMA NotesInvInit == NotesInit => NotesInv
<1> SUFFICES ASSUME NotesInit PROVE NotesInv
  OBVIOUS
<1>1. NotesTyped
  BY DaysCount DEF NotesInit, NotesTyped
<1>2. CacheTells
  <2>1. DOMAIN cache = {}
    BY DEF NotesInit
  <2> QED  BY <2>1 DEF CacheTells
<1>3. CardsCounted
  BY DEF NotesInit, CardsCounted, Once, Recorded
<1>4. NobodyForgotten
  BY DEF NotesInit, NobodyForgotten
<1> QED  BY <1>1, <1>2, <1>3, <1>4 DEF NotesInv

-----------------------------------------------------------------------------
(* The books change, a day passes, a dashboard is opened: the round does   *)
(* not see it.                                                             *)
LEMMA OutsideTheRound ==
  ASSUME NotesInv, today' \in Days, UNCHANGED <<pass, events, delivered, faults>>, CacheTells'
  PROVE  NotesInv'
<1>1. NotesTyped'
  BY DEF NotesInv, NotesTyped
<1>2. CardsCounted'
  BY DEF NotesInv, CardsCounted, Once, Recorded
<1>3. NobodyForgotten'
  BY DEF NotesInv, NobodyForgotten, Needs
<1> QED  BY <1>1, <1>2, <1>3 DEF NotesInv

LEMMA BeginStep ==
  ASSUME NotesInv, BeginPass
  PROVE  NotesInv'
<1>1. /\ pass = NoPass
      /\ pass' = [seen |-> ledgers, day |-> today, queue |-> Order, recorded |-> events,
                  failed |-> {}]
      /\ UNCHANGED <<today, cache, events, delivered, faults>>
  BY DEF BeginPass
<1>2. DOMAIN pass' = PassFields /\ pass'.day = today /\ pass'.queue = Order
      /\ pass'.recorded = events /\ pass'.failed = {}
  BY <1>1 DEF PassFields
<1>3. NotesTyped'
  BY <1>1, <1>2, NotesAssumption DEF NotesInv, NotesTyped
<1>4. pass' # NoPass
  <2>1. today # 0 /\ NoPass.day = 0
    BY DaysCount DEF NotesInv, NotesTyped, NoPass
  <2> QED  BY <1>2, <2>1
<1>5. CardsCounted'
  BY <1>1, <1>2, <1>4 DEF NotesInv, CardsCounted, Once, Recorded
<1>6. CacheTells'
  BY <1>1 DEF NotesInv, CacheTells
<1>7. NobodyForgotten'
  BY <1>2 DEF NobodyForgotten
<1> QED  BY <1>3, <1>5, <1>6, <1>7 DEF NotesInv

(* One company of the round: it is skipped, told, or its card fails.       *)
TakesNext(slots, silenced) ==
  /\ DOMAIN pass' = PassFields
  /\ pass'.seen = pass.seen /\ pass'.day = pass.day
  /\ pass'.queue = Tail(pass.queue)
  /\ pass'.recorded = pass.recorded \cup slots
  /\ pass'.failed = pass.failed \cup silenced

LEMMA InTheRound ==
  ASSUME NotesInv, AtWork
  PROVE  /\ pass # NoPass /\ DOMAIN pass = PassFields
         /\ pass.day \in Days /\ Company \in Companies /\ Slot \in Slots
         /\ Tail(pass.queue) \in Seq(Companies)
         /\ Range(pass.queue) = Range(Tail(pass.queue)) \cup {Company}
<1>1. pass # NoPass /\ DOMAIN pass = PassFields /\ pass.queue # <<>> /\ pass.day \in Days
      /\ pass.queue \in Seq(Companies)
  BY DEF AtWork, NotesInv, NotesTyped
<1> QED  BY <1>1, TailKeepsTheOthers DEF Company, Slot, Slots

LEMMA NextCompany ==
  ASSUME NotesInv, AtWork, UNCHANGED <<today, events>>, CacheTells',
         NEW slots \in SUBSET {Slot}, NEW silenced \in SUBSET {Company},
         TakesNext(slots, silenced),
         Needs(Company) => Slot \in pass.recorded \cup slots \/ Company \in silenced,
         delivered' \in [Slots -> Nat], faults' \in [Slots -> Nat],
         \A slot \in Slots :
           \/ slot = Slot /\ delivered'[slot] =< faults'[slot] + (IF slot \in pass.recorded \cup slots THEN 1 ELSE 0)
           \/ delivered'[slot] = delivered[slot] /\ faults'[slot] = faults[slot]
  PROVE  NotesInv' /\ pass' # NoPass
<1>1. pass' # NoPass
  <2>1. 0 \notin Days /\ NoPass.day = 0
    BY DaysCount DEF NoPass
  <2> QED  BY <2>1, InTheRound DEF TakesNext
<1>2. NotesTyped'
  BY <1>1, InTheRound DEF NotesInv, NotesTyped, TakesNext
<1>3. CardsCounted'
  <2> SUFFICES ASSUME NEW slot \in Slots
               PROVE  delivered'[slot] =< faults'[slot] + Once(slot)'
    BY DEF CardsCounted
  <2>1. Once(slot) = (IF slot \in pass.recorded THEN 1 ELSE 0)
        /\ Once(slot)' = IF slot \in pass.recorded \cup slots THEN 1 ELSE 0
    BY <1>1, InTheRound DEF Once, Recorded, TakesNext
  <2>2. Once(slot) =< Once(slot)' /\ Once(slot) \in Nat /\ Once(slot)' \in Nat
    BY <2>1
  <2>3. delivered[slot] =< faults[slot] + Once(slot) /\ delivered[slot] \in Nat /\ faults[slot] \in Nat
    BY DEF NotesInv, CardsCounted, NotesTyped
  <2> QED  BY <2>1, <2>2, <2>3
<1>4. NobodyForgotten'
  <2> SUFFICES ASSUME NEW c \in Range(Order)
               PROVE  \/ c \in Range(pass.queue)' \cup pass'.failed
                      \/ Needs(c)' => <<c, pass'.day>> \in pass'.recorded
    BY DEF NobodyForgotten
  <2>1. Needs(c)' = Needs(c) /\ pass'.day = pass.day
    BY DEF Needs, TakesNext
  <2>2. CASE c = Company
    BY <2>1, <2>2 DEF TakesNext, Slot
  <2>3. CASE c # Company
    <3>1. \/ c \in Range(pass.queue) \cup pass.failed
          \/ Needs(c) => <<c, pass.day>> \in pass.recorded
      BY InTheRound DEF NotesInv, NobodyForgotten
    <3>2. c \in Range(pass.queue) => c \in Range(pass.queue)'
      BY <2>3, InTheRound DEF TakesNext
    <3> QED  BY <2>1, <3>1, <3>2 DEF TakesNext
  <2> QED  BY <2>2, <2>3
<1> QED  BY <1>1, <1>2, <1>3, <1>4 DEF NotesInv

LEMMA SkipStep ==
  ASSUME NotesInv, Skip
  PROVE  NotesInv' /\ pass' # NoPass
<1>1. AtWork /\ pass' = [pass EXCEPT !.queue = Tail(@)]
      /\ UNCHANGED <<today, events, delivered, faults>>
  BY DEF Skip
<1>2. TakesNext({}, {})
  BY <1>1, InTheRound DEF TakesNext, PassFields
<1>3. Needs(Company) => Slot \in pass.recorded
  BY DEF Skip, Needs, SentToday, Loud, Found
<1>4. CacheTells'
  <2>1. CASE cache' = cache
    BY <2>1 DEF NotesInv, CacheTells
  <2>2. CASE \E note \in NotesFound : KeepFound(note)
    BY <2>2, NotesTell DEF NotesInv, NotesFound, KeepFound
  <2> QED  BY <2>1, <2>2 DEF Skip
<1>5. NotesInv' /\ pass' # NoPass
  <2>1. {} \in SUBSET {Slot} /\ {} \in SUBSET {Company}
    OBVIOUS
  <2>2. delivered' \in [Slots -> Nat] /\ faults' \in [Slots -> Nat]
    BY <1>1 DEF NotesInv, NotesTyped
  <2>3. \A slot \in Slots : delivered'[slot] = delivered[slot] /\ faults'[slot] = faults[slot]
    BY <1>1
  <2> QED  BY <1>1, <1>2, <1>3, <1>4, <2>1, <2>2, <2>3, NextCompany
<1> QED  BY <1>5

LEMMA WantedIsNew ==
  ASSUME NotesInv, Wanted
  PROVE  /\ AtWork /\ Slot \in Slots
         /\ delivered[Slot] \in Nat /\ faults[Slot] \in Nat
         /\ delivered[Slot] =< faults[Slot]
<1>1. AtWork /\ Slot \notin pass.recorded
  BY DEF Wanted, SentToday
<1>2. pass # NoPass /\ Slot \in Slots
  BY <1>1, InTheRound
<1>3. Once(Slot) = 0
  BY <1>1, <1>2 DEF Once, Recorded
<1>4. delivered[Slot] \in Nat /\ faults[Slot] \in Nat
      /\ delivered[Slot] =< faults[Slot] + Once(Slot)
  BY <1>2 DEF NotesInv, NotesTyped, CardsCounted
<1> QED  BY <1>1, <1>2, <1>3, <1>4

LEMMA SendStep ==
  ASSUME NotesInv, Send
  PROVE  NotesInv' /\ pass' # NoPass
<1>1. /\ Wanted
      /\ delivered' = [delivered EXCEPT ![Slot] = @ + 1]
      /\ pass' = [pass EXCEPT !.queue = Tail(@), !.recorded = @ \cup {Slot}]
      /\ UNCHANGED <<today, events, faults>>
  BY DEF Send
<1>2. AtWork /\ Slot \in Slots /\ delivered[Slot] \in Nat /\ faults[Slot] \in Nat
      /\ delivered[Slot] =< faults[Slot]
  BY <1>1, WantedIsNew
<1>3. TakesNext({Slot}, {})
  BY <1>1, <1>2, InTheRound DEF TakesNext, PassFields
<1>4. CacheTells'
  BY NotesTell DEF Send, NotesInv, NotesFound, KeepFound
<1>5. delivered' \in [Slots -> Nat] /\ faults' \in [Slots -> Nat]
      /\ delivered'[Slot] = delivered[Slot] + 1 /\ faults' = faults
      /\ \A slot \in Slots \ {Slot} : delivered'[slot] = delivered[slot]
  BY <1>1, <1>2 DEF NotesInv, NotesTyped
<1>6. delivered'[Slot] =< faults'[Slot] + (IF Slot \in pass.recorded \cup {Slot} THEN 1 ELSE 0)
  BY <1>2, <1>5
<1>7. {Slot} \in SUBSET {Slot} /\ {} \in SUBSET {Company} /\ Slot \in pass.recorded \cup {Slot}
  OBVIOUS
<1>8. \A slot \in Slots :
        \/ slot = Slot /\ delivered'[slot] =< faults'[slot] + (IF slot \in pass.recorded \cup {Slot} THEN 1 ELSE 0)
        \/ delivered'[slot] = delivered[slot] /\ faults'[slot] = faults[slot]
  BY <1>5, <1>6
<1> QED  BY <1>1, <1>2, <1>3, <1>4, <1>5, <1>7, <1>8, NextCompany

LEMMA CardFailsStep ==
  ASSUME NotesInv, NEW came \in BOOLEAN, SendFails(came)
  PROVE  NotesInv' /\ pass' # NoPass
<1> DEFINE n == IF came THEN 1 ELSE 0
<1>1. /\ Wanted
      /\ delivered' = [delivered EXCEPT ![Slot] = @ + n]
      /\ faults' = [faults EXCEPT ![Slot] = @ + 1]
      /\ pass' = Failed
      /\ UNCHANGED <<today, events>>
  BY DEF SendFails
<1>2. AtWork /\ Slot \in Slots /\ delivered[Slot] \in Nat /\ faults[Slot] \in Nat
      /\ delivered[Slot] =< faults[Slot]
  BY <1>1, WantedIsNew
<1>3. TakesNext({}, {Company})
  BY <1>1, <1>2, InTheRound DEF TakesNext, PassFields, Failed
<1>4. CacheTells'
  BY NotesTell DEF SendFails, NotesInv, NotesFound, KeepFound
<1>5. n \in {0, 1}
  OBVIOUS
<1> HIDE DEF n
<1>6. delivered' \in [Slots -> Nat] /\ faults' \in [Slots -> Nat]
      /\ delivered'[Slot] = delivered[Slot] + n /\ faults'[Slot] = faults[Slot] + 1
      /\ \A slot \in Slots \ {Slot} : delivered'[slot] = delivered[slot] /\ faults'[slot] = faults[slot]
  BY <1>1, <1>2, <1>5 DEF NotesInv, NotesTyped
<1>7. delivered'[Slot] =< faults'[Slot] + (IF Slot \in pass.recorded \cup {} THEN 1 ELSE 0)
  BY <1>2, <1>5, <1>6
<1>8. \A slot \in Slots :
        \/ slot = Slot /\ delivered'[slot] =< faults'[slot] + (IF slot \in pass.recorded \cup {} THEN 1 ELSE 0)
        \/ delivered'[slot] = delivered[slot] /\ faults'[slot] = faults[slot]
  BY <1>6, <1>7
<1>9. {} \in SUBSET {Slot} /\ {Company} \in SUBSET {Company} /\ Company \in {Company}
  OBVIOUS
<1> QED  BY <1>1, <1>2, <1>3, <1>4, <1>6, <1>8, <1>9, NextCompany

LEMMA EndStep ==
  ASSUME NotesInv, EndPass
  PROVE  NotesInv'
<1>1. pass # NoPass /\ events' = pass.recorded /\ pass' = NoPass
      /\ UNCHANGED <<today, cache, delivered, faults>>
  BY DEF EndPass
<1>2. NotesTyped'
  BY <1>1 DEF NotesInv, NotesTyped
<1>3. CardsCounted'
  BY <1>1 DEF NotesInv, CardsCounted, Once, Recorded
<1>4. CacheTells' /\ NobodyForgotten'
  BY <1>1 DEF NotesInv, CacheTells, NobodyForgotten
<1> QED  BY <1>2, <1>3, <1>4 DEF NotesInv

(* What dies with the round was recorded and never committed: each card of *)
(* it counts as broken.                                                    *)
LEMMA DieStep ==
  ASSUME NotesInv, PassDies
  PROVE  NotesInv' /\ faults' # faults
<1> DEFINE lost == pass.recorded \ events
<1>1. /\ pass # NoPass /\ lost # {} /\ pass' = NoPass
      /\ faults' = [slot \in DOMAIN faults |->
                      faults[slot] + (IF slot \in lost THEN 1 ELSE 0)]
      /\ UNCHANGED <<today, cache, events, delivered>>
  BY DEF PassDies
<1>2. lost \subseteq Slots /\ DOMAIN faults = Slots
      /\ \A slot \in Slots : delivered[slot] \in Nat /\ faults[slot] \in Nat
  BY <1>1 DEF NotesInv, NotesTyped
<1>3. \A slot \in Slots : slot \in pass.recorded => slot \in lost \/ slot \in events
  OBVIOUS
<1> HIDE DEF lost
<1>4. \A slot \in Slots : faults'[slot] = faults[slot] + (IF slot \in lost THEN 1 ELSE 0)
  BY <1>1, <1>2
<1>5. faults' \in [Slots -> Nat]
  BY <1>1, <1>2
<1>6. faults' # faults
  <2>1. PICK slot \in lost : TRUE
    BY <1>1
  <2>2. faults[slot] \in Nat /\ faults'[slot] = faults[slot] + 1
    BY <1>2, <1>4, <2>1
  <2> QED  BY <2>2
<1>7. NotesTyped'
  BY <1>1, <1>5 DEF NotesInv, NotesTyped
<1>8. CardsCounted'
  <2> SUFFICES ASSUME NEW slot \in Slots
               PROVE  delivered[slot] =< faults'[slot] + Once(slot)'
    BY <1>1 DEF CardsCounted
  <2>1. delivered[slot] =< faults[slot] + Once(slot)
    BY DEF NotesInv, CardsCounted
  <2>2. Once(slot) = (IF slot \in pass.recorded THEN 1 ELSE 0)
        /\ Once(slot)' = IF slot \in events THEN 1 ELSE 0
    BY <1>1 DEF Once, Recorded
  <2>3. Once(slot) =< (IF slot \in lost THEN 1 ELSE 0) + Once(slot)'
    BY <1>3, <2>2
  <2>4. Once(slot) \in Nat /\ Once(slot)' \in Nat
    BY <2>2
  <2> QED  BY <1>2, <1>4, <2>1, <2>3, <2>4
<1>9. CacheTells' /\ NobodyForgotten'
  BY <1>1 DEF NotesInv, CacheTells, NobodyForgotten
<1> QED  BY <1>6, <1>7, <1>8, <1>9 DEF NotesInv

LEMMA AsideSteps ==
  ASSUME NotesInv,
         \/ \E v \in VouchersToCome : PostVoucher(v)
         \/ \E line \in ledgers.lines : Settle(line)
         \/ \E p \in ledgers.proposals : Decide(p)
         \/ NextDay
         \/ \E c \in Companies : OpenHome(c)
         \/ UNCHANGED notesVars
  PROVE  NotesInv'
<1>1. CASE \/ \E v \in VouchersToCome : PostVoucher(v)
           \/ \E line \in ledgers.lines : Settle(line)
           \/ \E p \in ledgers.proposals : Decide(p)
  <2>1. UNCHANGED <<today, cache, pass, events, delivered, faults>>
    BY <1>1 DEF PostVoucher, Settle, Decide, Change
  <2>2. today' \in Days /\ CacheTells'
    BY <2>1 DEF NotesInv, NotesTyped, CacheTells
  <2> QED  BY <2>1, <2>2, OutsideTheRound
<1>2. CASE NextDay
  <2>1. UNCHANGED <<cache, pass, events, delivered, faults>> /\ today' \in Days
    BY <1>2 DEF NextDay
  <2>2. CacheTells'
    BY <2>1 DEF NotesInv, CacheTells
  <2> QED  BY <2>1, <2>2, OutsideTheRound
<1>3. CASE \E c \in Companies : OpenHome(c)
  <2>1. UNCHANGED <<today, pass, events, delivered, faults>> /\ today' \in Days
    BY <1>3 DEF OpenHome, NotesInv, NotesTyped
  <2>2. CacheTells'
    BY <1>3, NotesTell DEF OpenHome, NotesInv
  <2> QED  BY <2>1, <2>2, OutsideTheRound
<1>4. CASE UNCHANGED notesVars
  <2>1. UNCHANGED <<today, cache, pass, events, delivered, faults>>
    BY <1>4 DEF notesVars
  <2>2. today' \in Days /\ CacheTells'
    BY <2>1 DEF NotesInv, NotesTyped, CacheTells
  <2> QED  BY <2>1, <2>2, OutsideTheRound
<1> QED  BY <1>1, <1>2, <1>3, <1>4

LEMMA NotesStep == NotesInv /\ [NotesNext]_notesVars => NotesInv'
<1> SUFFICES ASSUME NotesInv, [NotesNext]_notesVars PROVE NotesInv'
  OBVIOUS
<1> QED  BY AsideSteps, BeginStep, SkipStep, SendStep, CardFailsStep, EndStep, DieStep DEF NotesNext

LEMMA NotesAlways == NotesSpec => []NotesInv
BY NotesInvInit, NotesStep, PTL DEF NotesSpec

(* Whatever is shown is a note over the signals in the books that were     *)
(* read.                                                                   *)
LEMMA ShownTells ==
  ASSUME NotesInv, NEW to, NEW c, NEW day, NEW found, NEW note \in Notes(c, day, found),
         Show(to, c, day, found, note),
         found = Signals(SeenBy(to), c, Dates[day]), found # <<>>,
         to = "chat" => Severity(found) >= 2
  PROVE  LET signals == Signals(SeenBy(shown'.to), shown'.company, Dates[shown'.day])
         IN /\ signals # <<>> /\ shown'.figures \subseteq Allowed(signals)
            /\ shown'.buttons = Actions(signals)
            /\ shown'.to = "chat" => Severity(signals) >= 2
<1>1. /\ shown'.to = to /\ shown'.company = c /\ shown'.day = day
      /\ shown'.figures = note.figures /\ shown'.buttons = Actions(found)
  BY DEF Show
<1>2. Signals(SeenBy(shown'.to), shown'.company, Dates[shown'.day]) = found
  BY <1>1
<1>3. note.figures \subseteq Allowed(found)
  BY NotesTell DEF NotesInv
<1> QED  BY <1>1, <1>2, <1>3

(* What a chat or a dashboard is shown is of the signals in the books that *)
(* were read, on the day they were read for, though the books have changed *)
(* since and the words may come from the cache: a note is kept under the   *)
(* signals it was written over.                                            *)
THEOREM NotesAreOfTheDay == NotesSpec => NotesTellTheDay
<1> DEFINE Tells ==
      \A found \in {Signals(SeenBy(shown'.to), shown'.company, Dates[shown'.day])} :
        /\ found # <<>> /\ shown'.figures \subseteq Allowed(found)
        /\ shown'.buttons = Actions(found)
        /\ shown'.to = "chat" => Severity(found) >= 2
<1>1. ASSUME NotesInv, NotesNext, shown' # None PROVE Tells
  <2>1. CASE \E c \in Companies : OpenHome(c)
    <3>1. PICK c \in Companies : OpenHome(c)
      BY <2>1
    <3> DEFINE found == Signals(ledgers, c, Dates[today])
    <3>2. found # <<>> /\ found = Signals(SeenBy("home"), c, Dates[today])
      BY <3>1 DEF OpenHome, SeenBy
    <3>3. PICK note \in Notes(c, today, found) : Show("home", c, today, found, note)
      BY <3>1 DEF OpenHome
    <3>4. "home" # "chat"
      OBVIOUS
    <3> HIDE DEF found
    <3> QED  BY <1>1, <3>2, <3>3, <3>4, ShownTells
  <2>2. ASSUME Wanted, NEW note \in NotesFound, ShowFound(note) PROVE Tells
    <3>1. Severity(Found) >= 2
      BY <2>2 DEF Wanted, Loud
    <3>2. Found # <<>>
      BY <3>1 DEF Severity
    <3>3. Found = Signals(SeenBy("chat"), Company, Dates[pass.day])
      BY DEF Found, SeenBy
    <3>4. note \in Notes(Company, pass.day, Found) /\ Show("chat", Company, pass.day, Found, note)
      BY <2>2 DEF NotesFound, ShowFound
    <3> QED  BY <1>1, <3>1, <3>2, <3>3, <3>4, ShownTells
  <2>3. CASE Send
    BY <2>2, <2>3 DEF Send
  <2>4. CASE \E came \in BOOLEAN : SendFails(came)
    BY <1>1, <2>2, <2>4 DEF SendFails
  <2> QED  BY <1>1, <2>1, <2>3, <2>4
           DEF NotesNext, PostVoucher, Settle, Decide, Change, NextDay, BeginPass, Skip,
               EndPass, PassDies
<1>2. NotesInv /\ [NotesNext]_notesVars => [shown' # None => Tells]_notesVars
  BY <1>1
<1> QED  BY <1>2, NotesAlways, PTL DEF NotesSpec, NotesTellTheDay

(* A round is over when its last company was taken, or when it dies.       *)
LEMMA RoundsEndWithTheLast ==
  ASSUME NotesInv, NotesNext, pass # NoPass, pass' = NoPass, faults' = faults
  PROVE  EndPass
<1>1. ~Skip /\ ~Send /\ ~\E came \in BOOLEAN : SendFails(came)
  BY SkipStep, SendStep, CardFailsStep
<1>2. ~PassDies
  BY DieStep
<1> QED  BY <1>1, <1>2
         DEF NotesNext, PostVoucher, Settle, Decide, Change, NextDay, OpenHome, BeginPass

(* A round that ends has told every company that needed it, but for those  *)
(* whose own card failed; and a chat has no more cards of a day than one,  *)
(* and one for each call or round that broke on it.                        *)
THEOREM NobodyIsForgottenOrToldTwice == NotesSpec => EveryoneHearsOnce
<1> DEFINE Told == pass # NoPass /\ pass' = NoPass /\ faults' = faults
                     => \A c \in Range(Order) : Needs(c) =>
                          c \in pass.failed \/ <<c, pass.day>> \in events'
<1>1. NotesInv => HeardOnce
  <2> SUFFICES ASSUME NotesInv, NEW slot \in DOMAIN delivered
               PROVE  delivered[slot] =< 1 + faults[slot]
    BY DEF HeardOnce
  <2>1. slot \in Slots /\ delivered[slot] \in Nat /\ faults[slot] \in Nat
        /\ delivered[slot] =< faults[slot] + Once(slot)
    BY DEF NotesInv, NotesTyped, CardsCounted
  <2>2. Once(slot) \in {0, 1}
    BY DEF Once
  <2> QED  BY <2>1, <2>2
<1>2. ASSUME NotesInv, NotesNext PROVE Told
  <2> SUFFICES ASSUME pass # NoPass, pass' = NoPass, faults' = faults,
                      NEW c \in Range(Order), Needs(c)
               PROVE  c \in pass.failed \/ <<c, pass.day>> \in events'
    OBVIOUS
  <2>1. EndPass
    BY <1>2, RoundsEndWithTheLast
  <2>2. Range(pass.queue) = {} /\ events' = pass.recorded
    BY <2>1 DEF EndPass, Range
  <2> QED  BY <1>2, <2>2 DEF NotesInv, NobodyForgotten
<1>3. NotesInv /\ [NotesNext]_notesVars => [Told]_notesVars
  BY <1>2
<1> QED  BY <1>1, <1>3, NotesAlways, PTL DEF NotesSpec, EveryoneHearsOnce
=============================================================================
