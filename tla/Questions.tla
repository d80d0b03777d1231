------------------------------ MODULE Questions ------------------------------
(***************************************************************************)
(* Typed questions about the books, and the buttons under their answers.   *)
(* A worker takes a question with a snapshot of the database, asks the     *)
(* model turn by turn, runs the reads it requests, and at the end decides  *)
(* whose sentence is sent: the model's, a handler's, or one of ours.       *)
(* Meanwhile the books move, the chat goes on, and other workers handle    *)
(* its other updates.                                                      *)
(***************************************************************************)
EXTENDS BooksReads

CONSTANTS
  Workers,      \* processes that take jobs off the short queue
  Opening,      \* the books to begin with
  Vouchers,     \* what may be posted later, each from a proposal or none
  Proposals,    \* what may be proposed later
  Requests,     \* the lists of calls the model may make in one turn
  Texts,        \* the sets of figures a sentence of the model may state
  FaqFigures,   \* figures in the prose of the FAQ
  LongNames,    \* names whose button does not fit a callback datum
  Poisoned,     \* names that carry an instruction to the model
  Start,        \* the month the clock begins in
  TicksPerMonth, Ttl,
  MaxTurns, MaxRetries,
  MaxTicks, MaxUpdates,  \* bounds of the instance
  Previous      \* as arguments of a call: what the question before was about

ASSUME QuestionsAssumption ==
  /\ {TicksPerMonth, MaxTurns} \subseteq Nat \ {0}
  /\ {Start, Ttl, MaxRetries, MaxTicks, MaxUpdates} \subseteq Nat
  /\ LongNames \cup Poisoned \subseteq Names
  /\ \A requests \in Requests : Len(requests) \in Nat /\ DOMAIN requests = 1..Len(requests)

LedgerYearsBack == 10
Month(tick) == Start + tick \div TicksPerMonth

VARIABLES
  books,
  now,        \* ticks of the clock
  active,     \* the active company of the user's link
  memory,     \* Nyabo Chat State: question_memory
  written,    \* the update that wrote or dropped the memory last
  arrived,    \* updates of the chat the webhook has marked
  taken,      \* how many of them a worker has taken, in the order of taking
  question,   \* [Workers -> None or the question it answers]
  stale,      \* workers whose copy of the row of the chat is out of date
  cards,      \* the answers in the chat; a tap edits one in place
  drafts, escalations

vars == <<books, now, active, memory, written, arrived, taken, question,
          stale, cards, drafts, escalations>>

Init ==
  /\ books = Opening
  /\ now = 0
  /\ active \in Companies
  /\ memory = None /\ written = 0
  /\ arrived = 0 /\ taken = 0
  /\ question = [w \in Workers |-> None] /\ stale = {}
  /\ cards = <<>>
  /\ drafts = 0 /\ escalations = 0

-----------------------------------------------------------------------------
(* The tool calls of a question, oldest first.                             *)
Succeeded(calls) == SelectSeq(calls, LAMBDA call : call.result.error = None)
OfTool(calls, tool) ==
  SelectSeq(calls, LAMBDA call : call.request.tool = tool)
LastOf(calls) == IF calls = <<>> THEN None ELSE calls[Len(calls)]

LastBooksCall(calls) == LastOf(OfTool(Succeeded(calls), "answer_from_books"))
Escalated(calls) == OfTool(Succeeded(calls), "escalate_to_admin") # <<>>
DraftsOf(calls) == Len(OfTool(Succeeded(calls), "record_transaction"))

ModelFaults == {"invalid_arguments", "unknown_tool", "unknown_account"}
(* all_failed and handler_broke.                                           *)
LedgerBroke(calls) ==
  /\ calls # <<>> /\ Succeeded(calls) = <<>>
  /\ \E i \in DOMAIN calls : calls[i].result.error \notin ModelFaults

(* What the handlers that did not fail returned.                           *)
Results(calls) ==
  {calls[i].result : i \in {j \in DOMAIN calls : calls[j].result.error = None}}

(* What the handler resolved, else what the model asked for.               *)
SubjectOf(call) ==
  IF ~call.result.found THEN NoSubject
  ELSE [key \in DOMAIN NoSubject |->
          IF call.result.subject[key] # None
          THEN call.result.subject[key] ELSE call.request.args[key]]

Remember(calls, c, at) ==
  LET call == LastBooksCall(calls)
  IN IF call = None THEN None
     ELSE IF SubjectOf(call) = NoSubject THEN None
     ELSE [company |-> c, at |-> at, kind |-> call.request.kind,
           subject |-> SubjectOf(call)]

Recall(mem, c, at) ==
  IF mem = None THEN None
  ELSE IF /\ mem.company = c
          /\ at - mem.at =< Ttl
          /\ {mem.subject[key] : key \in DOMAIN NoSubject} \cap Poisoned = {}
  THEN mem ELSE None

-----------------------------------------------------------------------------
(* The numbers a sentence of the model may state: the clock's date, the    *)
(* years around it, the years of the months the reads resolved while they  *)
(* are years these books are kept for, and what the reads worked out.      *)
ClockFigures(month) ==
  DateFigures(month) \cup {Year(month) - 1, Year(month) + 1}

BooksAreKept(year, month) == year \in (Year(month) - LedgerYearsBack) .. (Year(month) + 1)

ResolvedYear(result, month) ==
  IF result.found /\ result.subject.period # None
       /\ BooksAreKept(Year(result.subject.period), month)
  THEN {Year(result.subject.period)} ELSE {}

(* Mutant: harvested from what the handlers say.                           *)
KnownNumbers_Harvested(calls, month) ==
  ClockFigures(month) \cup
  UNION {result.figures \cup result.quoted : result \in Results(calls)}

KnownNumbers(calls, month) ==
  ClockFigures(month) \cup
  UNION {result.figures \cup ResolvedYear(result, month) : result \in Results(calls)}

-----------------------------------------------------------------------------
(* Follow-up buttons, read off the tool trace.  A button is a query with   *)
(* all its arguments, or one of two verbs: a person, and the menu.         *)
Button(verb, args) == [verb |-> verb, args |-> args]
AskAdmin == Button("esc", NoSubject)
Menu == Button("m", NoSubject)

ArgsFor(kind, subject) ==
  [key \in DOMAIN NoSubject |->
     IF key \in QueryArgs(kind) THEN subject[key] ELSE None]

Complete(button) ==
  \A key \in QueryArgs(button.verb) : button.args[key] # None

(* _default_period: a balance has the month of its date.                   *)
DefaultPeriod(kind, subject, month) ==
  IF subject.period # None THEN subject.period
  ELSE IF kind = "balance_on_date" /\ subject.on # None THEN subject.on
  ELSE month

HasNeighbours(kind) ==
  kind \in {"spend_by_account", "account_entries", "vat_position",
            "top_spend_accounts", "monthly_trend", "top_suppliers"}

(* Never a month that has not begun.                                       *)
Neighbours(kind, subject, month) ==
  {Button(kind, ArgsFor(kind, [subject EXCEPT !.period = m])) :
     m \in {n \in {subject.period - 1, subject.period + 1} : n =< month}}

NextQuestions(kind) ==
  CASE kind = "balance_on_date" -> {"account_entries", "spend_by_account"}
    [] kind = "spend_by_account" -> {"account_entries"}
    [] kind = "account_entries" -> {"spend_by_account"}
    [] kind \in {"supplier_total", "explain_entry"} -> {"last_entries_for_supplier"}
    [] kind = "last_entries_for_supplier" -> {"supplier_total"}
    [] kind = "unmatched_count" -> {"unmatched_lines"}
    [] kind = "unmatched_lines" -> {"unmatched_count"}
    [] kind = "top_spend_accounts" -> {"top_suppliers", "monthly_trend"}
    [] OTHER -> {"top_spend_accounts"}

(* MAX_FOLLOW_UPS cuts nothing: no kind offers more than four.             *)
QueriesAfter(call, month) ==
  LET kind == call.request.kind
      subject == [SubjectOf(call) EXCEPT
                    !.period = DefaultPeriod(kind, SubjectOf(call), month)]
  IN {button \in
        (IF HasNeighbours(kind) THEN Neighbours(kind, subject, month) ELSE {})
          \cup {Button(next, ArgsFor(next, subject)) : next \in NextQuestions(kind)} :
      Complete(button)}

FollowUps(calls, month, answered) ==
  IF ~answered THEN {AskAdmin, Menu}
  ELSE IF LastBooksCall(calls) = None THEN {Menu}
  ELSE LET queries == QueriesAfter(LastBooksCall(calls), month)
       IN IF queries = {} THEN {Menu} ELSE queries

(* question_keyboard: a button that does not fit is dropped, and nothing   *)
(* is put in its place.                                                    *)
Drawn(buttons) == {button \in buttons : button.args.supplier \notin LongNames}

-----------------------------------------------------------------------------
(* answer: whose sentence is sent.                                         *)
HandlerText(calls) ==
  LET last == LastOf(Succeeded(calls))
  IN IF last = None THEN None ELSE last.result.figures \cup last.result.quoted

Sentence(by, words, answered) == [by |-> by, words |-> words, answered |-> answered]

Fallback(calls) ==
  IF HandlerText(calls) = None THEN Sentence("ours", {}, FALSE)
  ELSE Sentence("handler", HandlerText(calls), TRUE)

(* The books say there is no such supplier or entry.                       *)
Missing(calls) ==
  LET call == LastBooksCall(calls)
  IN /\ ~Escalated(calls)
     /\ IF call = None THEN FALSE ELSE ~call.result.found

Invented(text, calls, month) == ~(text \subseteq KnownNumbers(calls, month))

Answer(q) ==
  IF DraftsOf(q.calls) > 0 THEN Sentence("draft", {}, TRUE)
  ELSE IF Missing(q.calls) THEN [Fallback(q.calls) EXCEPT !.answered = FALSE]
  ELSE IF q.text = None
  THEN IF Escalated(q.calls) THEN Sentence("ours", {}, TRUE)
       ELSE IF LedgerBroke(q.calls) THEN Sentence("ours", {}, FALSE)
       ELSE Fallback(q.calls)
  ELSE IF Invented(q.text, q.calls, Month(q.at)) THEN Fallback(q.calls)
  ELSE Sentence("model", q.text, TRUE)

(* The buttons of an answer: a draft is shown as the card of a proposal,   *)
(* which has its own.                                                      *)
Offered(q, answered) ==
  IF DraftsOf(q.calls) > 0 THEN {}
  ELSE IF Escalated(q.calls) THEN {Menu}
  ELSE FollowUps(q.calls, Month(q.at), answered)

Card(c, sentence, buttons) ==
  [company |-> c, by |-> sentence.by, words |-> sentence.words,
   buttons |-> Drawn(buttons)]

(* router.handle_update: a handler that raised.                            *)
Apology(c) == Card(c, Sentence("apology", {}, FALSE), {Menu})

-----------------------------------------------------------------------------
(* The webhook marks an update in the row of the chat: whoever answers a   *)
(* question can no longer save that row (Frappe compares `modified`).      *)
Answerers == {w \in Workers : question[w] # None}

Arrives ==
  /\ arrived < MaxUpdates
  /\ arrived' = arrived + 1
  /\ stale' = Answerers
  /\ UNCHANGED <<books, now, active, memory, written, taken, question, cards, drafts, escalations>>

Takes == taken < arrived /\ taken' = taken + 1

(* handle_text: the first query opens the snapshot, so the books, the link *)
(* and the row of the chat are read as of now.                             *)
TakeQuestion(w) ==
  /\ question[w] = None
  /\ Takes
  /\ question' = [question EXCEPT ![w] =
       [number |-> taken + 1, company |-> active, books |-> books, at |-> now,
        before |-> memory, calls |-> <<>>, text |-> None, turn |-> 0,
        tries |-> 0, over |-> FALSE]]
  /\ stale' = stale \ {w}
  /\ UNCHANGED <<books, now, active, memory, written, arrived, cards, drafts, escalations>>

(* An instruction in the question: no model is asked, and the memory goes. *)
RefuseInjection ==
  /\ Takes
  /\ memory' = None
  /\ written' = IF memory = None THEN written ELSE taken + 1
  /\ stale' = IF memory = None THEN stale ELSE Answerers
  /\ cards' = Append(cards, Card(active, Sentence("refusal", {}, FALSE), {Menu}))
  /\ UNCHANGED <<books, now, active, arrived, question, drafts, escalations>>

-----------------------------------------------------------------------------
(* The dispatcher: one call on the snapshot of the question.  A follow-up  *)
(* is a query about what the prompt says the question before was about.    *)
Resolved(q, request) ==
  IF request.args # Previous THEN request
  ELSE LET context == Recall(q.before, q.company, q.at)
       IN [request EXCEPT !.args = IF context = None THEN NoSubject ELSE context.subject]

Run(q, request) ==
  CASE request.tool = "answer_from_books" ->
         Query(q.books, q.company, request.kind, request.args, Month(q.at))
    [] request.tool = "answer_faq" -> Reading(NoSubject, {}, FaqFigures)
    [] request.tool = "escalate_to_admin" -> Reading(NoSubject, {}, {})
    [] request.tool = "record_transaction" ->
         IF request.kind = None THEN Reading(NoSubject, {}, {})
         ELSE Refusal(request.kind)
    [] OTHER -> Refusal("unknown_tool")

Called(q, request) ==
  [request |-> Resolved(q, request), result |-> Run(q, Resolved(q, request))]

(* One turn: a sentence, calls, or both.  The last sentence is kept; the   *)
(* question is over when the model calls nothing or has no turn left.      *)
ModelReplies(w) ==
  \E q \in {question[w]} \ {None}, text \in Texts \cup {None}, requests \in Requests :
    /\ ~q.over
    /\ question' = [question EXCEPT ![w] =
         [q EXCEPT !.text = IF text = None THEN @ ELSE text,
                   !.calls = @ \o [i \in DOMAIN requests |-> Called(q, requests[i])],
                   !.turn = @ + 1,
                   !.tries = 0,
                   !.over = requests = <<>> \/ q.turn + 1 = MaxTurns]]
    /\ UNCHANGED <<books, now, active, memory, written, arrived, taken, stale, cards, drafts, escalations>>

(* Mutant: a failure of another kind starts the count over.                *)
NextTry_StartsOver(tries) == IF tries = 0 THEN 1 ELSE 0

NextTry(tries) == tries + 1

RequestIsRetried(w) ==
  \E q \in {question[w]} \ {None} :
    /\ ~q.over /\ q.tries < MaxRetries
    /\ question' = [question EXCEPT ![w].tries = NextTry(@)]
    /\ UNCHANGED <<books, now, active, memory, written, arrived, taken, stale, cards, drafts, escalations>>

(* What a question did besides answering is committed with its job, an     *)
(* apology included.                                                       *)
Commits(q) ==
  /\ drafts' = drafts + DraftsOf(q.calls)
  /\ escalations' = escalations + Len(OfTool(Succeeded(q.calls), "escalate_to_admin"))

(* No tries left, or a failure that is not retried.                        *)
RequestFails(w) ==
  \E q \in {question[w]} \ {None} :
    /\ ~q.over
    /\ question' = [question EXCEPT ![w] = None]
    /\ stale' = stale \ {w}
    /\ cards' = Append(cards, Apology(q.company))
    /\ Commits(q)
    /\ UNCHANGED <<books, now, active, memory, written, arrived, taken>>

-----------------------------------------------------------------------------
(* set_question_memory: nothing is saved when there is nothing to drop.    *)
Saves(before, kept) == before # None \/ kept # None

(* Mutant: the row is written over whatever it holds by now.               *)
SaveFails_Never(w, q, kept) == FALSE

SaveFails(w, q, kept) == w \in stale /\ Saves(q.before, kept)

Kept(q) ==
  IF DraftsOf(q.calls) > 0 THEN None ELSE Remember(q.calls, q.company, q.at)

(* The memory is saved before the answer is sent: a refused save costs the *)
(* answer.                                                                 *)
Deliver(w) ==
  \E q \in {question[w]} \ {None} : \E sentence \in {Answer(q)}, kept \in {Kept(q)} :
    /\ q.over
    /\ question' = [question EXCEPT ![w] = None]
    /\ IF SaveFails(w, q, kept)
       THEN /\ cards' = Append(cards, Apology(q.company))
            /\ stale' = stale \ {w}
            /\ UNCHANGED <<memory, written>>
       ELSE /\ cards' = Append(cards, Card(q.company, sentence, Offered(q, sentence.answered)))
            /\ IF Saves(q.before, kept)
               THEN memory' = kept /\ written' = q.number /\ stale' = Answerers \ {w}
               ELSE stale' = stale \ {w} /\ UNCHANGED <<memory, written>>
    /\ Commits(q)
    /\ UNCHANGED <<books, now, active, arrived, taken>>

-----------------------------------------------------------------------------
(* handle_callback: a button runs its query again, on the books of the     *)
(* company that is active now, and edits the card it is on.                *)
ButtonCall(button) ==
  LET request == [tool |-> "answer_from_books", kind |-> button.verb, args |-> button.args]
  IN [request |-> request,
      result |-> Query(books, active, button.verb, button.args, Month(now))]

TapQuery ==
  /\ Takes
  /\ \E i \in DOMAIN cards : \E button \in cards[i].buttons :
       /\ button.verb \in Kinds
       /\ \E call \in {ButtonCall(button)} :
            IF call.result.error # None
            THEN /\ cards' = Append(cards, Card(active, Sentence("ours", {}, FALSE), {AskAdmin, Menu}))
                 /\ UNCHANGED <<memory, written, stale>>
            ELSE \E kept \in {Remember(<<call>>, active, now)} :
                 /\ cards' = [cards EXCEPT ![i] =
                      Card(active, Sentence("handler", HandlerText(<<call>>), TRUE),
                           FollowUps(<<call>>, Month(now), call.result.found))]
                 /\ memory' = kept
                 /\ IF Saves(memory, kept)
                    THEN written' = taken + 1 /\ stale' = Answerers
                    ELSE UNCHANGED <<written, stale>>
  /\ UNCHANGED <<books, now, active, arrived, question, drafts, escalations>>

(* [Ask the admin]: the card says the question was handed over.            *)
TapEscalate ==
  /\ Takes
  /\ \E i \in DOMAIN cards :
       /\ AskAdmin \in cards[i].buttons
       /\ cards' = [cards EXCEPT ![i] = Card(active, Sentence("escalated", {}, TRUE), {Menu})]
  /\ escalations' = escalations + 1
  /\ UNCHANGED <<books, now, active, memory, written, question, stale, arrived, drafts>>

(* A command leaves whatever the chat was about, /company the company too. *)
Command ==
  /\ Takes
  /\ active' \in Companies
  /\ memory' = None /\ written' = taken + 1
  /\ stale' = Answerers
  /\ UNCHANGED <<books, now, arrived, question, cards, drafts, escalations>>

(* The button of the company chooser leaves the row of the chat alone, as  *)
(* does the menu and a photo.                                              *)
SwitchOrOther ==
  /\ Takes
  /\ active' \in Companies
  /\ UNCHANGED <<books, now, memory, written, question, stale, arrived, cards, drafts, escalations>>

-----------------------------------------------------------------------------
(* The books and the clock move on.                                        *)
(* A voucher may explain lines of a statement: they are unmatched no more. *)
Post ==
  /\ \E v \in Vouchers \ books.vouchers :
       /\ v.proposal \in {None} \cup {d.name : d \in books.decisions}
       /\ books' = [vouchers |-> books.vouchers \cup {v},
                    lines |-> {line \in books.lines : line.explains # v.no},
                    decisions |-> {IF d.name = v.proposal THEN [d EXCEPT !.posted = v.no] ELSE d :
                                     d \in books.decisions}]
  /\ UNCHANGED <<now, active, memory, written, arrived, taken, question, stale, cards, drafts, escalations>>

(* A proposal, of a receipt, a line or a typed transaction; its name is    *)
(* new.                                                                    *)
Propose ==
  /\ \E d \in Proposals :
       /\ \A known \in books.decisions : known.name # d.name
       /\ books' = [books EXCEPT !.decisions = @ \cup {d}]
  /\ UNCHANGED <<now, active, memory, written, arrived, taken, question, stale, cards, drafts, escalations>>

Tick ==
  /\ now < MaxTicks
  /\ now' = now + 1
  /\ UNCHANGED <<books, active, memory, written, arrived, taken, question, stale, cards, drafts, escalations>>

Answering(w) ==
  ModelReplies(w) \/ RequestIsRetried(w) \/ RequestFails(w) \/ Deliver(w)

Next ==
  \/ Arrives
  \/ \E w \in Workers : TakeQuestion(w) \/ Answering(w)
  \/ RefuseInjection \/ TapQuery \/ TapEscalate \/ Command \/ SwitchOrOther
  \/ Post \/ Propose \/ Tick

(* A worker goes on with its job: every request to the model ends with a   *)
(* reply or an error, and no job waits for another.                        *)
Spec == Init /\ [][Next]_vars /\ \A w \in Workers : WF_vars(Answering(w))

-----------------------------------------------------------------------------
(* Properties.                                                             *)

(* Every figure a sentence of the model states is a figure of the calendar *)
(* or one that a read found in or worked out of the books and proposals of *)
(* the company that was asked, and of no other, as they stood when the     *)
(* question was taken: not one from the question, from a product text,     *)
(* from prose of an earlier model, from an argument the model made up or   *)
(* from another client.  A proposal that was never posted and the text its *)
(* rule cites count (explain_entry): the figures need not be posted ones.  *)
ReadAlone(q, call) ==
  Query(OnlyOf(q.books, q.company), q.company, call.request.kind,
        call.request.args, Month(q.at))

CalendarFigures(month) ==
  ClockFigures(month) \cup (Year(month) - LedgerYearsBack) .. (Year(month) + 1)

FiguresOf(q) ==
  CalendarFigures(Month(q.at)) \cup
  UNION {ReadAlone(q, q.calls[i]).figures :
           i \in {j \in DOMAIN q.calls : q.calls[j].request.tool = "answer_from_books"}}

FiguresAreTheBooks ==
  [][\A w \in Workers :
       /\ question[w] # None
       /\ Len(cards') = Len(cards) + 1
       /\ question'[w] = None
       /\ cards'[Len(cards')].by = "model"
       => cards'[Len(cards')].words \subseteq FiguresOf(question[w])]_vars

(* What the chat is about never goes back: a question that took long does  *)
(* not put its own subject over the one of an update taken after it.       *)
ContextNeverGoesBack ==
  [][memory' # memory => written' > written]_vars

(* Every question a worker takes ends, with an answer or an apology.       *)
QuestionsEnd ==
  \A w \in Workers : question[w] # None ~> question[w] = None
=============================================================================
