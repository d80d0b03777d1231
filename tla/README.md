# Nyabo in TLA+

Nyabo is AI bookkeeping over Telegram, an app (`nyabo_mn`) on Frappe/ERPNext. A photo of a
receipt becomes a proposal, a person taps "approve" on a card, and an ERPNext voucher is in the
books. This directory holds TLA+ models of the parts of it that keep state between two taps,
the TLC configurations that check them on small instances, and proofs, checked by TLAPS, that
hold for any number of documents, proposals, vouchers, months, updates, workers and whatever else a run bounds.

Paths below are relative to `src/nyabo_mn/`.

## The system

| Part | State it keeps | Operations | What is hard about it | What makes it correct |
|---|---|---|---|---|
| Webhook and chat row: `telegram/webhook.py`, `router.py`, `state.py` | Nyabo Chat State: last update id and conversation step, one row per chat | accept an update, drop a duplicate, hand over to the queue, move the conversation on | several web processes and workers save one row; Telegram redelivers, and delivers several updates at a time; a process can die between commit and enqueue | an update runs at most once, nobody overwrites a step unread, every update is answered |
| Intake: `telegram/handlers/receipt.py`, `agent/pipeline.py`, `supplier.py`, `learn.py`, `core/` | Nyabo Document, Nyabo Proposal, Supplier, Nyabo Rule, Nyabo Correction | save a photo, read it, match a supplier and a learned rule, choose treatment and pattern, draft the entry, learn from corrections | jobs of minutes over a snapshot; several photos of one new seller at once; a job that raises or is repeated; whatever the model answers | an entry that needs no accountant is sound; a new supplier is told once; a failure is visible; every photo is read to an end |
| Decisions: `handlers/approve.py`, `agent/post.py` | proposal, document, Journal Entry / Purchase Invoice | approve, change account, reject, post after a rule was cleared | two people tap one card at the same time; `insert()` works and `submit()` does not; policy is asked long after the card was sent | a receipt is in the books once; proposal, document and voucher agree; an owner posts only what the policy lets an owner post |
| Corrections: `handlers/correct.py`, `compliance/reversal.py` | reversal vouchers, correction proposals | reverse as duplicate, reverse and correct | chains of corrections; two reversals at once; month locked meanwhile | an original is reversed at most once, never a reversal; entry and counter-entry balance |
| Month end: `handlers/close.py`, `compliance/period.py` | Accounting Period | lock, reopen | a posting that began before the lock; a lock after a reopen; a rule that was rewritten | a locked month is sealed and holds only what cleared rules booked |
| Rules: `rules/guard.py`, `verify.py`, `handlers/admin.py` | Nyabo Posting Pattern and the other guarded rows, Rule Acceptance, rule events | refuse an approval, ask who can clear it, accept for a company, verify for the site, list, edit, deploy | a card is tapped later, elsewhere, with another company active; the row is rewritten meanwhile; the acceptance continues an approval found in a log | nothing is posted by a rule nobody cleared for this company; an acceptance says what was asked |
| Statement files: `handlers/statement.py`, `matching/layouts.py`, `core/statements.py` | Nyabo Bank Layout, its acceptances, the waiting document, column questions in the chat | send, detect, have it read, ask, correct columns, store, sign off, import | a model reads the columns; files of several companies in one format; a job overlaps with taps; a hash refuses the second try | money in and out are not exchanged; what was signed off is not rewritten and used; an acceptance brings the waiting file back |
| Bank lines: `matching/`, `core/matching.py`, `handlers/bank.py` | Bank Transaction, its payments, Payment Entry, transfer proposals | import lines, match, settle an invoice, pair a transfer, propose | overlapping statements; one line explained twice; a Payment Entry that is posted and not allocated | a line is allocated within its amount; an invoice is paid at most once |
| Setting up: `setup/provision_company.py`, `handlers/link.py`, `onboarding.py`, `company.py`, `setup/banks.py`, `inventory_intake.py` | Company Settings, link codes, links, the active company, wizard payload, bank sub-accounts, Inventory Intake | provision, issue, use and expire a code, answer, go back, skip, cancel, switch, file the answers, post an opening stock | the wizard can be left at any question, by command, button, code, cancel or another question; stock is posted in its middle; the chart runs out of codes | every question can be answered; the summary says what is in the ledger; its own ways out leave no draft behind; the company is what its answers say |
| Questions: `handlers/question.py`, `agent/questions.py`, `pipeline.books_handlers`, `agent/llm_client.py` | the question memory in Nyabo Chat State, the answers and their buttons in the chat | take a question, ask the model turn by turn, run the reads it requests, choose the sentence, remember, send; run a button again | a minute of reading over a snapshot while the books and the chat move on; a model that may write any figure; names it made up; retries | what is said in the model's words is in the books and proposals of the company asked; the context never goes back; two cards about one supplier agree; every question ends |
| Calls to a model: `agent/llm_client.py`, `openai_client.py`, `anthropic_client.py`, `cost.py`, `frappe_log.py` | the site config, what a process learned about parameters, the rows of Nyabo LLM Call | build a client from the config, route a call by its purpose, repeat a request, drop a parameter the model refuses, run the tools of a turn, price the call, write its row | the config is edited between two calls of one job; a request is repeated after tools ran; a turn that is billed and then fails; a job that is rolled back | a tool runs once; a row costs what was delivered; a job is answered by the models it began with; every call ends |
| Reports and cards: `reports/`, `nyabo/report/`, `handlers/dashboard.py`, `miniapp.py`, `matching/status.py` | none: each reads the general ledger again | compute the month, its trend, the close card, the tax summaries, the journals, bank balances, stock | a dozen queries of their own for the same figures; months shifted and inclusive at both ends; charts of two schemes; a change of regime in the middle of a quarter | figures agree with one another and with the chat, nobody sees another client's |
| Morning notes: `agent/insights.py`, the 09:00 job | cached notes, an `insight_sent` event per company and day | detect, have a sentence written, check its figures, send, record | one transaction over all companies, cards leave before it commits; a note kept for hours over books that move on | a note tells the day it was read, one failure silences nobody else, everyone hears once |
| Evals, simulator, file decoding, chart and taxes, i18n | nothing of their own, or written once | read or compute | none of the above | computed figures are right |

How the parts interact. Telegram calls the webhook; the webhook commits its mark and enqueues a
job *after* the commit; a worker of the `short` queue runs the job as one database transaction,
REPEATABLE READ, committed at the end. `router.handle_update` catches every exception, so a
handler that failed half-way *commits* the half it did: this is why drafts nobody points at
exist in these models. Handlers call `post.py`, `reversal.py`, `period.py` directly; they share
state only through the tables. Statement files are read on the `long` queue, at the same time as
taps are handled on the `short` one, and so are photos of receipts. A job that raises is rolled back
as a whole, with whatever it wrote about its own failure.

## Modules

| Module | What it is |
|---|---|
| `Ledger` | What the books promise: an append-only ledger with entries, counter-entries, seals. The abstract specification. |
| `Books` | Documents, proposals, vouchers, Accounting Periods, rules and their acceptance. One action per handler, each one atomic. Implements `Ledger`. |
| `BooksProofs` | The inductive invariant of `Books` and the theorems from it. |
| `PostingJobs` | The handlers of `Books` as transactions of concurrent workers: snapshot at the start, writes at the commit. With one worker it implements `Books`. |
| `PostingJobsProofs` | Its inductive invariant, what overlaps leave true, and that one worker implements `Books`. |
| `ChatUpdates` | From a Telegram delivery to a handler: dedup, the commit/enqueue gap, the whole-row saves of Nyabo Chat State. |
| `StatementLines` | Bank Transactions from overlapping statements, the matching run, the accountant's searches and taps, settlements and cancelled payments. |
| `RuleClearance` | What clears a posting rule for a company: refused approvals and the trail they leave, cards, acceptances, verification, desk edits, deploys, and the approval an acceptance finishes. |
| `StatementRows` | Pure: the rows of a statement through a column mapping, and what the running balance says for or against the mapping. |
| `StatementFiles` | A statement file from its arrival to its import: readings, column questions, stored layouts, acceptances, the file that comes back. Extends `StatementRows`. |
| `StatementProofs` | Of `StatementLines` that lines are stored and explained once and that allocations fit; of `StatementFiles` that no mapping is rewritten and used unasked, and that an acceptance finds a file. |
| `ReceiptEntries` | Pure: regime and rate by date, VAT treatment, pattern, accounts of the lines, the checks on an entry, and what ERPNext books of it. |
| `ReceiptIntake` | A photo from the chat to its proposal: document, queue job over a snapshot, supplier, learned rules, corrections. Extends `ReceiptEntries`. |
| `ReceiptIntakeProofs` | That every supplier the intake makes is flagged, on exactly one proposal; that what an owner may approve alone is sound; that hits are uses. |
| `Onboarding` | Provisioning, link codes, the active company and the wizard with its escapes, opening stock and filing. |
| `ChatProofs` | `ChatUpdates`: at most once, the mark, the steps. `Onboarding`: that every question can be answered, the summary is true, the company is what its answers say and the wizard's ways out lose no stock list. |
| `BooksReads` | Pure: the twelve reads an answer is made of, what each resolves, computes and merely quotes, and the error it refuses with. |
| `Questions` | A typed question from the queue to its answer: turns, retries, reads, the check of figures, buttons, memory; taps, commands and postings meanwhile. Extends `BooksReads`. |
| `ModelCalls` | The calls a job makes to a language model: client, routing, retries, tools, usage and log rows, while the site config changes and processes end. |
| `RulesAndCallsProofs` | The theorems of `RuleClearance`, and of `ModelCalls` that rows are paid for, models are kept and no tool runs again. |
| `BooksReports` | Pure: what cards, forms and reports compute from the books of a company. Extends `BooksReads`. |
| `BooksSignals` | Pure: the detectors of the morning note and what a note may say. Extends `BooksReports`. |
| `MorningNotes` | The morning round, the dashboard and their cache of notes, while the books change, a chat cannot be reached and the job dies. Extends `BooksSignals`. |
| `ReadsProofs` | Of `Questions` that the model cannot invent a figure and the context only moves on; of `MorningNotes` that reports, cards and chat agree, nobody reads another's books, notes tell their day and nobody is forgotten or told twice. |
| `Sums` | Sums over finite sets, for the proofs: what the folds of the community modules are, and the laws of a total. |
| `MC*` | Model values, symmetry sets and small worlds for TLC, one module per specification. |

Operators named `X_Something` with "Mutant:" in their comment are deliberately wrong variants of
`X`. No specification uses them; replacing `X` by one of them makes TLC report the property it
is paired with in `PROJECT.json`, which shows that the property can fail.

### Books

A table is a function whose domain is the set of row names in use. Names come from the name
series and are never reused, so "a new name" is any unused one. The correspondence:

- `Receive`: `receipt._intake`, the file is saved as `received`.
- `Propose`: `pipeline.process_receipt` that succeeds. What the language model read (month, rule,
  account, doubts) is an arbitrary input. `needs_accountant` is raised by doubts and always by an
  uncleared rule.
- `Approve`, `ApproveLeavesDraft`: `approve.approve` and `post.post_proposal`; the second when
  `submit()` raised after `insert()`. `MayPost` collects every check on the way: still
  `proposed`, the role and the owner's policy, rule cleared, month not locked.
- `ChangeAccount`, `Reject`: `post.change_account`, `post.reject`. Neither asks for a role.
- `ReverseDuplicate`, `ReverseAndCorrect`, `ReverseLeavesDraft`: `correct.do_reverse`,
  `reversal.reverse`, `post.make_correction_proposal`. `ReversalMonth` is the original's month, or today's
  if that month is locked.
- `Lock`, `Reopen`: `compliance/period.py`. `PeriodNameIsFree` is ERPNext's unique name of an
  Accounting Period, which reopening (it only disables the row) does not free.
- `VerifyRule`, `AcceptRule`, `RewriteRule`: the site's flag, an acceptance of exactly this
  content, and a deploy or desk edit that writes any other content or flag.
- `Tick`: the calendar, as far as month ends tell it.

Amounts, VAT, parties and wording are left out; an account stands for "what the entry says". One
company: every query of the code is filtered by company.

### PostingJobs

`S(w)` is `Books` over the snapshot worker `w` took, `B` is `Books` over the committed tables. A job asks
`S(w)!MayPost(...)` and writes into the committed tables: `db_set` writes the columns it names
and compares nothing. Because a row is locked from the first write to the commit and all jobs
write proposal before document, the writes of a job take effect together. `firstWins` says
whether the database refuses to write a row that changed since the snapshot
(MariaDB's `innodb_snapshot_isolation`), `crew` how many workers the site runs: the repository says neither, so both of each are checked.
Correction proposals and rule changes are not tasks here; they are in `Books`.

### ChatUpdates

One chat. `request[r]` is a web process between reading the row (`read`), its commit (`committed`)
and the enqueue; `job[w]` is a worker that read the row when it took the job. `stamp` counts the saves,
which is what Frappe's comparison of `modified` amounts to. `RequestDies`, `AnswerLost` and `Collide`
are the failures; all a job's failures are `EndWithoutStep`, because a failed job is never put back.
Only `enqueued` and `recorded`, `refused` are history the program does not keep; they state what happened.

### StatementLines

One company, handlers atomic (how they overlap is the subject of `PostingJobs`). A Bank Transaction is its
statement line and what ERPNext has allocated to it (`paid`, per voucher); a voucher is the amount it
moves on each bank, the invoice it pays and the proposal it posted. The correspondence:

- `Import`: `bank_import.import_statement`. `NewLines` are the lines whose `Fingerprint` is not
  stored yet, one of each: two lines that a statement cannot tell apart become one.
- `RunProposesTransfer` ... `RunEnds`: `match.run`, transfers first, then line by line. Nothing else
  runs meanwhile, so the run is a phase of the system. `RunBreaks` is an exception in the middle:
  `statement.run_import` catches it and the job commits what was done.
- `Search`, `Match`: `handlers/bank.handle_state` and `match_chosen`. The chat state keeps the list of
  the *last* search, the buttons of every earlier one stay on the screen and carry a line and a
  position. `Forget` is whatever else replaces or clears the chat state.
- `Settle`: `match.settle`; its savepoint makes insert, submit and reconcile one step.
- `ProposeExpense`, `ApproveProposal`, `RejectProposal`: `match.propose_expense` and what `post.py` does
  with a `bank_line` proposal.
- `Open` is what ERPNext will allocate (per bank); `Remaining` is what `candidates_for` computes (less the
  allocations of *all* banks). They differ for a transfer's entry: once one side is matched with it, it is
  no candidate for the other side, although ERPNext would still allocate it.
- `PostVoucher`, `CancelPayment` are the rest of ERPNext.

- `Exact` is a voucher that has the line's amount left give or take `Tolerance`, the 1₮ of `core/matching.py:19`
  (`src/tests/unit/test_core_matching.py:105` asserts it); a match then allocates the smaller of the two. `run.taken` are the vouchers a
  run has struck off its list (`candidate_cache`), which serve no second line of it even when less than the tolerance was used up.

Scores, dates and names only decide which of the admissible vouchers or pairs is taken, so they
are choices. Left out: closed months, currencies, returned invoices, the layouts of files, and a company
without configured account numbers, whose pairs need no narrative.

### RuleClearance

- A rule is a guarded row as `rule_content` fingerprints it: `content` and `verified`. `Covers` compares the
  fingerprint of an acceptance with the row as it reads *now*, which is what lets an edit withdraw it.
- `Approve` is the tap with both questions of the code: `approve.can_approve`, asked of the *active* company, and
  `post.check_can_approve`, asked of the proposal's. When the guard refuses, `RuleBlocked` writes the block
  (`record_block`, once per quarter of an hour), shows the card to whoever can answer it and otherwise asks
  those who can (`_tell_who_can_clear_it`); `reached` is any subset, because Telegram may fail.
- `ShowRule`, `AcceptRule`, `ConfirmRule`, `Leave`: `handlers/admin.py`. `CardCompany` is the company on the
  card, never the active one. `FinishTheBlockedTap` posts the newest of the *tapper's own* refusals.
- `DeskEdit`, `Deploy`, `Withdraw`: the desk and `rules/seed.py`, which write the content, and the flag `verified` with it; every save of a guarded row goes through
  `note_rule_changed_after_save`. `QuarterHourPasses` is the dedup window.

### StatementRows and StatementFiles

- A mapping says which column a role is read from; a row is its date, whether it is a summary, and its
  money cells. `BearsOut` is `check_layout`: importable, at least one line, four in five balances agree,
  every other dated row is a line.
- `Send`, `Imports`, `Unreadable`, `AsksForAReading`: the import job of `handlers/statement.py` with
  `matching/layouts.detect`. `AsksForAReading` ... `OffersReading` is the minute the model needs; the job keeps what it saw
  (`row`, `signed`), and anything else may happen meanwhile. `current` says that nobody has saved the row since, which is what Frappe's comparison
  of `modified` asks when the job saves it; verifying, correcting and storing save the row (`Outdated`), an acceptance is a row of its own and does not.
- `AnswersColumns`, `Cancels`, `Fix`: the column questions; `SavesLayout` is `save_layout` and the
  confirmation it asks for. `Stored` is the guard of `store_layout`.
- `Accepts` is `accept` for a layout with `ComesBack`: the own refused file or the company's newest
  unread one. Which, depends on the quarter of an hour, so it is a choice.

### ReceiptEntries and ReceiptIntake

- `ReceiptEntries` follows the pipeline: `RegimeOn`, `RateOn`, `VatTreatment`, `SelectPattern`, `Resolve`, `Entry`,
  `Problems` (`validate_entry`), `Booked` (`_split_lines` and what ERPNext makes of a Purchase
  Invoice). The tax of a Purchase Invoice is debited to the account of the line; the code prefers that of the purchase template
  (`agent/post.py:277`), which `setup/taxes.py` provisions with the same role, `input_vat`, and which only the desk can part from it. Amounts are integers in hundredths.
- `SendFile`, `Enqueue`, `WorkerDies`: `receipt._intake` and `enqueue_after_commit`.
- `StartJob` takes the snapshot `seen`; `Propose` reads only the snapshot and writes everything at the
  commit, as `Draft` says; `Draftable` is where the pipeline does *not* raise. `Taken` is the unique name of a Supplier
  that another job committed meanwhile. Whether a rule is cleared is fixed per behaviour here; it changes in
  `RuleClearance`.
- What the vision model and the classifier return is any element of `ModelSays[f]`.
- `ChangeAccount` is `post.change_account` with `learn_from_correction`; `ConfirmRule`, `RetireRule`,
  `SwitchAccount` are the desk.

### Onboarding

- `step` and `answers` are the wizard's state in Nyabo Chat State. `Ask` is `_ask`; a tap on a question that
  is not the open one changes nothing, so each action asks for its step.
- `AskCurrencies`, `AskNumber` walk the queue of chosen banks and of the currencies of each; `BackTarget` and the `Skip*` actions
  move through the same payload from outside.
- `SendList` files a draft Inventory Intake, `PostList` posts it, `Cancelled` and `Forgotten` are
  `_forget_inventory_list` with `cancel_intake`; `LeftBehind` is `leave_open_flow`, which commands and
  `Start` go through.
- `Displaced` is everything that replaces or clears the chat's one state and does not: the account search and the reason of a rejection
  (`handlers/approve.py:255`, `:289`), the searches and [later] of a bank line (`handlers/bank.py:123`, `:151`, `:164`, and its taps further down), the
  corrections of an entry (`handlers/correct.py:45` and on), the column questions of a statement, which a worker opens (`handlers/statement.py:332`, `:417`).
  From the wizard's side they are one step: its question is gone.
- `Confirm` is `finish`: state cleared, settings completed, templates set, then the sub-accounts one by one while the chart
  has codes. `Provision` is `provision_company`, which may be run again.

### BooksReads and Questions

- A voucher is its company, month, supplier, type and what it moves on each account; a GL Entry is a voucher with one of the
  accounts it moves. A proposal (`decisions`) is its name, what it was posted as if it was,
  months, total, account, explanation and the text its rule cites; `ExplainEntry` looks for one by either name before it looks for a voucher. A read returns a subject (what it resolved), `figures` (what it puts in `computed_numbers`)
  and `quoted` (what its sentence says besides). A date is its month; digits are numbers, so a name or an account may carry some (`Digits`).
- `Query` is `_books`: `Fault` first, then a supplier that is in no register (`NotFound`), then the read. `Bought`
  does what the code does with a returned invoice, see below.
- `question[w]` is what the worker holds of the question: number, company, the snapshot of the books, the memory it read, the
  tool calls so far. `TakeQuestion` is `handle_text` up to the first request, `ModelReplies` one turn of
  `_with_tools_once` with the calls it dispatches, `RequestIsRetried` and `RequestFails` the two ends of `_request`,
  `Deliver` the rest of `handle_text`: `Answer` decides whose sentence is sent, `Kept` what is remembered.
- What the model writes (`Texts`) and calls (`Requests`) is an input. `Previous` stands for "the month and account of the question before", which it
  finds in its prompt (`memory_text`) when `Recall` lets it.
- `Arrives` is the webhook's mark: it saves the row of the chat, so whoever is answering holds an old copy (`stale`), and
  `SaveFails` is Frappe's comparison of `modified`. `Deliver` then leaves an apology and commits what the tools wrote.
- `TapQuery`, `TapEscalate`, `Command`, `SwitchOrOther`, `RefuseInjection` are the other updates of the chat, each one short job and
  atomic here; `Propose`, `Post` and `Tick` are the rest of the world.
- `record_transaction` is a proposal or an error; how `typed.propose` draws up the entry is left out.

### ModelCalls

- `Configs` are site configs; `FromMapping` and `ResolveModel` are what `Settings.from_mapping` and `resolve_model` make of one, `GetClient`
  the client a job holds until it ends, `ClientFor` the routing of `PurposeRouter`.
- A job is a receipt (reading, then classifying), a statement line, a question or a sweep of the evals, each with the calls of its kind (`Plan`).
  A call keeps its attempt, its turn, its transcript, the parameters it sends and the usage added up so far.
- `RequestFails`, `Retry`, `DropParameter`, `BadAnswer`, `StructuredAnswer`, `ToolsAnswer` are what may become of a request; `charged` counts the
  responses the provider delivered, which the program does not know. One response is one unit; `Price` is per unit and model.
- `transcript` is what the next request shows the model, a message per call and per output in the provider's order (`Messages`);
  `ran` is the bag of the tool calls that were run (`Runs`: a call of a tool that does not exist is answered, not run).
- Rows are written into the job's transaction: `FinishJob` commits them, `JobFails` and `ProcessEnds` do not. A sweep writes each row at once.

### BooksReports, BooksSignals and MorningNotes

- The books are the vouchers and open lines of `BooksReads`, and settled lines, what statements say of their closing balance, proposals, flagged
  suppliers, stock entries and uncleared rules. A month has thirty days. `RowsOf` is `gl.rows`: all rows of all
  accounts from the first to the last day of the months; every report is a sum over it.
- `ChartScheme`, `RoleAccount` follow `reports/accounts.py`: the scheme in the settings only if its cash account is in the chart. `RevenueAccounts` is
  the base of the simplified regime, `Eligibility` what it asks of the last day of the quarter.
- `CloseCard` is `month_end.checklist` and `summaries`; `Overview` the dashboard of the chat; `Page` the mini app.
- `Signals` are the nine detectors in the order of `signals()`, loudest first; `Narrate` is `narrate` with `note_is_honest`. What the model
  writes is an input (`Drafts`), as figures; a model that fails is `None`.
- `BeginPass` ... `EndPass` is `push_daily` as one transaction: it reads the books it began with (`pass.seen`; between two rounds `pass` is `NoPass`), the event of a card is
  committed with the job. `Skip`, `Send`, `SendFails` are what may become of one company, `SendFails(TRUE)` the answer
  that is lost after the card arrived. `PassDies` is a killed worker. `OpenHome` is `home_card`, which shows the same notes.
- A cache entry may be there or gone (`Notes`), which covers its expiry. Its `Key` is the company, the day and the signals; the code hashes all of a signal but
  its sentence and its button, and the button goes with the kind.
- `DoubleEntry` is what ERPNext submits: a voucher whose movements add up to nothing, on accounts of its company; `OfItsType` what a voucher of each
  type does to the payable.
- A list of the code (`ORDER BY`, `sorted`, the largest few) is `Ordered(S, ahead)`: the element that i - 1 others are ahead of comes in place i, and `First(n, ...)` cuts
  it. That such an element exists needs that of any two one is ahead, and is proved where it is used (`RanksAreOnesOwn` of `Sums`).
- `ReportsAgree` asks of each month whether the sums agree (`SumsAgree`), the cards and the chat (`CardsAgree`), the two cards of one supplier (`SuppliersAgree`), and whether
  the company's own books suffice (`OwnOnly`).
- `PostVoucher`, `Settle`, `Decide`, `NextDay` are everything that changes the books (`ledgers`) and the day.

## Runs

| Run | Question | Bounds |
|---|---|---|
| `books` | Do document, proposals and vouchers agree, does a locked month stay sealed and hold only cleared entries, do owners post only what they may, and is the abstract ledger implemented? | 1 document, 3 proposals (a receipt's and two corrections), 4 vouchers (an entry, its reversal, a second entry, its reversal or a draft), 2 accounts of which the owner may use 1, a rule with 2 contents, 2 months |
| `races` | Do jobs, run by one worker, implement `Books`, and what is left of it when two workers overlap? | 1 proposal, 3 vouchers, 2 accounts, sites of 1 and of 2 workers, both databases |
| `delivery` | Are updates run at most once, steps not overwritten unread, every update answered while the queue drains? | 3 updates, 2 web processes, 2 workers, 1 lost answer or dead process |
| `clearance` | Is nothing posted but by a rule that is cleared, as it reads, for the company; does an acceptance say what was asked and finish only the own refused tap; is every outrun acceptance on record? | 2 companies; a chat that keeps one's books and one that owns it, keeps the other's and administers the site; 1 rule with 2 contents; a proposal of each company |
| `layouts` | Is a mapping that was signed off ever rewritten and used unasked, does an acceptance find the waiting file, are exchanged columns caught? | 2 files of 2 companies in one format, 2 chats (one linked to both companies), 3 mappings (the right one, the exchanged one, one without a narrative), rows with a summary, a deposit and a payment; jobs may break, and everything overlaps with a reading, the other file's too |
| `intake` | Is what an owner may approve alone sound, are new suppliers flagged once, hits not over-counted, photos read to an end? | 2 photos at once, 9 readings in all (new and known seller, register number, wrong VAT, unknown account, cash, no date, no total, the time before the VAT register), 2 regimes, 3 patterns, a chart of 5 codes in the other scheme than the settings', an account switched off and on, 1 repeat, 3 corrections (two make a rule) |
| `setup` | Can every question be answered, does the summary tell the ledger, does no way out lose a stock list, is the company what its answers say? | 1 person, 1 company, 1 bank, 2 currencies, 1 sub-code (so the chart runs out), 2 stock lists of different length, 1 link code, 2 ways to be provisioned |
| `lines` | Are lines, vouchers and invoices allocated, paid, proposed and imported at most once, whatever the order of imports, searches and taps? | 2 banks, 4 lines (both sides of a transfer, a payment, a fee) in 3 statements of which two overlap, 3 of the lines stored, 3 vouchers, 2 proposals, 1 invoice that two lines can pay, amounts of 2 and 4, vouchers of 4 and 3, a tolerance of 1 |
| `questions` | Does the model only state figures of the books and proposals it was asked about, does the context never go back, does every question end? | 2 companies that buy from one supplier, 1 worker, 2 updates of the chat (a question and whatever else), 2 turns and 2 retries of each, 6 ways to call tools in a turn that cover all twelve reads, one figure, 777, that is what the other company owes and has proposed, the year asked about, a name in no register, a bank's narrative and the FAQ; 3 vouchers and one to be posted, 2 proposals (one posted, one of the other client) and one to come, whose rule cites an article 777, 2 months |
| `calls` | Does a repeated request repeat no tool, does a row cost what the provider delivered, does a job keep its models, does every call end? | 2 workers, 2 jobs of 4 kinds, 3 calls, 2 models and a spare of which one refuses the temperature, 1 retry, 2 turns that may name a tool and a tool that does not exist, 2 site configs and 1 edit |
| `notes` | Do reports, cards and the chat agree whatever was posted, does a note tell the day it was read, does everyone hear once? | 2 clients (a VAT payer and one in the simplified regime), 9 accounts, 7 vouchers and 3 to be posted, of which 2 changes at a time (as are a settled line and a decided proposal), 2 days, 2 rounds, 1 broken call or job, 1 dashboard, 3 months of trend |
| `twicebooked` | violation: a line that is settled or matched is booked once more by a proposal | the same with 4 vouchers |

Deadlock is not checked for `ChatUpdates`, `ReceiptIntake`, `Onboarding`, `Questions`, `ModelCalls` and `MorningNotes`: when every update is answered and every job
done, or no code is left and the person has said all, nothing need happen. The others never
stop (rules can always be rewritten, a lost tap can start again, a statement can be sent again).

Why the bounds are enough to be worth reading. In `Books` the invariants relate at most two
vouchers of one document and a third proposal; four vouchers let every one of
entry/reversal/entry/reversal and a draft occur. In `PostingJobs` two jobs are enough for every hazard
listed: the code has no lock that a third job could wait for. For both, and for nearly every other safety
property, the theorems below take the bound away; a run's instance then matters for what is only model-checked and for
showing that the property can fail. In `StatementLines` lines are of 2 and 4 and vouchers of 3 and 4 at a tolerance of 1, so that a
line can be smaller than, equal to, within the tolerance of (on both sides) and larger than what a voucher or an invoice has left, and three
vouchers allow a payment, its cancellation and a second try next to a voucher from elsewhere. In `ChatUpdates` three updates let
one be below, one at and one above the mark. In `RuleClearance` and `StatementFiles` two companies are what every
mix-up needs, one to ask about and one to be active. In `ReceiptIntake` two photos suffice for
what jobs share (a supplier, a rule's hits, a correction); readings are chosen so that each branch of treatment,
pattern and account is taken. In `Questions` one worker answers, and the
chat's other updates are handled between its turns, which is where a second worker could do harm; two updates are a question and what comes between; the
proofs have any number of both. In `Books` no document is over the owner's amount (`OverCap` is empty): `OwnersStayWithinPolicy` proves that part for any. In `Onboarding` one person at a time answers a wizard; instances with
two companies, two banks and account numbers with equal last digits were explored as well, without a violation, and are too large for a run.
In `MorningNotes` two companies are what one needs to be silenced by the other, two rounds and one failure what telling twice needs; `ReportsAgree`
is looked at before the first round and dashboard, because neither writes to the books (`passes = 0 /\ views = 0`). The vouchers are a bill with VAT,
a return, a payment, sales of two years and a gain, the months lie across a quarter, and rent is missing in the last of them, so that each detector and each report has something to say.

Fairness. In `ChatUpdates` web processes and workers finish what they
began (weak fairness of `Serve` and `Work`: gunicorn and RQ keep running) and Telegram
delivers an update without an answer again and again (strong fairness of `Deliver` for each update: a web
process that is busy now and then must not starve it). Losses are bounded, which is what makes
"in the end" meaningful. In `ReceiptIntake` the web worker goes on (`Enqueue`), the queue's
workers take every job (`StartJob`), and RQ makes a job raise when its time is up (`FailJob`); nothing is
assumed of the model's answer. In `Questions` each worker goes on with its
question (`Answering`): every request to the model ends with a reply or an error, because the client has a time limit, and no job waits for another.
In `ModelCalls` the same is said of the request itself (`RequestEnds`, once per worker): it is answered, refused or timed out, and retries and turns are counted.
Nothing is assumed of when a job or a process ends.
The other modules promise no liveness: nobody has to tap.

## Findings

- `twicebooked`: `settle` refuses a line that a proposal explains, but a proposal is made and posted
  for a line that is settled or matched already: `propose_expense` asks for proposals only.

Other statements of the docs that the models contradict. They are defined in the modules and have no run of their own:

- `OnlyRetriesAreRefused` (`ChatUpdates`): `is_duplicate_update` takes monotonic ids for monotonic arrivals (`telegram/state.py:176`); of two updates
  delivered at a time the lower one is refused as a retry and never handled.
- `EveryCallWrites` (`ModelCalls`): `agent/frappe_log.py:1` says every call writes a row; a receipt that fails flushes its rows and raises,
  and they are rolled back with it (`agent/pipeline.py:697`).
- `LockRefusesOnlyWhatItSays` (`Books`): after `reopen` the disabled Accounting Period keeps the unique name, so the month
  can never be locked again (`compliance/period.py:113`).
- `PostedOnce` (`PostingJobs`): `post_proposal` calls itself idempotent (`agent/post.py:362`); it asks the status of its
  snapshot and locks no row, so where the later writer wins two overlapping taps each submit a voucher.
- `LockedMonthIsSealed` asked of overlapping jobs: lock and posting write no common row, so no
  database setting catches a posting that overlaps with the lock (`agent/post.py:384`).
- `DirectionIsEnforced` (`StatementLines`): `match_chosen` takes the line from the button and the voucher from the last
  search (`handlers/bank.py:240`).
- `store_layout` must not silently rewrite "what a person signed off on" (`handlers/statement.py:524`). It looks at the tables of its job's snapshot, so a mapping
  that is accepted while another file is being read is overwritten, the acceptance is outrun, and the card of the new reading asks again; a mapping that is
  verified meanwhile, or corrected, is not: that saved the row, and the job's save fails. `RewritesAreAskedAbout` is what is left of the sentence.
- `CardsNameTheFilesCompany` (`StatementFiles`): after the column questions the confirmation is drawn up for the company
  that is active then, not for the one whose file waits (`handlers/statement.py:581`).
- `FailuresAreMarked` (`ReceiptIntake`): `process_receipt` says that any failure marks the document `failed` (`agent/pipeline.py:686`). It marks and raises
  again, and it is the whole queue job, so the mark is rolled back with it: the document stays `received` and the photo cannot be sent again.
- `CorrectionsKeepTheCredit` (`ReceiptIntake`): a change of account moves every line on the old account, the money
  side too when a receipt was classified to the account it was paid from (`agent/post.py:481-484`).
- `telegram/router.py:246` says of a command that the flow cleans up "the way every other way out does", and `handlers/escape.py:307` that a draft used to stay on
  the desk "with nothing to explain it". A tap on another card that asks for text, a bank search and a worker's column questions replace the state without
  `leave_open_flow` (`Displaced` in `Onboarding`), and so does a link code: the draft of a stock list stays, for good, since only its question could post or cancel it.
  `ListsAreLeftInOrder` says that nothing else leaves one.
- `NoStockMeansNoEntry` (`Onboarding`): a walk that starts over has forgotten the list that was posted, and takes
  "no stock" for an answer (`handlers/onboarding.py:355`).
- `AccountantsMayApprove` (`RuleClearance`): `can_approve` asks the active company, so an accountant is refused on a client
  that is not the active one (`docs/DECISIONS.md:1396`).
- `PostedAsAccepted` (`RuleClearance`): the clearance is of the rule as it reads at the tap; the entry was drafted
  from what the rule said when the receipt was read (`rules/verify.py:619`).

- `NeverTwiceADay` (`MorningNotes`): `hooks.py:108` says of the note "never twice a day"; when the job dies, or the call breaks
  after the card arrived, nothing was written down and a second run of the job sends it again.
- `EveryMonthCanBeClosed` (`MorningNotes`): the summary of the simplified regime asks of the last day of the *quarter*, so a month before a
  registration for VAT in the middle of it cannot be closed from the chat (`reports/simplified_summary.py:157`). The run's instance registers at the start of one.

In the models and stated by no formula: the fingerprint of a statement line merges two genuine lines of one
day, amount and narrative (BANK-03 chose the key); a transfer entry is a candidate for one of its sides only;
of two jobs that read a new seller side by side the second fails on the unique name and its receipt is lost; overlapping jobs
lose a hit of a rule; a second receipt of a supplier nobody has approved yet is not flagged; a line matched with a voucher within the tolerance keeps up to 1₮ unexplained, and a
voucher that is 1₮ larger than its line keeps that open.
In `Questions` and `BooksReads`: `explain_entry`, "what a posted entry was" (`agent/pipeline.py:1585`), also finds a proposal by its name that was never posted or was rejected, and vouches for its
total, its dates and the figures in the text its rule cites, so a figure that is stated need not be one of the ledger (`FiguresAreTheBooks` says books *and* proposals of the company asked); `_top_suppliers` says "returns netted out" (`agent/pipeline.py:1713`) and subtracts the total of a return, which
ERPNext stores as a negative amount (`src/tests/test_stub_accounting.py:156`), so a return is *added* to what was bought; an answer whose chat row
was saved meanwhile is replaced by an apology while its proposals and escalations stay; two `record_transaction` calls of one question draft two proposals and one
card is shown; where the handler resolved nothing the model's own argument becomes the subject (`_subject_of`), and a button under such an answer can be
refused when tapped; an answer whose only button does not fit its 64 bytes has none; a button of one client's card is run on the books of the
company that is active at the tap; an instruction in a question drops the memory, which its comment says is "not advanced" (`agent/questions.py:978`).
In `BooksReports` and `BooksSignals`: the threshold signal sums all income accounts while the regime's own summary counts the accounts of the revenue roles
(`agent/insights.py:321`, `reports/simplified_summary.py:47`); the checklist of a month counts the flagged suppliers of all companies, which `OwnOnly` leaves out.
Read and not modelled: `month_end.summaries` returns its PDFs as `{name: bytes}` and `handlers/close.py:39` walks them as a list, so that each *name* is taken apart
and no PDF is sent (the flow test fakes a list, the report test asserts the dict); the button that confirms a lock carries the month and not the company.

## Proofs

Every theorem holds for all values of the constants that satisfy the module's named assumptions. Nothing else is assumed. An
assumption is evaluated by TLC in the run of its module, so the instances checked are among those the theorems are about.

### Books and its jobs

`BooksProofs`, from `BooksAssumption` (the empty link is no voucher, nobody is both owner and accountant, ...), with no bound on rows or months:

- `TypeCorrect`: the type invariant.
- `ReceiptsAreDecidedOnce` (`OneEntryOneDecision`: at most one entry stands per document, at most one proposal of it waits) and `RowsAndBooksAgree`
  (`RowsTellTheBooks`: proposals mirror the vouchers, documents the proposals), each from two theorems about its halves, and `OriginalsAreReversedOnce`,
  `OwnersStayWithinPolicy`: the state invariants the run checks, from the lemma `BooksInvariant`. None of them is inductive alone: that two
  standing vouchers never share a document needs that at most one proposal of it is undecided and
  that nothing stands while one is; this needs that a reversal is made only of a standing
  voucher; this needs that posted proposals name exactly the voucher that was submitted for them. The
  inductive invariant `IInv` is their conjunction with what ties them together (rows refer to rows,
  a posted voucher lies in a month that has come or was allowed, a received document has no
  proposal). Each action has its own step and under it one step per conjunct it can disturb.
- `DecisionsStayFinal`, `LockedMonthStaysSealed`, `LockFreezesOnlyCleared`: the action properties.
- `BooksImplementLedger`: refinement; each handler is a booking, a counter-entry, a seal, an unseal or
  a stutter of `Ledger`.

`PostingJobsProofs`, from `JobsAssumption` (finitely many workers, a site runs at least one and at most all of them), with no bound on
jobs, rows or months:

- `JobsAreTyped`, `CommittedRowsAgree` (`RowsAgree`), `OverlapsAreBounded` (`OverlapsPostOncePerWorker`), `NoVerdictComesBack` (`VerdictsAreFinal`).
  What makes them inductive is what a *snapshot* may still claim: `JobsRemember` (its vouchers are as they are; what it saw decided is decided) and, for
  the bound on repeated postings, a count: the entries of a posted proposal and the running jobs whose snapshot could still post it are together
  no more than the workers (`LateJobsAreCounted`). A job that posts leaves the second number for the first.
- `JobsImplementBooks` (`ImplementsBooks`): with one worker the jobs implement `Books`. What the only job has seen of vouchers, periods
  and proposals is the tables as they are (`OneWorkerIsUpToDate`), so its guards ask what those of `Books` ask.

### The chat

`ChatProofs` on `ChatUpdates`: `UpdatesAreTyped`, `RetriesRunNothingTwice` (an update that is recorded is at
or below the mark for good, and only the request that recorded it hands it over),
`MarkOnlyAdvances` and `StepsAreReadFirst`, for any number of updates, processes and losses. The key is that a
row with the current stamp *is* the current row, so a save that is let through was read from it.

`ChatProofs` on `Onboarding`, for any people, companies, banks, currencies and stock lists:

- `QuestionsAreAnswerable` and `SummaryIsTrue`. The
  invariant relates each question to what the payload must hold when it is asked (`BanksFit`, `StockFits`) and the payload to
  the desk (`TellsOf`); since cancelling and posting change the lists others might speak of, it also needs that no two
  wizards speak of one list (`OwnLists`), and that a posted list is never cancelled.
- `CompaniesFollow` (`CompanyFollowsItsAnswers`). Sub-accounts are made one by one while the chart has codes, so the invariant has the
  ledgers of a company finite and within the chart's room (`BooksFit`); then "there is a ledger, or no code is left" survives each of them. `PeopleFit` says that links, codes and
  open wizards are of companies that were provisioned. That an order to provision names finitely many accounts is assumed; of what a wizard collects it is proved.
- `NoWayOutLosesAList` (`ListsAreLeftInOrder`), an action property: back, skip, cancel, a command, starting again and filing leave no list on the desk without its
  question, and a list that lost it, to another card, a worker or a link code, is never posted or cancelled by a tap. From the same invariant: a question about a
  list names one that waits, and no two wizards speak of one.

### Bank statements

`StatementProofs` on `StatementLines`, for any statements, invoices and narratives, and finitely many banks, rows and vouchers (a database holds no others):

- `LinesAreStoredOnce` and `LinesAreExplainedOnce`, together `LinesAreTakenOnce` (`OneRowOneProposal`). The invariant needs nothing but the
  shape of the rows: matching, settling and cancelling write what is paid and leave the lines alone, every proposal is made after
  `existing_proposal` found none, and no decision brings one back to life.
- `AllocationsAlwaysFit` (`AllocationsFit`): nothing is allocated twice on either side, invoices owe what their standing payments left, settlements are
  whole, every candidate can be allocated, and an exact one leaves at most the tolerance of its line, whatever the tolerance is. The allocations are a table of lines by vouchers; what a line has is the total of a row, what a voucher
  has on a bank that of a column. The invariant `SumsFit` bounds both, says that only a standing voucher has anything allocated, that
  a standing payment is on one line, whole, and moves the bank of that line alone, and that each invoice's outstanding amount and standing payments add up; `TInv` says beside the types that the lines a run has still to do are
  untouched. One cell changes at a time, and `TotalChange` of `Sums` says what that does to a total.

`Sums` states what a fold of the community modules is (`Total`: one step of it by definition) and proves its laws over finite sets from `SubsetInduction`, an induction whose
hypothesis is a *set* of subsets, so that no operator is a parameter. Nothing is taken from outside the library of the proof system.

`StatementProofs` on `StatementFiles`: `NothingIsRewrittenUnasked` (`RewritesAreAskedAbout`) for any files, formats, companies and mappings, whatever
overlaps with a reading. The invariant says what each reading job's copy of the row is still good for (`SavesAreSafe`): as long as nobody has saved the row since, it is what
the row says, the row is not verified, and whoever accepted it meanwhile accepted just this; so a save that goes through puts there what nobody has accepted, and a job that saw a
signature saves nothing. `AcceptancesFindAFile` (`AcceptanceFindsAFile`): the refusals on record stay a log
of chats, companies and files (`FilesKeepShape`), so of those that are unread one is the newest, and whichever way the code looks it finds a file of the format.

### Receipts

`ReceiptIntakeProofs`, for any photos, readings, sellers, charts and patterns:

- `SuppliersFlagged`. The invariant says
  of each supplier that exactly one proposal created it; the step is `Propose`, where a name that was new in the snapshot and
  is not taken in the table is in nobody's proposal. It needs nothing of `ReceiptEntries`.
- `DraftsStaySound` (`DraftsAreSound`: what an owner may approve alone books the whole receipt and what it says, and a rule has no more hits than there are proposals of it). First,
  `ReceiptEntries` without state: an entry that passed `validate_entry` balances and keeps its VAT within tolerance, and a pattern that books a purchase has one debit of the amount, so one line
  takes what the VAT leaves (`WellDrawn`). Then the invariant: jobs see accounts of the chart, every entry is well drawn, *also after* a
  correction has moved lines from one account to another, and the hits a snapshot has seen are not ahead of the proposals (`HitsAreSeen`), because rules and proposals stay.
- Assumed: the patterns that book a purchase have the shape of `rules/seed/posting_patterns.json` (`PatternsAssumption`; sales patterns are not constrained), the roles cash and
  bank, by the scheme or by the accountant's alias, name accounts of type Cash or Bank (`MoneyAssumption`; an alias to another type is the
  accountant's doing and nothing in the code refuses it, so this is a condition on the site), seeded rules start with no hits, files are finitely many.

### Rules and calls

`RulesAndCallsProofs` on `RuleClearance`: `ClearanceIsTyped`, `LogTellsOnce` (`EventsTellOnce`: an acceptance that was outrun is noted, and noted once), `AcceptancesWereAsked` and
`OnlyTheClearedIsPosted` for any companies, people, rules and contents. Types are the invariant; that a block names a
proposal of its company and rule is what lets the last one read the log instead of the proposal.

`RulesAndCallsProofs` on `ModelCalls`, for any workers, jobs, models, prices and site configs (a model answers under names that are its own; a configured model is one):

- `RowsArePaidFor` (`OkRowsArePaidFor`) and `ModelsAreKept` (`JobsKeepTheirModels`). `CInv` numbers jobs and calls: what is running, buffered and logged
  shares no number, so what the provider charges next is charged to an open call and to no row; each row and the open call of a job are of the model its own copy of the config routes their purpose to.
- `ToolsNeverRunAgain` (`ToolsRunOnce`). The invariant is over the whole conversation: everything said so far is of earlier turns, in order, each call followed by its
  output, and the bag of what ran is exactly the outputs shown. A repeated request keeps turn and transcript; a turn adds a round, in either provider's
  order of calls and outputs (`RoundOf` covers both), and rounds of two turns have no tool call in common, so the bags add up. `UsesAssumption` says that what a turn calls is a sequence.

### Reads

`ReadsProofs` on `Questions`: `QuestionsInvariant`, `FiguresCannotBeInvented` and `ContextOnlyMovesOn` for any books, companies, workers, texts and
calls. The invariant says that every call of a running question carries the result of its own read over the question's snapshot,
which makes the figures the sentence is checked against those of the books; that a read of the books of all companies is a read of the books of the one asked
(`QueryAlone`, one lemma per read) is what keeps another client's figures out. For the context: a worker whose copy of the row is not
`stale` began after whatever was saved last, so its save is of a later update.

`ReadsProofs` on `MorningNotes`, for any books, companies, days and rounds:

- `NobodyReadsAnothersBooks`: page, close card and signals of a company are those of its own books, for every month and day (`OwnOnly`, the part of
  `ReportsAgree` that is about other clients, here for all books and not only for those of the run). A statement line carries a bank account and its company; that the two agree is assumed of the
  books found (`NotesAssumption`) and proved of those reached.
- `BooksAddUp`: the sums of a month agree, for every company and month, any chart and any vouchers (`SumsAgree`, the part of `ReportsAgree` that is sums). Every
  figure of a report is a total over rows, what some vouchers moved on some accounts (`Net`), so the proof is four laws and their uses: a total splits
  over accounts (`NetOfAccounts`) and over vouchers (`NetOfVouchers`), it is the sum of its parts by account, document or month (`NetByAccount`, `NetByKey`, from `TotalParts` of `Sums`),
  and of vouchers that balance each it is nothing (`NetBalances`). The trial balance is the last; cash is the second, with the days of a month
  after all days before it; profit is the first and the last, on the chart; spending, VAT and quarter are the third. Assumed
  (`DoubleEntryAssumption`): accounts and vouchers are finitely many, and ERPNext submits what is a double entry on accounts of its company; that the books hold nothing else is proved (`BooksAreDoubleEntry`).
- `ReportsDoAgree` (`ReportsAgree`): all of it, `SumsAgree` and `OwnOnly` from the two above, and what is left, that the *lists* of cards, forms and chat show what the sums say. The state it
  needs is three invariants of the books: lines are of the company of their bank (`WellKept`), vouchers are double entries (`DoubleEntries`), and
  `TablesKept`: rows are finitely many, a number stays the name of one voucher, an open line has something left and a settled one has not. Then:
  - A list is a set counted off. `RanksAreOnesOwn` says that, of a finite set in which of any two one is ahead, each element has a rank of its own and each rank an element;
    so `Ordered` lists every element once (`ListedByRank`), the sum over an uncut list is the sum over its set, and a list cut to n shows the first n.
  - `CardsDoAgree`: the recent vouchers of a month are those that moved something, each debited as much as credited, so their amounts add up to the trial balance; the chat's largest expenses and the card's
    are one list (`TopIsAsked`), and so are trend and VAT with what is asked for (`TrendIsAsked`, `VatIsAsked`).
  - `SuppliersDoAgree`: a month's total of a supplier takes returns from what was billed, the list of entries shows each row by its type; by the sign of what a voucher of that type
    does to the payable both count the same rows (`SuppliersAddUp`). A row shown as neither bought nor paid, a journal on the supplier's name, is what the property excepts.
  - `LinesDoAgree`: the count of open lines is the sum over the company's banks, because a line is at one bank; and `ButtonsDoAgree`: the first button is of the loudest signal and no two go to one view.
  Assumed (`TablesAssumption`): ERPNext numbers vouchers, bills credit the payable, returns and payments to a supplier debit it (Nyabo makes no other), and lines wait at a bank of their company.
- `NotesAreOfTheDay` (`NotesTellTheDay`): a note is kept under the signals it was written over (`CacheTells`), so one from the cache is still of the day's signals.
- `NobodyIsForgottenOrToldTwice` (`EveryoneHearsOnce`): a company of the round is in the queue, has failed or is written down if it needed a card (`NobodyForgotten`), and
  a chat has had no more cards of a day than one, and one for each call or round that broke on it (`CardsCounted`).

### Only model-checked

- Liveness, which needs fairness and ENABLED: `EveryUpdateIsAnswered`, `QueuedPhotosAreRead`, `QuestionsEnd`, `CallsEnd`.
- `SwapsAreCaught`: true of the files of the run, not of all. Exchanged columns can be borne out by coincidence when a statement's figures happen to balance both ways, so no theorem holds for every value of `RowsOf`.
- `LineIsOneCredit`, which is violated.

The type invariants of `StatementLines`, `ReceiptIntake`,
`Onboarding` and `StatementFiles` say what the variables hold and are in no run; what the proofs need of them is in the inductive invariants.

## Not modelled

Listed with the reason in `PROJECT.json`: read-only parts (print and export of reports, keyboards, the documents of the policy), parts that
run once (chart, taxes, custom fields), third parties (LLM, ERPNext's own validation; the e-barimt registry is
an input of `ReceiptIntake`), pure text work (file decoding, wording, name similarity, date formats), evaluation tooling.
These make up most of the lines of the repository: wording alone is a tenth of it, and the evaluation harness, the
prompts and the simulator hold no state that two events could disturb.

## Plan

1. Done: the core (`Ledger`, `Books`, `PostingJobs`, `ChatUpdates`, `StatementLines`) with its proofs, and around it
   `RuleClearance`, `StatementFiles`, `ReceiptIntake`, `Onboarding`, `Questions`, `ModelCalls` and `MorningNotes` with the reports.
2. Done: the theorems of `PostingJobs` and its refinement with one worker, the sums of `StatementLines`, the drafts of
   `ReceiptIntake`, the invariants of `Onboarding`, `ModelCalls`, `MorningNotes` and `StatementFiles`, the sums of the reports and their lists.
3. Theorems that are left: a condition on the figures of a statement under which exchanged columns cannot be borne out
   (`SwapsAreCaught` for every file that meets it).
4. Composition: `RuleClearance` with `Books`, so that a rule is cleared for one company of several while
   another's month is locked.
5. Match scoring and pairing of `core/matching.py` against a reference definition, typed transactions (`typed.propose`), the nightly
   corrections and the state the evaluation harness keeps between two runs.
