------------------------------ MODULE Onboarding ------------------------------
(***************************************************************************)
(* How a company comes to its books: it is provisioned, a person is linked *)
(* to it with a code, and the wizard of /эхлэх asks for its VAT status,    *)
(* its bank accounts and its opening stock, and files the answers.         *)
(*                                                                         *)
(* Answers wait in the chat until they are confirmed.  The opening stock   *)
(* does not: its list is on the desk as soon as it is read, and in the     *)
(* ledger as soon as it is confirmed, in the middle of the wizard.         *)
(***************************************************************************)
EXTENDS Integers, Sequences, FiniteSets

CONSTANTS
  Chats,         \* people, each with a chat of their own
  Companies,
  Banks,
  Currencies,
  MNT,           \* the currency of a bank account nothing is said of
  Numbers,       \* account numbers
  NoNumber,
  Suffix,        \* [Numbers \cup {NoNumber} -> Numbers \cup {NoNumber}]: a number's last four digits
  SubCodes,      \* codes the chart has left for bank accounts
  Orders,        \* what companies are provisioned with: [vat, stock, rows]
  Sizes,         \* the stock lists that are read, one after another, by their number of rows
  MaxCodes,      \* bound on the link codes that are issued
  None

(* The questions of the wizard, by the names of their steps.               *)
Steps == {"vat", "400m", "banks", "cur", "cur_other", "acct", "inv", "inv_wait", "inv_confirm",
          "acc_name", "micpa", "summary"}

BankAccount == [bank : Banks, currency : Currencies, number : Numbers \cup {NoNumber}]

(* Nyabo Company Settings.                                                 *)
Setting == [completed : BOOLEAN, vat : BOOLEAN, stock : BOOLEAN, rows : SUBSET BankAccount]

Roles == {"Accountant", "Owner"}

ASSUME OnboardingAssumption ==
  /\ MNT \in Currencies /\ NoNumber \notin Numbers
  /\ Suffix \in [Numbers \cup {NoNumber} -> Numbers \cup {NoNumber}]
  /\ SubCodes \in Nat /\ Sizes \in Seq(Nat) /\ MaxCodes \in Nat
  /\ Orders \subseteq [vat : BOOLEAN, stock : BOOLEAN, rows : SUBSET BankAccount]
  /\ \A order \in Orders : IsFiniteSet(order.rows)
  /\ None \notin Companies /\ None \notin Nat /\ None \notin Steps /\ None \notin Setting /\ None \notin Roles

VARIABLES
  step,      \* the question each chat is on, None when no wizard is open
  answers,   \* the wizard's answers in the chat's payload
  links,     \* the companies each person is linked to, with the role in each
  active,    \* the company each person works on
  codes,     \* link codes that were issued
  settings,  \* Nyabo Company Settings of each company that was provisioned
  taxes,     \* whether the company's VAT templates are the default ones
  ledgers,   \* GL sub-accounts of the company's banks, by name
  intakes    \* Nyabo Inventory Intake rows, in the order of their creation

wizard == <<step, answers>>
people == <<links, active, codes>>
books == <<settings, taxes, ledgers>>
vars == <<step, answers, links, active, codes, settings, taxes, ledgers, intakes>>

Provisioned == {co \in Companies : settings[co] # None}

Posted(co) == {i \in DOMAIN intakes : intakes[i].company = co /\ intakes[i].status = "posted"}

-----------------------------------------------------------------------------
(* The wizard's answers                                                    *)

Blank(co) ==
  [company |-> co, vat |-> FALSE, selected |-> <<>>, banks |-> <<>>, index |-> 1, currencies |-> <<>>,
   queue |-> <<>>, stock |-> FALSE, skipped |-> FALSE, intake |-> None, count |-> 0,
   posted |-> None, filed |-> 0]

Without(list, x) ==
  LET i == CHOOSE i \in DOMAIN list : list[i] = x
  IN  SubSeq(list, 1, i - 1) \o SubSeq(list, i + 1, Len(list))

Holds(list, x) == \E i \in DOMAIN list : list[i] = x

Toggled(list, x) == IF Holds(list, x) THEN Without(list, x) ELSE Append(list, x)

AtBank(a) == a.index \in DOMAIN a.banks

Bank(b) == [bank |-> b, currencies |-> <<>>, numbers |-> [k \in Currencies |-> NoNumber]]

(* The wizard asks: the question and the answers so far are in the chat.   *)
Ask(c, s, a) ==
  /\ step' = [step EXCEPT ![c] = s]
  /\ answers' = [answers EXCEPT ![c] = a]

Close(c) ==
  /\ step' = [step EXCEPT ![c] = None]
  /\ answers' = [answers EXCEPT ![c] = None]

(* Which question comes of the bank the wizard has got to.                 *)
AskCurrencies(c, a) ==
  IF a.index > Len(a.banks) THEN Ask(c, "inv", a)
  ELSE Ask(c, "cur", [a EXCEPT !.currencies = <<>>])

AskNumber(c, a) ==
  IF a.queue = <<>> THEN AskCurrencies(c, [a EXCEPT !.index = @ + 1])
  ELSE Ask(c, "acct", a)

(* _forget_inventory_list: a list that was read and not filed leaves the   *)
(* payload, and its row is cancelled.                                      *)
Unfiled(a) == a.intake # None /\ a.intake # a.posted

Forgotten(a) == IF Unfiled(a) THEN [a EXCEPT !.intake = None, !.count = 0] ELSE a

Cancelled(a) ==
  IF Unfiled(a) /\ intakes[a.intake].status # "posted"
  THEN [intakes EXCEPT ![a.intake].status = "cancelled"]
  ELSE intakes

(* leave_open_flow: the wizard puts its house in order before its state is *)
(* thrown away.                                                            *)
LeftBehind(c) == IF step[c] = None THEN intakes ELSE Cancelled(answers[c])

-----------------------------------------------------------------------------
(* Provisioning                                                            *)

Name(row) == <<row.bank, row.currency, Suffix[row.number]>>

Names(rows) == {Name(row) : row \in rows}

Room(co) == SubCodes - Cardinality(ledgers[co])

(* provision_company, all or nothing: a second run finds the regime, the   *)
(* templates and the accounts that are there and leaves them.              *)
Provision(co, order) ==
  /\ Cardinality(Names(order.rows) \ ledgers[co]) <= Room(co)
  /\ settings' = [settings EXCEPT ![co] =
       IF @ = None
       THEN [completed |-> FALSE, vat |-> order.vat, stock |-> order.stock, rows |-> order.rows]
       ELSE [completed |-> @.completed, vat |-> @.vat, stock |-> @.stock \/ order.stock, rows |-> @.rows \cup order.rows]]
  /\ taxes' = [taxes EXCEPT ![co] = IF co \in Provisioned THEN @ ELSE order.vat]
  /\ ledgers' = [ledgers EXCEPT ![co] = @ \cup Names(order.rows)]
  /\ UNCHANGED <<wizard, people, intakes>>

-----------------------------------------------------------------------------
(* People and companies                                                    *)

(* /link <role> <company>                                                  *)
IssueCode(role, co) ==
  /\ co \in Provisioned /\ Len(codes) < MaxCodes
  /\ codes' = Append(codes, [company |-> co, role |-> role, status |-> "open"])
  /\ UNCHANGED <<wizard, links, active, books, intakes>>

(* Six digits are a code before they are an answer, whatever question is   *)
(* open; an accountant whose company is not set up goes into the wizard.   *)
TypeCode(c, k) ==
  LET co == IF active[c] = None THEN codes[k].company ELSE active[c]
      role == IF co = codes[k].company THEN codes[k].role ELSE links[c][co]
  IN  /\ codes[k].status = "open"
      /\ codes' = [codes EXCEPT ![k].status = "used"]
      /\ links' = [links EXCEPT ![c] = [@ EXCEPT ![codes[k].company] = codes[k].role]]
      /\ active' = [active EXCEPT ![c] = co]
      /\ IF role = "Accountant" /\ ~settings[co].completed
         THEN Ask(c, "vat", Blank(co))
         ELSE UNCHANGED wizard
      /\ UNCHANGED <<books, intakes>>

(* The daily job, or the code's own half hour.                             *)
ExpireCode(k) ==
  /\ codes[k].status = "open"
  /\ codes' = [codes EXCEPT ![k].status = "expired"]
  /\ UNCHANGED <<wizard, links, active, books, intakes>>

(* A button of the company chooser; the conversation stays where it is.    *)
SwitchByButton(c, co) ==
  /\ links[c][co] # None
  /\ active' = [active EXCEPT ![c] = co]
  /\ UNCHANGED <<wizard, links, codes, books, intakes>>

(* /компани <company>: a command leaves the conversation first.            *)
SwitchByCommand(c, co) ==
  /\ links[c][co] # None
  /\ active' = [active EXCEPT ![c] = co]
  /\ intakes' = LeftBehind(c)
  /\ Close(c)
  /\ UNCHANGED <<links, codes, books>>

(* Any other command, and [Цэс].                                           *)
Command(c) ==
  /\ step[c] # None
  /\ intakes' = LeftBehind(c)
  /\ Close(c)
  /\ UNCHANGED <<people, books>>

(* A chat has one question open.  A card that asks for text (an account, a *)
(* reason), a search that ends, and a worker that asks for the columns of  *)
(* a statement put theirs in its place, and do not ask the wizard to put   *)
(* its house in order: no leave_open_flow.                                 *)
Displaced(c) ==
  /\ step[c] # None
  /\ Close(c)
  /\ UNCHANGED <<people, books, intakes>>

(* /эхлэх, and /эхлэх дахин for a company that is done.                    *)
Start(c, again) ==
  /\ active[c] # None
  /\ intakes' = LeftBehind(c)
  /\ IF settings[active[c]].completed /\ ~again THEN Close(c) ELSE Ask(c, "vat", Blank(active[c]))
  /\ UNCHANGED <<people, books>>

-----------------------------------------------------------------------------
(* VAT and banks.  A tap on a question that is not the open one is         *)
(* answered as stale and changes nothing.                                  *)

TapVat(c, yes) ==
  /\ step[c] = "vat"
  /\ Ask(c, "400m", [answers[c] EXCEPT !.vat = yes])
  /\ UNCHANGED <<people, books, intakes>>

Tap400m(c) ==
  /\ step[c] = "400m"
  /\ Ask(c, "banks", [answers[c] EXCEPT !.selected = <<>>])
  /\ UNCHANGED <<people, books, intakes>>

ToggleBank(c, b) ==
  /\ step[c] = "banks"
  /\ Ask(c, "banks", [answers[c] EXCEPT !.selected = Toggled(@, b)])
  /\ UNCHANGED <<people, books, intakes>>

BanksDone(c) ==
  /\ step[c] = "banks"
  /\ LET chosen == answers[c].selected
     IN  AskCurrencies(c, [answers[c] EXCEPT !.banks = [i \in DOMAIN chosen |-> Bank(chosen[i])], !.index = 1])
  /\ UNCHANGED <<people, books, intakes>>

ToggleCurrency(c, k) ==
  /\ step[c] = "cur"
  /\ Ask(c, "cur", [answers[c] EXCEPT !.currencies = Toggled(@, k)])
  /\ UNCHANGED <<people, books, intakes>>

TapOtherCurrency(c) ==
  /\ step[c] = "cur"
  /\ Ask(c, "cur_other", answers[c])
  /\ UNCHANGED <<people, books, intakes>>

(* A code that is typed; None when it is none.                             *)
TypeCurrency(c, k) ==
  /\ step[c] = "cur_other"
  /\ Ask(c, "cur", [answers[c] EXCEPT !.currencies = IF k = None \/ Holds(@, k) THEN @ ELSE Append(@, k)])
  /\ UNCHANGED <<people, books, intakes>>

WithCurrencies(a, list) == [a EXCEPT !.banks[a.index].currencies = list, !.queue = list]

CurrenciesDone(c) ==
  /\ step[c] = "cur"
  /\ LET a == answers[c]
     IN  AskNumber(c, WithCurrencies(a, IF a.currencies = <<>> THEN <<MNT>> ELSE a.currencies))
  /\ UNCHANGED <<people, books, intakes>>

(* _store_account_number: typed, or skipped.                               *)
AnswerNumber(c, n) ==
  /\ step[c] = "acct"
  /\ LET a == answers[c]
         kept == IF n = NoNumber THEN a ELSE [a EXCEPT !.banks[a.index].numbers[Head(a.queue)] = n]
     IN  AskNumber(c, [kept EXCEPT !.queue = Tail(@)])
  /\ UNCHANGED <<people, books, intakes>>

-----------------------------------------------------------------------------
(* Opening stock                                                           *)

(* Mutant: "no" is taken although the opening stock is filed.              *)
TapStock_AnyAnswer(c, yes) ==
  /\ step[c] = "inv"
  /\ Ask(c, IF yes THEN "inv_wait" ELSE "acc_name", [answers[c] EXCEPT !.stock = yes, !.skipped = FALSE])
  /\ UNCHANGED <<people, books, intakes>>

(* _on_inventory: "no" is refused once a list of this walk is filed.       *)
TapStock(c, yes) ==
  /\ step[c] = "inv"
  /\ LET a == answers[c]
     IN  IF a.posted # None /\ ~yes
         THEN Ask(c, "inv", [a EXCEPT !.stock = TRUE])
         ELSE Ask(c, IF yes THEN "inv_wait" ELSE "acc_name", [a EXCEPT !.stock = yes, !.skipped = FALSE])
  /\ UNCHANGED <<people, books, intakes>>

(* A list that can be read: a draft of the company the person works on.    *)
SendList(c) ==
  /\ step[c] = "inv_wait" /\ Len(intakes) < Len(Sizes)
  /\ LET i == Len(intakes) + 1
     IN  /\ intakes' = Append(intakes, [company |-> active[c], rows |-> Sizes[i], status |-> "draft"])
         /\ Ask(c, "inv_confirm", [answers[c] EXCEPT !.intake = i, !.count = Sizes[i], !.skipped = FALSE])
  /\ UNCHANGED <<people, books>>

(* handle_intake_callback, [Батлах]: the tap confirms the list and posts   *)
(* it.  When ERPNext refuses the entry, the list is marked failed and the  *)
(* question stays.                                                         *)
PostList(c, ok) ==
  /\ step[c] = "inv_confirm"
  /\ LET a == answers[c]
     IN  /\ intakes[a.intake].status \notin {"posted", "cancelled"}
         /\ intakes' = [intakes EXCEPT ![a.intake].status = IF ok THEN "posted" ELSE "failed"]
         /\ IF ok THEN Ask(c, "acc_name", [a EXCEPT !.posted = a.intake, !.filed = a.count]) ELSE UNCHANGED wizard
  /\ UNCHANGED <<people, books>>

(* The button of an older card that refuses the list.                      *)
RefuseList(c) ==
  /\ step[c] = "inv_confirm"
  /\ intakes' = Cancelled(answers[c])
  /\ Ask(c, "inv_wait", Forgotten(answers[c]))
  /\ UNCHANGED <<people, books>>

-----------------------------------------------------------------------------
(* The accountant of record, Буцах, Алгасах, Цуцлах                        *)

TypeName(c) ==
  /\ step[c] = "acc_name"
  /\ Ask(c, "micpa", answers[c])
  /\ UNCHANGED <<people, books, intakes>>

TypePermit(c) ==
  /\ step[c] = "micpa"
  /\ Ask(c, "summary", answers[c])
  /\ UNCHANGED <<people, books, intakes>>

(* Mutant: Буцах from the stock question goes to the bank it came from.    *)
BackTarget_LastBank(s, a) ==
  CASE s = "400m" -> "vat" [] s = "banks" -> "400m" [] s = "cur" -> "banks" [] s = "cur_other" -> "cur"
    [] s = "acct" -> "cur" [] s = "inv" -> "cur" [] s = "inv_wait" -> "inv" [] s = "inv_confirm" -> "inv_wait"
    [] s = "acc_name" -> (IF a.stock /\ a.posted = None THEN "inv_wait" ELSE "inv")
    [] s = "micpa" -> "acc_name" [] s = "summary" -> "micpa" [] OTHER -> None

(* BACK_STEPS and _back_target                                             *)
BackTarget(s, a) ==
  CASE s = "400m" -> "vat" [] s = "banks" -> "400m" [] s = "cur" -> "banks" [] s = "cur_other" -> "cur"
    [] s = "acct" -> "cur" [] s = "inv" -> "banks" [] s = "inv_wait" -> "inv" [] s = "inv_confirm" -> "inv_wait"
    [] s = "acc_name" -> (IF a.stock /\ a.posted = None THEN "inv_wait" ELSE "inv")
    [] s = "micpa" -> "acc_name" [] s = "summary" -> "micpa" [] OTHER -> None

Back(c) ==
  /\ step[c] # None /\ BackTarget(step[c], answers[c]) # None
  /\ LET a == answers[c]
     IN  /\ intakes' = IF step[c] = "inv_confirm" THEN Cancelled(a) ELSE intakes
         /\ Ask(c, BackTarget(step[c], a), IF step[c] = "inv_confirm" THEN Forgotten(a) ELSE a)
  /\ UNCHANGED <<people, books>>

(* Mutant: skipping the list leaves the draft where it is.                 *)
SkipList_KeepsDraft(c) ==
  /\ step[c] \in {"inv_wait", "inv_confirm"}
  /\ Ask(c, "acc_name", [answers[c] EXCEPT !.skipped = TRUE])
  /\ UNCHANGED <<people, books, intakes>>

(* Алгасах on the stock list: left for later, and what was read of it      *)
(* forgotten.                                                              *)
SkipList(c) ==
  /\ step[c] \in {"inv_wait", "inv_confirm"}
  /\ intakes' = Cancelled(answers[c])
  /\ Ask(c, "acc_name", Forgotten([answers[c] EXCEPT !.skipped = TRUE]))
  /\ UNCHANGED <<people, books>>

SkipBanks(c) ==
  /\ step[c] = "banks"
  /\ Ask(c, "inv", [answers[c] EXCEPT !.selected = <<>>, !.banks = <<>>, !.index = 1])
  /\ UNCHANGED <<people, books, intakes>>

SkipCurrencies(c) ==
  /\ step[c] = "cur"
  /\ AskNumber(c, WithCurrencies(answers[c], <<MNT>>))
  /\ UNCHANGED <<people, books, intakes>>

SkipCode(c) ==
  /\ step[c] = "cur_other"
  /\ Ask(c, "cur", answers[c])
  /\ UNCHANGED <<people, books, intakes>>

(* Цуцлах, or "no" to the summary.                                         *)
Cancel(c) ==
  /\ step[c] # None
  /\ intakes' = Cancelled(answers[c])
  /\ Close(c)
  /\ UNCHANGED <<people, books>>

-----------------------------------------------------------------------------
(* Filing the answers                                                      *)

(* bank_rows                                                               *)
BankRows(a) ==
  UNION {{[bank |-> a.banks[i].bank, currency |-> k, number |-> a.banks[i].numbers[k]] :
            k \in {l \in Currencies : Holds(a.banks[i].currencies, l) \/ (a.banks[i].currencies = <<>> /\ l = MNT)}} :
         i \in DOMAIN a.banks}

(* Mutant: only accounts in tugriks get a ledger.                          *)
Opened_TugriksOnly(co, missing) == {{n \in missing : n[2] = MNT}}

(* ensure_bank_accounts: one after another, until a code is wanting; the   *)
(* order of the rows says which are made.                                  *)
Opened(co, missing) ==
  {made \in SUBSET missing :
     Cardinality(made) = IF Cardinality(missing) <= Room(co) THEN Cardinality(missing) ELSE Room(co)}

(* Confirm: the chat is cleared, the answers are filed, and the company is *)
(* made to match them.  Names of ledgers are made one after another; when  *)
(* the chart has no code left the handler raises, and what was done so far *)
(* stays.                                                                  *)
Confirm(c) ==
  /\ step[c] = "summary"
  /\ LET a == answers[c]
         co == a.company
         missing == Names(BankRows(a)) \ ledgers[co]
     IN  /\ settings' = [settings EXCEPT ![co] =
              [completed |-> TRUE, vat |-> a.vat, stock |-> a.stock, rows |-> @.rows \cup BankRows(a)]]
         /\ taxes' = [taxes EXCEPT ![co] = a.vat]
         /\ \E made \in Opened(co, missing) : ledgers' = [ledgers EXCEPT ![co] = @ \cup made]
  /\ Close(c)
  /\ UNCHANGED <<people, intakes>>

-----------------------------------------------------------------------------
Init ==
  /\ step = [c \in Chats |-> None]
  /\ answers = [c \in Chats |-> None]
  /\ links = [c \in Chats |-> [co \in Companies |-> None]]
  /\ active = [c \in Chats |-> None]
  /\ codes = <<>>
  /\ settings = [co \in Companies |-> None]
  /\ taxes = [co \in Companies |-> FALSE]
  /\ ledgers = [co \in Companies |-> {}]
  /\ intakes = <<>>

Desk ==
  \/ \E co \in Companies, order \in Orders : Provision(co, order)
  \/ \E co \in Companies, role \in Roles : IssueCode(role, co)
  \/ \E k \in DOMAIN codes : ExpireCode(k)

Talk(c) ==
  \/ \E k \in DOMAIN codes : TypeCode(c, k)
  \/ \E co \in Companies : SwitchByButton(c, co) \/ SwitchByCommand(c, co)
  \/ Command(c) \/ Displaced(c) \/ \E again \in BOOLEAN : Start(c, again)

Answer(c) ==
  \/ \E yes \in BOOLEAN : TapVat(c, yes) \/ TapStock(c, yes)
  \/ Tap400m(c) \/ BanksDone(c) \/ CurrenciesDone(c) \/ TapOtherCurrency(c)
  \/ \E b \in Banks : ToggleBank(c, b)
  \/ \E k \in Currencies : ToggleCurrency(c, k)
  \/ \E k \in Currencies \cup {None} : TypeCurrency(c, k)
  \/ \E n \in Numbers \cup {NoNumber} : AnswerNumber(c, n)
  \/ \E ok \in BOOLEAN : PostList(c, ok)
  \/ SendList(c) \/ RefuseList(c) \/ TypeName(c) \/ TypePermit(c) \/ Confirm(c)
  \/ Back(c) \/ SkipList(c) \/ SkipBanks(c) \/ SkipCurrencies(c) \/ SkipCode(c) \/ Cancel(c)

Next == Desk \/ \E c \in Chats : Talk(c) \/ Answer(c)

Spec == Init /\ [][Next]_vars

-----------------------------------------------------------------------------
(* Properties                                                              *)

(* The types of the state, and what a chat and its company hang together   *)
(* by: a wizard is open with answers for a company that was provisioned.   *)
TypeOK ==
  /\ step \in [Chats -> Steps \cup {None}]
  /\ \A c \in Chats : step[c] # None => answers[c] # None /\ answers[c].company \in Provisioned
  /\ \A c \in Chats : active[c] # None => active[c] \in Provisioned /\ links[c][active[c]] # None
  /\ Len(codes) <= MaxCodes /\ Len(intakes) <= Len(Sizes)
  /\ \A i \in DOMAIN intakes : intakes[i].status \in {"draft", "failed", "posted", "cancelled"}
  /\ \A co \in Companies : Cardinality(ledgers[co]) <= SubCodes

(* Wherever taps, typed answers, Буцах and Алгасах have taken the wizard,  *)
(* the question it stands on can be answered: its handler finds the bank,  *)
(* the currency and the list it asks about.                                *)
QuestionsCanBeAnswered ==
  \A c \in Chats :
    /\ step[c] \in {"cur", "cur_other", "acct"} => AtBank(answers[c])
    /\ step[c] = "acct" => answers[c].queue # <<>>
    /\ step[c] = "inv_confirm" =>
         Unfiled(answers[c]) /\ intakes[answers[c].intake].status \in {"draft", "failed"}

(* onboarding_summary_parts: what the summary says of the stock.           *)
Shown(a) ==
  CASE a.posted # None -> a.filed
    [] a.posted = None /\ a.skipped -> "later"
    [] a.posted = None /\ ~a.skipped /\ a.stock -> a.count
    [] OTHER -> "none"

(* The summary tells what stands in the ledger: a number of rows only when *)
(* a list with that many is posted, and the stock is never denied once one *)
(* is.                                                                     *)
SummaryTellsTheLedger ==
  \A c \in Chats : step[c] = "summary" =>
    LET a == answers[c]
    IN  IF a.posted = None THEN Shown(a) = (IF a.stock THEN "later" ELSE "none")
        ELSE a.stock /\ intakes[a.posted].status = "posted" /\ Shown(a) = intakes[a.posted].rows

(* Lists that wait on the desk without an open question about them.        *)
Unexplained ==
  {i \in DOMAIN intakes : /\ intakes[i].status \in {"draft", "failed"}
                          /\ ~\E c \in Chats : step[c] = "inv_confirm" /\ answers[c].intake = i}

(* None of the wizard's own ways out (Буцах, Алгасах, Цуцлах, a command,   *)
(* starting again, filing) leaves a list on the desk without its question: *)
(* only another card's or worker's question does, or a link code typed in  *)
(* the middle of the wizard.  And no tap ever posts or cancels such a list.*)
ListsAreLeftInOrder ==
  [][/\ \A i \in Unexplained' : i \in Unexplained \/
          \E c \in Chats : step[c] # None /\ (Displaced(c) \/ \E k \in DOMAIN codes : TypeCode(c, k))
     /\ \A i \in Unexplained : intakes'[i] = intakes[i]]_vars

(* A company is what its answers say, however often it is provisioned and  *)
(* set up: a bank account that was confirmed has a ledger in the chart, or *)
(* the chart has no code left, and the VAT templates are the default ones  *)
(* exactly in a company that is registered for VAT.                        *)
CompanyFollowsItsAnswers ==
  \A co \in Provisioned :
    /\ \A row \in settings[co].rows : Name(row) \in ledgers[co] \/ Room(co) = 0
    /\ taxes[co] = settings[co].vat

(* _on_inventory: an answer about the books must not contradict the books. *)
NoStockMeansNoEntry ==
  \A co \in Provisioned : settings[co].completed /\ ~settings[co].stock => Posted(co) = {}
=============================================================================
