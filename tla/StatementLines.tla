---------------------------- MODULE StatementLines ----------------------------
(***************************************************************************)
(* Bank statements of one company.  An import turns the lines of a file    *)
(* into Bank Transactions and matches the new ones against the bank's      *)
(* vouchers; what is left is explained by taps: match a voucher, settle an *)
(* open invoice, book the line as an expense or income.  Own transfers are *)
(* paired across bank accounts.                                            *)
(*                                                                         *)
(* Handlers are atomic; an import's matching run goes line by line and     *)
(* nothing else runs until it ends.  Dates, names and scores decide which  *)
(* of the admissible vouchers or pairs is taken: they are choices here.    *)
(***************************************************************************)
EXTENDS Integers, FiniteSets, FiniteSetsExt, Functions

CONSTANTS
  Lines,        \* lines the banks put into their statements
  Banks,        \* the company's bank accounts
  Attr,         \* what a statement says of a line: bank, amount, narrative
  Statements,   \* the files that are sent; they may overlap
  Rows,         \* Bank Transaction names
  Vouchers,     \* Journal Entry, Purchase Invoice and Payment Entry names
  Proposals,    \* Nyabo Proposal names
  Invoices,     \* unpaid invoices, submitted
  Due,          \* what an invoice is to move on a bank: in +, out -
  DeskMoves,    \* movements on the banks of vouchers posted elsewhere
  Tolerance,    \* core/matching.py AMOUNT_TOLERANCE: how far an exact amount may be off
  None          \* an empty link

ASSUME LinesAssumption ==
  /\ Attr \in [Lines -> [bank : Banks, amount : Int \ {0}, narrative : {"plain", "fee", "own"}]]
  /\ Statements \subseteq SUBSET Lines
  /\ \A S \in Statements : \A l, m \in S : Attr[l].bank = Attr[m].bank
  /\ Due \in [Invoices -> Int \ {0}]
  /\ DeskMoves \subseteq [Banks -> Int]
  /\ Tolerance \in Nat
  /\ None \notin Rows \cup Vouchers \cup Proposals \cup Invoices
  /\ IsFiniteSet(Banks) /\ IsFiniteSet(Rows) /\ IsFiniteSet(Vouchers)

VARIABLES
  bt,           \* Bank Transaction rows: their line and their payment entries
  voucher,      \* submitted vouchers: their bank movements and what they pay
  outstanding,  \* outstanding_amount of the invoices
  proposal,     \* bank_line proposals: their line, its transfer's other side
  run,          \* matching.match.run: where it is, its rows still to do, the
                \* rows paired and the vouchers taken so far (candidate_cache)
  search        \* the chat: the list the last search put into its state, and
                \* the lines whose candidate buttons are on the screen

vars == <<bt, voucher, outstanding, proposal, run, search>>

BtRow == [line : Lines, paid : [Vouchers -> Nat]]

VoucherRow ==
  [moves : [Banks -> Int], pays : Invoices \cup {None}, proposal : Proposals \cup {None},
   docstatus : {1, 2}]

ProposalRow ==
  [row : Rows, pair : Rows \cup {None}, status : {"proposed", "posted", "rejected"}]

NoRun == [phase |-> "none", todo |-> {}, used |-> {}, taken |-> {}]

Put(table, name, row) ==
  [x \in DOMAIN table \cup {name} |-> IF x = name THEN row ELSE table[x]]

Size(n) == IF n < 0 THEN -n ELSE n

SameSign(m, n) == (m < 0 /\ n < 0) \/ (m > 0 /\ n > 0)

Bank(t) == Attr[bt[t].line].bank

Amount(t) == Attr[bt[t].line].amount

(* is_fee_line by the company's fee rule, is_own_transfer by the account   *)
(* numbers a line carries.                                                 *)
Narrative(t) == Attr[bt[t].line].narrative

Allocated(t) == MapThenSumSet(LAMBDA v : bt[t].paid[v], Vouchers)

Unallocated(t) == Size(Amount(t)) - Allocated(t)

AllocatedBy(T, v) == MapThenSumSet(LAMBDA t : bt[t].paid[v], T)

(* What a voucher moves on all banks.                                      *)
Moved(v) == MapThenSumSet(LAMBDA b : Size(voucher[v].moves[b]), Banks)

RowsAt(b) == {t \in DOMAIN bt : Bank(t) = b}

(* What ERPNext will still allocate of a voucher on one bank.              *)
Open(b, v) == Size(voucher[v].moves[b]) - AllocatedBy(RowsAt(b), v)

Standing == {v \in DOMAIN voucher : voucher[v].docstatus = 1}

PaidOn(i) == MapThenSumSet(Moved, {v \in Standing : voucher[v].pays = i})

(* Mutant: forgets what other lines already allocated to the voucher.      *)
Remaining_Whole(b, v) == Size(voucher[v].moves[b])

(* candidates_for takes off what is allocated on any bank                  *)
(* (allocated_elsewhere): an entry of a transfer that one side has used up *)
(* is no candidate for the other.                                          *)
Remaining(b, v) == Size(voucher[v].moves[b]) - AllocatedBy(DOMAIN bt, v)

Candidates(t) ==
  {v \in Standing : /\ SameSign(voucher[v].moves[Bank(t)], Amount(t))
                    /\ Remaining(Bank(t), v) > 0}

(* reconcile of v with t, as far as ERPNext can allocate.                  *)
Reconcile(t, v) ==
  bt' = [bt EXCEPT ![t].paid[v] = Min({Open(Bank(t), v), Unallocated(t)})]

(* Mutant: a posted proposal does not count (the code once did this).      *)
Existing_OpenOnly(t) ==
  {p \in DOMAIN proposal : proposal[p].row = t /\ proposal[p].status = "proposed"}

(* existing_proposal: the proposals that speak for a line.                 *)
Existing(t) ==
  {p \in DOMAIN proposal : proposal[p].row = t /\ proposal[p].status # "rejected"}

OpenInvoices(t) ==
  {i \in Invoices : Existing(t) = {} /\ outstanding[i] > 0 /\ SameSign(Due[i], Amount(t))}

(* find_candidates: what a search for t can offer, open invoices among it. *)
Found(t) == Candidates(t) \cup OpenInvoices(t)

(* The fingerprint of a line: what its statement says of it, without its   *)
(* position and without its reference.                                     *)
Fingerprint(l) == Attr[l]

(* Mutant: a line is known by its position in the file alone, and the next *)
(* file has it at another one.                                             *)
Known_ByPosition(l) == FALSE

Known(l) == \E t \in DOMAIN bt : Fingerprint(bt[t].line) = Fingerprint(l)

-----------------------------------------------------------------------------
Init ==
  /\ bt = [t \in {} |-> None]
  /\ voucher = [v \in {} |-> None]
  /\ outstanding = [i \in Invoices |-> Size(Due[i])]
  /\ proposal = [p \in {} |-> None]
  /\ run = NoRun
  /\ search = [list |-> {}, shown |-> {}]

Idle == run.phase = "none"

(* The lines an import stores: one of each fingerprint it does not know.   *)
NewLines(S) ==
  {N \in SUBSET {l \in S : ~Known(l)} :
     /\ \A l, m \in N : Fingerprint(l) = Fingerprint(m) => l = m
     /\ \A l \in S : ~Known(l) => \E m \in N : Fingerprint(m) = Fingerprint(l)}

(* The new lines N as submitted Bank Transactions, under unused names.     *)
Stores(N) ==
  \E T \in kSubset(Cardinality(N), Rows \ DOMAIN bt) : \E row \in Bijection(N, T) :
    /\ bt' = [t \in DOMAIN bt \cup T |->
                IF t \in T THEN [line |-> CHOOSE l \in N : row[l] = t,
                               paid |-> [v \in Vouchers |-> 0]]
                ELSE bt[t]]
    /\ run' = [phase |-> "pairing", todo |-> T, used |-> {}, taken |-> {}]

(* import_statement stores the new lines and goes on to match.run; a file  *)
(* without new lines changes nothing.                                      *)
Import(S) ==
  /\ Idle
  /\ \E N \in NewLines(S) :
       \/ N # {} /\ Stores(N)
       \/ N = {} /\ UNCHANGED <<bt, run>>
  /\ UNCHANGED <<voucher, outstanding, proposal, search>>

(* run_import catches whatever goes wrong and the job commits what it did  *)
(* so far; the rest of the run does not take place.                        *)
RunBreaks ==
  /\ ~Idle /\ ~(run.phase = "lines" /\ run.todo = {})
  /\ run' = NoRun
  /\ UNCHANGED <<bt, voucher, outstanding, proposal, search>>

-----------------------------------------------------------------------------
(* match.run: own transfers first, over all lines with something left.     *)

IsPair(w, d) ==
  /\ {w, d} \cap run.used = {}
  /\ Unallocated(w) > 0 /\ Unallocated(d) > 0
  /\ Narrative(w) = "own" /\ Narrative(d) = "own"
  /\ Amount(w) < 0 /\ Amount(d) = -Amount(w)

(* The pair is of this run if it crosses two accounts and one side is new. *)
OfThisRun(w, d) == Bank(w) # Bank(d) /\ {w, d} \cap run.todo # {}

Paired(w, d) ==
  run' = [run EXCEPT !.used = @ \cup {w, d},
                     !.todo = IF OfThisRun(w, d) THEN @ \ {w, d} ELSE @]

RunProposesTransfer(w, d, p) ==
  /\ run.phase = "pairing"
  /\ IsPair(w, d)
  /\ OfThisRun(w, d) /\ Existing(w) = {}
  /\ p \notin DOMAIN proposal
  /\ proposal' = Put(proposal, p, [row |-> w, pair |-> d, status |-> "proposed"])
  /\ Paired(w, d)
  /\ UNCHANGED <<bt, voucher, outstanding, search>>

(* propose_transfer finds a proposal on the withdrawal, or the pair is     *)
(* none of this run's: both lines are used up all the same.                *)
RunPassesPair(w, d) ==
  /\ run.phase = "pairing"
  /\ IsPair(w, d)
  /\ OfThisRun(w, d) => Existing(w) # {}
  /\ Paired(w, d)
  /\ UNCHANGED <<bt, voucher, outstanding, proposal, search>>

RunGoesToLines ==
  /\ run.phase = "pairing"
  /\ \A w, d \in DOMAIN bt : ~IsPair(w, d)
  /\ run' = [run EXCEPT !.phase = "lines"]
  /\ UNCHANGED <<bt, voucher, outstanding, proposal, search>>

Done(t, taken) == run' = [run EXCEPT !.todo = @ \ {t}, !.taken = @ \cup taken]

OnLine(t) == run.phase = "lines" /\ t \in run.todo

(* Vouchers that have the line's amount left, give or take the tolerance;  *)
(* dates and names tell whether one of them is near enough and whether it  *)
(* is the only one.                                                        *)
Exact(t) == {v \in Candidates(t) : Size(Remaining(Bank(t), v) - Size(Amount(t))) <= Tolerance}

(* What the run still has in its list: a voucher serves one line of it,    *)
(* though less than the tolerance may be left of it.                       *)
Eligible(t) == Exact(t) \ run.taken

RunMatches(t, v) ==
  /\ OnLine(t)
  /\ Existing(t) = {}
  /\ v \in Eligible(t)
  /\ Reconcile(t, v)
  /\ Done(t, {v})
  /\ UNCHANGED <<voucher, outstanding, proposal, search>>

RunProposesFee(t, p) ==
  /\ OnLine(t)
  /\ Existing(t) = {}
  /\ Narrative(t) = "fee"
  /\ p \notin DOMAIN proposal
  /\ proposal' = Put(proposal, p, [row |-> t, pair |-> None, status |-> "proposed"])
  /\ Done(t, {})
  /\ UNCHANGED <<bt, voucher, outstanding, search>>

(* Proposed already, or left to a person: the line gets its card.          *)
RunLeaves(t) ==
  /\ OnLine(t)
  /\ Existing(t) # {} \/ Narrative(t) # "fee" \/ Cardinality(Eligible(t)) > 1
  /\ Done(t, {})
  /\ UNCHANGED <<bt, voucher, outstanding, proposal, search>>

RunEnds ==
  /\ run.phase = "lines" /\ run.todo = {}
  /\ run' = NoRun
  /\ UNCHANGED <<bt, voucher, outstanding, proposal, search>>

-----------------------------------------------------------------------------
(* Taps.  Every line that still has an open amount can be put on a card,   *)
(* and a card's buttons stay in the chat: any line can be tapped.          *)

NoList == search' = [search EXCEPT !.list = {}]

(* [find] and the words to search for: the chat state keeps the answer,    *)
(* and buttons with its positions go out.  Until the words come, and when  *)
(* nothing is found, the state holds no list (Forget).                     *)
Search(t) ==
  /\ Idle
  /\ t \in DOMAIN bt
  /\ Found(t) # {}
  /\ search' = [list |-> Candidates(t), shown |-> search.shown \cup {t}]
  /\ UNCHANGED <<bt, voucher, outstanding, proposal, run>>

(* Mutant: the line's open amount is written, whatever is open at v.       *)
Match_WholeLine(t, v) ==
  /\ Idle
  /\ t \in search.shown /\ v \in search.list
  /\ v \in Standing /\ bt[t].paid[v] = 0
  /\ Unallocated(t) > 0 /\ Open(Bank(t), v) > 0
  /\ bt' = [bt EXCEPT ![t].paid[v] = Unallocated(t)]
  /\ NoList
  /\ UNCHANGED <<voucher, outstanding, proposal, run>>

(* match_chosen: the line is the button's, the voucher is at the button's  *)
(* position in the list of the last search, for whichever line that was.   *)
(* What has changed since the search is for ERPNext to refuse.             *)
Match(t, v) ==
  /\ Idle
  /\ t \in search.shown /\ v \in search.list
  /\ v \in Standing /\ bt[t].paid[v] = 0
  /\ Unallocated(t) > 0 /\ Open(Bank(t), v) > 0
  /\ Reconcile(t, v)
  /\ NoList
  /\ UNCHANGED <<voucher, outstanding, proposal, run>>

(* Another [find], a refused match, an invoice chosen, [later]: the chat   *)
(* state is replaced or cleared.                                           *)
Forget ==
  /\ Idle
  /\ search.list # {}
  /\ NoList
  /\ UNCHANGED <<bt, voucher, outstanding, proposal, run>>

PaymentOf(t, i) ==
  [moves |-> [b \in Banks |->
     IF b # Bank(t) THEN 0 ELSE IF Amount(t) < 0 THEN -Unallocated(t) ELSE Unallocated(t)],
   pays |-> i, proposal |-> None, docstatus |-> 1]

(* What settle checks before it writes; a line over the outstanding amount *)
(* is refused.  Roles, currencies, closed months and reversed invoices are *)
(* further refusals: such a tap is a Forget.                               *)
MaySettle(t, i) ==
  /\ Idle
  /\ t \in DOMAIN bt /\ i \in OpenInvoices(t)
  /\ 0 < Unallocated(t) /\ Unallocated(t) <= outstanding[i]

(* settle: insert, submit and reconcile under one savepoint.  A failure of *)
(* any of them rolls back to it: of the tap only the cleared chat state    *)
(* stays (Forget).                                                         *)
Settle(t, i, v) ==
  /\ MaySettle(t, i)
  /\ v \notin DOMAIN voucher
  /\ voucher' = Put(voucher, v, PaymentOf(t, i))
  /\ outstanding' = [outstanding EXCEPT ![i] = @ - Unallocated(t)]
  /\ bt' = [bt EXCEPT ![t].paid[v] = Unallocated(t)]
  /\ NoList
  /\ UNCHANGED <<proposal, run>>

(* propose_expense and propose_for_line: only a proposal stands in the way.*)
ProposeExpense(t, p) ==
  /\ Idle
  /\ t \in DOMAIN bt
  /\ Existing(t) = {}
  /\ p \notin DOMAIN proposal
  /\ proposal' = Put(proposal, p, [row |-> t, pair |-> None, status |-> "proposed"])
  /\ UNCHANGED <<bt, voucher, outstanding, run, search>>

(* post_proposal: the entry moves the bank by the line's whole amount, and *)
(* the other bank too for a transfer.  No line is reconciled with it.      *)
ApproveProposal(p, v) ==
  LET t == proposal[p].row
      d == proposal[p].pair
  IN /\ Idle
     /\ proposal[p].status = "proposed"
     /\ v \notin DOMAIN voucher
     /\ voucher' = Put(voucher, v,
          [moves |-> [b \in Banks |-> IF b = Bank(t) THEN Amount(t)
                                      ELSE IF d # None /\ b = Bank(d) THEN -Amount(t) ELSE 0],
           pays |-> None, proposal |-> p, docstatus |-> 1])
     /\ proposal' = [proposal EXCEPT ![p].status = "posted"]
     /\ UNCHANGED <<bt, outstanding, run, search>>

RejectProposal(p) ==
  /\ Idle
  /\ proposal[p].status = "proposed"
  /\ proposal' = [proposal EXCEPT ![p].status = "rejected"]
  /\ UNCHANGED <<bt, voucher, outstanding, run, search>>

-----------------------------------------------------------------------------
(* Elsewhere in the books.                                                 *)

PostVoucher(v, moves) ==
  /\ Idle
  /\ v \notin DOMAIN voucher
  /\ voucher' = Put(voucher, v,
       [moves |-> moves, pays |-> None, proposal |-> None, docstatus |-> 1])
  /\ UNCHANGED <<bt, outstanding, proposal, run, search>>

Release(v) == [t \in DOMAIN bt |-> [bt[t] EXCEPT !.paid[v] = 0]]

(* A settlement is undone at the desk: ERPNext reopens the invoice and     *)
(* takes the payment off the line (remove_from_bank_transaction).          *)
CancelPayment(v) ==
  /\ Idle
  /\ voucher[v].docstatus = 1 /\ voucher[v].pays # None
  /\ voucher' = [voucher EXCEPT ![v].docstatus = 2]
  /\ outstanding' = [outstanding EXCEPT ![voucher[v].pays] = @ + Moved(v)]
  /\ bt' = Release(v)
  /\ UNCHANGED <<proposal, run, search>>

-----------------------------------------------------------------------------
RunStep ==
  \/ \E w, d \in DOMAIN bt :
       RunPassesPair(w, d) \/ (\E p \in Proposals : RunProposesTransfer(w, d, p))
  \/ RunGoesToLines
  \/ \E t \in DOMAIN bt :
       \/ \E v \in Vouchers : v \in DOMAIN voucher /\ RunMatches(t, v)
       \/ \E p \in Proposals : RunProposesFee(t, p)
       \/ RunLeaves(t)
  \/ RunEnds
  \/ RunBreaks

Tap ==
  \/ Forget \/ \E t \in Rows : Search(t)
  \/ \E t \in Rows, v \in Vouchers :
       \/ Match(t, v)
       \/ \E i \in Invoices : Settle(t, i, v)
  \/ \E t \in Rows, p \in Proposals : ProposeExpense(t, p)
  \/ \E p \in DOMAIN proposal : RejectProposal(p) \/ (\E v \in Vouchers : ApproveProposal(p, v))

Desk ==
  \/ \E v \in Vouchers, moves \in DeskMoves : PostVoucher(v, moves)
  \/ \E v \in DOMAIN voucher : CancelPayment(v)

Next == (\E S \in Statements : Import(S)) \/ RunStep \/ Tap \/ Desk

Spec == Init /\ [][Next]_vars

-----------------------------------------------------------------------------
TypeOK ==
  /\ DOMAIN bt \subseteq Rows /\ \A t \in DOMAIN bt : bt[t] \in BtRow
  /\ DOMAIN voucher \subseteq Vouchers /\ \A v \in DOMAIN voucher : voucher[v] \in VoucherRow
  /\ outstanding \in [Invoices -> Nat]
  /\ DOMAIN proposal \subseteq Proposals /\ \A p \in DOMAIN proposal : proposal[p] \in ProposalRow
  /\ run \in [phase : {"none", "pairing", "lines"}, todo : SUBSET DOMAIN bt,
              used : SUBSET DOMAIN bt, taken : SUBSET DOMAIN voucher]
  /\ search \in [list : SUBSET DOMAIN voucher, shown : SUBSET DOMAIN bt]

(* Nothing is allocated twice, on either side: no line beyond its amount,  *)
(* no voucher beyond its movement on that bank, and none of it to a        *)
(* cancelled one, whatever order of partial matches from stale lists,      *)
(* settlements and cancellations (reconcile, settle).                      *)
NothingAllocatedTwice ==
  /\ \A t \in DOMAIN bt :
       /\ Unallocated(t) >= 0
       /\ \A v \in Vouchers : bt[t].paid[v] > 0 => v \in Standing
  /\ \A b \in Banks : \A v \in DOMAIN voucher :
       AllocatedBy(RowsAt(b), v) <= Size(voucher[v].moves[b])

(* An invoice owes what it was due less its standing payments, which never *)
(* exceed it: lines that pay in parts, cancelled payments and second tries *)
(* included (settle's over-allocation refusal).                            *)
InvoicesAddUp ==
  \A i \in Invoices :
    outstanding[i] = Size(Due[i]) - PaidOn(i)

(* A settlement is whole or nothing: a standing payment that settle made   *)
(* is allocated to one line to the last tugrik (settle's savepoint).       *)
SettlementsAreWhole ==
  \A v \in Standing : voucher[v].pays # None =>
    \E t \in DOMAIN bt :
      /\ bt[t].paid[v] = Size(voucher[v].moves[Bank(t)]) /\ bt[t].paid[v] > 0
      /\ \A u \in DOMAIN bt : bt[u].paid[v] > 0 => u = t

(* DECISIONS.md BANK-01: "a match the core accepts can always be allocated".*)
(* A candidate offered for a line has an amount open on the line's bank,   *)
(* and an exact one leaves at most the tolerance of the line unexplained   *)
(* (candidates_for; core/matching.py accepts what is within 1 togrog).     *)
CandidatesCanBeAllocated ==
  \A t \in DOMAIN bt :
    /\ \A v \in Candidates(t) : Open(Bank(t), v) > 0
    /\ \A v \in Exact(t) : Open(Bank(t), v) >= Size(Amount(t)) - Tolerance

(* The four together: allocations, invoices and settlements add up, and    *)
(* what is offered can be allocated.                                       *)
AllocationsFit ==
  /\ NothingAllocatedTwice
  /\ InvoicesAddUp
  /\ SettlementsAreWhole
  /\ CandidatesCanBeAllocated

(* One live proposal speaks for a line, after rejections and posted ones:  *)
(* two would each book the line (existing_proposal).                       *)
OneLiveProposalPerLine ==
  \A p, q \in DOMAIN proposal :
    /\ proposal[p].row = proposal[q].row
    /\ proposal[p].status # "rejected" /\ proposal[q].status # "rejected"
    => p = q

(* Overlapping statements bring a line into the books once                 *)
(* (create_bank_transactions).                                             *)
NoLineTwice == \A t, u \in DOMAIN bt : bt[t].line = bt[u].line => t = u

(* A line of the bank is in the books once and explained once.             *)
OneRowOneProposal == NoLineTwice /\ OneLiveProposalPerLine

(* match.py: "one statement line is one credit to the bank".  What is      *)
(* booked for a line, by its posted proposal or by other vouchers that are *)
(* allocated to it, is no more than its amount.                            *)
BookedFor(t) ==
  MapThenSumSet(LAMBDA v :
      IF voucher[v].proposal \in Existing(t) THEN Size(Amount(t)) ELSE bt[t].paid[v],
    Standing)

LineIsOneCredit == \A t \in DOMAIN bt : BookedFor(t) <= Size(Amount(t))

(* DECISIONS.md BANK-01: "Direction is enforced: a withdrawal only sees    *)
(* outflow vouchers."  A voucher explains only lines of its own direction. *)
DirectionIsEnforced ==
  \A t \in DOMAIN bt, v \in Standing :
    bt[t].paid[v] > 0 => SameSign(voucher[v].moves[Bank(t)], Amount(t))
=============================================================================
