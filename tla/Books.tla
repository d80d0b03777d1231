-------------------------------- MODULE Books --------------------------------
(***************************************************************************)
(* The books of one company: receipts become proposals, a human tap posts  *)
(* a proposal as an ERPNext voucher, mistakes are undone by a reversal and *)
(* months are locked.  Every handler runs here as one step, as if the jobs *)
(* of the queue ran one after the other; PostingJobs takes the steps apart.*)
(*                                                                         *)
(* A row exists when its name is in the DOMAIN of its table.  The name     *)
(* series never hands a name out twice, so a new name is any unused one.   *)
(***************************************************************************)
EXTENDS Naturals

CONSTANTS
  Documents,      \* Nyabo Document names
  Proposals,      \* Nyabo Proposal names
  Vouchers,       \* Journal Entry and Purchase Invoice names
  NoVoucher,      \* an empty link to a voucher
  Accountants,    \* linked users who are the company's accountant
  Owners,         \* linked users who only own the company
  Rules,          \* posting patterns
  Contents,       \* versions of what a posting pattern says
  Accounts,       \* leaf accounts of the chart
  OwnerAccounts,  \* auto_approve_accounts of an owner_simple company
  OverCap,        \* documents whose total is over auto_approve_max_amount
  LastMonth       \* bound on the calendar

ASSUME BooksAssumption ==
  /\ NoVoucher \notin Vouchers
  /\ Accountants \cap Owners = {}
  /\ OwnerAccounts \subseteq Accounts
  /\ OverCap \subseteq Documents
  /\ LastMonth \in Nat \ {0}

VARIABLES
  document,   \* Nyabo Document rows
  proposal,   \* Nyabo Proposal rows
  voucher,    \* the accounting documents Nyabo inserted
  period,     \* the month's Accounting Period: none, enabled or disabled
  rule,       \* Nyabo Posting Pattern rows
  accepted,   \* Nyabo Rule Acceptance: which content of a rule was accepted
  today       \* the site's business date, as far as month ends tell it

vars == <<document, proposal, voucher, period, rule, accepted, today>>

Months == 1 .. LastMonth
Users  == Accountants \cup Owners

DocumentRow ==
  [status : {"received", "proposed", "posted", "rejected"},
   posted_name : Vouchers \cup {NoVoucher}]

ProposalRow ==
  [status : {"proposed", "posted", "rejected"}, kind : {"receipt", "correction"},
   document : Documents, month : Months, rule : Rules, account : Accounts,
   needs_accountant : BOOLEAN, posted_name : Vouchers \cup {NoVoucher}]

VoucherRow ==
  [docstatus : {0, 1}, proposal : Proposals, month : Months, account : Accounts,
   corrects : Vouchers \cup {NoVoucher}, approved_by : Users]

RuleRow == [verified : {0, 1}, content : Contents]

(* Month ends are all the handlers ask of the calendar.                    *)
Day == [month : Months, day : {"inside", "last"}]

Put(table, name, row) ==
  [x \in DOMAIN table \cup {name} |-> IF x = name THEN row ELSE table[x]]

Empty == [x \in {} |-> NoVoucher]

-----------------------------------------------------------------------------
(* Questions the handlers ask of the tables.                               *)

Undecided(p) == proposal[p].status = "proposed"

Submitted == {v \in DOMAIN voucher : voucher[v].docstatus = 1}

IsReversal(v) == voucher[v].corrects # NoVoucher

AlreadyReversed(v) == \E w \in Submitted : voucher[w].corrects = v

(* require_verified, of each rule a posting names: the site's flag, or an  *)
(* acceptance of exactly this content.                                     *)
Cleared(r) == rule[r].verified = 1 \/ <<r, rule[r].content>> \in accepted

(* Mutant: the filter on disabled is the wrong way round.                  *)
Closed_Disabled(m) == period[m] = "disabled"

(* closed_period_for and is_locked both read the enabled periods only.     *)
Closed(m) == period[m] = "enabled"

Ended(m) == m < today.month \/ (m = today.month /\ today.day = "last")

OwnerPolicyAllows(p) ==
  /\ proposal[p].document \notin OverCap
  /\ proposal[p].account \in OwnerAccounts

(* Mutant: the role gate without the company's policy.                     *)
CanApprove_NoPolicy(u, p) ==
  u \in Accountants \/ (u \in Owners /\ ~proposal[p].needs_accountant)

CanApprove(u, p) ==
  \/ u \in Accountants
  \/ u \in Owners /\ ~proposal[p].needs_accountant /\ OwnerPolicyAllows(p)

(* Mutant: looks at the proposals still open instead of the posted ones.   *)
UnverifiedProposals_Open(m) ==
  {p \in DOMAIN proposal : Undecided(p) /\ proposal[p].month = m /\ ~Cleared(proposal[p].rule)}

UnverifiedProposals(m) ==
  {p \in DOMAIN proposal : /\ proposal[p].status = "posted"
                           /\ proposal[p].month = m
                           /\ ~Cleared(proposal[p].rule)}

(* The reversal keeps the original's date while that month takes postings. *)
ReversalMonth(v) ==
  IF Closed(voucher[v].month) THEN today.month ELSE voucher[v].month

SourceOf(v) == proposal[voucher[v].proposal].document

(* A voucher that still stands in the books.                               *)
Live(v) == v \in Submitted /\ ~IsReversal(v) /\ ~AlreadyReversed(v)

-----------------------------------------------------------------------------
Init ==
  /\ document = Empty
  /\ proposal = Empty
  /\ voucher = Empty
  /\ period = [m \in Months |-> "none"]
  /\ rule \in [Rules -> RuleRow]
  /\ accepted = {}
  /\ today = [month |-> 1, day |-> "inside"]

(* receipt._intake: the file is saved and its job enqueued.                *)
Receive(d) ==
  /\ d \notin DOMAIN document
  /\ document' = Put(document, d, [status |-> "received", posted_name |-> NoVoucher])
  /\ UNCHANGED <<proposal, voucher, period, rule, accepted, today>>

(* Mutant: the job does not ask whether the document was worked on already.*)
Propose_Again(d, p, m, r, a, doubts) ==
  /\ d \in DOMAIN document
  /\ p \notin DOMAIN proposal
  /\ proposal' = Put(proposal, p,
       [status |-> "proposed", kind |-> "receipt", document |-> d, month |-> m,
        rule |-> r, account |-> a, needs_accountant |-> doubts \/ ~Cleared(r),
        posted_name |-> NoVoucher])
  /\ document' = [document EXCEPT ![d].status = "proposed"]
  /\ UNCHANGED <<voucher, period, rule, accepted, today>>

(* pipeline.process_receipt, when it succeeds.  What the model read, whom  *)
(* it was bought from and which rule applies are inputs; doubts raise      *)
(* needs_accountant, and an uncleared rule always does.                    *)
Propose(d, p, m, r, a, doubts) ==
  /\ d \in DOMAIN document /\ document[d].status = "received"
  /\ p \notin DOMAIN proposal
  /\ proposal' = Put(proposal, p,
       [status |-> "proposed", kind |-> "receipt", document |-> d, month |-> m,
        rule |-> r, account |-> a, needs_accountant |-> doubts \/ ~Cleared(r),
        posted_name |-> NoVoucher])
  /\ document' = [document EXCEPT ![d].status = "proposed"]
  /\ UNCHANGED <<voucher, period, rule, accepted, today>>

(* Mutant: a tap on an old card posts a decided proposal again.            *)
MayPost_Decided(u, p) ==
  CanApprove(u, p) /\ Cleared(proposal[p].rule) /\ ~Closed(proposal[p].month)

(* Everything approve and post_proposal check before insert().             *)
MayPost(u, p) ==
  /\ Undecided(p)
  /\ CanApprove(u, p)
  /\ Cleared(proposal[p].rule)
  /\ ~Closed(proposal[p].month)

EntryOf(u, p, docstatus) ==
  [docstatus |-> docstatus, proposal |-> p, month |-> proposal[p].month,
   account |-> proposal[p].account, corrects |-> NoVoucher, approved_by |-> u]

Approve(u, p, v) ==
  /\ p \in DOMAIN proposal
  /\ MayPost(u, p)
  /\ v \notin DOMAIN voucher
  /\ voucher' = Put(voucher, v, EntryOf(u, p, 1))
  /\ proposal' = [proposal EXCEPT ![p].status = "posted", ![p].posted_name = v]
  /\ document' = [document EXCEPT ![proposal[p].document] =
                    [status |-> "posted", posted_name |-> v]]
  /\ UNCHANGED <<period, rule, accepted, today>>

(* insert() succeeds and submit() refuses: the router swallows the error,  *)
(* the job commits, and a draft nobody points at stays behind.             *)
ApproveLeavesDraft(u, p, v) ==
  /\ p \in DOMAIN proposal
  /\ MayPost(u, p)
  /\ v \notin DOMAIN voucher
  /\ voucher' = Put(voucher, v, EntryOf(u, p, 0))
  /\ UNCHANGED <<document, proposal, period, rule, accepted, today>>

(* Mutant: the account search changes a proposal decided meanwhile.        *)
ChangeAccount_Decided(u, p, a) ==
  /\ p \in DOMAIN proposal
  /\ u \in Users
  /\ a # proposal[p].account
  /\ proposal' = [proposal EXCEPT ![p].account = a]
  /\ UNCHANGED <<document, voucher, period, rule, accepted, today>>

ChangeAccount(u, p, a) ==
  /\ p \in DOMAIN proposal
  /\ Undecided(p)
  /\ u \in Users
  /\ a # proposal[p].account
  /\ proposal' = [proposal EXCEPT ![p].account = a]
  /\ UNCHANGED <<document, voucher, period, rule, accepted, today>>

(* Mutant: the typed reason rejects a proposal posted meanwhile.           *)
Reject_Decided(p) ==
  /\ p \in DOMAIN proposal
  /\ proposal' = [proposal EXCEPT ![p].status = "rejected"]
  /\ document' = [document EXCEPT ![proposal[p].document].status = "rejected"]
  /\ UNCHANGED <<voucher, period, rule, accepted, today>>

(* Any user linked to the company may reject.                              *)
Reject(p) ==
  /\ p \in DOMAIN proposal
  /\ Undecided(p)
  /\ proposal' = [proposal EXCEPT ![p].status = "rejected"]
  /\ document' = [document EXCEPT ![proposal[p].document].status = "rejected"]
  /\ UNCHANGED <<voucher, period, rule, accepted, today>>

-----------------------------------------------------------------------------
(* Corrections are reversals.                                              *)

(* Mutant: a reversal may be reversed.                                     *)
MayReverse_Chain(u, v) ==
  u \in Accountants /\ v \in Submitted /\ ~AlreadyReversed(v) /\ ~Closed(ReversalMonth(v))

(* What correct.do_reverse and reversal.reverse check, and ERPNext's own   *)
(* refusal of a posting into an enabled period.                            *)
MayReverse(u, v) ==
  /\ u \in Accountants
  /\ v \in Submitted
  /\ ~IsReversal(v)
  /\ ~AlreadyReversed(v)
  /\ ~Closed(ReversalMonth(v))

ReversalOf(u, v, docstatus) ==
  [docstatus |-> docstatus, proposal |-> voucher[v].proposal, month |-> ReversalMonth(v),
   account |-> voucher[v].account, corrects |-> v, approved_by |-> u]

(* Reason "dup": the voucher should not have been there at all.            *)
ReverseDuplicate(u, v, w) ==
  /\ MayReverse(u, v)
  /\ w \notin DOMAIN voucher
  /\ voucher' = Put(voucher, w, ReversalOf(u, v, 1))
  /\ UNCHANGED <<document, proposal, period, rule, accepted, today>>

(* Any other reason also makes the proposal that carries the right values, *)
(* dated as the original was and always left to the accountant.            *)
ReverseAndCorrect(u, v, w, q) ==
  LET source == proposal[voucher[v].proposal] IN
  /\ MayReverse(u, v)
  /\ w \notin DOMAIN voucher
  /\ q \notin DOMAIN proposal
  /\ voucher' = Put(voucher, w, ReversalOf(u, v, 1))
  /\ proposal' = Put(proposal, q,
       [source EXCEPT !.status = "proposed", !.kind = "correction",
                      !.needs_accountant = TRUE, !.posted_name = NoVoucher])
  /\ UNCHANGED <<document, period, rule, accepted, today>>

ReverseLeavesDraft(u, v, w) ==
  /\ MayReverse(u, v)
  /\ w \notin DOMAIN voucher
  /\ voucher' = Put(voucher, w, ReversalOf(u, v, 0))
  /\ UNCHANGED <<document, proposal, period, rule, accepted, today>>

-----------------------------------------------------------------------------
(* Month end.                                                              *)

(* Mutant: any month may be locked, also one that has not come yet.        *)
LockChecks_AnyMonth(m) == ~Closed(m) /\ UnverifiedProposals(m) = {}

(* The refusals compliance.period.lock names.                              *)
LockChecks(m) ==
  /\ Ended(m)
  /\ ~Closed(m)
  /\ UnverifiedProposals(m) = {}

(* The Accounting Period is named after month and company, so a month that *)
(* was ever locked still holds the name: insert() refuses a second row.    *)
PeriodNameIsFree(m) == period[m] = "none"

Lock(m) ==
  /\ LockChecks(m)
  /\ PeriodNameIsFree(m)
  /\ period' = [period EXCEPT ![m] = "enabled"]
  /\ UNCHANGED <<document, proposal, voucher, rule, accepted, today>>

Reopen(m) ==
  /\ Closed(m)
  /\ period' = [period EXCEPT ![m] = "disabled"]
  /\ UNCHANGED <<document, proposal, voucher, rule, accepted, today>>

Tick ==
  /\ \/ today.day = "inside" /\ today' = [today EXCEPT !.day = "last"]
     \/ /\ today.day = "last" /\ today.month < LastMonth
        /\ today' = [month |-> today.month + 1, day |-> "inside"]
  /\ UNCHANGED <<document, proposal, voucher, period, rule, accepted>>

-----------------------------------------------------------------------------
(* Rules are data: verified by the site, accepted by the accountant, and   *)
(* rewritten by a deploy or at the desk.                                   *)

VerifyRule(r) ==
  /\ rule[r].verified = 0
  /\ rule' = [rule EXCEPT ![r].verified = 1]
  /\ UNCHANGED <<document, proposal, voucher, period, accepted, today>>

AcceptRule(r) ==
  /\ <<r, rule[r].content>> \notin accepted
  /\ accepted' = accepted \cup {<<r, rule[r].content>>}
  /\ UNCHANGED <<document, proposal, voucher, period, rule, today>>

(* The seed's upsert, or a form: the row reads otherwise from now on.      *)
RewriteRule(r, row) ==
  /\ row # rule[r]
  /\ rule' = [rule EXCEPT ![r] = row]
  /\ UNCHANGED <<document, proposal, voucher, period, accepted, today>>

-----------------------------------------------------------------------------
Intake ==
  \E d \in Documents :
    \/ Receive(d)
    \/ \E p \in Proposals, m \in Months, r \in Rules, a \in Accounts, doubts \in BOOLEAN :
         Propose(d, p, m, r, a, doubts)

Decide ==
  \E p \in Proposals :
    \/ \E u \in Users, v \in Vouchers : Approve(u, p, v) \/ ApproveLeavesDraft(u, p, v)
    \/ \E u \in Users, a \in Accounts : ChangeAccount(u, p, a)
    \/ Reject(p)

Correct ==
  \E u \in Users, v, w \in Vouchers :
    \/ ReverseDuplicate(u, v, w)
    \/ \E q \in Proposals : ReverseAndCorrect(u, v, w, q)
    \/ ReverseLeavesDraft(u, v, w)

Close == (\E m \in Months : Lock(m) \/ Reopen(m)) \/ Tick

Govern ==
  \E r \in Rules :
    VerifyRule(r) \/ AcceptRule(r) \/ (\E row \in RuleRow : RewriteRule(r, row))

Next == Intake \/ Decide \/ Correct \/ Close \/ Govern

Spec == Init /\ [][Next]_vars

-----------------------------------------------------------------------------
TypeOK ==
  /\ DOMAIN document \subseteq Documents
  /\ \A d \in DOMAIN document : document[d] \in DocumentRow
  /\ DOMAIN proposal \subseteq Proposals
  /\ \A p \in DOMAIN proposal : proposal[p] \in ProposalRow
  /\ DOMAIN voucher \subseteq Vouchers
  /\ \A v \in DOMAIN voucher : voucher[v] \in VoucherRow
  /\ period \in [Months -> {"none", "enabled", "disabled"}]
  /\ rule \in [Rules -> RuleRow]
  /\ accepted \subseteq Rules \X Contents
  /\ today \in Day

(* One receipt is in the books once: whatever sequence of approvals,       *)
(* reversals, corrections and abandoned drafts led here, no two vouchers   *)
(* that still stand rest on the same source document (post_proposal,       *)
(* reversal.reverse, make_correction_proposal).                            *)
OneLiveEntryPerDocument ==
  \A v, w \in DOMAIN voucher : Live(v) /\ Live(w) /\ SourceOf(v) = SourceOf(w) => v = w

(* Proposal and ledger tell the same story: a posted proposal names a      *)
(* submitted voucher with its month and account, and every submitted       *)
(* voucher that is not a reversal is the one its proposal names.           *)
ProposalsMirrorBooks ==
  /\ \A p \in DOMAIN proposal : proposal[p].status = "posted" =>
       /\ proposal[p].posted_name \in Submitted
       /\ voucher[proposal[p].posted_name].month = proposal[p].month
       /\ voucher[proposal[p].posted_name].account = proposal[p].account
  /\ \A v \in Submitted : ~IsReversal(v) =>
       /\ proposal[voucher[v].proposal].status = "posted"
       /\ proposal[voucher[v].proposal].posted_name = v

(* The source document never contradicts the ledger: while an entry stands *)
(* on it, its row says posted and names that entry, even after earlier     *)
(* entries were reversed or a correction was rejected (post_proposal and   *)
(* reject both write the row).                                             *)
DocumentTellsTheBooks ==
  \A v \in DOMAIN voucher : Live(v) =>
    document[SourceOf(v)] = [status |-> "posted", posted_name |-> v]

(* The rows tell the books: neither a proposal nor a document contradicts   *)
(* the vouchers.                                                           *)
RowsTellTheBooks == ProposalsMirrorBooks /\ DocumentTellsTheBooks

(* The correction chain is one level deep and balances: a submitted        *)
(* reversal undoes a submitted original on the same account, no original   *)
(* has two of them, and it is never dated before what it undoes although   *)
(* it may be dated "today" (reversal.reverse).                             *)
ReversalsBalance ==
  \A w \in Submitted : IsReversal(w) =>
    LET v == voucher[w].corrects IN
    /\ v \in Submitted /\ ~IsReversal(v)
    /\ voucher[w].account = voucher[v].account
    /\ voucher[v].month <= voucher[w].month
    /\ \A x \in Submitted : voucher[x].corrects = v => x = w

(* What an owner approved was the owner's to approve, and still reads so:  *)
(* a simple receipt under the cap, booked to an allowed account, although  *)
(* the account can be changed until the tap (owner_policy_allows).         *)
OwnersPostOnlySimpleEntries ==
  \A v \in Submitted : voucher[v].approved_by \in Owners =>
    /\ ~IsReversal(v)
    /\ voucher[v].account \in OwnerAccounts
    /\ ~proposal[voucher[v].proposal].needs_accountant
    /\ SourceOf(v) \notin OverCap

(* At most one decision is pending on a document, and none while an entry  *)
(* of it stands: otherwise two cards could each book the same receipt.     *)
OnePendingDecision ==
  \A p \in DOMAIN proposal : Undecided(p) =>
    /\ \A q \in DOMAIN proposal :
         Undecided(q) /\ proposal[q].document = proposal[p].document => p = q
    /\ \A v \in DOMAIN voucher : Live(v) => SourceOf(v) # proposal[p].document

(* One receipt, one decision: what stands in the books and what is pending *)
(* on a document are together at most one thing of each kind.              *)
OneEntryOneDecision == OneLiveEntryPerDocument /\ OnePendingDecision

(* A decision is final: no handler changes a posted or rejected proposal,  *)
(* not even its account (POSTABLE_STATUSES, approve._decided).             *)
DecisionsAreFinal ==
  [][\A p \in DOMAIN proposal : ~Undecided(p) => proposal'[p] = proposal[p]]_vars

(* A locked month is sealed: as long as its period stays enabled, the      *)
(* submitted vouchers dated in it are the same, reversals included.        *)
LockedMonthIsSealed ==
  [][\A m \in Months : period[m] = "enabled" /\ period'[m] = "enabled" =>
       {v \in Submitted : voucher[v].month = m} = {v \in Submitted : voucher[v].month = m}']_vars

(* Locking freezes no voucher whose rule is not cleared at that moment;    *)
(* lock asks the proposals, the promise is about the vouchers.             *)
LockFreezesClearedEntriesOnly ==
  [][\A m \in Months : period[m] # "enabled" /\ period'[m] = "enabled" =>
       \A v \in Submitted : voucher[v].month = m /\ ~IsReversal(v) =>
         Cleared(proposal[voucher[v].proposal].rule)]_vars

(* lock's docstring names three refusals: month not over, month already    *)
(* locked, unverified rule in the month.  Nothing else should refuse.      *)
LockRefusesOnlyWhatItSays ==
  \A m \in Months : LockChecks(m) => PeriodNameIsFree(m)

(* The books as an append-only ledger: its journal is the submitted        *)
(* vouchers, its sealed months are those with an enabled period.           *)
Journal ==
  [v \in Submitted |->
     [source |-> SourceOf(v), month |-> voucher[v].month, undoes |-> voucher[v].corrects]]

Sealed == {m \in Months : period[m] = "enabled"}

L == INSTANCE Ledger WITH
       Sources <- Documents, Entries <- Vouchers, NoEntry <- NoVoucher,
       journal <- Journal, sealed <- Sealed

(* Every step of the handlers is a booking, a counter-entry, a seal, an    *)
(* unseal or nothing at all to the abstract ledger.                        *)
ImplementsLedger == L!Spec
=============================================================================
