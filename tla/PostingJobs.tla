----------------------------- MODULE PostingJobs -----------------------------
(***************************************************************************)
(* The handlers of Books as the jobs they are: one database transaction    *)
(* each, run by the workers of the queue at the same time.  A job reads    *)
(* from the snapshot the database took when it began (REPEATABLE READ) and *)
(* writes the columns it names (db_set); a row is locked from its write to *)
(* the commit and all jobs write the proposal before the document, so the  *)
(* writes of a job take effect together, in the order of the commits.      *)
(*                                                                         *)
(* What a handler asks is taken from Books, of the snapshot; what it       *)
(* writes goes into the tables as they are by then.  Rules are verified    *)
(* here and stay so, and corrections end with the reversal.                *)
(***************************************************************************)
EXTENDS Naturals, FiniteSets

CONSTANTS
  FirstCommitterWins, \* the databases to look at: does it refuse to write a
                      \* row that changed since the snapshot?  The repository
                      \* does not say, so both answers are legitimate.
  Workers,        \* processes that take jobs off the queue
  Sites,          \* how many of them a site may run
  Idle,           \* a worker between jobs
  Documents, Proposals, Vouchers, NoVoucher, Accountants, Owners,
  Rules, Contents, Accounts, OwnerAccounts, OverCap, LastMonth

VARIABLES
  document, proposal, voucher, period,  \* the committed tables the jobs write
  rule, accepted,                       \* the rules, which no job here writes
  today,                                \* the business date
  firstWins,                            \* the database's answer to the above
  crew,                                 \* the number of workers of this site
  job                                   \* what each worker is doing

rules  == <<rule, accepted, firstWins, crew>>
tables == <<document, proposal, voucher, period>>
vars   == <<document, proposal, voucher, period, rule, accepted, today, firstWins, crew, job>>

(* The committed tables, as Books sees them.                               *)
B == INSTANCE Books

ASSUME JobsAssumption ==
  /\ B!BooksAssumption
  /\ FirstCommitterWins \subseteq BOOLEAN
  /\ IsFiniteSet(Workers)
  /\ Sites \subseteq 1..Cardinality(Workers)

(* The tables a job looks at: those of its snapshot.                       *)
S(w) == INSTANCE Books WITH
          document <- job[w].seen.document, proposal <- job[w].seen.proposal,
          voucher <- job[w].seen.voucher, period <- job[w].seen.period

Snapshot ==
  [document |-> document, proposal |-> proposal, voucher |-> voucher, period |-> period]

(* The taps that reach the queue and race.                                 *)
Tasks ==
       [op : {"approve"}, user : B!Users, proposal : Proposals]
  \cup [op : {"change"}, user : B!Users, proposal : Proposals, account : Accounts]
  \cup [op : {"reject"}, proposal : Proposals]
  \cup [op : {"reverse"}, user : Accountants, voucher : Vouchers]
  \cup [op : {"lock", "reopen"}, month : B!Months]

Running(w, op) == job[w] # Idle /\ job[w].task.op = op

Finish(w) == job' = [job EXCEPT ![w] = Idle]

(* Mutant: a database that lets the later writer win after all.            *)
Writable_LastWins(now, seen) == TRUE

(* The row a job is about to write, as it is and as the job saw it.        *)
Writable(now, seen) == firstWins => now = seen

WritableProposal(w, p) ==
  LET d == proposal[p].document IN
  /\ Writable(proposal[p], job[w].seen.proposal[p])
  /\ Writable(document[d], job[w].seen.document[d])

-----------------------------------------------------------------------------
Init ==
  /\ B!Init
  /\ \A r \in Rules : B!Cleared(r)
  /\ firstWins \in FirstCommitterWins
  /\ crew \in Sites
  /\ job = [w \in Workers |-> Idle]

(* A tap names the row its button was made for.                            *)
OnACard(task) ==
  /\ task.op \in {"approve", "change", "reject"} => task.proposal \in DOMAIN proposal
  /\ task.op = "reverse" => task.voucher \in DOMAIN voucher

(* A worker takes a job; its first query opens the snapshot.               *)
Start(w, task) ==
  /\ job[w] = Idle
  /\ Cardinality({x \in Workers : job[x] # Idle}) < crew
  /\ OnACard(task)
  /\ job' = [job EXCEPT ![w] = [task |-> task, seen |-> Snapshot]]
  /\ UNCHANGED <<tables, today, rules>>

(* A receipt arrives and its pipeline job makes the card.  Nobody can tap  *)
(* before the card is there, so these two jobs race with none of the taps. *)
ReceiveAndPropose(d, p, m, r, a, doubts) ==
  /\ B!Receive(d) \/ B!Propose(d, p, m, r, a, doubts)
  /\ UNCHANGED <<firstWins, crew, job>>

(* Mutant: the job does not ask whether the proposal was decided.          *)
ApproveJob_Unasked(w, v) ==
  LET p == job[w].task.proposal
      u == job[w].task.user
  IN /\ Running(w, "approve")
     /\ v \notin DOMAIN voucher
     /\ voucher' = B!Put(voucher, v, S(w)!EntryOf(u, p, 1))
     /\ proposal' = [proposal EXCEPT ![p].status = "posted", ![p].posted_name = v]
     /\ document' = [document EXCEPT ![proposal[p].document] =
                       [status |-> "posted", posted_name |-> v]]
     /\ Finish(w)
     /\ UNCHANGED <<period, today, rules>>

(* Mutant: the status is written although submit() refused.                *)
ApproveJob_BeforeSubmit(w, v) ==
  LET p == job[w].task.proposal
      u == job[w].task.user
  IN /\ Running(w, "approve")
     /\ S(w)!MayPost(u, p)
     /\ WritableProposal(w, p)
     /\ v \notin DOMAIN voucher
     /\ voucher' = B!Put(voucher, v, S(w)!EntryOf(u, p, 0))
     /\ proposal' = [proposal EXCEPT ![p].status = "posted", ![p].posted_name = v]
     /\ document' = [document EXCEPT ![proposal[p].document] =
                       [status |-> "posted", posted_name |-> v]]
     /\ Finish(w)
     /\ UNCHANGED <<period, today, rules>>

(* approve and post_proposal: the entry is built from the snapshot.        *)
ApproveJob(w, v) ==
  LET p == job[w].task.proposal
      u == job[w].task.user
  IN /\ Running(w, "approve")
     /\ S(w)!MayPost(u, p)
     /\ WritableProposal(w, p)
     /\ v \notin DOMAIN voucher
     /\ voucher' = B!Put(voucher, v, S(w)!EntryOf(u, p, 1))
     /\ proposal' = [proposal EXCEPT ![p].status = "posted", ![p].posted_name = v]
     /\ document' = [document EXCEPT ![proposal[p].document] =
                       [status |-> "posted", posted_name |-> v]]
     /\ Finish(w)
     /\ UNCHANGED <<period, today, rules>>

(* submit() raised: the router catches, and the job commits the draft.     *)
ApproveJobLeavesDraft(w, v) ==
  LET p == job[w].task.proposal IN
  /\ Running(w, "approve")
  /\ S(w)!MayPost(job[w].task.user, p)
  /\ v \notin DOMAIN voucher
  /\ voucher' = B!Put(voucher, v, S(w)!EntryOf(job[w].task.user, p, 0))
  /\ Finish(w)
  /\ UNCHANGED <<document, proposal, period, today, rules>>

ChangeAccountJob(w) ==
  LET p == job[w].task.proposal IN
  /\ Running(w, "change")
  /\ S(w)!Undecided(p)
  /\ Writable(proposal[p], job[w].seen.proposal[p])
  /\ proposal' = [proposal EXCEPT ![p].account = job[w].task.account]
  /\ Finish(w)
  /\ UNCHANGED <<document, voucher, period, today, rules>>

(* Mutant: the refusal is recorded on the proposal alone.                  *)
RejectJob_ProposalOnly(w) ==
  LET p == job[w].task.proposal IN
  /\ Running(w, "reject")
  /\ S(w)!Undecided(p)
  /\ WritableProposal(w, p)
  /\ proposal' = [proposal EXCEPT ![p].status = "rejected"]
  /\ Finish(w)
  /\ UNCHANGED <<document, voucher, period, today, rules>>

RejectJob(w) ==
  LET p == job[w].task.proposal IN
  /\ Running(w, "reject")
  /\ S(w)!Undecided(p)
  /\ WritableProposal(w, p)
  /\ proposal' = [proposal EXCEPT ![p].status = "rejected"]
  /\ document' = [document EXCEPT ![proposal[p].document].status = "rejected"]
  /\ Finish(w)
  /\ UNCHANGED <<voucher, period, today, rules>>

ReverseJob(w, x) ==
  LET v == job[w].task.voucher IN
  /\ Running(w, "reverse")
  /\ S(w)!MayReverse(job[w].task.user, v)
  /\ x \notin DOMAIN voucher
  /\ voucher' = B!Put(voucher, x, S(w)!ReversalOf(job[w].task.user, v, 1))
  /\ Finish(w)
  /\ UNCHANGED <<document, proposal, period, today, rules>>

(* The Accounting Period's name is unique in the table, whatever the       *)
(* snapshot says: a second insert waits for the first and then fails.      *)
LockJob(w) ==
  LET m == job[w].task.month IN
  /\ Running(w, "lock")
  /\ S(w)!LockChecks(m)
  /\ period[m] = "none"
  /\ period' = [period EXCEPT ![m] = "enabled"]
  /\ Finish(w)
  /\ UNCHANGED <<document, proposal, voucher, today, rules>>

(* save() compares the row with the table: a period someone else touched   *)
(* meanwhile is refused.                                                   *)
ReopenJob(w) ==
  LET m == job[w].task.month IN
  /\ Running(w, "reopen")
  /\ S(w)!Closed(m)
  /\ period[m] = job[w].seen.period[m]
  /\ period' = [period EXCEPT ![m] = "disabled"]
  /\ Finish(w)
  /\ UNCHANGED <<document, proposal, voucher, today, rules>>

(* A handler refuses, a job is killed before its commit, or the tap asks   *)
(* for nothing new: the tables stay as they are.                           *)
JobChangesNothing(w) ==
  /\ job[w] # Idle
  /\ Finish(w)
  /\ UNCHANGED <<tables, today, rules>>

Tick == B!Tick /\ UNCHANGED <<firstWins, crew, job>>

Intake ==
  \E d \in Documents, p \in Proposals, m \in B!Months, r \in Rules, a \in Accounts,
     doubts \in BOOLEAN : ReceiveAndPropose(d, p, m, r, a, doubts)

Commit(w) ==
  \/ \E v \in Vouchers : ApproveJob(w, v) \/ ApproveJobLeavesDraft(w, v) \/ ReverseJob(w, v)
  \/ ChangeAccountJob(w)
  \/ RejectJob(w)
  \/ LockJob(w)
  \/ ReopenJob(w)
  \/ JobChangesNothing(w)

Next ==
  \/ Intake
  \/ \E w \in Workers : Commit(w) \/ \E task \in Tasks : Start(w, task)
  \/ Tick

Spec == Init /\ [][Next]_vars

-----------------------------------------------------------------------------
TypeOK ==
  /\ B!TypeOK
  /\ firstWins \in BOOLEAN
  /\ crew \in Sites
  /\ \A w \in Workers : job[w] # Idle =>
       /\ job[w].task \in Tasks
       /\ S(w)!TypeOK

(* One worker: the jobs are the handlers of Books, one after the other, so *)
(* all that Books promises holds of the jobs.                              *)
ImplementsBooks ==
  /\ crew = 1 => B!Init
  /\ [][crew = 1 => B!Next]_<<document, proposal, voucher, period, rule, accepted, today>>

EntriesOf(p) == {v \in B!Submitted : voucher[v].proposal = p /\ ~B!IsReversal(v)}

ProposalsAgree ==
  \A p \in DOMAIN proposal :
    /\ proposal[p].status = document[proposal[p].document].status
    /\ proposal[p].posted_name = document[proposal[p].document].posted_name
    /\ proposal[p].status = "posted" =>
         /\ proposal[p].posted_name \in B!Submitted
         /\ voucher[proposal[p].posted_name].proposal = p

EntriesCarryTheirProposal ==
  firstWins => \A p \in DOMAIN proposal : \A v \in EntriesOf(p) :
    proposal[p].posted_name = v /\ proposal[p].account = voucher[v].account

ReversalsUndoEntries ==
  \A x \in B!Submitted : B!IsReversal(x) =>
    /\ voucher[x].corrects \in B!Submitted
    /\ ~B!IsReversal(voucher[x].corrects)

(* Several workers.  Whoever commits last, proposal and document are       *)
(* written by the same job and agree, a posted proposal names a voucher    *)
(* that was submitted for it, and, if the first committer wins, that says  *)
(* what the proposal says.  A reversal undoes a submitted entry, never a   *)
(* draft or another reversal (post_proposal, reject, change_account,       *)
(* reverse).                                                               *)
RowsAgree == ProposalsAgree /\ EntriesCarryTheirProposal /\ ReversalsUndoEntries

(* Taps that overlap post a proposal once if the first committer wins, and *)
(* no more often than a site has workers if not: a job that starts after   *)
(* the first commit is told the proposal is decided (approve._decided,     *)
(* POSTABLE_STATUSES).                                                     *)
OverlapsPostOncePerWorker ==
  \A p \in DOMAIN proposal :
    Cardinality(EntriesOf(p)) <= (IF firstWins THEN 1 ELSE crew)

(* No overlap brings a decided proposal back: it may change its verdict,   *)
(* it never asks for a verdict again, and if the first committer wins its  *)
(* verdict is final (post_proposal, reject, change_account).               *)
VerdictsAreFinal ==
  [][\A p \in DOMAIN proposal : ~B!Undecided(p) =>
       /\ ~B!Undecided(p)'
       /\ firstWins => proposal'[p] = proposal[p]]_vars

(* post_proposal calls itself idempotent: a proposal is posted once.       *)
PostedOnce == \A p \in DOMAIN proposal : Cardinality(EntriesOf(p)) <= 1

(* period.py: ERPNext refuses postings into a locked month.  It asks the   *)
(* snapshot of the posting job, so a lock that commits meanwhile is missed *)
(* - and no row is written by both.                                        *)
LockedMonthIsSealed ==
  [][\A m \in B!Months : period[m] = "enabled" /\ period'[m] = "enabled" =>
       {v \in B!Submitted : voucher[v].month = m} = {v \in B!Submitted : voucher[v].month = m}']_vars
=============================================================================
