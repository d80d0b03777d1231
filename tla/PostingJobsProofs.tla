-------------------------- MODULE PostingJobsProofs --------------------------
(***************************************************************************)
(* PostingJobs, proved for any number of workers, documents, proposals and *)
(* vouchers and for either answer of the database.                         *)
(*                                                                         *)
(* What makes overlapping jobs safe is what a snapshot may still say: a    *)
(* voucher row never changes, a decided proposal stays decided, and every  *)
(* job that could post a proposal a second time was running at its first   *)
(* posting, so there are fewer of them than workers.  IInv is that, with   *)
(* the agreement of the tables it rests on.                                *)
(***************************************************************************)
EXTENDS PostingJobs, FiniteSetTheorems, TLAPS

RunningJobs == {w \in Workers : job[w] # Idle}

(* The jobs that could still post p.                                       *)
Late(p) == {w \in RunningJobs : p \in DOMAIN job[w].seen.proposal /\ S(w)!Undecided(p)}

(* A document has one proposal, a proposal still open has no entry.        *)
OneProposalPerDocument ==
  /\ \A d \in DOMAIN document :
       document[d].status = "received" => document[d].posted_name = NoVoucher
  /\ \A p \in DOMAIN proposal :
       /\ proposal[p].document \in DOMAIN document
       /\ document[proposal[p].document].status # "received"
       /\ \A q \in DOMAIN proposal : proposal[p].document = proposal[q].document => p = q

OpenProposalsHaveNoEntry ==
  /\ \A v \in DOMAIN voucher : voucher[v].proposal \in DOMAIN proposal
  /\ \A p \in DOMAIN proposal : B!Undecided(p) => EntriesOf(p) = {}

TablesAgree == OneProposalPerDocument /\ OpenProposalsHaveNoEntry /\ RowsAgree

(* What a job has seen: rows its tap names, vouchers as they are, decided  *)
(* proposals that are decided.                                             *)
Remembers(w) ==
  LET seen == job[w].seen IN
  /\ job[w].task.op \in {"approve", "change", "reject"} =>
       job[w].task.proposal \in DOMAIN seen.proposal
  /\ job[w].task.op = "reverse" => job[w].task.voucher \in DOMAIN seen.voucher
  /\ \A v \in DOMAIN seen.voucher : v \in DOMAIN voucher /\ voucher[v] = seen.voucher[v]
  /\ \A p \in DOMAIN seen.proposal :
       /\ p \in DOMAIN proposal
       /\ proposal[p].document = seen.proposal[p].document
       /\ ~S(w)!Undecided(p) => ~B!Undecided(p)

JobsRemember == \A w \in RunningJobs : Remembers(w)

(* A site runs as many jobs as it has workers, and whoever could still     *)
(* post a posted proposal is one of them.                                  *)
LateJobsAreCounted ==
  /\ DOMAIN job = Workers
  /\ IsFiniteSet(DOMAIN voucher)
  /\ Cardinality(RunningJobs) <= crew
  /\ \A p \in DOMAIN proposal : EntriesOf(p) # {} =>
       Cardinality(EntriesOf(p)) + Cardinality(Late(p)) <= crew

(* A single worker's snapshot is the tables as they are.                   *)
OneWorkerIsUpToDate ==
  crew = 1 => \A w \in RunningJobs :
    /\ job[w].seen.voucher = voucher
    /\ job[w].seen.period = period
    /\ \A p \in DOMAIN job[w].seen.proposal : proposal[p] = job[w].seen.proposal[p]

RulesStayCleared == \A r \in Rules : B!Cleared(r)

IInv ==
  /\ TypeOK
  /\ TablesAgree
  /\ JobsRemember
  /\ LateJobsAreCounted
  /\ OneWorkerIsUpToDate
  /\ RulesStayCleared

(* What no step takes back: the rows of the tables that snapshots rely on. *)
Forward ==
  /\ \A v \in DOMAIN voucher : v \in DOMAIN voucher' /\ voucher'[v] = voucher[v]
  /\ \A p \in DOMAIN proposal :
       /\ p \in DOMAIN proposal'
       /\ proposal'[p].document = proposal[p].document
       /\ ~B!Undecided(p) => ~B!Undecided(p)' /\ (firstWins => proposal'[p] = proposal[p])

-----------------------------------------------------------------------------
(* Jobs end and go on.                                                     *)

(* What a tap asks for has the fields its handler reads.                   *)
LEMMA TaskShape ==
  ASSUME NEW task \in Tasks
  PROVE  /\ task.op = "approve" => task.user \in B!Users /\ task.proposal \in Proposals
         /\ task.op = "change" => task.proposal \in Proposals /\ task.account \in Accounts
         /\ task.op = "reject" => task.proposal \in Proposals
         /\ task.op = "reverse" => task.user \in B!Users /\ task.voucher \in Vouchers
         /\ task.op \in {"lock", "reopen"} => task.month \in B!Months
  BY DEF Tasks, B!Users

(* A job that ends leaves the others as they were.                         *)
LEMMA JobEnds ==
  ASSUME DOMAIN job = Workers, NEW w \in Workers, job[w] # Idle, Finish(w)
  PROVE  /\ DOMAIN job' = Workers
         /\ RunningJobs' = RunningJobs \ {w}
         /\ \A x \in RunningJobs' : x # w /\ job'[x] = job[x]
  BY DEF Finish, RunningJobs

(* The snapshots of the jobs that go on keep their types.                  *)
LEMMA SnapshotsKeepTypes ==
  ASSUME TypeOK, B!TypeOK', UNCHANGED <<firstWins, crew>>,
         \A x \in RunningJobs' : x \in RunningJobs /\ job'[x] = job[x]
  PROVE  TypeOK'
<1>1. ASSUME NEW x \in Workers, job'[x] # Idle
      PROVE  job'[x].task \in Tasks /\ S(x)!TypeOK'
  <2>1. job[x] # Idle /\ job'[x] = job[x]
    BY <1>1 DEF RunningJobs
  <2>2. job[x].task \in Tasks /\ S(x)!TypeOK
    BY <2>1 DEF TypeOK
  <2>3. rule' \in [Rules -> B!RuleRow] /\ accepted' \subseteq Rules \X Contents /\ today' \in B!Day
    BY DEF B!TypeOK
  <2> QED
    BY <2>1, <2>2, <2>3
    DEF S!TypeOK, S!DocumentRow, S!ProposalRow, S!VoucherRow, S!RuleRow, S!Months, S!Users, S!Day,
        B!RuleRow, B!Day, B!Months
<1> QED BY <1>1 DEF TypeOK

(* The tables move forward only, so the jobs that go on still know the     *)
(* truth about what is settled.                                            *)
LEMMA JobsKeepRemembering ==
  ASSUME JobsRemember, Forward,
         \A x \in RunningJobs' : x \in RunningJobs /\ job'[x] = job[x]
  PROVE  JobsRemember'
<1> SUFFICES ASSUME NEW x \in RunningJobs' PROVE Remembers(x)'
  BY DEF JobsRemember
<1>1. Remembers(x) /\ job'[x] = job[x]
  BY DEF JobsRemember
<1> QED BY <1>1 DEF Remembers, Forward, S!Undecided

(* Nothing is posted: whoever was late still is, or has ended.             *)
LEMMA CountsStay ==
  ASSUME LateJobsAreCounted, DOMAIN job' = Workers, UNCHANGED crew, crew \in Nat,
         IsFiniteSet(Workers), IsFiniteSet(DOMAIN voucher'),
         \A x \in RunningJobs' : x \in RunningJobs /\ job'[x] = job[x],
         \A p \in DOMAIN proposal' : EntriesOf(p)' # {} =>
           p \in DOMAIN proposal /\ EntriesOf(p)' = EntriesOf(p)
  PROVE  LateJobsAreCounted'
<1>1. IsFiniteSet(RunningJobs) /\ RunningJobs' \in SUBSET RunningJobs
  BY FS_Subset DEF RunningJobs
<1>2. Cardinality(RunningJobs') <= Cardinality(RunningJobs)
  BY <1>1, FS_Subset
<1>2a. Cardinality(RunningJobs') \in Nat /\ Cardinality(RunningJobs) \in Nat
  BY <1>1, FS_Subset, FS_CardinalityType
<1>3. ASSUME NEW p \in DOMAIN proposal', EntriesOf(p)' # {}
      PROVE  Cardinality(EntriesOf(p)') + Cardinality(Late(p)') <= crew
  <2>1. Late(p)' \in SUBSET Late(p) /\ Late(p) \in SUBSET RunningJobs
    BY DEF Late, S!Undecided
  <2>2. IsFiniteSet(Late(p)) /\ IsFiniteSet(Late(p)')
    BY <1>1, <2>1, FS_Subset
  <2>3. Cardinality(Late(p)') <= Cardinality(Late(p)) /\ Cardinality(Late(p)') \in Nat /\ Cardinality(Late(p)) \in Nat
    BY <2>1, <2>2, FS_Subset, FS_CardinalityType
  <2>4. EntriesOf(p) \in SUBSET DOMAIN voucher
    BY DEF EntriesOf, B!Submitted
  <2>5. Cardinality(EntriesOf(p)) \in Nat
    BY <2>4, FS_Subset, FS_CardinalityType DEF LateJobsAreCounted
  <2>6. p \in DOMAIN proposal /\ EntriesOf(p)' = EntriesOf(p)
    BY <1>3
  <2>7. Cardinality(EntriesOf(p)) + Cardinality(Late(p)) <= crew
    BY <1>3, <2>6 DEF LateJobsAreCounted
  <2> QED BY <2>3, <2>5, <2>6, <2>7
<1> QED BY <1>2, <1>2a, <1>3 DEF LateJobsAreCounted

-----------------------------------------------------------------------------
(* What each job does to the tables.                                       *)

(* A new voucher is submitted or a draft, and the entry of one proposal or *)
(* of none.                                                                *)
LEMMA AddVoucher ==
  ASSUME NEW v, NEW row, v \notin DOMAIN voucher, voucher' = B!Put(voucher, v, row)
  PROVE  /\ DOMAIN voucher' = DOMAIN voucher \cup {v}
         /\ voucher'[v] = row
         /\ \A x \in DOMAIN voucher : voucher'[x] = voucher[x]
         /\ row.docstatus = 1 => B!Submitted' = B!Submitted \cup {v}
         /\ row.docstatus # 1 => B!Submitted' = B!Submitted
         /\ \A q : EntriesOf(q)' = IF row.docstatus = 1 /\ row.proposal = q /\ row.corrects = NoVoucher
                                  THEN EntriesOf(q) \cup {v} ELSE EntriesOf(q)
<1>1. /\ DOMAIN voucher' = DOMAIN voucher \cup {v}
      /\ voucher'[v] = row
      /\ \A x \in DOMAIN voucher : voucher'[x] = voucher[x]
  BY DEF B!Put
<1>2. /\ row.docstatus = 1 => B!Submitted' = B!Submitted \cup {v}
      /\ row.docstatus # 1 => B!Submitted' = B!Submitted
  BY <1>1 DEF B!Submitted
<1>3. B!Submitted \subseteq DOMAIN voucher
  BY DEF B!Submitted
<1> QED
  BY <1>1, <1>2, <1>3 DEF EntriesOf, B!IsReversal

(* The same vouchers, the same entries.                                    *)
LEMMA EntriesStay ==
  ASSUME UNCHANGED voucher
  PROVE  /\ B!Submitted' = B!Submitted
         /\ \A q : EntriesOf(q)' = EntriesOf(q)
  BY DEF EntriesOf, B!IsReversal, B!Submitted

(* The job that runs sees rows of the types of Books, for rows its tap     *)
(* names.                                                                  *)
LEMMA RunningJobSees ==
  ASSUME TypeOK, JobsRemember, NEW w \in Workers, job[w] # Idle
  PROVE  /\ w \in RunningJobs /\ Remembers(w)
         /\ S(w)!TypeOK /\ job[w].task \in Tasks
         /\ \A p \in DOMAIN job[w].seen.proposal : job[w].seen.proposal[p] \in B!ProposalRow
         /\ \A v \in DOMAIN job[w].seen.voucher : job[w].seen.voucher[v] \in B!VoucherRow
<1>1. w \in RunningJobs /\ Remembers(w)
  BY DEF RunningJobs, JobsRemember
<1>2. S(w)!TypeOK /\ job[w].task \in Tasks
  BY DEF TypeOK
<1> QED
  BY <1>1, <1>2
  DEF S!TypeOK, S!ProposalRow, B!ProposalRow, S!VoucherRow, B!VoucherRow, S!Months, B!Months,
      S!Users, B!Users

(* An approval adds the entry it built from its snapshot.                  *)
LEMMA ApproveAdds ==
  ASSUME TypeOK, JobsRemember, NEW w \in Workers, NEW v \in Vouchers, NEW docstatus \in {0, 1},
         Running(w, "approve"), S(w)!MayPost(job[w].task.user, job[w].task.proposal)
  PROVE  LET p == job[w].task.proposal
             row == S(w)!EntryOf(job[w].task.user, p, docstatus)
         IN /\ w \in RunningJobs
            /\ p \in DOMAIN job[w].seen.proposal /\ p \in DOMAIN proposal
            /\ S(w)!Undecided(p)
            /\ row \in B!VoucherRow
            /\ row.docstatus = docstatus /\ row.proposal = p /\ row.corrects = NoVoucher
            /\ row.account = job[w].seen.proposal[p].account
<1> DEFINE p == job[w].task.proposal
           row == S(w)!EntryOf(job[w].task.user, p, docstatus)
<1>1. /\ w \in RunningJobs /\ Remembers(w) /\ job[w].task \in Tasks /\ job[w].task.op = "approve"
      /\ \A q \in DOMAIN job[w].seen.proposal : job[w].seen.proposal[q] \in B!ProposalRow
  BY RunningJobSees DEF Running
<1>2. job[w].task.user \in B!Users /\ p \in Proposals
  BY <1>1, TaskShape
<1>3. p \in DOMAIN job[w].seen.proposal /\ p \in DOMAIN proposal
  BY <1>1 DEF Remembers
<1>4. row = [docstatus |-> docstatus, proposal |-> p, month |-> job[w].seen.proposal[p].month,
             account |-> job[w].seen.proposal[p].account, corrects |-> NoVoucher,
             approved_by |-> job[w].task.user]
  BY DEF S!EntryOf
<1>5. row \in B!VoucherRow
  BY <1>1, <1>2, <1>3, <1>4 DEF B!VoucherRow, B!ProposalRow
<1> QED BY <1>1, <1>3, <1>4, <1>5 DEF S!MayPost

(* The tables after an approval of p, whose document is d, as v.           *)
Approved(w, v, p, d) ==
  /\ p \in DOMAIN proposal /\ d \in DOMAIN document /\ v \notin DOMAIN voucher
  /\ w \in RunningJobs /\ p \in DOMAIN job[w].seen.proposal /\ S(w)!Undecided(p)
  /\ DOMAIN proposal' = DOMAIN proposal
  /\ proposal'[p] \in B!ProposalRow
  /\ proposal'[p].status = "posted" /\ proposal'[p].posted_name = v
  /\ proposal'[p].document = d /\ proposal'[p].account = proposal[p].account
  /\ \A q \in DOMAIN proposal : q # p => proposal'[q] = proposal[q]
  /\ DOMAIN document' = DOMAIN document
  /\ document'[d] = [status |-> "posted", posted_name |-> v]
  /\ \A e \in DOMAIN document : e # d => document'[e] = document[e]
  /\ DOMAIN voucher' = DOMAIN voucher \cup {v}
  /\ \A x \in DOMAIN voucher : voucher'[x] = voucher[x]
  /\ voucher'[v] \in B!VoucherRow /\ voucher'[v].proposal = p
  /\ voucher'[v].corrects = NoVoucher /\ voucher'[v].docstatus = 1
  /\ B!Submitted' = B!Submitted \cup {v}
  /\ EntriesOf(p)' = EntriesOf(p) \cup {v}
  /\ \A q : q # p => EntriesOf(q)' = EntriesOf(q)
  /\ firstWins => B!Undecided(p) /\ voucher'[v].account = proposal[p].account
  /\ UNCHANGED <<period, today, rules>> /\ Finish(w)

LEMMA ApproveWrites ==
  ASSUME TypeOK, TablesAgree, JobsRemember, NEW w \in Workers, NEW v \in Vouchers, ApproveJob(w, v),
         NEW p, p = job[w].task.proposal, NEW d, d = proposal[p].document
  PROVE  Approved(w, v, p, d)
<1> DEFINE row == S(w)!EntryOf(job[w].task.user, p, 1)
<1>1. /\ w \in RunningJobs
      /\ p \in DOMAIN job[w].seen.proposal /\ p \in DOMAIN proposal
      /\ S(w)!Undecided(p)
      /\ row \in B!VoucherRow
      /\ row.docstatus = 1 /\ row.proposal = p /\ row.corrects = NoVoucher
      /\ row.account = job[w].seen.proposal[p].account
  BY ApproveAdds DEF ApproveJob
<1>2. v \notin DOMAIN voucher /\ voucher' = B!Put(voucher, v, row)
  BY DEF ApproveJob
<1> HIDE DEF row
<1>3. /\ DOMAIN voucher' = DOMAIN voucher \cup {v}
      /\ voucher'[v] = row
      /\ \A x \in DOMAIN voucher : voucher'[x] = voucher[x]
      /\ B!Submitted' = B!Submitted \cup {v}
      /\ EntriesOf(p)' = EntriesOf(p) \cup {v}
      /\ \A q : q # p => EntriesOf(q)' = EntriesOf(q)
  <2>1. /\ DOMAIN voucher' = DOMAIN voucher \cup {v}
        /\ voucher'[v] = row
        /\ \A x \in DOMAIN voucher : voucher'[x] = voucher[x]
        /\ row.docstatus = 1 => B!Submitted' = B!Submitted \cup {v}
        /\ \A q : EntriesOf(q)' = IF row.docstatus = 1 /\ row.proposal = q /\ row.corrects = NoVoucher
                                 THEN EntriesOf(q) \cup {v} ELSE EntriesOf(q)
    BY <1>2, AddVoucher
  <2>2. row.docstatus = 1 /\ row.proposal = p /\ row.corrects = NoVoucher
    BY <1>1
  <2> QED BY <2>1, <2>2
<1>4. proposal[p] \in B!ProposalRow /\ d \in DOMAIN document
  BY <1>1 DEF TypeOK, B!TypeOK, TablesAgree, OneProposalPerDocument
<1>5. /\ DOMAIN proposal' = DOMAIN proposal
      /\ proposal'[p] = [proposal[p] EXCEPT !.status = "posted", !.posted_name = v]
      /\ \A q \in DOMAIN proposal : q # p => proposal'[q] = proposal[q]
  BY <1>1, <1>4 DEF ApproveJob, B!ProposalRow
<1>5a. /\ proposal'[p] \in B!ProposalRow
       /\ proposal'[p].status = "posted" /\ proposal'[p].posted_name = v
       /\ proposal'[p].document = d /\ proposal'[p].account = proposal[p].account
  BY <1>4, <1>5 DEF B!ProposalRow
<1>6. /\ DOMAIN document' = DOMAIN document
      /\ document'[d] = [status |-> "posted", posted_name |-> v]
      /\ \A e \in DOMAIN document : e # d => document'[e] = document[e]
  BY <1>4 DEF ApproveJob
<1>7. firstWins => proposal[p] = job[w].seen.proposal[p]
  BY DEF ApproveJob, WritableProposal, Writable
<1>8. firstWins => B!Undecided(p) /\ row.account = proposal[p].account
  BY <1>1, <1>7 DEF S!Undecided, B!Undecided
<1>9. UNCHANGED <<period, today, rules>> /\ Finish(w)
  BY DEF ApproveJob
<1> QED BY <1>1, <1>2, <1>3, <1>4, <1>5, <1>5a, <1>6, <1>8, <1>9 DEF Approved

-----------------------------------------------------------------------------
(* The frame of every commit.                                              *)

(* A site of one worker runs one job at a time.                            *)
LEMMA OneWorkerAlone ==
  ASSUME LateJobsAreCounted, crew = 1, NEW w \in RunningJobs
  PROVE  RunningJobs = {w}
<1>1. IsFiniteSet(RunningJobs) /\ {w} \in SUBSET RunningJobs
  BY JobsAssumption, FS_Subset DEF RunningJobs
<1>2. Cardinality({w}) = 1
  BY FS_Singleton
<1>3. Cardinality(RunningJobs) = 1
  BY <1>1, <1>2, FS_Subset, FS_CardinalityType DEF LateJobsAreCounted
<1> QED BY <1>1, <1>2, <1>3, FS_Subset

LEMMA CrewIsANumber == TypeOK => crew \in Nat /\ crew >= 1
<1>1. Cardinality(Workers) \in Nat
  BY JobsAssumption, FS_CardinalityType
<1> QED BY <1>1, JobsAssumption DEF TypeOK

(* A commit that types, rows and counts survive, and that only moves the   *)
(* tables forward, keeps the whole invariant.                              *)
LEMMA CommitKeeps ==
  ASSUME IInv, NEW w \in Workers, job[w] # Idle, Finish(w), UNCHANGED <<rules, today>>,
         B!TypeOK', TablesAgree', Forward, LateJobsAreCounted'
  PROVE  IInv'
<1>1. /\ RunningJobs' = RunningJobs \ {w}
      /\ \A x \in RunningJobs' : x \in RunningJobs /\ job'[x] = job[x]
  BY JobEnds DEF IInv, LateJobsAreCounted
<1>2. UNCHANGED <<firstWins, crew, rule, accepted>>
  BY DEF rules
<1>3. TypeOK'
  BY <1>1, <1>2, SnapshotsKeepTypes DEF IInv
<1>4. JobsRemember'
  BY <1>1, JobsKeepRemembering DEF IInv
<1>5. OneWorkerIsUpToDate'
  <2>1. crew = 1 => RunningJobs' = {}
    <3>1. w \in RunningJobs
      BY DEF RunningJobs
    <3> QED BY <1>1, <3>1, OneWorkerAlone DEF IInv
  <2> QED BY <1>2, <2>1 DEF OneWorkerIsUpToDate
<1>6. RulesStayCleared'
  BY <1>2 DEF IInv, RulesStayCleared, B!Cleared
<1> QED BY <1>3, <1>4, <1>5, <1>6 DEF IInv

-----------------------------------------------------------------------------
(* An approval.                                                            *)
LEMMA ApproveRows ==
  ASSUME IInv, NEW w \in Workers, NEW v \in Vouchers, ApproveJob(w, v),
         NEW p, p = job[w].task.proposal, NEW d, d = proposal[p].document
  PROVE  B!TypeOK' /\ TablesAgree' /\ Forward
<1>0. TypeOK /\ B!TypeOK /\ TablesAgree /\ JobsRemember /\ NoVoucher \notin Vouchers
  BY JobsAssumption DEF IInv, TypeOK, B!BooksAssumption
<1>a. Approved(w, v, p, d)
  BY <1>0, ApproveWrites
<1>1. /\ p \in DOMAIN proposal /\ d \in DOMAIN document
      /\ v \notin DOMAIN voucher
      /\ DOMAIN proposal' = DOMAIN proposal
      /\ \A q \in DOMAIN proposal : q # p => proposal'[q] = proposal[q]
  BY <1>a DEF Approved
<1>2. /\ DOMAIN document' = DOMAIN document
      /\ document'[d] = [status |-> "posted", posted_name |-> v]
      /\ \A e \in DOMAIN document : e # d => document'[e] = document[e]
      /\ firstWins => B!Undecided(p) /\ voucher'[v].account = proposal[p].account
      /\ UNCHANGED <<period, today, rules>>
  BY <1>a DEF Approved
<1>3. /\ DOMAIN voucher' = DOMAIN voucher \cup {v}
      /\ \A x \in DOMAIN voucher : voucher'[x] = voucher[x]
      /\ voucher'[v] \in B!VoucherRow /\ voucher'[v].proposal = p
      /\ voucher'[v].corrects = NoVoucher /\ voucher'[v].docstatus = 1
      /\ B!Submitted' = B!Submitted \cup {v} /\ B!Submitted \subseteq DOMAIN voucher
  BY <1>a DEF Approved, B!Submitted
<1>4. /\ EntriesOf(p)' = EntriesOf(p) \cup {v}
      /\ \A q : q # p => EntriesOf(q)' = EntriesOf(q)
  BY <1>a DEF Approved
<1>5. /\ proposal'[p] \in B!ProposalRow /\ proposal'[p].document = d
      /\ proposal'[p].status = "posted" /\ proposal'[p].posted_name = v
      /\ proposal'[p].account = proposal[p].account
  BY <1>a DEF Approved
<1>6. \A q \in DOMAIN proposal : proposal'[q].document = proposal[q].document
  BY <1>1, <1>5
<1>7. \A q \in DOMAIN proposal : q # p => proposal[q].document # d
  BY <1>0, <1>1 DEF TablesAgree, OneProposalPerDocument
<1>8. B!TypeOK'
  BY <1>0, <1>1, <1>2, <1>3, <1>5 DEF B!TypeOK, B!DocumentRow, rules
<1>9. OneProposalPerDocument'
  BY <1>0, <1>1, <1>2, <1>6, <1>7 DEF TablesAgree, OneProposalPerDocument
<1>10. OpenProposalsHaveNoEntry'
  BY <1>0, <1>1, <1>3, <1>4, <1>5 DEF TablesAgree, OpenProposalsHaveNoEntry, B!Undecided
<1>11. ProposalsAgree'
  BY <1>0, <1>1, <1>2, <1>3, <1>5, <1>6, <1>7
  DEF TablesAgree, RowsAgree, ProposalsAgree, OneProposalPerDocument
<1>12. EntriesCarryTheirProposal'
  <2> SUFFICES ASSUME firstWins, NEW q \in DOMAIN proposal', NEW x \in EntriesOf(q)'
               PROVE  proposal'[q].posted_name = x /\ proposal'[q].account = voucher'[x].account
    BY <1>2 DEF EntriesCarryTheirProposal, rules
  <2>1. CASE q = p
    BY <2>1, <1>0, <1>1, <1>2, <1>4, <1>5 DEF TablesAgree, OpenProposalsHaveNoEntry
  <2>2. CASE q # p
    <3>1. x \in EntriesOf(q) /\ q \in DOMAIN proposal /\ proposal'[q] = proposal[q]
      BY <2>2, <1>1, <1>4
    <3>2. x \in DOMAIN voucher
      BY <3>1 DEF EntriesOf, B!Submitted
    <3> QED BY <3>1, <3>2, <1>0, <1>3 DEF TablesAgree, RowsAgree, EntriesCarryTheirProposal
  <2> QED BY <2>1, <2>2
<1>13. ReversalsUndoEntries'
  BY <1>0, <1>3 DEF TablesAgree, RowsAgree, ReversalsUndoEntries, B!IsReversal
<1>14. Forward
  BY <1>1, <1>2, <1>3, <1>5, <1>6 DEF Forward, B!Undecided
<1> QED BY <1>8, <1>9, <1>10, <1>11, <1>12, <1>13, <1>14 DEF TablesAgree, RowsAgree

(* Who could still post is counted down by one, the entries up by one; at  *)
(* the first posting everybody who could is running.                       *)
LEMMA ApproveCounts ==
  ASSUME IInv, NEW w \in Workers, NEW v \in Vouchers, ApproveJob(w, v),
         NEW p, p = job[w].task.proposal, NEW d, d = proposal[p].document
  PROVE  LateJobsAreCounted'
<1>0. TypeOK /\ TablesAgree /\ JobsRemember /\ LateJobsAreCounted
  BY DEF IInv
<1>a. Approved(w, v, p, d)
  BY <1>0, ApproveWrites
<1>1. /\ p \in DOMAIN proposal /\ p \in DOMAIN job[w].seen.proposal /\ S(w)!Undecided(p)
      /\ w \in RunningJobs /\ v \notin DOMAIN voucher
      /\ DOMAIN voucher' = DOMAIN voucher \cup {v}
      /\ UNCHANGED rules /\ Finish(w) /\ DOMAIN proposal' = DOMAIN proposal
  BY <1>a DEF Approved
<1>2. /\ EntriesOf(p)' = EntriesOf(p) \cup {v}
      /\ \A q : q # p => EntriesOf(q)' = EntriesOf(q)
  BY <1>a DEF Approved
<1>3. /\ DOMAIN job' = Workers
      /\ RunningJobs' = RunningJobs \ {w}
      /\ \A x \in RunningJobs' : x # w /\ job'[x] = job[x]
  BY <1>0, <1>1, JobEnds DEF LateJobsAreCounted, RunningJobs
<1>4. /\ IsFiniteSet(RunningJobs) /\ IsFiniteSet(DOMAIN voucher) /\ crew \in Nat /\ crew' = crew
      /\ Cardinality(RunningJobs) <= crew
  <2>1. RunningJobs \in SUBSET Workers
    BY DEF RunningJobs
  <2>2. IsFiniteSet(RunningJobs)
    BY <2>1, JobsAssumption, FS_Subset
  <2>3. crew \in Nat /\ crew' = crew
    BY <1>0, <1>1, CrewIsANumber DEF rules
  <2> QED BY <2>2, <2>3, <1>0 DEF LateJobsAreCounted
<1>5. IsFiniteSet(DOMAIN voucher')
  BY <1>1, <1>4, FS_AddElement
<1>6. Cardinality(RunningJobs') <= crew'
  <2>1. Cardinality(RunningJobs) \in Nat
    BY <1>4, FS_CardinalityType
  <2>2. Cardinality(RunningJobs \ {w}) = Cardinality(RunningJobs) - 1
    BY <1>1, <1>4, FS_RemoveElement
  <2> QED BY <2>1, <2>2, <1>3, <1>4
<1>7. ASSUME NEW q \in DOMAIN proposal', EntriesOf(q)' # {}
      PROVE  Cardinality(EntriesOf(q)') + Cardinality(Late(q)') <= crew
  <2>1. /\ Late(q) \subseteq RunningJobs /\ EntriesOf(q) \subseteq DOMAIN voucher
        /\ Late(q)' = Late(q) \ {w}
    BY <1>3 DEF Late, EntriesOf, B!Submitted, S!Undecided
  <2>2. /\ IsFiniteSet(Late(q)) /\ Cardinality(Late(q)) \in Nat
        /\ IsFiniteSet(EntriesOf(q)) /\ Cardinality(EntriesOf(q)) \in Nat
        /\ Cardinality(Late(q)) <= Cardinality(RunningJobs) /\ Cardinality(RunningJobs) \in Nat
    BY <1>4, <2>1, FS_Subset, FS_CardinalityType
  <2>3. Cardinality(Late(q)') = IF w \in Late(q) THEN Cardinality(Late(q)) - 1 ELSE Cardinality(Late(q))
    BY <2>1, <2>2, FS_RemoveElement
  <2>4. CASE q = p
    <3>1. w \in Late(p)
      BY <1>1 DEF Late
    <3>2. v \notin EntriesOf(p)
      BY <1>1 DEF EntriesOf, B!Submitted
    <3>3. Cardinality(EntriesOf(p)') = Cardinality(EntriesOf(p)) + 1
      BY <1>2, <2>2, <2>4, <3>2, FS_AddElement
    <3>4. CASE EntriesOf(p) = {}
      BY <1>4, <2>2, <2>3, <2>4, <3>1, <3>3, <3>4, FS_EmptySet
    <3>5. CASE EntriesOf(p) # {}
      <4>1. Cardinality(EntriesOf(p)) + Cardinality(Late(p)) <= crew
        BY <3>5, <1>0, <1>1 DEF LateJobsAreCounted
      <4> QED BY <4>1, <1>4, <2>2, <2>3, <2>4, <3>1, <3>3
    <3> QED BY <3>4, <3>5
  <2>5. CASE q # p
    <3>1. EntriesOf(q)' = EntriesOf(q) /\ q \in DOMAIN proposal
      BY <2>5, <1>1, <1>2
    <3>2. Cardinality(EntriesOf(q)) + Cardinality(Late(q)) <= crew
      BY <3>1, <1>0, <1>7 DEF LateJobsAreCounted
    <3> QED BY <3>1, <3>2, <1>4, <2>2, <2>3
  <2> QED BY <2>4, <2>5
<1> QED BY <1>3, <1>4, <1>5, <1>6, <1>7 DEF LateJobsAreCounted

LEMMA ApproveKeeps ==
  ASSUME IInv, NEW w \in Workers, NEW v \in Vouchers, ApproveJob(w, v)
  PROVE  IInv' /\ Forward
<1>1. PICK p : p = job[w].task.proposal
  OBVIOUS
<1>2. PICK d : d = proposal[p].document
  OBVIOUS
<1>3. B!TypeOK' /\ TablesAgree' /\ Forward /\ LateJobsAreCounted'
  BY <1>1, <1>2, ApproveRows, ApproveCounts
<1>4. job[w] # Idle /\ Finish(w) /\ UNCHANGED <<rules, today>>
  BY DEF ApproveJob, Running
<1> QED BY <1>3, <1>4, CommitKeeps

-----------------------------------------------------------------------------
(* A voucher that is nobody's entry: the draft of a refused submit, or the *)
(* reversal of an entry.                                                   *)
LEMMA SideVoucherKeeps ==
  ASSUME IInv, NEW w \in Workers, job[w] # Idle, Finish(w),
         NEW v \in Vouchers, NEW row \in B!VoucherRow, v \notin DOMAIN voucher,
         voucher' = B!Put(voucher, v, row), row.proposal \in DOMAIN proposal,
         row.docstatus = 1 => /\ row.corrects \in B!Submitted /\ row.corrects # NoVoucher
                              /\ ~B!IsReversal(row.corrects),
         UNCHANGED <<document, proposal, period, today, rules>>
  PROVE  IInv' /\ Forward
<1>0. TypeOK /\ B!TypeOK /\ TablesAgree /\ LateJobsAreCounted
  BY DEF IInv, TypeOK
<1>1. /\ DOMAIN voucher' = DOMAIN voucher \cup {v}
      /\ voucher'[v] = row
      /\ \A x \in DOMAIN voucher : voucher'[x] = voucher[x]
      /\ row.docstatus = 1 => B!Submitted' = B!Submitted \cup {v}
      /\ row.docstatus # 1 => B!Submitted' = B!Submitted
  BY AddVoucher
<1>2. \A q : EntriesOf(q)' = EntriesOf(q)
  <2>1. \A q : EntriesOf(q)' = IF row.docstatus = 1 /\ row.proposal = q /\ row.corrects = NoVoucher
                              THEN EntriesOf(q) \cup {v} ELSE EntriesOf(q)
    BY AddVoucher
  <2> QED BY <2>1
<1>3. B!Submitted \subseteq DOMAIN voucher /\ \A q : EntriesOf(q) \subseteq DOMAIN voucher
  BY DEF B!Submitted, EntriesOf
<1>4. B!TypeOK'
  BY <1>0, <1>1 DEF B!TypeOK, rules
<1>5. OneProposalPerDocument'
  BY <1>0 DEF TablesAgree, OneProposalPerDocument
<1>6. OpenProposalsHaveNoEntry'
  BY <1>0, <1>1, <1>2 DEF TablesAgree, OpenProposalsHaveNoEntry, B!Undecided
<1>7. ProposalsAgree'
  BY <1>0, <1>1, <1>3 DEF TablesAgree, RowsAgree, ProposalsAgree
<1>8. EntriesCarryTheirProposal'
  BY <1>0, <1>1, <1>2, <1>3 DEF TablesAgree, RowsAgree, EntriesCarryTheirProposal, rules
<1>9. ReversalsUndoEntries'
  BY <1>0, <1>1, <1>3 DEF TablesAgree, RowsAgree, ReversalsUndoEntries, B!IsReversal
<1>10. Forward
  BY <1>1 DEF Forward, B!Undecided
<1>11. LateJobsAreCounted'
  <2>1. IsFiniteSet(DOMAIN voucher')
    BY <1>0, <1>1, FS_AddElement DEF LateJobsAreCounted
  <2>2. /\ DOMAIN job' = Workers
        /\ \A x \in RunningJobs' : x \in RunningJobs /\ job'[x] = job[x]
    BY <1>0, JobEnds DEF LateJobsAreCounted
  <2>3. crew \in Nat /\ UNCHANGED crew
    BY <1>0, CrewIsANumber DEF rules
  <2>4. \A p \in DOMAIN proposal' : EntriesOf(p)' # {} =>
          p \in DOMAIN proposal /\ EntriesOf(p)' = EntriesOf(p)
    BY <1>2
  <2> QED BY <1>0, <2>1, <2>2, <2>3, <2>4, JobsAssumption, CountsStay
<1>12. TablesAgree'
  BY <1>5, <1>6, <1>7, <1>8, <1>9 DEF TablesAgree, RowsAgree
<1> QED BY <1>4, <1>10, <1>11, <1>12, CommitKeeps

LEMMA DraftKeeps ==
  ASSUME IInv, NEW w \in Workers, NEW v \in Vouchers, ApproveJobLeavesDraft(w, v)
  PROVE  IInv' /\ Forward
<1> DEFINE row == S(w)!EntryOf(job[w].task.user, job[w].task.proposal, 0)
<1>1. row \in B!VoucherRow /\ row.docstatus = 0 /\ row.proposal \in DOMAIN proposal
  BY ApproveAdds DEF ApproveJobLeavesDraft, IInv
<1>2. /\ job[w] # Idle /\ Finish(w) /\ v \notin DOMAIN voucher
      /\ voucher' = B!Put(voucher, v, row)
      /\ UNCHANGED <<document, proposal, period, today, rules>>
  BY DEF ApproveJobLeavesDraft, Running
<1> HIDE DEF row
<1> QED BY <1>1, <1>2, SideVoucherKeeps

(* What the snapshot calls a standing entry is one: vouchers never change. *)
LEMMA ReverseAdds ==
  ASSUME IInv, NEW w \in Workers, NEW x \in Vouchers, ReverseJob(w, x),
         NEW v, v = job[w].task.voucher,
         NEW row, row = S(w)!ReversalOf(job[w].task.user, v, 1)
  PROVE  /\ v \in B!Submitted /\ v # NoVoucher /\ ~B!IsReversal(v)
         /\ row \in B!VoucherRow /\ row.docstatus = 1 /\ row.corrects = v
         /\ row.proposal \in DOMAIN proposal
<1>0. TypeOK /\ JobsRemember /\ TablesAgree /\ NoVoucher \notin Vouchers /\ B!TypeOK
  BY JobsAssumption DEF IInv, TypeOK, B!BooksAssumption
<1>1. /\ w \in RunningJobs /\ Remembers(w) /\ job[w].task \in Tasks /\ job[w].task.op = "reverse"
      /\ \A q \in DOMAIN job[w].seen.voucher : job[w].seen.voucher[q] \in B!VoucherRow
  BY <1>0, RunningJobSees DEF ReverseJob, Running
<1>2. v \in Vouchers /\ job[w].task.user \in B!Users
  BY <1>1, TaskShape
<1>3. v \in S(w)!Submitted /\ ~S(w)!IsReversal(v)
  BY DEF ReverseJob, S!MayReverse
<1>4. v \in DOMAIN voucher /\ voucher[v] = job[w].seen.voucher[v]
  BY <1>1, <1>3 DEF Remembers, S!Submitted
<1>5. v \in B!Submitted /\ v # NoVoucher /\ ~B!IsReversal(v)
  BY <1>0, <1>2, <1>3, <1>4 DEF S!Submitted, B!Submitted, S!IsReversal, B!IsReversal
<1>6. row = [docstatus |-> 1, proposal |-> voucher[v].proposal, month |-> S(w)!ReversalMonth(v),
             account |-> voucher[v].account, corrects |-> v, approved_by |-> job[w].task.user]
  BY <1>4 DEF S!ReversalOf
<1>7. voucher[v] \in B!VoucherRow
  BY <1>1, <1>3, <1>4 DEF S!Submitted
<1>8. S(w)!ReversalMonth(v) \in B!Months
  <2>1. today.month \in B!Months /\ voucher[v].month \in B!Months
    BY <1>0, <1>7 DEF B!TypeOK, B!Day, B!VoucherRow
  <2> QED BY <2>1, <1>4 DEF S!ReversalMonth
<1>9. row \in B!VoucherRow
  BY <1>2, <1>6, <1>7, <1>8 DEF B!VoucherRow
<1>10. voucher[v].proposal \in DOMAIN proposal
  BY <1>0, <1>4 DEF TablesAgree, OpenProposalsHaveNoEntry
<1> QED BY <1>5, <1>6, <1>9, <1>10

LEMMA ReverseKeeps ==
  ASSUME IInv, NEW w \in Workers, NEW x \in Vouchers, ReverseJob(w, x)
  PROVE  IInv' /\ Forward
<1>1. PICK v : v = job[w].task.voucher
  OBVIOUS
<1>2. PICK row : row = S(w)!ReversalOf(job[w].task.user, v, 1)
  OBVIOUS
<1>3. /\ v \in B!Submitted /\ v # NoVoucher /\ ~B!IsReversal(v)
      /\ row \in B!VoucherRow /\ row.docstatus = 1 /\ row.corrects = v
      /\ row.proposal \in DOMAIN proposal
  BY <1>1, <1>2, ReverseAdds
<1>4. /\ job[w] # Idle /\ Finish(w) /\ x \notin DOMAIN voucher
      /\ voucher' = B!Put(voucher, x, row)
      /\ UNCHANGED <<document, proposal, period, today, rules>>
  BY <1>1, <1>2 DEF ReverseJob, Running
<1> QED BY <1>3, <1>4, SideVoucherKeeps

-----------------------------------------------------------------------------
(* A proposal's row is rewritten and no voucher added: another account, or *)
(* the refusal of proposal and document.                                   *)
Rewritten(p, d) ==
  /\ p \in DOMAIN proposal /\ d = proposal[p].document
  /\ DOMAIN proposal' = DOMAIN proposal
  /\ proposal'[p] \in B!ProposalRow
  /\ proposal'[p].document = d /\ proposal'[p].posted_name = proposal[p].posted_name
  /\ \A q \in DOMAIN proposal : q # p => proposal'[q] = proposal[q]
  /\ DOMAIN document' = DOMAIN document
  /\ document'[d] \in B!DocumentRow /\ document'[d].posted_name = document[d].posted_name
  /\ \A e \in DOMAIN document : e # d => document'[e] = document[e]
  /\ \/ proposal'[p].status = proposal[p].status /\ document'[d].status = document[d].status
     \/ proposal'[p].status = "rejected" /\ document'[d].status = "rejected"
  /\ firstWins => B!Undecided(p)

LEMMA RewriteKeeps ==
  ASSUME IInv, NEW w \in Workers, job[w] # Idle, Finish(w), NEW p, NEW d, Rewritten(p, d),
         UNCHANGED <<voucher, period, today, rules>>
  PROVE  IInv' /\ Forward
<1>0. TypeOK /\ B!TypeOK /\ TablesAgree /\ LateJobsAreCounted
  BY DEF IInv, TypeOK
<1>1. \A q \in DOMAIN proposal : q # p => proposal[q].document # d
  BY <1>0 DEF TablesAgree, OneProposalPerDocument, Rewritten
<1>2. /\ B!Submitted' = B!Submitted
      /\ \A q : EntriesOf(q)' = EntriesOf(q)
  BY EntriesStay
<1>3. /\ p \in DOMAIN proposal /\ d \in DOMAIN document /\ d = proposal[p].document
      /\ DOMAIN proposal' = DOMAIN proposal /\ DOMAIN document' = DOMAIN document
      /\ \A q \in DOMAIN proposal : proposal'[q].document = proposal[q].document
      /\ \A q \in DOMAIN proposal : q # p => proposal'[q] = proposal[q]
      /\ \A e \in DOMAIN document : e # d => document'[e] = document[e]
  BY <1>0 DEF Rewritten, TablesAgree, OneProposalPerDocument
<1>4. B!TypeOK'
  <2>1. \A q \in DOMAIN proposal' : proposal'[q] \in B!ProposalRow
    BY <1>0, <1>3 DEF Rewritten, B!TypeOK
  <2>2. \A e \in DOMAIN document' : document'[e] \in B!DocumentRow
    BY <1>0, <1>3 DEF Rewritten, B!TypeOK
  <2> QED BY <1>0, <1>3, <2>1, <2>2 DEF B!TypeOK, rules
<1>5. OneProposalPerDocument'
  <2>1. document'[d].status = "received" => document'[d].posted_name = NoVoucher
    BY <1>0, <1>3 DEF Rewritten, TablesAgree, OneProposalPerDocument
  <2>2. document'[d].status # "received"
    BY <1>0, <1>3 DEF Rewritten, TablesAgree, OneProposalPerDocument
  <2> QED BY <1>0, <1>1, <1>3, <2>1, <2>2 DEF TablesAgree, OneProposalPerDocument
<1>6. OpenProposalsHaveNoEntry'
  <2>1. ~B!Undecided(p) => ~B!Undecided(p)'
    BY <1>3 DEF Rewritten, B!Undecided
  <2> QED BY <1>0, <1>2, <1>3, <2>1 DEF TablesAgree, OpenProposalsHaveNoEntry, B!Undecided
<1>7. ProposalsAgree'
  <2> SUFFICES ASSUME NEW q \in DOMAIN proposal
               PROVE  /\ proposal'[q].status = document'[proposal[q].document].status
                      /\ proposal'[q].posted_name = document'[proposal[q].document].posted_name
                      /\ proposal'[q].status = "posted" =>
                           /\ proposal'[q].posted_name \in B!Submitted
                           /\ voucher[proposal'[q].posted_name].proposal = q
    BY <1>2, <1>3 DEF ProposalsAgree
  <2>1. /\ proposal[q].status = document[proposal[q].document].status
        /\ proposal[q].posted_name = document[proposal[q].document].posted_name
        /\ proposal[q].status = "posted" =>
             /\ proposal[q].posted_name \in B!Submitted
             /\ voucher[proposal[q].posted_name].proposal = q
        /\ proposal[q].document \in DOMAIN document
    BY <1>0 DEF TablesAgree, RowsAgree, ProposalsAgree, OneProposalPerDocument
  <2>2. CASE q = p
    BY <2>1, <2>2, <1>3 DEF Rewritten
  <2>3. CASE q # p
    BY <2>1, <2>3, <1>1, <1>3
  <2> QED BY <2>2, <2>3
<1>8. EntriesCarryTheirProposal'
  <2>1. firstWins => EntriesOf(p) = {}
    BY <1>0, <1>3 DEF Rewritten, TablesAgree, OpenProposalsHaveNoEntry
  <2> QED BY <1>0, <1>2, <1>3, <2>1 DEF TablesAgree, RowsAgree, EntriesCarryTheirProposal, rules
<1>9. ReversalsUndoEntries'
  BY <1>0, <1>2 DEF TablesAgree, RowsAgree, ReversalsUndoEntries, B!IsReversal
<1>10. Forward
  BY <1>3 DEF Rewritten, Forward, B!Undecided
<1>11. LateJobsAreCounted'
  <2>1. /\ DOMAIN job' = Workers
        /\ \A x \in RunningJobs' : x \in RunningJobs /\ job'[x] = job[x]
    BY <1>0, JobEnds DEF LateJobsAreCounted
  <2>2. crew \in Nat /\ UNCHANGED crew /\ IsFiniteSet(DOMAIN voucher')
    BY <1>0, CrewIsANumber DEF rules, LateJobsAreCounted
  <2>3. \A q \in DOMAIN proposal' : EntriesOf(q)' # {} =>
          q \in DOMAIN proposal /\ EntriesOf(q)' = EntriesOf(q)
    BY <1>2, <1>3
  <2> QED BY <1>0, <2>1, <2>2, <2>3, JobsAssumption, CountsStay
<1>12. TablesAgree'
  BY <1>5, <1>6, <1>7, <1>8, <1>9 DEF TablesAgree, RowsAgree
<1> QED BY <1>4, <1>10, <1>11, <1>12, CommitKeeps

LEMMA ChangeKeeps ==
  ASSUME IInv, NEW w \in Workers, ChangeAccountJob(w)
  PROVE  IInv' /\ Forward
<1>0. TypeOK /\ B!TypeOK /\ JobsRemember /\ TablesAgree
  BY DEF IInv, TypeOK
<1>1. PICK p : p = job[w].task.proposal
  OBVIOUS
<1>2. PICK d : d = proposal[p].document
  OBVIOUS
<1>3. /\ job[w].task \in Tasks /\ job[w].task.op = "change" /\ Remembers(w) /\ job[w] # Idle
  BY <1>0, RunningJobSees DEF ChangeAccountJob, Running
<1>4. job[w].task.account \in Accounts /\ p \in DOMAIN job[w].seen.proposal /\ p \in DOMAIN proposal
  BY <1>1, <1>3, TaskShape DEF Remembers
<1>5. proposal[p] \in B!ProposalRow /\ d \in DOMAIN document /\ document[d] \in B!DocumentRow
  BY <1>0, <1>2, <1>4 DEF B!TypeOK, TablesAgree, OneProposalPerDocument
<1>6. /\ DOMAIN proposal' = DOMAIN proposal
      /\ proposal'[p] = [proposal[p] EXCEPT !.account = job[w].task.account]
      /\ \A q \in DOMAIN proposal : q # p => proposal'[q] = proposal[q]
  BY <1>1, <1>4 DEF ChangeAccountJob
<1>7. /\ proposal'[p] \in B!ProposalRow /\ proposal'[p].status = proposal[p].status
      /\ proposal'[p].document = d /\ proposal'[p].posted_name = proposal[p].posted_name
  BY <1>2, <1>4, <1>5, <1>6 DEF B!ProposalRow
<1>8. firstWins => B!Undecided(p)
  BY <1>1 DEF ChangeAccountJob, Writable, S!Undecided, B!Undecided
<1>9. UNCHANGED <<document, voucher, period, today, rules>> /\ Finish(w)
  BY DEF ChangeAccountJob
<1>10. Rewritten(p, d)
  BY <1>2, <1>4, <1>5, <1>6, <1>7, <1>8, <1>9 DEF Rewritten
<1> QED BY <1>3, <1>9, <1>10, RewriteKeeps

LEMMA RejectKeeps ==
  ASSUME IInv, NEW w \in Workers, RejectJob(w)
  PROVE  IInv' /\ Forward
<1>0. TypeOK /\ B!TypeOK /\ JobsRemember /\ TablesAgree
  BY DEF IInv, TypeOK
<1>1. PICK p : p = job[w].task.proposal
  OBVIOUS
<1>2. PICK d : d = proposal[p].document
  OBVIOUS
<1>3. job[w].task.op = "reject" /\ Remembers(w) /\ job[w] # Idle
  BY <1>0, RunningJobSees DEF RejectJob, Running
<1>4. p \in DOMAIN proposal
  BY <1>1, <1>3 DEF Remembers
<1>5. proposal[p] \in B!ProposalRow /\ d \in DOMAIN document /\ document[d] \in B!DocumentRow
  BY <1>0, <1>2, <1>4 DEF B!TypeOK, TablesAgree, OneProposalPerDocument
<1>6. /\ DOMAIN proposal' = DOMAIN proposal
      /\ proposal'[p] = [proposal[p] EXCEPT !.status = "rejected"]
      /\ \A q \in DOMAIN proposal : q # p => proposal'[q] = proposal[q]
      /\ DOMAIN document' = DOMAIN document
      /\ document'[d] = [document[d] EXCEPT !.status = "rejected"]
      /\ \A e \in DOMAIN document : e # d => document'[e] = document[e]
  BY <1>1, <1>2, <1>4, <1>5 DEF RejectJob
<1>7. /\ proposal'[p] \in B!ProposalRow /\ proposal'[p].status = "rejected"
      /\ proposal'[p].document = d /\ proposal'[p].posted_name = proposal[p].posted_name
  BY <1>2, <1>5, <1>6 DEF B!ProposalRow
<1>8. /\ document'[d] \in B!DocumentRow /\ document'[d].status = "rejected"
      /\ document'[d].posted_name = document[d].posted_name
  BY <1>5, <1>6 DEF B!DocumentRow
<1>9. firstWins => B!Undecided(p)
  BY <1>1 DEF RejectJob, WritableProposal, Writable, S!Undecided, B!Undecided
<1>10. UNCHANGED <<voucher, period, today, rules>> /\ Finish(w)
  BY DEF RejectJob
<1>11. Rewritten(p, d)
  BY <1>2, <1>4, <1>6, <1>7, <1>8, <1>9 DEF Rewritten
<1> QED BY <1>3, <1>10, <1>11, RewriteKeeps

-----------------------------------------------------------------------------
(* A job that writes no row of the three tables: a lock, a reopening, or   *)
(* nothing at all.                                                         *)
LEMMA RowsUntouched ==
  ASSUME TablesAgree, UNCHANGED <<document, proposal, voucher, firstWins>>
  PROVE  TablesAgree' /\ Forward
<1>1. /\ B!Submitted' = B!Submitted
      /\ \A q : EntriesOf(q)' = EntriesOf(q)
  BY EntriesStay
<1>2. OneProposalPerDocument' /\ OpenProposalsHaveNoEntry'
  BY <1>1 DEF TablesAgree, OneProposalPerDocument, OpenProposalsHaveNoEntry, B!Undecided
<1>3. RowsAgree'
  BY <1>1 DEF TablesAgree, RowsAgree, ProposalsAgree, EntriesCarryTheirProposal,
     ReversalsUndoEntries, B!IsReversal
<1>4. Forward
  BY DEF Forward, B!Undecided
<1> QED BY <1>2, <1>3, <1>4 DEF TablesAgree

LEMMA PeriodKeeps ==
  ASSUME IInv, NEW w \in Workers, job[w] # Idle, Finish(w),
         UNCHANGED <<document, proposal, voucher, today, rules>>,
         period' \in [B!Months -> {"none", "enabled", "disabled"}]
  PROVE  IInv' /\ Forward
<1>0. TypeOK /\ B!TypeOK /\ TablesAgree /\ LateJobsAreCounted
  BY DEF IInv, TypeOK
<1>1. TablesAgree' /\ Forward
  BY <1>0, RowsUntouched DEF rules
<1>2. B!TypeOK'
  BY <1>0 DEF B!TypeOK, rules
<1>3. LateJobsAreCounted'
  <2>1. /\ DOMAIN job' = Workers
        /\ \A x \in RunningJobs' : x \in RunningJobs /\ job'[x] = job[x]
    BY <1>0, JobEnds DEF LateJobsAreCounted
  <2>2. crew \in Nat /\ UNCHANGED crew /\ IsFiniteSet(DOMAIN voucher')
    BY <1>0, CrewIsANumber DEF rules, LateJobsAreCounted
  <2>3. \A q : EntriesOf(q)' = EntriesOf(q)
    BY EntriesStay
  <2>4. \A q \in DOMAIN proposal' : EntriesOf(q)' # {} =>
          q \in DOMAIN proposal /\ EntriesOf(q)' = EntriesOf(q)
    BY <2>3
  <2> QED BY <1>0, <2>1, <2>2, <2>4, JobsAssumption, CountsStay
<1> QED BY <1>1, <1>2, <1>3, CommitKeeps

(* Every commit.                                                           *)
LEMMA CommitsKeep ==
  ASSUME IInv, NEW w \in Workers, Commit(w)
  PROVE  IInv' /\ Forward
<1>0. period \in [B!Months -> {"none", "enabled", "disabled"}]
  BY DEF IInv, TypeOK, B!TypeOK
<1>1. ASSUME LockJob(w) \/ ReopenJob(w) PROVE IInv' /\ Forward
  <2>1. /\ job[w] # Idle /\ Finish(w) /\ UNCHANGED <<document, proposal, voucher, today, rules>>
        /\ period' \in [B!Months -> {"none", "enabled", "disabled"}]
    BY <1>0, <1>1 DEF LockJob, ReopenJob, Running
  <2> QED BY <2>1, PeriodKeeps
<1>2. CASE JobChangesNothing(w)
  <2>1. /\ job[w] # Idle /\ Finish(w) /\ UNCHANGED <<document, proposal, voucher, today, rules>>
        /\ period' \in [B!Months -> {"none", "enabled", "disabled"}]
    BY <1>0, <1>2 DEF JobChangesNothing, tables
  <2> QED BY <2>1, PeriodKeeps
<1> QED
  BY <1>1, <1>2, ApproveKeeps, DraftKeeps, ReverseKeeps, ChangeKeeps, RejectKeeps DEF Commit

-----------------------------------------------------------------------------
(* Steps that are no commit: intake, a job that starts, the calendar.      *)

(* No job starts or ends; the tables change where no snapshot looks.       *)
LEMMA BetweenCommits ==
  ASSUME IInv, UNCHANGED <<job, firstWins, crew, rule, accepted, voucher, period>>,
         B!TypeOK', TablesAgree', Forward,
         \A p \in DOMAIN proposal : p \in DOMAIN proposal' /\ proposal'[p] = proposal[p],
         \A p \in DOMAIN proposal' : p \notin DOMAIN proposal => EntriesOf(p)' = {}
  PROVE  IInv'
<1>0. RunningJobs' = RunningJobs /\ \A x \in RunningJobs : job'[x] = job[x]
  BY DEF RunningJobs
<1>1. TypeOK'
  BY <1>0, SnapshotsKeepTypes DEF IInv
<1>2. JobsRemember'
  BY <1>0, JobsKeepRemembering DEF IInv
<1>3. LateJobsAreCounted'
  <2>1. /\ DOMAIN job' = Workers /\ UNCHANGED crew /\ crew \in Nat /\ IsFiniteSet(DOMAIN voucher')
    BY CrewIsANumber DEF IInv, LateJobsAreCounted
  <2>2. \A p : EntriesOf(p)' = EntriesOf(p)
    BY EntriesStay
  <2>3. \A p \in DOMAIN proposal' : EntriesOf(p)' # {} =>
          p \in DOMAIN proposal /\ EntriesOf(p)' = EntriesOf(p)
    BY <2>2
  <2> QED BY <1>0, <2>1, <2>3, JobsAssumption, CountsStay DEF IInv
<1>4. OneWorkerIsUpToDate'
  <2>1. ASSUME crew = 1, NEW x \in RunningJobs, NEW p \in DOMAIN job[x].seen.proposal
        PROVE  proposal'[p] = job[x].seen.proposal[p]
    BY <2>1 DEF IInv, OneWorkerIsUpToDate, JobsRemember, Remembers
  <2> QED BY <1>0, <2>1 DEF IInv, OneWorkerIsUpToDate
<1>5. RulesStayCleared'
  BY DEF IInv, RulesStayCleared, B!Cleared
<1> QED BY <1>1, <1>2, <1>3, <1>4, <1>5 DEF IInv

LEMMA ReceiveKeeps ==
  ASSUME IInv, NEW d \in Documents, B!Receive(d), UNCHANGED <<firstWins, crew, job>>
  PROVE  IInv' /\ Forward
<1>0. TypeOK /\ B!TypeOK /\ TablesAgree
  BY DEF IInv, TypeOK
<1>1. /\ d \notin DOMAIN document
      /\ DOMAIN document' = DOMAIN document \cup {d}
      /\ document'[d] = [status |-> "received", posted_name |-> NoVoucher]
      /\ \A e \in DOMAIN document : document'[e] = document[e]
      /\ UNCHANGED <<proposal, voucher, period, rule, accepted, today>>
  BY DEF B!Receive, B!Put
<1>2. B!TypeOK'
  BY <1>0, <1>1 DEF B!TypeOK, B!DocumentRow
<1>3. /\ B!Submitted' = B!Submitted
      /\ \A q : EntriesOf(q)' = EntriesOf(q)
  BY <1>1, EntriesStay
<1>4. OneProposalPerDocument' /\ OpenProposalsHaveNoEntry'
  BY <1>0, <1>1, <1>3 DEF TablesAgree, OneProposalPerDocument, OpenProposalsHaveNoEntry, B!Undecided
<1>5. RowsAgree'
  BY <1>0, <1>1, <1>3 DEF TablesAgree, OneProposalPerDocument, RowsAgree, ProposalsAgree,
     EntriesCarryTheirProposal, ReversalsUndoEntries, B!IsReversal
<1>6. Forward
  BY <1>1 DEF Forward, B!Undecided
<1>7. TablesAgree'
  BY <1>4, <1>5 DEF TablesAgree
<1> QED BY <1>1, <1>2, <1>6, <1>7, BetweenCommits

LEMMA ProposeKeeps ==
  ASSUME IInv, NEW d \in Documents, NEW p \in Proposals, NEW m \in B!Months, NEW r \in Rules,
         NEW a \in Accounts, NEW doubts \in BOOLEAN, B!Propose(d, p, m, r, a, doubts),
         UNCHANGED <<firstWins, crew, job>>
  PROVE  IInv' /\ Forward
<1> DEFINE row == [status |-> "proposed", kind |-> "receipt", document |-> d, month |-> m,
                   rule |-> r, account |-> a, needs_accountant |-> doubts \/ ~B!Cleared(r),
                   posted_name |-> NoVoucher]
<1>0. TypeOK /\ B!TypeOK /\ TablesAgree
  BY DEF IInv, TypeOK
<1>1. /\ row \in B!ProposalRow
      /\ row.status = "proposed" /\ row.document = d /\ row.posted_name = NoVoucher
  BY DEF B!ProposalRow
<1>2. /\ d \in DOMAIN document /\ document[d].status = "received" /\ p \notin DOMAIN proposal
      /\ proposal' = B!Put(proposal, p, row)
      /\ document' = [document EXCEPT ![d].status = "proposed"]
      /\ UNCHANGED <<voucher, period, rule, accepted, today>>
  BY DEF B!Propose
<1> HIDE DEF row
<1>3. /\ DOMAIN proposal' = DOMAIN proposal \cup {p} /\ proposal'[p] = row
      /\ \A q \in DOMAIN proposal : proposal'[q] = proposal[q]
  BY <1>2 DEF B!Put
<1>4. document[d] \in B!DocumentRow /\ document[d].posted_name = NoVoucher
  BY <1>0, <1>2 DEF B!TypeOK, TablesAgree, OneProposalPerDocument
<1>5. /\ DOMAIN document' = DOMAIN document /\ document'[d] \in B!DocumentRow
      /\ document'[d].status = "proposed" /\ document'[d].posted_name = NoVoucher
      /\ \A e \in DOMAIN document : e # d => document'[e] = document[e]
  BY <1>2, <1>4 DEF B!DocumentRow
<1>6. B!TypeOK'
  BY <1>0, <1>1, <1>2, <1>3, <1>5 DEF B!TypeOK
<1>7. \A q \in DOMAIN proposal : proposal[q].document # d
  BY <1>0, <1>2 DEF TablesAgree, OneProposalPerDocument
<1>8. /\ B!Submitted' = B!Submitted
      /\ \A q : EntriesOf(q)' = EntriesOf(q)
  BY <1>2, EntriesStay
<1>9. EntriesOf(p) = {}
  BY <1>0, <1>2 DEF TablesAgree, OpenProposalsHaveNoEntry, EntriesOf, B!Submitted
<1>10. OneProposalPerDocument'
  BY <1>0, <1>1, <1>2, <1>3, <1>5, <1>7 DEF TablesAgree, OneProposalPerDocument
<1>11. OpenProposalsHaveNoEntry'
  BY <1>0, <1>2, <1>3, <1>8, <1>9 DEF TablesAgree, OpenProposalsHaveNoEntry, B!Undecided
<1>12. ProposalsAgree'
  <2>1. \A q \in DOMAIN proposal : proposal[q].document \in DOMAIN document
    BY <1>0 DEF TablesAgree, OneProposalPerDocument
  <2> SUFFICES ASSUME NEW q \in DOMAIN proposal'
               PROVE  /\ proposal'[q].status = document'[proposal'[q].document].status
                      /\ proposal'[q].posted_name = document'[proposal'[q].document].posted_name
                      /\ proposal'[q].status = "posted" =>
                           /\ proposal'[q].posted_name \in B!Submitted
                           /\ voucher[proposal'[q].posted_name].proposal = q
    BY <1>2, <1>8 DEF ProposalsAgree
  <2>2. CASE q = p
    BY <2>2, <1>1, <1>3, <1>5
  <2>3. CASE q # p
    BY <2>1, <2>3, <1>0, <1>3, <1>5, <1>7 DEF TablesAgree, RowsAgree, ProposalsAgree
  <2> QED BY <2>2, <2>3
<1>13. EntriesCarryTheirProposal' /\ ReversalsUndoEntries'
  BY <1>0, <1>2, <1>3, <1>8, <1>9 DEF TablesAgree, RowsAgree, EntriesCarryTheirProposal,
     ReversalsUndoEntries, B!IsReversal
<1>14. Forward
  BY <1>2, <1>3 DEF Forward, B!Undecided
<1>15. TablesAgree'
  BY <1>10, <1>11, <1>12, <1>13 DEF TablesAgree, RowsAgree
<1> QED BY <1>2, <1>3, <1>6, <1>8, <1>9, <1>14, <1>15, BetweenCommits

LEMMA TickKeeps ==
  ASSUME IInv, Tick
  PROVE  IInv' /\ Forward
<1>0. TypeOK /\ B!TypeOK /\ TablesAgree /\ LastMonth \in Nat
  BY JobsAssumption DEF IInv, TypeOK, B!BooksAssumption
<1>1. UNCHANGED <<document, proposal, voucher, period, rule, accepted, firstWins, crew, job>>
  BY DEF Tick, B!Tick
<1>2. today' \in B!Day
  <2>1. [today EXCEPT !.day = "last"] \in B!Day
    BY <1>0 DEF B!TypeOK, B!Day
  <2>2. today.month < LastMonth => [month |-> today.month + 1, day |-> "inside"] \in B!Day
    BY <1>0 DEF B!TypeOK, B!Day, B!Months
  <2> QED BY <2>1, <2>2 DEF Tick, B!Tick
<1>3. B!TypeOK'
  BY <1>0, <1>1, <1>2 DEF B!TypeOK
<1>4. TablesAgree' /\ Forward
  BY <1>0, <1>1, RowsUntouched
<1> QED BY <1>1, <1>3, <1>4, BetweenCommits

(* A job starts with the tables as they are: it cannot be late for what is *)
(* posted already.                                                         *)
LEMMA StartKeeps ==
  ASSUME IInv, NEW w \in Workers, NEW task \in Tasks, Start(w, task)
  PROVE  IInv' /\ Forward
<1>0. TypeOK /\ B!TypeOK /\ TablesAgree /\ JobsRemember /\ LateJobsAreCounted
  BY DEF IInv, TypeOK
<1>1. /\ job[w] = Idle /\ Cardinality(RunningJobs) < crew
      /\ job' = [job EXCEPT ![w] = [task |-> task, seen |-> Snapshot]]
      /\ UNCHANGED <<document, proposal, voucher, period, today, rule, accepted, firstWins, crew>>
  BY DEF Start, tables, rules, RunningJobs
<1>2. /\ DOMAIN job' = Workers
      /\ job'[w].task = task
      /\ job'[w].seen.document = document /\ job'[w].seen.proposal = proposal
      /\ job'[w].seen.voucher = voucher /\ job'[w].seen.period = period
      /\ \A x \in Workers : x # w => job'[x] = job[x]
  BY <1>0, <1>1 DEF LateJobsAreCounted, Snapshot
<1>3. RunningJobs' \subseteq RunningJobs \cup {w} /\ w \notin RunningJobs
  BY <1>1, <1>2 DEF RunningJobs
<1>4. TablesAgree' /\ Forward /\ B!TypeOK'
  BY <1>0, <1>1, RowsUntouched DEF B!TypeOK
<1>5. TypeOK'
  <2>1. S(w)!TypeOK'
    BY <1>2, <1>4, <1>1
    DEF B!TypeOK, B!DocumentRow, B!ProposalRow, B!VoucherRow, B!RuleRow, B!Months, B!Users, B!Day,
        S!TypeOK, S!DocumentRow, S!ProposalRow, S!VoucherRow, S!RuleRow, S!Months, S!Users, S!Day
  <2>2. ASSUME NEW x \in Workers, x # w, job'[x] # Idle
        PROVE  job'[x].task \in Tasks /\ S(x)!TypeOK'
    <3>1. job'[x] = job[x] /\ job[x].task \in Tasks /\ S(x)!TypeOK
      BY <1>0, <1>2, <2>2 DEF TypeOK
    <3> QED
      BY <1>1, <3>1
      DEF S!TypeOK, S!DocumentRow, S!ProposalRow, S!VoucherRow, S!RuleRow, S!Months, S!Users, S!Day
  <2> QED BY <1>0, <1>1, <1>2, <1>4, <2>1, <2>2 DEF TypeOK
<1>6. JobsRemember'
  <2>1. Remembers(w)'
    BY <1>0, <1>1, <1>2 DEF Remembers, Start, OnACard, S!Undecided, B!Undecided
  <2>2. ASSUME NEW x \in RunningJobs, x # w PROVE Remembers(x)'
    <3>1. Remembers(x) /\ job'[x] = job[x]
      BY <1>0, <1>2, <2>2 DEF JobsRemember, RunningJobs
    <3> QED BY <1>1, <3>1 DEF Remembers, S!Undecided, B!Undecided
  <2> QED BY <1>3, <2>1, <2>2 DEF JobsRemember
<1>7. LateJobsAreCounted'
  <2>1. RunningJobs \in SUBSET Workers
    BY DEF RunningJobs
  <2>2. IsFiniteSet(RunningJobs) /\ Cardinality(RunningJobs) \in Nat /\ crew \in Nat
    BY <1>0, <2>1, JobsAssumption, FS_Subset, FS_CardinalityType, CrewIsANumber
  <2>3. IsFiniteSet(RunningJobs \cup {w}) /\ Cardinality(RunningJobs \cup {w}) = Cardinality(RunningJobs) + 1
    BY <1>3, <2>2, FS_AddElement
  <2>4. RunningJobs' \in SUBSET (RunningJobs \cup {w})
    BY <1>3
  <2>5. Cardinality(RunningJobs') <= Cardinality(RunningJobs \cup {w}) /\ Cardinality(RunningJobs') \in Nat
    BY <2>3, <2>4, FS_Subset, FS_CardinalityType
  <2>6. Cardinality(RunningJobs') <= crew
    BY <1>1, <2>2, <2>3, <2>5
  <2>7. ASSUME NEW p \in DOMAIN proposal, EntriesOf(p) # {}
        PROVE  Cardinality(EntriesOf(p)) + Cardinality(Late(p)') <= crew
    <3>1. Late(p)' \subseteq Late(p)
      <4>1. ~B!Undecided(p)
        BY <1>0, <2>7 DEF TablesAgree, OpenProposalsHaveNoEntry
      <4> QED BY <1>2, <1>3, <4>1 DEF Late, S!Undecided, B!Undecided, RunningJobs
    <3>2. Late(p) \in SUBSET RunningJobs /\ EntriesOf(p) \in SUBSET DOMAIN voucher
      BY DEF Late, EntriesOf, B!Submitted
    <3>3. /\ IsFiniteSet(Late(p)) /\ Cardinality(Late(p)) \in Nat
          /\ IsFiniteSet(EntriesOf(p)) /\ Cardinality(EntriesOf(p)) \in Nat
      BY <1>0, <2>2, <3>2, FS_Subset, FS_CardinalityType DEF LateJobsAreCounted
    <3>4. Cardinality(Late(p)') <= Cardinality(Late(p)) /\ Cardinality(Late(p)') \in Nat
      BY <3>1, <3>3, FS_Subset, FS_CardinalityType
    <3>5. Cardinality(EntriesOf(p)) + Cardinality(Late(p)) <= crew
      BY <1>0, <2>7 DEF LateJobsAreCounted
    <3> QED BY <2>2, <3>3, <3>4, <3>5
  <2>8. \A p : EntriesOf(p)' = EntriesOf(p)
    BY <1>1, EntriesStay
  <2>9. IsFiniteSet(DOMAIN voucher)
    BY <1>0 DEF LateJobsAreCounted
  <2> QED BY <1>1, <1>2, <2>6, <2>7, <2>8, <2>9 DEF LateJobsAreCounted
<1>8. OneWorkerIsUpToDate'
  BY <1>1, <1>2, <1>3 DEF IInv, OneWorkerIsUpToDate, RunningJobs
<1>9. RulesStayCleared'
  BY <1>1 DEF IInv, RulesStayCleared, B!Cleared
<1> QED BY <1>4, <1>5, <1>6, <1>7, <1>8, <1>9 DEF IInv

-----------------------------------------------------------------------------
(* The tables are empty and nobody works.                                  *)
LEMMA InitInv == Init => IInv
<1> SUFFICES ASSUME Init PROVE IInv
  OBVIOUS
<1>1. DOMAIN document = {} /\ DOMAIN proposal = {} /\ DOMAIN voucher = {}
  BY DEF Init, B!Init, B!Empty
<1>2. RunningJobs = {} /\ DOMAIN job = Workers
  BY DEF Init, RunningJobs
<1>3. B!TypeOK
  BY <1>1, JobsAssumption DEF Init, B!Init, B!TypeOK, B!Months, B!Day, B!RuleRow, B!BooksAssumption
<1>4. TypeOK
  BY <1>2, <1>3, JobsAssumption DEF Init, TypeOK, RunningJobs
<1>5. TablesAgree
  BY <1>1 DEF TablesAgree, OneProposalPerDocument, OpenProposalsHaveNoEntry, RowsAgree,
     ProposalsAgree, EntriesCarryTheirProposal, ReversalsUndoEntries, B!Submitted
<1>6. LateJobsAreCounted
  BY <1>1, <1>2, <1>4, CrewIsANumber, FS_EmptySet DEF LateJobsAreCounted
<1> QED
  BY <1>2, <1>4, <1>5, <1>6 DEF IInv, JobsRemember, OneWorkerIsUpToDate, Init, RulesStayCleared

(* Every step keeps the invariant and moves the tables forward.            *)
LEMMA NextKeeps ==
  ASSUME IInv, Next
  PROVE  IInv' /\ Forward
<1>1. CASE Intake
  <2>1. PICK d \in Documents, p \in Proposals, m \in B!Months, r \in Rules, a \in Accounts,
             doubts \in BOOLEAN : ReceiveAndPropose(d, p, m, r, a, doubts)
    BY <1>1 DEF Intake
  <2> QED BY <2>1, ReceiveKeeps, ProposeKeeps DEF ReceiveAndPropose
<1>2. ASSUME NEW w \in Workers, Commit(w) PROVE IInv' /\ Forward
  BY <1>2, CommitsKeep
<1>3. ASSUME NEW w \in Workers, NEW task \in Tasks, Start(w, task) PROVE IInv' /\ Forward
  BY <1>3, StartKeeps
<1>4. CASE Tick
  BY <1>4, TickKeeps
<1> QED BY <1>1, <1>2, <1>3, <1>4 DEF Next

LEMMA StepKeeps == IInv /\ [Next]_vars => IInv'
<1> SUFFICES ASSUME IInv, [Next]_vars PROVE IInv'
  OBVIOUS
<1>1. CASE Next
  BY <1>1, NextKeeps
<1>2. CASE UNCHANGED vars
  <2>1. /\ UNCHANGED <<document, proposal, voucher, period, rule, accepted, today>>
        /\ UNCHANGED <<firstWins, crew, job>>
    BY <1>2 DEF vars
  <2>2. TablesAgree' /\ Forward /\ B!TypeOK'
    BY <2>1, RowsUntouched DEF IInv, TypeOK, B!TypeOK
  <2>3. /\ \A p \in DOMAIN proposal : p \in DOMAIN proposal' /\ proposal'[p] = proposal[p]
        /\ \A p \in DOMAIN proposal' : p \in DOMAIN proposal
    BY <2>1
  <2>4. UNCHANGED <<job, firstWins, crew, rule, accepted, voucher, period>>
    BY <2>1
  <2> QED BY <2>2, <2>3, <2>4, BetweenCommits
<1> QED BY <1>1, <1>2

LEMMA Invariance == Spec => []IInv
  BY InitInv, StepKeeps, PTL DEF Spec

(* Jobs, snapshots and tables have their types.                            *)
THEOREM JobsAreTyped == Spec => []TypeOK
<1>1. IInv => TypeOK
  BY DEF IInv
<1> QED BY <1>1, Invariance, PTL

(* Whatever overlaps, proposal, document and voucher agree, an entry says  *)
(* what its proposal says if the first committer wins, and a reversal      *)
(* undoes a submitted entry (post_proposal, reject, change_account,        *)
(* reverse).                                                               *)
THEOREM CommittedRowsAgree == Spec => []RowsAgree
<1>1. IInv => RowsAgree
  BY DEF IInv, TablesAgree
<1> QED BY <1>1, Invariance, PTL

(* A proposal is posted once if the first committer wins, and never more   *)
(* often than the site has workers (approve._decided, POSTABLE_STATUSES).  *)
THEOREM OverlapsAreBounded == Spec => []OverlapsPostOncePerWorker
<1>1. ASSUME IInv, NEW p \in DOMAIN proposal
      PROVE  Cardinality(EntriesOf(p)) <= (IF firstWins THEN 1 ELSE crew)
  <2>0. /\ IsFiniteSet(DOMAIN voucher) /\ crew \in Nat
        /\ EntriesOf(p) \in SUBSET DOMAIN voucher /\ Late(p) \in SUBSET Workers
    BY <1>1, CrewIsANumber DEF IInv, LateJobsAreCounted, EntriesOf, B!Submitted, Late, RunningJobs
  <2>1. Cardinality(EntriesOf(p)) \in Nat /\ Cardinality(Late(p)) \in Nat
    BY <2>0, JobsAssumption, FS_Subset, FS_CardinalityType
  <2>2. CASE firstWins
    <3>1. EntriesOf(p) \in SUBSET {proposal[p].posted_name}
      BY <1>1, <2>2 DEF IInv, TablesAgree, RowsAgree, EntriesCarryTheirProposal
    <3>2. IsFiniteSet({proposal[p].posted_name}) /\ Cardinality({proposal[p].posted_name}) = 1
      BY FS_Singleton
    <3> QED BY <2>2, <3>1, <3>2, FS_Subset
  <2>3. CASE ~firstWins
    <3>1. EntriesOf(p) = {} => Cardinality(EntriesOf(p)) = 0
      BY FS_EmptySet
    <3>2. EntriesOf(p) # {} => Cardinality(EntriesOf(p)) + Cardinality(Late(p)) <= crew
      BY <1>1 DEF IInv, LateJobsAreCounted
    <3> QED BY <2>0, <2>1, <2>3, <3>1, <3>2
  <2> QED BY <2>2, <2>3
<1>2. IInv => OverlapsPostOncePerWorker
  BY <1>1 DEF OverlapsPostOncePerWorker
<1> QED BY <1>2, Invariance, PTL

(* No overlap asks for a verdict again, and if the first committer wins a  *)
(* decided proposal never changes (post_proposal, reject, change_account). *)
THEOREM NoVerdictComesBack == Spec => VerdictsAreFinal
<1> DEFINE Final ==
      \A p \in DOMAIN proposal : ~B!Undecided(p) =>
        /\ ~B!Undecided(p)'
        /\ firstWins => proposal'[p] = proposal[p]
<1>1. IInv /\ [Next]_vars => [Final]_vars
  <2>1. ASSUME IInv, Next PROVE Final
    BY <2>1, NextKeeps DEF Forward
  <2> QED BY <2>1
<1>2. VerdictsAreFinal <=> [][Final]_vars
  BY DEF VerdictsAreFinal
<1> HIDE DEF Final
<1> QED BY <1>1, <1>2, Invariance, PTL DEF Spec

-----------------------------------------------------------------------------
(* The proposals are a table: a value is determined by its rows.           *)
ProposalsAreATable == proposal = [q \in DOMAIN proposal |-> proposal[q]]

LEMMA ProposalsStayATable == Spec => []ProposalsAreATable
<1>1. Init => ProposalsAreATable
  BY DEF Init, B!Init, B!Empty, ProposalsAreATable
<1>2. ProposalsAreATable /\ [Next]_vars => ProposalsAreATable'
  <2> SUFFICES ASSUME ProposalsAreATable, [Next]_vars PROVE ProposalsAreATable'
    OBVIOUS
  <2> USE DEF ProposalsAreATable
  <2>1. CASE Intake
    <3>1. PICK d \in Documents, p \in Proposals, m \in B!Months, r \in Rules, a \in Accounts,
               doubts \in BOOLEAN : B!Receive(d) \/ B!Propose(d, p, m, r, a, doubts)
      BY <2>1 DEF Intake, ReceiveAndPropose
    <3>2. CASE B!Receive(d)
      BY <3>2 DEF B!Receive
    <3>3. CASE B!Propose(d, p, m, r, a, doubts)
      <4>1. \A row : proposal' = B!Put(proposal, p, row) => ProposalsAreATable'
        BY DEF B!Put
      <4> QED BY <3>3, <4>1 DEF B!Propose
    <3> QED BY <3>1, <3>2, <3>3
  <2>2. ASSUME NEW w \in Workers, Commit(w) PROVE ProposalsAreATable'
    BY <2>2 DEF Commit, ApproveJob, ApproveJobLeavesDraft, ReverseJob, ChangeAccountJob,
                RejectJob, LockJob, ReopenJob, JobChangesNothing, tables
  <2>3. ASSUME NEW w \in Workers, NEW task \in Tasks, Start(w, task)
        PROVE  ProposalsAreATable'
    BY <2>3 DEF Start, tables
  <2>4. CASE Tick
    BY <2>4 DEF Tick, B!Tick
  <2>5. CASE UNCHANGED vars
    BY <2>5 DEF vars
  <2> QED BY <2>1, <2>2, <2>3, <2>4, <2>5 DEF Next
<1> QED BY <1>1, <1>2, PTL DEF Spec

(* One worker: what a job asked its snapshot still holds of the tables, so *)
(* each commit is the step of Books.                                       *)
LEMMA OneWorkerSeesTheTables ==
  ASSUME IInv, crew = 1, NEW w \in Workers, job[w] # Idle
  PROVE  /\ job[w].seen.voucher = voucher /\ job[w].seen.period = period
         /\ Remembers(w) /\ job[w].task \in Tasks
         /\ \A p \in DOMAIN job[w].seen.proposal :
              p \in DOMAIN proposal /\ job[w].seen.proposal[p] = proposal[p]
<1>1. w \in RunningJobs
  BY DEF RunningJobs
<1> QED BY <1>1 DEF IInv, OneWorkerIsUpToDate, TypeOK, JobsRemember, Remembers

LEMMA OneWorkerApproves ==
  ASSUME IInv, crew = 1, NEW w \in Workers, NEW v \in Vouchers,
         ApproveJob(w, v) \/ ApproveJobLeavesDraft(w, v)
  PROVE  B!Decide
<1> DEFINE p == job[w].task.proposal
           u == job[w].task.user
<1>1. /\ job[w].seen.voucher = voucher /\ job[w].seen.period = period
      /\ Remembers(w) /\ job[w].task \in Tasks /\ job[w].task.op = "approve"
      /\ \A q \in DOMAIN job[w].seen.proposal :
           q \in DOMAIN proposal /\ job[w].seen.proposal[q] = proposal[q]
  BY OneWorkerSeesTheTables DEF ApproveJob, ApproveJobLeavesDraft, Running
<1>2. p \in DOMAIN proposal /\ job[w].seen.proposal[p] = proposal[p]
  BY <1>1 DEF Remembers
<1>3. u \in B!Users /\ p \in Proposals
  BY <1>1, TaskShape
<1>4. S(w)!MayPost(u, p) => B!MayPost(u, p)
  BY <1>1, <1>2
  DEF S!MayPost, S!Undecided, S!CanApprove, S!OwnerPolicyAllows, S!Cleared, S!Closed,
      B!MayPost, B!Undecided, B!CanApprove, B!OwnerPolicyAllows, B!Cleared, B!Closed
<1>5. /\ S(w)!EntryOf(u, p, 0) = B!EntryOf(u, p, 0)
      /\ S(w)!EntryOf(u, p, 1) = B!EntryOf(u, p, 1)
  BY <1>2 DEF S!EntryOf, B!EntryOf
<1>6. CASE ApproveJob(w, v)
  <2>1. B!Approve(u, p, v)
    BY <1>2, <1>4, <1>5, <1>6 DEF ApproveJob, B!Approve, rules
  <2> QED BY <1>3, <2>1 DEF B!Decide
<1>7. CASE ApproveJobLeavesDraft(w, v)
  <2>1. B!ApproveLeavesDraft(u, p, v)
    BY <1>2, <1>4, <1>5, <1>7 DEF ApproveJobLeavesDraft, B!ApproveLeavesDraft, rules
  <2> QED BY <1>3, <2>1 DEF B!Decide
<1> QED BY <1>6, <1>7

LEMMA OneWorkerReverses ==
  ASSUME IInv, crew = 1, NEW w \in Workers, NEW x \in Vouchers, ReverseJob(w, x)
  PROVE  B!Correct
<1> DEFINE v == job[w].task.voucher
           u == job[w].task.user
<1>1. /\ job[w].seen.voucher = voucher /\ job[w].seen.period = period
      /\ job[w].task \in Tasks /\ job[w].task.op = "reverse"
  BY OneWorkerSeesTheTables DEF ReverseJob, Running
<1>2. u \in B!Users /\ v \in Vouchers
  BY <1>1, TaskShape
<1>3. S(w)!MayReverse(u, v) => B!MayReverse(u, v)
  BY <1>1
  DEF S!MayReverse, S!Submitted, S!IsReversal, S!AlreadyReversed, S!Closed, S!ReversalMonth,
      B!MayReverse, B!Submitted, B!IsReversal, B!AlreadyReversed, B!Closed, B!ReversalMonth
<1>4. S(w)!ReversalOf(u, v, 1) = B!ReversalOf(u, v, 1)
  BY <1>1 DEF S!ReversalOf, B!ReversalOf, S!ReversalMonth, B!ReversalMonth, S!Closed, B!Closed
<1>5. B!ReverseDuplicate(u, v, x)
  BY <1>3, <1>4 DEF ReverseJob, B!ReverseDuplicate, rules
<1> QED BY <1>2, <1>5 DEF B!Correct

LEMMA OneWorkerDecides ==
  ASSUME IInv, ProposalsAreATable, crew = 1, NEW w \in Workers, ChangeAccountJob(w) \/ RejectJob(w)
  PROVE  B!Decide \/ UNCHANGED <<document, proposal, voucher, period, rule, accepted, today>>
<1> DEFINE p == job[w].task.proposal
<1>1. /\ Remembers(w) /\ job[w].task \in Tasks /\ job[w].task.op \in {"change", "reject"}
      /\ \A q \in DOMAIN job[w].seen.proposal :
           q \in DOMAIN proposal /\ job[w].seen.proposal[q] = proposal[q]
  BY OneWorkerSeesTheTables DEF ChangeAccountJob, RejectJob, Running
<1>2. p \in DOMAIN proposal /\ job[w].seen.proposal[p] = proposal[p] /\ p \in Proposals
  BY <1>1, TaskShape DEF Remembers
<1>3. S(w)!Undecided(p) => B!Undecided(p)
  BY <1>2 DEF S!Undecided, B!Undecided
<1>4. CASE RejectJob(w)
  <2>1. B!Reject(p)
    BY <1>2, <1>3, <1>4 DEF RejectJob, B!Reject, rules
  <2> QED BY <1>2, <2>1 DEF B!Decide
<1>5. CASE ChangeAccountJob(w)
  <2> DEFINE a == job[w].task.account
  <2>1. a \in Accounts
    BY <1>1, <1>5, TaskShape DEF ChangeAccountJob, Running
  <2>2. proposal' = [proposal EXCEPT ![p].account = a]
    BY <1>5 DEF ChangeAccountJob
  <2>3. CASE a = proposal[p].account
    <3>1. proposal[p] \in B!ProposalRow
      BY <1>2 DEF IInv, TypeOK, B!TypeOK
    <3>2. [proposal[p] EXCEPT !.account = a] = proposal[p]
      BY <2>3, <3>1 DEF B!ProposalRow
    <3>3. proposal' = [q \in DOMAIN proposal |-> proposal[q]]
      BY <1>2, <2>2, <3>2
    <3>4. proposal' = proposal
      BY <3>3 DEF ProposalsAreATable
    <3> QED BY <1>5, <3>4 DEF ChangeAccountJob, rules
  <2>4. CASE a # proposal[p].account
    <3>1. PICK u \in B!Users : u = job[w].task.user
      BY <1>1, <1>5 DEF ChangeAccountJob, Running, Tasks
    <3>2. B!ChangeAccount(u, p, a)
      BY <1>2, <1>3, <1>5, <2>4 DEF ChangeAccountJob, B!ChangeAccount, rules
    <3> QED BY <1>2, <2>1, <3>2 DEF B!Decide
  <2> QED BY <2>3, <2>4
<1> QED BY <1>4, <1>5

LEMMA OneWorkerCloses ==
  ASSUME IInv, crew = 1, NEW w \in Workers, LockJob(w) \/ ReopenJob(w)
  PROVE  B!Close
<1> DEFINE m == job[w].task.month
<1>1. /\ job[w].seen.period = period /\ job[w].task \in Tasks
      /\ job[w].task.op \in {"lock", "reopen"}
  BY OneWorkerSeesTheTables DEF LockJob, ReopenJob, Running
<1>2. m \in B!Months
  BY <1>1, TaskShape
<1>3. S(w)!Closed(m) <=> B!Closed(m)
  BY <1>1 DEF S!Closed, B!Closed
<1>4. CASE LockJob(w)
  <2>1. B!UnverifiedProposals(m) = {}
    BY DEF B!UnverifiedProposals, IInv, RulesStayCleared, TypeOK, B!TypeOK, B!ProposalRow
  <2>2. B!LockChecks(m)
    BY <1>3, <1>4, <2>1 DEF LockJob, S!LockChecks, B!LockChecks, S!Ended, B!Ended
  <2>3. B!Lock(m)
    BY <1>4, <2>2 DEF LockJob, B!Lock, B!PeriodNameIsFree, rules
  <2> QED BY <1>2, <2>3 DEF B!Close
<1>5. CASE ReopenJob(w)
  <2>1. B!Reopen(m)
    BY <1>3, <1>5 DEF ReopenJob, B!Reopen, rules
  <2> QED BY <1>2, <2>1 DEF B!Close
<1> QED BY <1>4, <1>5

(* Every step of the jobs of one worker is a step of Books or none.        *)
LEMMA OneWorkerStep ==
  ASSUME IInv, ProposalsAreATable, crew = 1, Next
  PROVE  B!Next \/ UNCHANGED <<document, proposal, voucher, period, rule, accepted, today>>
<1>1. CASE Intake
  <2>1. PICK d \in Documents, p \in Proposals, m \in B!Months, r \in Rules, a \in Accounts,
             doubts \in BOOLEAN : B!Receive(d) \/ B!Propose(d, p, m, r, a, doubts)
    BY <1>1 DEF Intake, ReceiveAndPropose
  <2>2. B!Intake
    BY <2>1 DEF B!Intake
  <2> QED BY <2>2 DEF B!Next
<1>2. ASSUME NEW w \in Workers, Commit(w)
      PROVE  B!Next \/ UNCHANGED <<document, proposal, voucher, period, rule, accepted, today>>
  <2>1. CASE JobChangesNothing(w)
    BY <2>1 DEF JobChangesNothing, tables, rules
  <2> QED
    BY <1>2, <2>1, OneWorkerApproves, OneWorkerReverses, OneWorkerDecides, OneWorkerCloses
    DEF Commit, B!Next
<1>3. ASSUME NEW w \in Workers, NEW task \in Tasks, Start(w, task)
      PROVE  UNCHANGED <<document, proposal, voucher, period, rule, accepted, today>>
  BY <1>3 DEF Start, tables, rules
<1>4. CASE Tick
  BY <1>4 DEF Tick, B!Next, B!Close
<1> QED BY <1>1, <1>2, <1>3, <1>4 DEF Next

(* A site of one worker runs the handlers of Books one after the other,    *)
(* although they are jobs that ask a snapshot.                             *)
THEOREM JobsImplementBooks == Spec => ImplementsBooks
<1> DEFINE bvars == <<document, proposal, voucher, period, rule, accepted, today>>
           Alone == crew = 1 => B!Next
<1>1. Init => (crew = 1 => B!Init)
  BY DEF Init
<1>2. IInv /\ ProposalsAreATable /\ [Next]_vars => [Alone]_bvars
  <2> SUFFICES ASSUME IInv, ProposalsAreATable, [Next]_vars, crew = 1 PROVE B!Next \/ UNCHANGED bvars
    OBVIOUS
  <2>1. CASE Next
    BY <2>1, OneWorkerStep
  <2>2. CASE UNCHANGED vars
    BY <2>2 DEF vars
  <2> QED BY <2>1, <2>2
<1>3. ImplementsBooks <=> (crew = 1 => B!Init) /\ [][Alone]_bvars
  BY DEF ImplementsBooks
<1> HIDE DEF Alone, bvars
<1> QED BY <1>1, <1>2, <1>3, Invariance, ProposalsStayATable, PTL DEF Spec
=============================================================================
