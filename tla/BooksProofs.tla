----------------------------- MODULE BooksProofs -----------------------------
(***************************************************************************)
(* Books, proved for every set of documents, proposals, vouchers, users,   *)
(* rules and accounts and for a calendar of any length.                    *)
(*                                                                         *)
(* The invariants of Books lean on each other: that one receipt is live at *)
(* most once needs that nothing is pending on a document that is live, and *)
(* that needs the links between the tables.  IInv is their conjunction.    *)
(***************************************************************************)
EXTENDS Books, TLAPS

(* Every link leads to a row, a proposal's document has left the inbox,    *)
(* and only a standing original is ever the target of a reversal.          *)
Links ==
  /\ \A p \in DOMAIN proposal :
       /\ proposal[p].document \in DOMAIN document
       /\ document[proposal[p].document].status # "received"
  /\ \A v \in DOMAIN voucher :
       /\ voucher[v].proposal \in DOMAIN proposal
       /\ IsReversal(v) =>
            /\ voucher[v].corrects \in Submitted
            /\ ~IsReversal(voucher[v].corrects)

(* A month is only locked once it is over.                                 *)
LockedMonthsAreOver == \A m \in Months : period[m] = "enabled" => Ended(m)

(* What concerns documents, proposals and vouchers only.                   *)
TablesAgree ==
  /\ Links
  /\ OneLiveEntryPerDocument
  /\ ProposalsMirrorBooks
  /\ DocumentTellsTheBooks
  /\ ReversalsBalance
  /\ OnePendingDecision
  /\ OwnersPostOnlySimpleEntries

IInv == TypeOK /\ TablesAgree /\ LockedMonthsAreOver

-----------------------------------------------------------------------------
(* What a handler does to the voucher table, once for all handlers.        *)

(* A row added to the voucher table changes the submitted vouchers by at   *)
(* most itself.                                                            *)
LEMMA AddVoucher ==
  ASSUME NEW v, NEW row, v \notin DOMAIN voucher, voucher' = Put(voucher, v, row)
  PROVE  /\ DOMAIN voucher' = DOMAIN voucher \cup {v}
         /\ voucher'[v] = row
         /\ \A x \in DOMAIN voucher : voucher'[x] = voucher[x]
         /\ row.docstatus = 1 => Submitted' = Submitted \cup {v}
         /\ row.docstatus # 1 => Submitted' = Submitted
<1>1. /\ DOMAIN voucher' = DOMAIN voucher \cup {v}
      /\ voucher'[v] = row
      /\ \A x \in DOMAIN voucher : voucher'[x] = voucher[x]
  BY DEF Put
<1> QED
  BY <1>1 DEF Submitted

(* The tables start empty, and an empty table has no bad row.              *)
LEMMA InitInv == Init => IInv
<1> SUFFICES ASSUME Init PROVE IInv
  OBVIOUS
<1>1. DOMAIN document = {} /\ DOMAIN proposal = {} /\ DOMAIN voucher = {}
  BY DEF Init, Empty
<1>2. Submitted = {}
  BY <1>1 DEF Submitted
<1>3. TypeOK
  BY <1>1, BooksAssumption DEF TypeOK, Init, Months, Day, RuleRow
<1>4. LockedMonthsAreOver
  BY DEF Init, LockedMonthsAreOver
<1> QED
  BY <1>1, <1>2, <1>3, <1>4 DEF IInv, TablesAgree, Links, OneLiveEntryPerDocument, ProposalsMirrorBooks,
     DocumentTellsTheBooks, ReversalsBalance, OnePendingDecision, OwnersPostOnlySimpleEntries

-----------------------------------------------------------------------------
(* Type correctness, one step per handler.                                 *)
LEMMA TypeStep == TypeOK /\ Links /\ [Next]_vars => TypeOK'
<1> SUFFICES ASSUME TypeOK, Links, [Next]_vars PROVE TypeOK'
  OBVIOUS
<1> USE BooksAssumption
<1>1. ASSUME NEW d \in Documents, Receive(d) PROVE TypeOK'
  <2> DEFINE row == [status |-> "received", posted_name |-> NoVoucher]
  <2>1. row \in DocumentRow
    BY DEF DocumentRow
  <2>2. document' = Put(document, d, row)
    BY <1>1 DEF Receive
  <2> HIDE DEF row
  <2> QED BY <1>1, <2>1, <2>2 DEF Put, TypeOK, Receive
<1>2. ASSUME NEW d \in Documents, NEW p \in Proposals, NEW m \in Months, NEW r \in Rules,
             NEW a \in Accounts, NEW doubts \in BOOLEAN, Propose(d, p, m, r, a, doubts)
      PROVE TypeOK'
  <2> DEFINE row == [status |-> "proposed", kind |-> "receipt", document |-> d, month |-> m,
                     rule |-> r, account |-> a, needs_accountant |-> doubts \/ ~Cleared(r),
                     posted_name |-> NoVoucher]
  <2>1. row \in ProposalRow
    BY DEF ProposalRow
  <2>2. proposal' = Put(proposal, p, row)
    BY <1>2 DEF Propose
  <2>3. /\ DOMAIN proposal' \subseteq Proposals
        /\ \A q \in DOMAIN proposal' : proposal'[q] \in ProposalRow
    <3> HIDE DEF row
    <3> QED BY <2>1, <2>2 DEF Put, TypeOK
  <2>4. /\ DOMAIN document' \subseteq Documents
        /\ \A e \in DOMAIN document' : document'[e] \in DocumentRow
    BY <1>2 DEF TypeOK, Propose, DocumentRow
  <2> QED BY <1>2, <2>3, <2>4 DEF TypeOK, Propose
<1>3. ASSUME NEW u \in Users, NEW p \in Proposals, NEW v \in Vouchers, Approve(u, p, v)
      PROVE TypeOK'
  <2>1. proposal[p] \in ProposalRow
    BY <1>3 DEF TypeOK, Approve
  <2>2. EntryOf(u, p, 1) \in VoucherRow
    BY <2>1 DEF EntryOf, VoucherRow, ProposalRow
  <2>3. /\ DOMAIN voucher' \subseteq Vouchers
        /\ \A x \in DOMAIN voucher' : voucher'[x] \in VoucherRow
    BY <1>3, <2>2 DEF Put, TypeOK, Approve
  <2>4. /\ DOMAIN proposal' \subseteq Proposals
        /\ \A q \in DOMAIN proposal' : proposal'[q] \in ProposalRow
    BY <1>3, <2>1 DEF TypeOK, Approve, ProposalRow
  <2>5. /\ DOMAIN document' \subseteq Documents
        /\ \A d \in DOMAIN document' : document'[d] \in DocumentRow
    BY <1>3 DEF TypeOK, Approve, DocumentRow
  <2> QED BY <1>3, <2>3, <2>4, <2>5 DEF TypeOK, Approve
<1>4. ASSUME NEW u \in Users, NEW p \in Proposals, NEW v \in Vouchers, ApproveLeavesDraft(u, p, v)
      PROVE TypeOK'
  <2>1. EntryOf(u, p, 0) \in VoucherRow
    BY <1>4 DEF EntryOf, VoucherRow, ProposalRow, TypeOK, ApproveLeavesDraft
  <2> QED BY <1>4, <2>1 DEF Put, TypeOK, ApproveLeavesDraft
<1>5. ASSUME NEW u \in Users, NEW p \in Proposals, NEW a \in Accounts, ChangeAccount(u, p, a)
      PROVE TypeOK'
  <2> DEFINE row == [proposal[p] EXCEPT !.account = a]
  <2>1. row \in ProposalRow
    BY <1>5 DEF TypeOK, ChangeAccount, ProposalRow
  <2>2. proposal' = [proposal EXCEPT ![p] = row]
    BY <1>5 DEF ChangeAccount
  <2> HIDE DEF row
  <2> QED BY <1>5, <2>1, <2>2 DEF TypeOK, ChangeAccount
<1>6. ASSUME NEW p \in Proposals, Reject(p) PROVE TypeOK'
  BY <1>6 DEF TypeOK, Reject, ProposalRow, DocumentRow
<1>7. ASSUME NEW u \in Users, NEW v \in Vouchers, MayReverse(u, v)
      PROVE /\ ReversalOf(u, v, 0) \in VoucherRow /\ ReversalOf(u, v, 1) \in VoucherRow
            /\ voucher[v].proposal \in DOMAIN proposal
  BY <1>7 DEF ReversalOf, VoucherRow, TypeOK, Links, MayReverse, Submitted, ReversalMonth, Day
<1>8. ASSUME NEW u \in Users, NEW v \in Vouchers, NEW w \in Vouchers,
             ReverseDuplicate(u, v, w) \/ ReverseLeavesDraft(u, v, w)
      PROVE TypeOK'
  BY <1>7, <1>8 DEF Put, TypeOK, ReverseDuplicate, ReverseLeavesDraft
<1>9. ASSUME NEW u \in Users, NEW v \in Vouchers, NEW w \in Vouchers, NEW q \in Proposals,
             ReverseAndCorrect(u, v, w, q)
      PROVE TypeOK'
  <2> DEFINE row == [proposal[voucher[v].proposal] EXCEPT
                       !.status = "proposed", !.kind = "correction",
                       !.needs_accountant = TRUE, !.posted_name = NoVoucher]
  <2>1. MayReverse(u, v)
    BY <1>9 DEF ReverseAndCorrect
  <2>2. proposal[voucher[v].proposal] \in ProposalRow
    BY <2>1, <1>7 DEF TypeOK
  <2>3. row \in ProposalRow
    BY <2>2 DEF ProposalRow
  <2>4. proposal' = Put(proposal, q, row)
    BY <1>9 DEF ReverseAndCorrect
  <2>5. /\ DOMAIN proposal' \subseteq Proposals
        /\ \A x \in DOMAIN proposal' : proposal'[x] \in ProposalRow
    <3> HIDE DEF row
    <3> QED BY <2>3, <2>4 DEF Put, TypeOK
  <2>6. /\ DOMAIN voucher' \subseteq Vouchers
        /\ \A x \in DOMAIN voucher' : voucher'[x] \in VoucherRow
    BY <1>7, <1>9, <2>1 DEF Put, TypeOK, ReverseAndCorrect
  <2> QED BY <1>9, <2>5, <2>6 DEF TypeOK, ReverseAndCorrect
<1>10. ASSUME NEW m \in Months, Lock(m) \/ Reopen(m) PROVE TypeOK'
  BY <1>10 DEF TypeOK, Lock, Reopen
<1>11. CASE Tick
  <2>1. [today EXCEPT !.day = "last"] \in Day
    BY DEF TypeOK, Day
  <2>2. today.month < LastMonth => [month |-> today.month + 1, day |-> "inside"] \in Day
    BY DEF TypeOK, Day, Months
  <2>3. today' \in Day
    BY <1>11, <2>1, <2>2 DEF Tick
  <2> QED BY <1>11, <2>3 DEF TypeOK, Tick
<1>12. ASSUME NEW r \in Rules,
              VerifyRule(r) \/ AcceptRule(r) \/ (\E row \in RuleRow : RewriteRule(r, row))
       PROVE TypeOK'
  <2>1. rule \in [Rules -> RuleRow] /\ [rule[r] EXCEPT !.verified = 1] \in RuleRow
    BY DEF TypeOK, RuleRow
  <2>2. \/ rule' = rule
        \/ rule' = [rule EXCEPT ![r] = [rule[r] EXCEPT !.verified = 1]]
        \/ \E row \in RuleRow : rule' = [rule EXCEPT ![r] = row]
    BY <1>12 DEF VerifyRule, AcceptRule, RewriteRule
  <2>3. rule' \in [Rules -> RuleRow]
    BY <2>1, <2>2
  <2>4. accepted' \subseteq Rules \X Contents
    BY <1>12 DEF TypeOK, VerifyRule, AcceptRule, RewriteRule, RuleRow
  <2> QED BY <1>12, <2>3, <2>4 DEF TypeOK, VerifyRule, AcceptRule, RewriteRule
<1>13. CASE UNCHANGED vars
  BY <1>13 DEF TypeOK, vars
<1> QED
  BY <1>1, <1>2, <1>3, <1>4, <1>5, <1>6, <1>8, <1>9, <1>10, <1>11, <1>12, <1>13
  DEF Next, Intake, Decide, Correct, Close, Govern

(* Locks follow month ends, and time does not run backwards.               *)
LEMMA LockStep == TypeOK /\ LockedMonthsAreOver /\ [Next]_vars => LockedMonthsAreOver'
<1> SUFFICES ASSUME TypeOK, LockedMonthsAreOver, [Next]_vars PROVE LockedMonthsAreOver'
  OBVIOUS
<1>1. CASE UNCHANGED <<period, today>>
  BY <1>1 DEF LockedMonthsAreOver, Ended
<1>2. ASSUME NEW m \in Months, Lock(m) PROVE LockedMonthsAreOver'
  BY <1>2 DEF LockedMonthsAreOver, Lock, LockChecks, Ended, TypeOK, Day
<1>3. ASSUME NEW m \in Months, Reopen(m) PROVE LockedMonthsAreOver'
  BY <1>3 DEF LockedMonthsAreOver, Reopen, Ended, TypeOK
<1>4. CASE Tick
  BY <1>4, BooksAssumption DEF LockedMonthsAreOver, Tick, Ended, TypeOK, Day, Months
<1> QED
  BY <1>1, <1>2, <1>3, <1>4
  DEF Next, Intake, Decide, Correct, Close, Govern, Receive, Propose, Approve,
      ApproveLeavesDraft, ChangeAccount, Reject, ReverseDuplicate, ReverseAndCorrect,
      ReverseLeavesDraft, VerifyRule, AcceptRule, RewriteRule, vars

-----------------------------------------------------------------------------
(* The agreement of the tables, kept by every handler.  "All" below are    *)
(* the operators that read documents, proposals and vouchers.              *)

(* Steps that touch none of the three tables.                              *)
LEMMA TablesUnchanged ==
  TablesAgree /\ UNCHANGED <<document, proposal, voucher>> => TablesAgree'
<1> SUFFICES ASSUME TablesAgree, UNCHANGED <<document, proposal, voucher>> PROVE TablesAgree'
  OBVIOUS
<1> QED
  BY DEF TablesAgree, Links, OneLiveEntryPerDocument, ProposalsMirrorBooks, DocumentTellsTheBooks,
     ReversalsBalance, OnePendingDecision, OwnersPostOnlySimpleEntries, Live, Submitted,
     IsReversal, AlreadyReversed, SourceOf, Undecided

(* A document is received: it has no proposal and no voucher yet.          *)
LEMMA TablesReceive ==
  ASSUME TypeOK, TablesAgree, NEW d \in Documents, Receive(d)
  PROVE  TablesAgree'
<1>1. UNCHANGED <<proposal, voucher>>
  BY DEF Receive
<1>2. DOMAIN document' = DOMAIN document \cup {d} /\ \A e \in DOMAIN document : document'[e] = document[e]
  BY DEF Receive, Put
<1>3. Links'
  BY <1>1, <1>2 DEF TablesAgree, Links, Submitted, IsReversal
<1>4. DocumentTellsTheBooks'
  BY <1>1, <1>2 DEF TablesAgree, Links, DocumentTellsTheBooks, Live, Submitted, IsReversal,
     AlreadyReversed, SourceOf
<1> QED
  BY <1>1, <1>3, <1>4 DEF TablesAgree, OneLiveEntryPerDocument, ProposalsMirrorBooks,
     ReversalsBalance, OnePendingDecision, OwnersPostOnlySimpleEntries, Live, Submitted,
     IsReversal, AlreadyReversed, SourceOf, Undecided

(* A voucher row that is only a draft changes nothing that counts.         *)
LEMMA TablesDraft ==
  ASSUME TypeOK, TablesAgree, UNCHANGED <<document, proposal>>, NEW v, NEW row,
         v \notin DOMAIN voucher, voucher' = Put(voucher, v, row), row.docstatus = 0,
         row.proposal \in DOMAIN proposal,
         row.corrects # NoVoucher => row.corrects \in Submitted /\ ~IsReversal(row.corrects)
  PROVE  TablesAgree'
<1>1. /\ DOMAIN voucher' = DOMAIN voucher \cup {v}
      /\ voucher'[v] = row
      /\ \A x \in DOMAIN voucher : voucher'[x] = voucher[x]
      /\ Submitted' = Submitted
  BY AddVoucher
<1>2. Submitted \subseteq DOMAIN voucher
  BY DEF Submitted
<1>3. \A x \in DOMAIN voucher' : Live(x)' => x \in DOMAIN voucher /\ Live(x) /\ SourceOf(x)' = SourceOf(x)
  BY <1>1, <1>2 DEF Live, IsReversal, AlreadyReversed, SourceOf
<1>4. Links'
  BY <1>1, <1>2 DEF TablesAgree, Links, IsReversal
<1>5. OneLiveEntryPerDocument' /\ DocumentTellsTheBooks' /\ OnePendingDecision'
  BY <1>1, <1>3 DEF TablesAgree, OneLiveEntryPerDocument, DocumentTellsTheBooks,
     OnePendingDecision, Undecided
<1>6. ProposalsMirrorBooks'
  BY <1>1, <1>2 DEF TablesAgree, ProposalsMirrorBooks, IsReversal
<1>7. ReversalsBalance'
  BY <1>1, <1>2 DEF TablesAgree, ReversalsBalance, IsReversal
<1>8. OwnersPostOnlySimpleEntries'
  BY <1>1, <1>2 DEF TablesAgree, OwnersPostOnlySimpleEntries, IsReversal, SourceOf
<1> QED
  BY <1>4, <1>5, <1>6, <1>7, <1>8 DEF TablesAgree

(* A received document gets its first proposal.                            *)
LEMMA TablesPropose ==
  ASSUME TypeOK, TablesAgree, NEW d \in Documents, NEW p \in Proposals, NEW m \in Months,
         NEW r \in Rules, NEW a \in Accounts, NEW doubts \in BOOLEAN,
         Propose(d, p, m, r, a, doubts)
  PROVE  TablesAgree'
<1>1. /\ DOMAIN proposal' = DOMAIN proposal \cup {p}
      /\ p \notin DOMAIN proposal
      /\ \A q \in DOMAIN proposal : proposal'[q] = proposal[q]
      /\ proposal'[p].document = d /\ proposal'[p].status = "proposed"
      /\ UNCHANGED voucher
  BY DEF Propose, Put
<1>2. /\ d \in DOMAIN document /\ document[d].status = "received"
      /\ DOMAIN document' = DOMAIN document
      /\ document'[d].status = "proposed"
      /\ \A e \in DOMAIN document : e # d => document'[e] = document[e]
  BY DEF Propose, TypeOK, DocumentRow
<1>3. \A q \in DOMAIN proposal : proposal[q].document # d
  BY <1>2 DEF TablesAgree, Links
<1>4. \A v \in DOMAIN voucher : voucher[v].proposal \in DOMAIN proposal
  BY DEF TablesAgree, Links
<1>5. \A v \in DOMAIN voucher' : /\ Live(v)' <=> Live(v)
                                 /\ SourceOf(v)' = SourceOf(v) /\ SourceOf(v) # d
  BY <1>1, <1>3, <1>4 DEF Live, Submitted, IsReversal, AlreadyReversed, SourceOf
<1>6. Links'
  BY <1>1, <1>2, <1>4 DEF TablesAgree, Links, Submitted, IsReversal
<1>7. OneLiveEntryPerDocument' /\ DocumentTellsTheBooks'
  BY <1>1, <1>2, <1>5 DEF TablesAgree, Links, OneLiveEntryPerDocument, DocumentTellsTheBooks, SourceOf
<1>8. OnePendingDecision'
  BY <1>1, <1>3, <1>5 DEF TablesAgree, OnePendingDecision, Undecided
<1>9. ProposalsMirrorBooks' /\ ReversalsBalance' /\ OwnersPostOnlySimpleEntries'
  BY <1>1, <1>4, <1>5 DEF TablesAgree, ProposalsMirrorBooks, ReversalsBalance,
     OwnersPostOnlySimpleEntries, Submitted, IsReversal
<1> QED
  BY <1>6, <1>7, <1>8, <1>9 DEF TablesAgree

(* The tap: the proposal is decided, its voucher stands, the document says *)
(* so.  Nothing else stood on the document, because one of its proposals   *)
(* was still pending.                                                      *)
LEMMA TablesApprove ==
  ASSUME TypeOK, TablesAgree, NEW u \in Users, NEW p \in Proposals, NEW v \in Vouchers,
         Approve(u, p, v)
  PROVE  TablesAgree'
<1> DEFINE d == proposal[p].document
<1> USE BooksAssumption
<1>1. /\ p \in DOMAIN proposal /\ Undecided(p) /\ CanApprove(u, p)
      /\ v \notin DOMAIN voucher
      /\ proposal[p] \in ProposalRow
      /\ d \in DOMAIN document
  BY DEF Approve, MayPost, TypeOK, TablesAgree, Links
<1>2. /\ DOMAIN proposal' = DOMAIN proposal
      /\ \A q \in DOMAIN proposal : q # p => proposal'[q] = proposal[q]
      /\ proposal'[p] = [proposal[p] EXCEPT !.status = "posted", !.posted_name = v]
  BY <1>1 DEF Approve, ProposalRow
<1>3. /\ DOMAIN document' = DOMAIN document
      /\ document'[d] = [status |-> "posted", posted_name |-> v]
      /\ \A e \in DOMAIN document : e # d => document'[e] = document[e]
  BY <1>1 DEF Approve
<1>4. /\ DOMAIN voucher' = DOMAIN voucher \cup {v}
      /\ voucher'[v] = EntryOf(u, p, 1)
      /\ \A x \in DOMAIN voucher : voucher'[x] = voucher[x]
      /\ Submitted' = Submitted \cup {v}
  BY AddVoucher DEF Approve, EntryOf
<1>5. Submitted \subseteq DOMAIN voucher
  BY DEF Submitted
<1>6. \A q \in DOMAIN proposal : proposal'[q].document = proposal[q].document
  BY <1>1, <1>2 DEF ProposalRow
<1>7. /\ \A x \in DOMAIN voucher : Live(x)' => Live(x)
      /\ \A x \in DOMAIN voucher : SourceOf(x)' = SourceOf(x)
      /\ SourceOf(v)' = d
  BY <1>1, <1>4, <1>5, <1>6 DEF Live, IsReversal, AlreadyReversed, SourceOf, EntryOf, TablesAgree, Links
<1>8. \A x \in DOMAIN voucher : Live(x) => SourceOf(x) # d
  BY <1>1 DEF TablesAgree, OnePendingDecision
<1>9. Links'
  BY <1>1, <1>2, <1>3, <1>4, <1>5, <1>6 DEF TablesAgree, Links, IsReversal, EntryOf
<1>10. OneLiveEntryPerDocument' /\ DocumentTellsTheBooks'
  <2>1. \A x \in DOMAIN voucher : Live(x) => SourceOf(x) \in DOMAIN document
    BY DEF TablesAgree, Links, SourceOf
  <2> QED BY <1>3, <1>4, <1>7, <1>8, <2>1 DEF TablesAgree, OneLiveEntryPerDocument, DocumentTellsTheBooks
<1>11. ProposalsMirrorBooks'
  <2>1. \A x \in Submitted : ~IsReversal(x) => voucher[x].proposal # p
    BY <1>1 DEF TablesAgree, ProposalsMirrorBooks, Undecided
  <2>2. /\ proposal'[p].status = "posted" /\ proposal'[p].posted_name = v
        /\ proposal'[p].month = voucher'[v].month /\ proposal'[p].account = voucher'[v].account
        /\ voucher'[v].proposal = p
    BY <1>1, <1>2, <1>4 DEF ProposalRow, EntryOf
  <2>3. ASSUME NEW q \in DOMAIN proposal', proposal'[q].status = "posted"
        PROVE  /\ proposal'[q].posted_name \in Submitted'
               /\ voucher'[proposal'[q].posted_name].month = proposal'[q].month
               /\ voucher'[proposal'[q].posted_name].account = proposal'[q].account
    <3>1. CASE q = p
      BY <3>1, <2>2, <1>4
    <3>2. CASE q # p
      BY <3>2, <2>3, <1>2, <1>4, <1>5 DEF TablesAgree, ProposalsMirrorBooks
    <3> QED BY <3>1, <3>2
  <2>4. ASSUME NEW x \in Submitted', ~IsReversal(x)'
        PROVE  /\ proposal'[voucher'[x].proposal].status = "posted"
               /\ proposal'[voucher'[x].proposal].posted_name = x
    <3>1. CASE x = v
      BY <3>1, <2>2
    <3>2. CASE x # v
      BY <3>2, <2>1, <2>4, <1>2, <1>4, <1>5 DEF TablesAgree, Links, ProposalsMirrorBooks, IsReversal
    <3> QED BY <3>1, <3>2
  <2> QED BY <2>3, <2>4 DEF ProposalsMirrorBooks
<1>12. ReversalsBalance'
  <2>1. ~IsReversal(v)' /\ \A x \in Submitted : IsReversal(x)' <=> IsReversal(x)
    BY <1>4, <1>5 DEF IsReversal, EntryOf
  <2> QED BY <1>4, <1>5, <2>1 DEF TablesAgree, ReversalsBalance, IsReversal
<1>13. OnePendingDecision'
  <2>1. \A q \in DOMAIN proposal' : Undecided(q)' => q # p /\ proposal'[q] = proposal[q]
    BY <1>1, <1>2 DEF Undecided, ProposalRow
  <2>2. \A q \in DOMAIN proposal : Undecided(q) /\ q # p => proposal[q].document # d
    BY <1>1 DEF TablesAgree, OnePendingDecision
  <2>3. \A x \in DOMAIN voucher' : Live(x)' => SourceOf(x)' = d \/ (x \in DOMAIN voucher /\ Live(x))
    BY <1>4, <1>7
  <2> QED BY <1>2, <1>4, <1>7, <2>1, <2>2, <2>3 DEF TablesAgree, OnePendingDecision, Undecided
<1>14. OwnersPostOnlySimpleEntries'
  <2>1. u \in Owners => /\ proposal[p].account \in OwnerAccounts
                        /\ ~proposal[p].needs_accountant /\ d \notin OverCap
    BY <1>1 DEF CanApprove, OwnerPolicyAllows
  <2>2. \A q \in DOMAIN proposal : proposal'[q].needs_accountant = proposal[q].needs_accountant
    BY <1>1, <1>2 DEF ProposalRow
  <2>3. \A x \in Submitted : voucher[x].proposal \in DOMAIN proposal
    BY <1>5 DEF TablesAgree, Links
  <2> QED BY <1>1, <1>4, <1>5, <1>7, <2>1, <2>2, <2>3
        DEF TablesAgree, OwnersPostOnlySimpleEntries, IsReversal, EntryOf
<1> QED
  BY <1>9, <1>10, <1>11, <1>12, <1>13, <1>14 DEF TablesAgree

(* A pending proposal gets another account.                                *)
LEMMA TablesChangeAccount ==
  ASSUME TypeOK, TablesAgree, NEW u \in Users, NEW p \in Proposals, NEW a \in Accounts,
         ChangeAccount(u, p, a)
  PROVE  TablesAgree'
<1>1. /\ p \in DOMAIN proposal /\ Undecided(p) /\ proposal[p] \in ProposalRow
      /\ UNCHANGED <<document, voucher>>
      /\ DOMAIN proposal' = DOMAIN proposal
      /\ \A q \in DOMAIN proposal : q # p => proposal'[q] = proposal[q]
      /\ proposal'[p] = [proposal[p] EXCEPT !.account = a]
  BY DEF ChangeAccount, TypeOK
<1>2. \A q \in DOMAIN proposal : /\ proposal'[q].document = proposal[q].document
                                 /\ proposal'[q].status = proposal[q].status
                                 /\ proposal'[q].posted_name = proposal[q].posted_name
                                 /\ proposal'[q].month = proposal[q].month
                                 /\ proposal'[q].needs_accountant = proposal[q].needs_accountant
  BY <1>1 DEF ProposalRow
<1>3. \A v \in DOMAIN voucher : voucher[v].proposal \in DOMAIN proposal
  BY DEF TablesAgree, Links
<1>4. \A v \in DOMAIN voucher : (Live(v)' <=> Live(v)) /\ SourceOf(v)' = SourceOf(v)
  BY <1>1, <1>2, <1>3 DEF Live, Submitted, IsReversal, AlreadyReversed, SourceOf
<1>5. Links' /\ OneLiveEntryPerDocument' /\ DocumentTellsTheBooks' /\ OnePendingDecision'
  BY <1>1, <1>2, <1>3, <1>4 DEF TablesAgree, Links, OneLiveEntryPerDocument,
     DocumentTellsTheBooks, OnePendingDecision, Undecided, Submitted, IsReversal
<1>6. ProposalsMirrorBooks'
  BY <1>1, <1>2, <1>3 DEF TablesAgree, ProposalsMirrorBooks, Undecided, Submitted, IsReversal
<1>7. ReversalsBalance' /\ OwnersPostOnlySimpleEntries'
  BY <1>1, <1>2, <1>3, <1>4 DEF TablesAgree, ReversalsBalance, OwnersPostOnlySimpleEntries,
     Submitted, IsReversal
<1> QED
  BY <1>5, <1>6, <1>7 DEF TablesAgree

(* A pending proposal is rejected, and with it its document, on which      *)
(* nothing stands.                                                         *)
LEMMA TablesReject ==
  ASSUME TypeOK, TablesAgree, NEW p \in Proposals, Reject(p)
  PROVE  TablesAgree'
<1> DEFINE d == proposal[p].document
<1>1. /\ p \in DOMAIN proposal /\ Undecided(p) /\ proposal[p] \in ProposalRow
      /\ d \in DOMAIN document /\ document[d] \in DocumentRow
      /\ UNCHANGED voucher
  BY DEF Reject, TypeOK, TablesAgree, Links
<1>2. /\ DOMAIN proposal' = DOMAIN proposal
      /\ \A q \in DOMAIN proposal : q # p => proposal'[q] = proposal[q]
      /\ proposal'[p] = [proposal[p] EXCEPT !.status = "rejected"]
  BY <1>1 DEF Reject
<1>3. /\ DOMAIN document' = DOMAIN document
      /\ document'[d].status = "rejected"
      /\ \A e \in DOMAIN document : e # d => document'[e] = document[e]
  BY <1>1 DEF Reject, DocumentRow
<1>4. \A q \in DOMAIN proposal : /\ proposal'[q].document = proposal[q].document
                                 /\ proposal'[q].needs_accountant = proposal[q].needs_accountant
                                 /\ proposal'[q].status = "proposed" => proposal'[q] = proposal[q] /\ q # p
                                 /\ proposal'[q].status = "posted" => proposal'[q] = proposal[q]
  BY <1>1, <1>2 DEF ProposalRow
<1>5. \A v \in DOMAIN voucher : voucher[v].proposal \in DOMAIN proposal
  BY DEF TablesAgree, Links
<1>6. \A v \in DOMAIN voucher : (Live(v)' <=> Live(v)) /\ SourceOf(v)' = SourceOf(v)
  BY <1>1, <1>2, <1>4, <1>5 DEF Live, Submitted, IsReversal, AlreadyReversed, SourceOf
<1>7. \A v \in DOMAIN voucher : Live(v) => SourceOf(v) # d
  BY <1>1 DEF TablesAgree, OnePendingDecision
<1>8. Links'
  BY <1>1, <1>2, <1>3, <1>4, <1>5 DEF TablesAgree, Links, Submitted, IsReversal
<1>9. OneLiveEntryPerDocument' /\ DocumentTellsTheBooks' /\ OnePendingDecision'
  <2>1. \A v \in DOMAIN voucher : SourceOf(v) \in DOMAIN document
    BY DEF TablesAgree, Links, SourceOf
  <2> QED BY <1>1, <1>2, <1>3, <1>4, <1>6, <1>7, <2>1 DEF TablesAgree, OneLiveEntryPerDocument,
         DocumentTellsTheBooks, OnePendingDecision, Undecided
<1>10. ProposalsMirrorBooks'
  BY <1>1, <1>2, <1>4, <1>5 DEF TablesAgree, ProposalsMirrorBooks, Undecided, Submitted, IsReversal
<1>11. ReversalsBalance' /\ OwnersPostOnlySimpleEntries'
  BY <1>1, <1>2, <1>4, <1>5, <1>6 DEF TablesAgree, ReversalsBalance, OwnersPostOnlySimpleEntries,
     Submitted, IsReversal
<1> QED
  BY <1>8, <1>9, <1>10, <1>11 DEF TablesAgree

(* A reversal, before anything is said about a correction: the reversed    *)
(* voucher stops standing and nothing else changes.                        *)
LEMMA TablesReversal ==
  ASSUME TypeOK, TablesAgree, LockedMonthsAreOver, NEW u \in Users, NEW v \in Vouchers,
         NEW w \in Vouchers, MayReverse(u, v), w \notin DOMAIN voucher,
         voucher' = Put(voucher, w, ReversalOf(u, v, 1)), UNCHANGED <<document, proposal>>
  PROVE  /\ TablesAgree'
         /\ \A x \in DOMAIN voucher' : Live(x)' => x \in DOMAIN voucher /\ Live(x) /\ x # v
<1> USE BooksAssumption
<1>1. /\ v \in Submitted /\ ~IsReversal(v) /\ ~AlreadyReversed(v) /\ u \in Accountants
      /\ Submitted \subseteq DOMAIN voucher /\ v # w
  BY DEF MayReverse, Submitted
<1>2. /\ DOMAIN voucher' = DOMAIN voucher \cup {w}
      /\ voucher'[w] = ReversalOf(u, v, 1)
      /\ \A x \in DOMAIN voucher : voucher'[x] = voucher[x]
      /\ Submitted' = Submitted \cup {w}
  BY AddVoucher DEF ReversalOf
<1>3. /\ voucher[v] \in VoucherRow /\ v # NoVoucher
      /\ voucher[v].proposal \in DOMAIN proposal
  BY <1>1 DEF TypeOK, TablesAgree, Links
<1>4. voucher[v].month <= ReversalMonth(v)
  BY <1>1, <1>3 DEF LockedMonthsAreOver, Ended, Closed, ReversalMonth, VoucherRow, TypeOK, Day, Months
<1>5. IsReversal(w)' /\ \A x \in DOMAIN voucher : IsReversal(x)' <=> IsReversal(x)
  BY <1>2, <1>3 DEF IsReversal, ReversalOf
<1>6. \A x \in DOMAIN voucher' : Live(x)' => x \in DOMAIN voucher /\ Live(x) /\ x # v
  BY <1>1, <1>2, <1>5 DEF Live, AlreadyReversed, ReversalOf
<1>7. \A x \in DOMAIN voucher : SourceOf(x)' = SourceOf(x)
  BY <1>2 DEF SourceOf
<1>8. Links'
  BY <1>1, <1>2, <1>3, <1>5 DEF TablesAgree, Links, ReversalOf
<1>9. OneLiveEntryPerDocument' /\ DocumentTellsTheBooks' /\ OnePendingDecision'
  BY <1>2, <1>6, <1>7 DEF TablesAgree, OneLiveEntryPerDocument, DocumentTellsTheBooks,
     OnePendingDecision, Undecided
<1>10. ProposalsMirrorBooks'
  BY <1>1, <1>2, <1>5 DEF TablesAgree, ProposalsMirrorBooks
<1>11. ReversalsBalance'
  <2>1. ASSUME NEW y \in Submitted, IsReversal(y)
        PROVE  voucher[y].corrects # v /\ voucher[y].corrects # w
    BY <1>1, <2>1 DEF AlreadyReversed, TablesAgree, Links
  <2> QED BY <1>1, <1>2, <1>3, <1>4, <1>5, <2>1 DEF TablesAgree, ReversalsBalance, ReversalOf, AlreadyReversed
<1>12. OwnersPostOnlySimpleEntries'
  <2>1. voucher'[w].approved_by \notin Owners
    BY <1>1, <1>2 DEF ReversalOf
  <2> QED BY <1>1, <1>2, <1>5, <1>7, <2>1 DEF TablesAgree, OwnersPostOnlySimpleEntries
<1> QED
  BY <1>6, <1>8, <1>9, <1>10, <1>11, <1>12 DEF TablesAgree

(* The correction proposal: the reversed voucher was the only one standing *)
(* on the document and nothing was pending there, so now exactly one       *)
(* decision is.                                                            *)
LEMMA TablesReverseAndCorrect ==
  ASSUME TypeOK, TablesAgree, LockedMonthsAreOver, NEW u \in Users, NEW v \in Vouchers,
         NEW w \in Vouchers, NEW q \in Proposals, ReverseAndCorrect(u, v, w, q)
  PROVE  TablesAgree'
<1> DEFINE source == proposal[voucher[v].proposal]
           d == source.document
<1> USE BooksAssumption
<1>1. /\ v \in Submitted /\ v \in DOMAIN voucher /\ Live(v) /\ u \in Accountants
      /\ voucher[v].proposal \in DOMAIN proposal /\ source \in ProposalRow
      /\ SourceOf(v) = d
  BY DEF ReverseAndCorrect, MayReverse, Submitted, Live, TablesAgree, Links, TypeOK, SourceOf
<1>2. /\ q \notin DOMAIN proposal /\ w \notin DOMAIN voucher /\ UNCHANGED document
      /\ DOMAIN proposal' = DOMAIN proposal \cup {q}
      /\ \A p \in DOMAIN proposal : proposal'[p] = proposal[p]
      /\ proposal'[q].status = "proposed" /\ proposal'[q].document = d
  BY <1>1 DEF ReverseAndCorrect, Put, ProposalRow
<1>3. /\ DOMAIN voucher' = DOMAIN voucher \cup {w}
      /\ voucher'[w] = ReversalOf(u, v, 1)
      /\ \A x \in DOMAIN voucher : voucher'[x] = voucher[x]
      /\ Submitted' = Submitted \cup {w}
  BY AddVoucher DEF ReverseAndCorrect, ReversalOf
<1>4. /\ voucher[v] \in VoucherRow /\ Submitted \subseteq DOMAIN voucher
      /\ ~IsReversal(v) /\ ~AlreadyReversed(v) /\ v # NoVoucher /\ v # w
  BY <1>1, <1>2 DEF TypeOK, Live, Submitted
<1>5. voucher[v].month <= ReversalMonth(v)
  BY <1>4 DEF LockedMonthsAreOver, Ended, Closed, ReversalMonth, VoucherRow, TypeOK, Day, Months
<1>6. IsReversal(w)' /\ \A x \in DOMAIN voucher : IsReversal(x)' <=> IsReversal(x)
  BY <1>3, <1>4 DEF IsReversal, ReversalOf
<1>7. \A x \in DOMAIN voucher : voucher[x].proposal \in DOMAIN proposal
  BY DEF TablesAgree, Links
<1>8. \A x \in DOMAIN voucher : SourceOf(x)' = SourceOf(x)
  BY <1>2, <1>3, <1>7 DEF SourceOf
<1>9. \A x \in DOMAIN voucher' : Live(x)' => x \in DOMAIN voucher /\ Live(x) /\ x # v
  BY <1>3, <1>4, <1>6 DEF Live, AlreadyReversed, ReversalOf
<1>10. \A x \in DOMAIN voucher' : Live(x)' => SourceOf(x)' # d
  BY <1>1, <1>8, <1>9 DEF TablesAgree, OneLiveEntryPerDocument
<1>11. \A p \in DOMAIN proposal : Undecided(p) => proposal[p].document # d
  BY <1>1 DEF TablesAgree, OnePendingDecision
<1>12. Links'
  BY <1>1, <1>2, <1>3, <1>4, <1>6, <1>7 DEF TablesAgree, Links, ReversalOf
<1>13. OneLiveEntryPerDocument' /\ DocumentTellsTheBooks'
  BY <1>2, <1>3, <1>8, <1>9 DEF TablesAgree, OneLiveEntryPerDocument, DocumentTellsTheBooks
<1>14. OnePendingDecision'
  <2>1. \A p \in DOMAIN proposal' : Undecided(p)' => p = q \/ (p \in DOMAIN proposal /\ Undecided(p))
    BY <1>2 DEF Undecided
  <2> QED BY <1>2, <1>3, <1>8, <1>9, <1>10, <1>11, <2>1 DEF TablesAgree, OnePendingDecision, Undecided
<1>15. ProposalsMirrorBooks'
  BY <1>2, <1>3, <1>4, <1>6, <1>7 DEF TablesAgree, ProposalsMirrorBooks
<1>16. ReversalsBalance'
  <2>1. ASSUME NEW y \in Submitted, IsReversal(y)
        PROVE  voucher[y].corrects # v /\ voucher[y].corrects # w
    BY <1>2, <1>4, <2>1 DEF AlreadyReversed, TablesAgree, Links
  <2> QED BY <1>1, <1>3, <1>4, <1>5, <1>6, <2>1 DEF TablesAgree, ReversalsBalance, ReversalOf, AlreadyReversed
<1>17. OwnersPostOnlySimpleEntries'
  <2>1. voucher'[w].approved_by \notin Owners
    BY <1>1, <1>3 DEF ReversalOf
  <2> QED BY <1>2, <1>3, <1>4, <1>6, <1>7, <1>8, <2>1 DEF TablesAgree, OwnersPostOnlySimpleEntries
<1> QED
  BY <1>12, <1>13, <1>14, <1>15, <1>16, <1>17 DEF TablesAgree

-----------------------------------------------------------------------------
(* Every handler keeps the whole invariant.                                *)
LEMMA InvStep == IInv /\ [Next]_vars => IInv'
<1> SUFFICES ASSUME IInv, [Next]_vars PROVE TablesAgree'
  BY TypeStep, LockStep DEF IInv, TablesAgree
<1> USE DEF IInv
<1>1. ASSUME NEW d \in Documents, Receive(d) PROVE TablesAgree'
  BY <1>1, TablesReceive
<1>2. ASSUME NEW d \in Documents, NEW p \in Proposals, NEW m \in Months, NEW r \in Rules,
             NEW a \in Accounts, NEW doubts \in BOOLEAN, Propose(d, p, m, r, a, doubts)
      PROVE TablesAgree'
  BY <1>2, TablesPropose
<1>3. ASSUME NEW u \in Users, NEW p \in Proposals, NEW v \in Vouchers, Approve(u, p, v)
      PROVE TablesAgree'
  BY <1>3, TablesApprove
<1>4. ASSUME NEW u \in Users, NEW p \in Proposals, NEW v \in Vouchers, ApproveLeavesDraft(u, p, v)
      PROVE TablesAgree'
  <2>1. /\ UNCHANGED <<document, proposal>> /\ v \notin DOMAIN voucher
        /\ voucher' = Put(voucher, v, EntryOf(u, p, 0))
        /\ p \in DOMAIN proposal
    BY <1>4 DEF ApproveLeavesDraft
  <2>2. /\ EntryOf(u, p, 0).docstatus = 0 /\ EntryOf(u, p, 0).proposal = p
        /\ EntryOf(u, p, 0).corrects = NoVoucher
    BY DEF EntryOf
  <2> QED BY <2>1, <2>2, TablesDraft
<1>5. ASSUME NEW u \in Users, NEW p \in Proposals, NEW a \in Accounts, ChangeAccount(u, p, a)
      PROVE TablesAgree'
  BY <1>5, TablesChangeAccount
<1>6. ASSUME NEW p \in Proposals, Reject(p) PROVE TablesAgree'
  BY <1>6, TablesReject
<1>7. ASSUME NEW u \in Users, NEW v \in Vouchers, NEW w \in Vouchers, ReverseDuplicate(u, v, w)
      PROVE TablesAgree'
  BY <1>7, TablesReversal DEF ReverseDuplicate
<1>8. ASSUME NEW u \in Users, NEW v \in Vouchers, NEW w \in Vouchers, NEW q \in Proposals,
             ReverseAndCorrect(u, v, w, q)
      PROVE TablesAgree'
  BY <1>8, TablesReverseAndCorrect
<1>9. ASSUME NEW u \in Users, NEW v \in Vouchers, NEW w \in Vouchers, ReverseLeavesDraft(u, v, w)
      PROVE TablesAgree'
  <2>1. /\ UNCHANGED <<document, proposal>> /\ w \notin DOMAIN voucher
        /\ voucher' = Put(voucher, w, ReversalOf(u, v, 0))
        /\ v \in Submitted /\ ~IsReversal(v) /\ voucher[v].proposal \in DOMAIN proposal
    BY <1>9 DEF ReverseLeavesDraft, MayReverse, Submitted, TablesAgree, Links
  <2>2. /\ ReversalOf(u, v, 0).docstatus = 0 /\ ReversalOf(u, v, 0).corrects = v
        /\ ReversalOf(u, v, 0).proposal = voucher[v].proposal
    BY DEF ReversalOf
  <2> QED BY <2>1, <2>2, TablesDraft
<1>10. CASE UNCHANGED <<document, proposal, voucher>>
  BY <1>10, TablesUnchanged
<1> QED
  BY <1>1, <1>2, <1>3, <1>4, <1>5, <1>6, <1>7, <1>8, <1>9, <1>10
  DEF Next, Intake, Decide, Correct, Close, Govern, Lock, Reopen, Tick, VerifyRule, AcceptRule,
      RewriteRule, vars

(* The tables of the books always have their types.                        *)
THEOREM TypeCorrect == Spec => []TypeOK
<1>1. Spec => []IInv
  BY InitInv, InvStep, PTL DEF Spec
<1>2. IInv => TypeOK
  BY DEF IInv
<1> QED
  BY <1>1, <1>2, PTL

(* The inductive invariant holds.                                          *)
LEMMA BooksInvariant == Spec => []IInv
  BY InitInv, InvStep, PTL DEF Spec

(* A receipt stands in the books at most once, for any number of           *)
(* documents, proposals and vouchers.                                      *)
THEOREM ReceiptsAreBookedOnce == Spec => []OneLiveEntryPerDocument
<1>1. IInv => OneLiveEntryPerDocument
  BY DEF IInv, TablesAgree
<1> QED
  BY BooksInvariant, <1>1, PTL

(* A posted proposal and the voucher it names tell one story.              *)
THEOREM ProposalsTellTheBooks == Spec => []ProposalsMirrorBooks
<1>1. IInv => ProposalsMirrorBooks
  BY DEF IInv, TablesAgree
<1> QED
  BY BooksInvariant, <1>1, PTL

(* The document of an entry that stands names that entry.                  *)
THEOREM DocumentsTellTheBooks == Spec => []DocumentTellsTheBooks
<1>1. IInv => DocumentTellsTheBooks
  BY DEF IInv, TablesAgree
<1> QED
  BY BooksInvariant, <1>1, PTL

(* A reversal undoes an original, on its account, not before its month,    *)
(* and an original is undone at most once.                                 *)
THEOREM OriginalsAreReversedOnce == Spec => []ReversalsBalance
<1>1. IInv => ReversalsBalance
  BY DEF IInv, TablesAgree
<1> QED
  BY BooksInvariant, <1>1, PTL

(* Nothing is pending on a document where an entry stands, and never two   *)
(* things.                                                                 *)
THEOREM OneDecisionIsPending == Spec => []OnePendingDecision
<1>1. IInv => OnePendingDecision
  BY DEF IInv, TablesAgree
<1> QED
  BY BooksInvariant, <1>1, PTL

(* Proposals and documents tell the books together (post_proposal, reject, *)
(* reversal.reverse).                                                      *)
THEOREM RowsAndBooksAgree == Spec => []RowsTellTheBooks
<1>1. ProposalsMirrorBooks /\ DocumentTellsTheBooks => RowsTellTheBooks
  BY DEF RowsTellTheBooks
<1> QED BY ProposalsTellTheBooks, DocumentsTellTheBooks, <1>1, PTL

(* A receipt has one entry that stands or one decision pending             *)
(* (post_proposal, make_correction_proposal).                              *)
THEOREM ReceiptsAreDecidedOnce == Spec => []OneEntryOneDecision
<1>1. OneLiveEntryPerDocument /\ OnePendingDecision => OneEntryOneDecision
  BY DEF OneEntryOneDecision
<1> QED BY ReceiptsAreBookedOnce, OneDecisionIsPending, <1>1, PTL

(* Owners only ever post what the policy leaves to them.                   *)
THEOREM OwnersStayWithinPolicy == Spec => []OwnersPostOnlySimpleEntries
<1>1. IInv => OwnersPostOnlySimpleEntries
  BY DEF IInv, TablesAgree
<1> QED
  BY BooksInvariant, <1>1, PTL

-----------------------------------------------------------------------------
(* What a step may never do.                                               *)

(* A decided proposal is never written again.                              *)
LEMMA DecidedStep ==
  ASSUME IInv, [Next]_vars, NEW p \in DOMAIN proposal, ~Undecided(p)
  PROVE  proposal'[p] = proposal[p]
  BY DEF Next, Intake, Decide, Correct, Close, Govern, Receive, Propose, Approve, MayPost,
     ApproveLeavesDraft, ChangeAccount, Reject, ReverseDuplicate, ReverseAndCorrect,
     ReverseLeavesDraft, Lock, Reopen, Tick, VerifyRule, AcceptRule, RewriteRule, vars, Put

(* A step either leaves the submitted vouchers and their rows alone or     *)
(* submits one new voucher, in a month that is not locked.                 *)
LEMMA VoucherStep ==
  ASSUME IInv, [Next]_vars
  PROVE  /\ DOMAIN voucher \subseteq DOMAIN voucher'
         /\ \A v \in DOMAIN voucher : voucher'[v] = voucher[v]
         /\ \/ Submitted' = Submitted
            \/ /\ UNCHANGED period
               /\ \E v \in Vouchers : /\ v \notin DOMAIN voucher
                                      /\ Submitted' = Submitted \cup {v}
                                      /\ ~Closed(voucher'[v].month)
<1>1. ASSUME NEW v \in Vouchers, NEW row, v \notin DOMAIN voucher, voucher' = Put(voucher, v, row),
             UNCHANGED period, row.docstatus \in {0, 1}, ~Closed(row.month)
      PROVE  /\ DOMAIN voucher \subseteq DOMAIN voucher'
             /\ \A x \in DOMAIN voucher : voucher'[x] = voucher[x]
             /\ \/ Submitted' = Submitted
                \/ /\ UNCHANGED period
                   /\ Submitted' = Submitted \cup {v}
                   /\ ~Closed(voucher'[v].month)
  <2>1. /\ DOMAIN voucher' = DOMAIN voucher \cup {v}
        /\ voucher'[v] = row
        /\ \A x \in DOMAIN voucher : voucher'[x] = voucher[x]
        /\ row.docstatus = 1 => Submitted' = Submitted \cup {v}
        /\ row.docstatus # 1 => Submitted' = Submitted
    BY <1>1, AddVoucher
  <2> QED BY <1>1, <2>1
<1>2. CASE UNCHANGED voucher
  BY <1>2 DEF Submitted
<1>3. ASSUME NEW u \in Users, NEW p \in Proposals, NEW v \in Vouchers,
             Approve(u, p, v) \/ ApproveLeavesDraft(u, p, v)
      PROVE  \E docstatus \in {0, 1} :
               /\ v \notin DOMAIN voucher /\ UNCHANGED period
               /\ voucher' = Put(voucher, v, EntryOf(u, p, docstatus))
               /\ EntryOf(u, p, docstatus).docstatus = docstatus
               /\ ~Closed(EntryOf(u, p, docstatus).month)
  BY <1>3 DEF Approve, ApproveLeavesDraft, MayPost, EntryOf
<1>4. ASSUME NEW u \in Users, NEW v \in Vouchers, NEW w \in Vouchers,
             \/ ReverseDuplicate(u, v, w)
             \/ \E q \in Proposals : ReverseAndCorrect(u, v, w, q)
             \/ ReverseLeavesDraft(u, v, w)
      PROVE  \E docstatus \in {0, 1} :
               /\ w \notin DOMAIN voucher /\ UNCHANGED period
               /\ voucher' = Put(voucher, w, ReversalOf(u, v, docstatus))
               /\ ReversalOf(u, v, docstatus).docstatus = docstatus
               /\ ~Closed(ReversalOf(u, v, docstatus).month)
  BY <1>4 DEF ReverseDuplicate, ReverseAndCorrect, ReverseLeavesDraft, MayReverse, ReversalOf
<1>5. CASE Correct
  BY <1>1, <1>4, <1>5 DEF Correct
<1>6. CASE \E u \in Users, p \in Proposals, v \in Vouchers :
             Approve(u, p, v) \/ ApproveLeavesDraft(u, p, v)
  BY <1>1, <1>3, <1>6
<1> QED
  BY <1>2, <1>5, <1>6
  DEF Next, Intake, Decide, Close, Govern, Receive, Propose, ChangeAccount, Reject, Lock,
      Reopen, Tick, VerifyRule, AcceptRule, RewriteRule, vars

(* A proposal, once made, keeps its document, and a voucher its proposal:  *)
(* what an entry rests on never changes.                                   *)
LEMMA SourceStep ==
  ASSUME IInv, [Next]_vars, NEW v \in DOMAIN voucher
  PROVE  SourceOf(v)' = SourceOf(v)
<1>1. voucher'[v] = voucher[v]
  BY VoucherStep
<1>2. voucher[v].proposal \in DOMAIN proposal
  BY DEF IInv, TablesAgree, Links
<1>3. ASSUME NEW p \in DOMAIN proposal PROVE proposal'[p].document = proposal[p].document
  <2>1. proposal[p] \in ProposalRow
    BY DEF IInv, TypeOK
  <2>2. CASE Intake
    <3>1. UNCHANGED proposal \/ \E q, row : q \notin DOMAIN proposal /\ proposal' = Put(proposal, q, row)
      BY <2>2 DEF Intake, Receive, Propose
    <3> QED BY <3>1 DEF Put
  <2>3. CASE Decide
    <3>1. ASSUME NEW u, NEW q, NEW x, Approve(u, q, x) PROVE proposal'[p].document = proposal[p].document
      BY <2>1, <3>1 DEF Approve, ProposalRow
    <3>2. ASSUME NEW u, NEW q, NEW a, ChangeAccount(u, q, a)
          PROVE  proposal'[p].document = proposal[p].document
      BY <2>1, <3>2 DEF ChangeAccount, ProposalRow
    <3>3. ASSUME NEW q, Reject(q) PROVE proposal'[p].document = proposal[p].document
      BY <2>1, <3>3 DEF Reject, ProposalRow
    <3> QED BY <2>3, <3>1, <3>2, <3>3 DEF Decide, ApproveLeavesDraft
  <2>4. CASE Correct
    BY <2>4 DEF Correct, ReverseDuplicate, ReverseAndCorrect, ReverseLeavesDraft, Put
  <2>5. CASE UNCHANGED proposal
    BY <2>5
  <2> QED
    BY <2>2, <2>3, <2>4, <2>5 DEF Next, Close, Govern, Lock, Reopen, Tick, VerifyRule, AcceptRule,
       RewriteRule, vars
<1> QED
  BY <1>1, <1>2, <1>3 DEF SourceOf

(* No handler ever touches a decided proposal again.                       *)
THEOREM DecisionsStayFinal == Spec => DecisionsAreFinal
<1>1. Spec => []IInv
  BY InitInv, InvStep, PTL DEF Spec
<1>2. IInv /\ [Next]_vars =>
        [\A p \in DOMAIN proposal : ~Undecided(p) => proposal'[p] = proposal[p]]_vars
  BY DecidedStep
<1> QED
  BY <1>1, <1>2, PTL DEF Spec, DecisionsAreFinal

(* While its period stays enabled a month neither gains nor loses a        *)
(* submitted voucher, whoever posts or reverses.                           *)
THEOREM LockedMonthStaysSealed == Spec => LockedMonthIsSealed
<1>1. Spec => []IInv
  BY InitInv, InvStep, PTL DEF Spec
<1>2. ASSUME IInv, [Next]_vars, NEW m \in Months, period[m] = "enabled", period'[m] = "enabled"
      PROVE  {v \in Submitted : voucher[v].month = m} = {v \in Submitted : voucher[v].month = m}'
  <2>1. \A v \in Submitted : v \in DOMAIN voucher /\ voucher'[v] = voucher[v]
    BY <1>2, VoucherStep DEF Submitted
  <2>2. CASE Submitted' = Submitted
    BY <2>1, <2>2
  <2>3. CASE \E v \in Vouchers : /\ v \notin DOMAIN voucher
                                /\ Submitted' = Submitted \cup {v}
                                /\ ~Closed(voucher'[v].month)
    BY <1>2, <2>1, <2>3 DEF Closed
  <2> QED BY <1>2, <2>2, <2>3, VoucherStep
<1>3. IInv /\ [Next]_vars =>
        [\A m \in Months : period[m] = "enabled" /\ period'[m] = "enabled" =>
           {v \in Submitted : voucher[v].month = m} = {v \in Submitted : voucher[v].month = m}']_vars
  BY <1>2
<1> QED
  BY <1>1, <1>3, PTL DEF Spec, LockedMonthIsSealed

(* Although lock() asks the proposals, no entry on an uncleared rule is in *)
(* a month at the moment it is locked.                                     *)
THEOREM LockFreezesOnlyCleared == Spec => LockFreezesClearedEntriesOnly
<1>1. Spec => []IInv
  BY InitInv, InvStep, PTL DEF Spec
<1>2. ASSUME IInv, [Next]_vars, NEW m \in Months, period[m] # "enabled", period'[m] = "enabled",
             NEW v \in Submitted, voucher[v].month = m, ~IsReversal(v)
      PROVE  Cleared(proposal[voucher[v].proposal].rule)
  <2>1. PICK n \in Months : Lock(n)
    BY <1>2 DEF Next, Intake, Decide, Correct, Close, Govern, Receive, Propose, Approve,
       ApproveLeavesDraft, ChangeAccount, Reject, ReverseDuplicate, ReverseAndCorrect,
       ReverseLeavesDraft, Reopen, Tick, VerifyRule, AcceptRule, RewriteRule, vars, IInv, TypeOK
  <2>2. n = m
    BY <1>2, <2>1 DEF Lock, IInv, TypeOK
  <2>3. UnverifiedProposals(m) = {}
    BY <2>1, <2>2 DEF Lock, LockChecks
  <2> DEFINE p == voucher[v].proposal
  <2>4. p \in DOMAIN proposal /\ proposal[p].status = "posted" /\ proposal[p].month = m
    BY <1>2 DEF IInv, TablesAgree, Links, ProposalsMirrorBooks, Submitted
  <2> QED BY <2>3, <2>4 DEF UnverifiedProposals
<1>3. IInv /\ [Next]_vars =>
        [\A m \in Months : period[m] # "enabled" /\ period'[m] = "enabled" =>
           \A v \in Submitted : voucher[v].month = m /\ ~IsReversal(v) =>
             Cleared(proposal[voucher[v].proposal].rule)]_vars
  BY <1>2
<1> QED
  BY <1>1, <1>3, PTL DEF Spec, LockFreezesClearedEntriesOnly

-----------------------------------------------------------------------------
(* The handlers implement the append-only ledger.                          *)

(* What the abstract ledger calls an entry that counts is a live voucher,  *)
(* and its questions are answered by the tables.                           *)
LEMMA LedgerReading ==
  ASSUME IInv
  PROVE  /\ DOMAIN Journal = Submitted
         /\ Submitted \subseteq Vouchers
         /\ \A v \in Submitted : L!Counts(v) <=> Live(v)
         /\ \A d : L!Booked(d) <=> \E v \in Submitted : Live(v) /\ SourceOf(v) = d
<1>1. DOMAIN Journal = Submitted
  BY DEF Journal
<1>2. Submitted \subseteq Vouchers
  BY DEF IInv, TypeOK, Submitted
<1>3. \A v \in Submitted : /\ Journal[v].undoes = voucher[v].corrects
                           /\ Journal[v].source = SourceOf(v)
  BY DEF Journal
<1>4. \A v \in Submitted : L!Counts(v) <=> Live(v)
  BY <1>1, <1>3 DEF L!Counts, Live, IsReversal, AlreadyReversed
<1> QED
  BY <1>1, <1>2, <1>3, <1>4 DEF L!Booked

(* A step that submits nothing leaves the journal as it is.                *)
LEMMA JournalKept ==
  ASSUME IInv, [Next]_vars, Submitted' = Submitted
  PROVE  Journal' = Journal
<1>1. \A v \in Submitted : v \in DOMAIN voucher /\ voucher'[v] = voucher[v]
  BY VoucherStep DEF Submitted
<1>2. \A v \in Submitted : SourceOf(v)' = SourceOf(v)
  BY <1>1, SourceStep DEF Submitted
<1> QED
  BY <1>1, <1>2 DEF Journal

(* A step that submits one voucher appends its row to the journal.         *)
LEMMA JournalAppends ==
  ASSUME IInv, [Next]_vars, NEW v \in Vouchers, v \notin DOMAIN voucher,
         Submitted' = Submitted \cup {v}, NEW row,
         row = [source |-> SourceOf(v)', month |-> voucher'[v].month,
                undoes |-> voucher'[v].corrects]
  PROVE  L!Append(v, row)
<1>1. \A x \in Submitted : x \in DOMAIN voucher /\ voucher'[x] = voucher[x] /\ x # v
  BY VoucherStep DEF Submitted
<1>2. \A x \in Submitted : SourceOf(x)' = SourceOf(x)
  BY <1>1, SourceStep DEF Submitted
<1>3. DOMAIN Journal = Submitted
  BY DEF Journal
<1>4. Journal' = [x \in Submitted \cup {v} |-> IF x = v THEN row ELSE Journal[x]]
  BY <1>1, <1>2 DEF Journal
<1> QED
  BY <1>3, <1>4 DEF L!Append

(* Approving is booking: nothing stands on the document yet.               *)
LEMMA ApproveBooks ==
  ASSUME IInv, NEW u \in Users, NEW p \in Proposals, NEW v \in Vouchers, Approve(u, p, v)
  PROVE  L!Next
<1>1. [Next]_vars
  BY DEF Next, Decide
<1> DEFINE d == proposal[p].document
           m == proposal[p].month
<1>2. d \in Documents /\ m \in Months
  BY DEF Approve, IInv, TypeOK, ProposalRow
<1>3. /\ v \notin DOMAIN voucher /\ voucher' = Put(voucher, v, EntryOf(u, p, 1))
      /\ UNCHANGED period /\ p \in DOMAIN proposal /\ Undecided(p) /\ ~Closed(m)
  BY DEF Approve, MayPost
<1>4. /\ EntryOf(u, p, 1).docstatus = 1 /\ EntryOf(u, p, 1).proposal = p
      /\ EntryOf(u, p, 1).month = m /\ EntryOf(u, p, 1).corrects = NoVoucher
  BY DEF EntryOf
<1>5. Submitted' = Submitted \cup {v} /\ voucher'[v] = EntryOf(u, p, 1)
  BY <1>3, <1>4, AddVoucher
<1>6. proposal'[p].document = d
  BY <1>3 DEF Approve, IInv, TypeOK, ProposalRow
<1>7. L!Append(v, [source |-> d, month |-> m, undoes |-> NoVoucher])
  BY <1>1, <1>3, <1>4, <1>5, <1>6, JournalAppends DEF SourceOf
<1>8. v \notin DOMAIN Journal
  BY <1>3 DEF Journal, Submitted
<1>9. ~L!Booked(d)
  BY <1>3, LedgerReading DEF IInv, TablesAgree, OnePendingDecision, Submitted
<1>10. m \notin Sealed /\ UNCHANGED Sealed
  BY <1>3 DEF Sealed, Closed
<1>11. L!Book(v, d, m)
  BY <1>7, <1>8, <1>9, <1>10 DEF L!Book
<1> QED
  BY <1>2, <1>11 DEF L!Next

(* Reversing is undoing an entry that counts.                              *)
LEMMA ReversalUndoes ==
  ASSUME IInv, [Next]_vars, NEW u \in Users, NEW v \in Vouchers, NEW w \in Vouchers,
         MayReverse(u, v), w \notin DOMAIN voucher,
         voucher' = Put(voucher, w, ReversalOf(u, v, 1)), UNCHANGED period
  PROVE  L!Next
<1> DEFINE m == ReversalMonth(v)
<1>1. /\ ReversalOf(u, v, 1).docstatus = 1 /\ ReversalOf(u, v, 1).month = m
      /\ ReversalOf(u, v, 1).proposal = voucher[v].proposal
      /\ ReversalOf(u, v, 1).corrects = v
  BY DEF ReversalOf
<1>2. Submitted' = Submitted \cup {w} /\ voucher'[w] = ReversalOf(u, v, 1)
  BY <1>1, AddVoucher
<1>3. v \in Submitted /\ Live(v) /\ ~Closed(m)
  BY DEF MayReverse, Live
<1>4. m \in Months
  BY <1>3 DEF ReversalMonth, IInv, TypeOK, VoucherRow, Day, Submitted
<1>5. SourceOf(w)' = SourceOf(v)
  <2>1. SourceOf(v)' = SourceOf(v) /\ voucher'[v] = voucher[v]
    BY <1>3, SourceStep, VoucherStep DEF Submitted
  <2> QED BY <1>1, <1>2, <2>1 DEF SourceOf
<1>6. L!Append(w, [source |-> Journal[v].source, month |-> m, undoes |-> v])
  <2>1. Journal[v].source = SourceOf(v)
    BY <1>3 DEF Journal
  <2> QED BY <1>1, <1>2, <1>5, <2>1, JournalAppends
<1>7. w \notin DOMAIN Journal /\ v \in DOMAIN Journal /\ L!Counts(v)
  BY <1>3, LedgerReading DEF Submitted
<1>8. m \notin Sealed /\ UNCHANGED Sealed
  BY <1>3 DEF Sealed, Closed
<1>9. L!Undo(w, v, m)
  BY <1>6, <1>7, <1>8 DEF L!Undo
<1> QED
  BY <1>4, <1>9 DEF L!Next

(* Every run of the handlers is a run of the abstract ledger.              *)
THEOREM BooksImplementLedger == Spec => ImplementsLedger
<1>1. Init => L!Init
  BY DEF Init, L!Init, Journal, Sealed, Submitted, Empty
<1>2. ASSUME IInv, [Next]_vars PROVE [L!Next]_(L!vars)
  <2>1. ASSUME NEW u \in Users, NEW p \in Proposals, NEW v \in Vouchers, Approve(u, p, v)
        PROVE  L!Next
    BY <1>2, <2>1, ApproveBooks
  <2>2. ASSUME NEW u \in Users, NEW v \in Vouchers, NEW w \in Vouchers,
               \/ ReverseDuplicate(u, v, w)
               \/ \E q \in Proposals : ReverseAndCorrect(u, v, w, q)
        PROVE  L!Next
    BY <1>2, <2>2, ReversalUndoes DEF ReverseDuplicate, ReverseAndCorrect
  <2>3. ASSUME NEW m \in Months, Lock(m) \/ Reopen(m) PROVE L!Next
    <3>1. UNCHANGED voucher
      BY <2>3 DEF Lock, Reopen
    <3>2. Journal' = Journal
      BY <1>2, <3>1, JournalKept DEF Submitted
    <3>3. Sealed' = Sealed \cup {m} \/ Sealed' = Sealed \ {m}
      BY <1>2, <2>3 DEF Lock, Reopen, Sealed, IInv, TypeOK
    <3> QED BY <3>2, <3>3 DEF L!Next, L!Seal, L!Unseal
  <2>4. ASSUME Submitted' = Submitted, UNCHANGED period PROVE UNCHANGED L!vars
    <3>1. Journal' = Journal
      BY <1>2, <2>4, JournalKept
    <3> QED BY <2>4, <3>1 DEF L!vars, Sealed
  <2>5. ASSUME NEW u \in Users, NEW p \in Proposals, NEW v \in Vouchers, ApproveLeavesDraft(u, p, v)
        PROVE  Submitted' = Submitted /\ UNCHANGED period
    <3>1. EntryOf(u, p, 0).docstatus # 1
      BY DEF EntryOf
    <3> QED BY <2>5, <3>1, AddVoucher DEF ApproveLeavesDraft
  <2>6. ASSUME NEW u \in Users, NEW v \in Vouchers, NEW w \in Vouchers, ReverseLeavesDraft(u, v, w)
        PROVE  Submitted' = Submitted /\ UNCHANGED period
    <3>1. ReversalOf(u, v, 0).docstatus # 1
      BY DEF ReversalOf
    <3> QED BY <2>6, <3>1, AddVoucher DEF ReverseLeavesDraft
  <2>7. CASE UNCHANGED <<voucher, period>>
    BY <2>4, <2>7 DEF Submitted
  <2>8. CASE Correct
    BY <2>2, <2>4, <2>6, <2>8 DEF Correct
  <2>9. CASE Decide
    BY <2>1, <2>4, <2>5, <2>7, <2>9 DEF Decide, ChangeAccount, Reject
  <2>10. CASE Close
    BY <2>3, <2>7, <2>10 DEF Close, Tick
  <2> QED
    BY <1>2, <2>7, <2>8, <2>9, <2>10
    DEF Next, Intake, Govern, Receive, Propose, VerifyRule, AcceptRule, RewriteRule, vars
<1>3. Spec => []IInv
  BY InitInv, InvStep, PTL DEF Spec
<1> QED
  BY <1>1, <1>2, <1>3, PTL DEF Spec, ImplementsLedger, L!Spec
=============================================================================
