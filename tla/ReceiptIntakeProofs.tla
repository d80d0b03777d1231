-------------------------- MODULE ReceiptIntakeProofs --------------------------
(***************************************************************************)
(* Every supplier the intake creates comes of one proposal that an         *)
(* accountant must approve, for any number of photos, workers, readings    *)
(* and repeated jobs.  A job decides that a seller is new on what it saw   *)
(* when it began; that its supplier is new still when it commits is what   *)
(* the suppliers' names, which the database keeps unique, add to it.       *)
(*                                                                         *)
(* And a proposal that an owner may approve alone books the receipt, to    *)
(* the togrog on both sides, and rules are not credited with more hits     *)
(* than proposals.  An entry is drawn by a pattern of the seed's shape,    *)
(* whose credit is the receipt's total; the sums are those of module Sums. *)
(***************************************************************************)
EXTENDS ReceiptIntake, Sums, SequenceTheorems, TLAPS

(* A running job has no proposal yet, and has seen no supplier that is not *)
(* there now: suppliers are never removed.                                 *)
JobsLookBack ==
  \A f \in Files : job[f] = "running" =>
    /\ doc[f] # "proposed"
    /\ DOMAIN seen[f].supplier \subseteq DOMAIN supplier

Shape ==
  /\ doc = [f \in Files |-> doc[f]] /\ job = [f \in Files |-> job[f]]
  /\ seen = [f \in Files |-> seen[f]] /\ proposal = [f \in Files |-> proposal[f]]

(* A file has a job of its own only while it has no proposal.              *)
OneJobPerFile ==
  \A f \in Files : job[f] \in {"committed", "queued", "running"} => doc[f] # "proposed"

(* Every proposal names a supplier of the table.                           *)
SuppliersKept == \A f \in Files : doc[f] = "proposed" => proposal[f].supplier \in DOMAIN supplier

IInv == Shape /\ OneJobPerFile /\ JobsLookBack /\ SuppliersKept /\ NewSuppliersAreFlagged

(* The proposals a supplier was created by.                                *)
Created(n) == {g \in Files : doc[g] = "proposed" /\ proposal[g].supplier = n /\ proposal[g].isNew}

LEMMA InitHolds == Init => IInv
  BY IntakeAssumption DEF Init, IInv, Shape, OneJobPerFile, JobsLookBack, SuppliersKept, NewSuppliersAreFlagged

(* The table keeps its rows and gains at most the draft's.                 *)
LEMMA TableGrows ==
  ASSUME NEW table, NEW n, NEW r, NEW info
  PROVE  DOMAIN WithSupplier(table, n, r, info) = DOMAIN table \cup {n}
  <1>1. CASE n \notin DOMAIN table
    BY <1>1 DEF WithSupplier
  <1>2. CASE n \in DOMAIN table /\ info.found /\ table[n].id = r.id
    BY <1>2 DEF WithSupplier
  <1>3. CASE n \in DOMAIN table /\ ~(info.found /\ table[n].id = r.id)
    BY <1>3 DEF WithSupplier
  <1>4. QED
    BY <1>1, <1>2, <1>3

(* A draft with a new supplier is the accountant's.                        *)
LEMMA NewIsNeeded ==
  ASSUME NEW f, NEW see, NEW r, NEW a, NEW up, Draft(f, see, r, a, up).isNew
  PROVE  Draft(f, see, r, a, up).needs
  BY DEF Draft, Doubtful

LEMMA NewIsUnseen ==
  ASSUME NEW f, NEW see, NEW r, NEW a, NEW up
  PROVE  Draft(f, see, r, a, up).isNew <=> Draft(f, see, r, a, up).supplier \notin DOMAIN see.supplier
  BY DEF Draft

(* A proposal that commits: its supplier is one it has seen, or one that   *)
(* nobody has.                                                             *)
LEMMA ProposeHolds ==
  ASSUME IInv, NEW f \in Files, NEW r, NEW a, NEW up, Propose(f, r, a, up)
  PROVE  IInv'
  <1> DEFINE draft == Draft(f, seen[f], r, a, up)
  <1>1. /\ job[f] = "running" /\ ~Taken(f, draft)
        /\ proposal' = [proposal EXCEPT ![f] =
              [reading |-> r, supplier |-> draft.supplier, isNew |-> draft.isNew, seller |-> draft.seller,
               rule |-> draft.rule, code |-> draft.code, entry |-> draft.entry, needs |-> draft.needs,
               corrected |-> FALSE]]
        /\ supplier' = WithSupplier(supplier, draft.supplier, r, draft.info)
        /\ doc' = [doc EXCEPT ![f] = "proposed"]
        /\ job' = [job EXCEPT ![f] = "done"] /\ seen' = [seen EXCEPT ![f] = None]
    BY DEF Propose, Save
  <1>2. draft.isNew => draft.needs
    BY NewIsNeeded
  <1>3. draft.isNew <=> draft.supplier \notin DOMAIN seen[f].supplier
    BY NewIsUnseen
  <1> HIDE DEF draft
  <1>4. draft.isNew => draft.supplier \notin DOMAIN supplier
    BY <1>1 DEF Taken
  <1>5. draft.supplier \notin DOMAIN supplier => draft.isNew
    BY <1>1, <1>3 DEF IInv, JobsLookBack
  <1>6. DOMAIN supplier' = DOMAIN supplier \cup {draft.supplier}
    <2>1. DOMAIN WithSupplier(supplier, draft.supplier, r, draft.info) = DOMAIN supplier \cup {draft.supplier}
      BY TableGrows
    <2>2. QED
      BY <1>1, <2>1
  <1>7. doc[f] # "proposed" /\ doc'[f] = "proposed"
    BY <1>1 DEF IInv, JobsLookBack, Shape
  <1>8. proposal'[f].supplier = draft.supplier /\ proposal'[f].isNew = draft.isNew
        /\ proposal'[f].needs = draft.needs
    BY <1>1 DEF IInv, Shape
  <1>9. \A g \in Files \ {f} : doc'[g] = doc[g] /\ proposal'[g] = proposal[g] /\ job'[g] = job[g] /\ seen'[g] = seen[g]
    BY <1>1 DEF IInv, Shape
  <1>10. Shape'
    BY <1>1 DEF Shape, IInv
  <1>11. OneJobPerFile' /\ JobsLookBack'
    <2>1. job'[f] = "done"
      BY <1>1 DEF IInv, Shape
    <2>2. QED
      BY <2>1, <1>6, <1>9 DEF IInv, OneJobPerFile, JobsLookBack
  <1>12. SuppliersKept'
    BY <1>6, <1>8, <1>9 DEF IInv, SuppliersKept
  <1>13. ASSUME NEW n \in DOMAIN supplier
         PROVE  \E h \in Files : Created(n)' = {h} /\ proposal'[h].needs
    <2>1. PICK h \in Files : Created(n) = {h} /\ proposal[h].needs
      BY DEF IInv, NewSuppliersAreFlagged, Created
    <2>2. h # f
      BY <2>1, <1>7 DEF Created
    <2>3. draft.supplier # n \/ ~draft.isNew
      BY <1>4
    <2>4. \A g \in Files : g \in Created(n)' <=> g \in Created(n)
      BY <2>3, <1>7, <1>8, <1>9 DEF Created
    <2>5. Created(n)' = Created(n)
      BY <2>4 DEF Created
    <2>6. QED
      BY <2>1, <2>2, <2>5, <1>9
  <1>14. ASSUME NEW n, n = draft.supplier, n \notin DOMAIN supplier
         PROVE  Created(n)' = {f} /\ proposal'[f].needs
    <2>1. \A g \in Files : doc[g] = "proposed" => proposal[g].supplier # n
      BY <1>14 DEF IInv, SuppliersKept
    <2>2. draft.isNew
      BY <1>14, <1>5
    <2>3. \A g \in Files : g \in Created(n)' <=> g = f
      BY <1>14, <1>7, <1>8, <1>9, <2>1, <2>2 DEF Created
    <2>4. Created(n)' = {f}
      BY <2>3 DEF Created
    <2>5. QED
      BY <2>2, <2>4, <1>2, <1>8
  <1>15. NewSuppliersAreFlagged'
    <2>1. ASSUME NEW n \in DOMAIN supplier'
          PROVE  \E h \in Files : Created(n)' = {h} /\ proposal'[h].needs
      <3>1. CASE n \in DOMAIN supplier
        BY <3>1, <1>13
      <3>2. CASE n \notin DOMAIN supplier
        <4>1. n = draft.supplier
          BY <3>2, <1>6
        <4>2. QED
          BY <3>2, <4>1, <1>14
      <3>3. QED
        BY <3>1, <3>2
    <2>2. QED
      BY <2>1 DEF NewSuppliersAreFlagged, Created
  <1>16. QED
    BY <1>10, <1>11, <1>12, <1>15 DEF IInv

(* Steps that leave documents, proposals and suppliers alone, and start or *)
(* end a job.                                                              *)
LEMMA JobStepHolds ==
  ASSUME IInv, UNCHANGED <<doc, proposal, supplier>>, NEW f \in Files, NEW state, NEW sees,
         job' = [job EXCEPT ![f] = state],
         seen' = [seen EXCEPT ![f] = sees],
         state \in {"committed", "queued", "running"} => doc[f] # "proposed",
         state = "running" => DOMAIN sees.supplier \subseteq DOMAIN supplier
  PROVE  IInv'
  <1>1. Shape'
    BY DEF IInv, Shape
  <1>2. job'[f] = state /\ seen'[f] = sees
        /\ \A g \in Files \ {f} : job'[g] = job[g] /\ seen'[g] = seen[g]
    BY DEF IInv, Shape
  <1>3. OneJobPerFile'
    BY <1>2 DEF IInv, OneJobPerFile
  <1>4. JobsLookBack'
    BY <1>2 DEF IInv, JobsLookBack
  <1>5. SuppliersKept' /\ NewSuppliersAreFlagged'
    BY DEF IInv, SuppliersKept, NewSuppliersAreFlagged
  <1>6. QED
    BY <1>1, <1>3, <1>4, <1>5 DEF IInv

(* The photo is sent: its document is there, and is not proposed.          *)
LEMMA SendFileHolds ==
  ASSUME IInv, NEW f \in Files, SendFile(f)
  PROVE  IInv'
  <1>1. /\ doc[f] = None /\ doc' = [doc EXCEPT ![f] = "received"]
        /\ job' = [job EXCEPT ![f] = "committed"]
        /\ UNCHANGED <<seen, proposal, supplier>>
    BY DEF SendFile, site
  <1>2. /\ doc[f] # "proposed" /\ doc'[f] = "received" /\ job'[f] = "committed"
        /\ \A g \in Files \ {f} : doc'[g] = doc[g] /\ job'[g] = job[g]
    BY <1>1, IntakeAssumption DEF IInv, Shape
  <1>3. Shape'
    BY <1>1 DEF IInv, Shape
  <1>4. OneJobPerFile' /\ JobsLookBack' /\ SuppliersKept'
    BY <1>1, <1>2 DEF IInv, OneJobPerFile, JobsLookBack, SuppliersKept
  <1>5. \A g \in Files : doc'[g] = "proposed" <=> doc[g] = "proposed"
    BY <1>2
  <1>6. NewSuppliersAreFlagged'
    BY <1>1, <1>5 DEF IInv, NewSuppliersAreFlagged
  <1>7. QED
    BY <1>3, <1>4, <1>6 DEF IInv

LEMMA EnqueueHolds ==
  ASSUME IInv, NEW f \in Files, Enqueue(f) \/ WorkerDies(f)
  PROVE  IInv'
  <1>1. PICK state \in {"queued", "lost"} : job[f] = "committed" /\ job' = [job EXCEPT ![f] = state]
    BY DEF Enqueue, WorkerDies
  <1>2. UNCHANGED <<doc, seen, proposal, supplier>>
    BY DEF Enqueue, WorkerDies, site
  <1>3. seen' = [seen EXCEPT ![f] = seen[f]]
    BY <1>2 DEF IInv, Shape
  <1>4. doc[f] # "proposed"
    BY <1>1 DEF IInv, OneJobPerFile
  <1>5. QED
    BY <1>1, <1>2, <1>3, <1>4, JobStepHolds

LEMMA StartJobHolds ==
  ASSUME IInv, NEW f \in Files, StartJob(f)
  PROVE  IInv'
  <1>1. /\ job[f] = "queued" /\ job' = [job EXCEPT ![f] = "running"]
        /\ seen' = [seen EXCEPT ![f] = SiteNow]
        /\ UNCHANGED <<doc, proposal, supplier>>
    BY DEF StartJob, site
  <1>2. doc[f] # "proposed"
    BY <1>1 DEF IInv, OneJobPerFile
  <1>3. SiteNow.supplier = supplier
    BY DEF SiteNow
  <1>4. QED
    BY <1>1, <1>2, <1>3, JobStepHolds

LEMMA EndJobHolds ==
  ASSUME IInv, NEW f \in Files, FailJob(f) \/ RetryJob(f)
  PROVE  IInv'
  <1>1. PICK state \in {"failed", "queued"} : job[f] = "running" /\ job' = [job EXCEPT ![f] = state]
    BY DEF FailJob, RetryJob
  <1>2. seen' = [seen EXCEPT ![f] = None] /\ UNCHANGED <<doc, proposal, supplier>>
    BY DEF FailJob, RetryJob, site
  <1>3. doc[f] # "proposed"
    BY <1>1 DEF IInv, JobsLookBack
  <1>4. QED
    BY <1>1, <1>2, <1>3, JobStepHolds

(* A correction is of the account; the supplier and the flag stay.         *)
LEMMA ChangeAccountHolds ==
  ASSUME IInv, NEW f \in Files, NEW c, ChangeAccount(f, c)
  PROVE  IInv'
  <1>1. /\ proposal' = [proposal EXCEPT ![f] = Corrected(proposal[f], c)]
        /\ UNCHANGED <<doc, job, seen, supplier>>
    BY DEF ChangeAccount
  <1>2. \A g \in Files : /\ g # f => proposal'[g] = proposal[g]
                         /\ g = f => proposal'[g] = Corrected(proposal[g], c)
    BY <1>1 DEF IInv, Shape
  <1>3. \A g \in Files : /\ Corrected(proposal[g], c).supplier = proposal[g].supplier
                         /\ Corrected(proposal[g], c).isNew = proposal[g].isNew
                         /\ Corrected(proposal[g], c).needs = proposal[g].needs
    BY DEF Corrected
  <1>4. \A g \in Files : /\ proposal'[g].supplier = proposal[g].supplier
                         /\ proposal'[g].isNew = proposal[g].isNew
                         /\ proposal'[g].needs = proposal[g].needs
    BY <1>2, <1>3
  <1>5. Shape'
    BY <1>1 DEF IInv, Shape
  <1>6. OneJobPerFile' /\ JobsLookBack' /\ SuppliersKept'
    BY <1>1, <1>4 DEF IInv, OneJobPerFile, JobsLookBack, SuppliersKept
  <1>7. ASSUME NEW n \in DOMAIN supplier
        PROVE  \E h \in Files : Created(n)' = {h} /\ proposal'[h].needs
    <2>1. PICK h \in Files : Created(n) = {h} /\ proposal[h].needs
      BY DEF IInv, NewSuppliersAreFlagged, Created
    <2>2. \A g \in Files : g \in Created(n)' <=> g \in Created(n)
      BY <1>1, <1>4 DEF Created
    <2>3. Created(n)' = Created(n)
      BY <2>2 DEF Created
    <2>4. QED
      BY <2>1, <2>3, <1>4
  <1>8. NewSuppliersAreFlagged'
    BY <1>1, <1>7 DEF NewSuppliersAreFlagged, Created
  <1>9. QED
    BY <1>5, <1>6, <1>8 DEF IInv

LEMMA OtherStepsHold ==
  ASSUME IInv, UNCHANGED <<doc, job, seen, proposal, supplier>>
  PROVE  IInv'
  BY DEF IInv, Shape, OneJobPerFile, JobsLookBack, SuppliersKept, NewSuppliersAreFlagged

LEMMA NextHolds == IInv /\ [Next]_vars => IInv'
  <1> SUFFICES ASSUME IInv, [Next]_vars PROVE IInv'
    OBVIOUS
  <1>1. ASSUME NEW f \in Files, SendFile(f) PROVE IInv'
    BY <1>1, SendFileHolds
  <1>2. ASSUME NEW f \in Files, Enqueue(f) \/ WorkerDies(f) PROVE IInv'
    BY <1>2, EnqueueHolds
  <1>3. ASSUME NEW f \in Files, StartJob(f) PROVE IInv'
    BY <1>3, StartJobHolds
  <1>4. ASSUME NEW f \in Files, NEW r, NEW a, NEW up, Propose(f, r, a, up) PROVE IInv'
    BY <1>4, ProposeHolds
  <1>5. ASSUME NEW f \in Files, FailJob(f) \/ RetryJob(f) PROVE IInv'
    BY <1>5, EndJobHolds
  <1>6. ASSUME NEW f \in Files, NEW c, ChangeAccount(f, c) PROVE IInv'
    BY <1>6, ChangeAccountHolds
  <1>7. ASSUME NEW i, ConfirmRule(i) \/ RetireRule(i) PROVE IInv'
    BY <1>7, OtherStepsHold DEF ConfirmRule, RetireRule
  <1>8. ASSUME NEW c, SwitchAccount(c) PROVE IInv'
    BY <1>8, OtherStepsHold DEF SwitchAccount
  <1>9. CASE UNCHANGED vars
    BY <1>9, OtherStepsHold DEF vars, site
  <1>10. QED
    BY <1>1, <1>2, <1>3, <1>4, <1>5, <1>6, <1>7, <1>8, <1>9 DEF Next

(* However many photos of a new seller are read at once, each supplier the *)
(* intake creates came of one proposal, and that one an owner cannot       *)
(* approve alone (supplier.match_or_create, pipeline._run).                *)
THEOREM SuppliersFlagged == Spec => []NewSuppliersAreFlagged
  <1>1. IInv => NewSuppliersAreFlagged
    BY DEF IInv
  <1>2. QED
    BY <1>1, InitHolds, NextHolds, PTL DEF Spec

-----------------------------------------------------------------------------
(* The entries                                                             *)

(* Lines as a pattern draws them: each at a place of its own, with an      *)
(* amount on one of the two sides.                                         *)
WellDrawn(lines) ==
  /\ IsFiniteSet(lines)
  /\ \A l \in lines : /\ l = [at |-> l.at, side |-> l.side, code |-> l.code, amount |-> l.amount]
                      /\ l.at \in Nat /\ l.amount \in Int /\ l.side \in {"debit", "credit"}
  /\ \A l, m \in lines : l.at = m.at => l = m

(* The sum of an entry is a total in the sense of Sums.                    *)
LEMMA SumIsTotal ==
  ASSUME NEW S, IsFiniteSet(S)
  PROVE  Sum(S) = Total([l \in S |-> l.amount], S)
<1> DEFINE f == [l \in S |-> l.amount]
<1>1. \A s : s # {} => Pick(s) \in s
  BY DEF Pick
<1>2. \A g : IsFold(g, f, S) <=>
        g = [s \in SUBSET S |-> IF s = {} THEN 0
                                ELSE (CHOOSE x \in s : TRUE).amount + g[s \ {CHOOSE x \in s : TRUE}]]
  <2> SUFFICES ASSUME NEW g PROVE IsFold(g, f, S) <=>
        g = [s \in SUBSET S |-> IF s = {} THEN 0
                                ELSE (CHOOSE x \in s : TRUE).amount + g[s \ {CHOOSE x \in s : TRUE}]]
    OBVIOUS
  <2>1. \A s \in SUBSET S : s # {} => f[Pick(s)] = Pick(s).amount
    BY <1>1
  <2> QED BY <2>1 DEF IsFold, Pick
<1>3. Sum(S) = (CHOOSE g : g = [s \in SUBSET S |-> IF s = {} THEN 0
                                ELSE (CHOOSE x \in s : TRUE).amount + g[s \ {CHOOSE x \in s : TRUE}]])[S]
  BY DEF Sum, MapThenSumSet, MapThenFoldSet
<1> QED BY <1>2, <1>3 DEF Total

LEMMA SumOfOne ==
  ASSUME NEW l, l.amount \in Int
  PROVE  Sum({l}) = l.amount
<1> DEFINE f == [m \in {l} |-> m.amount]
<1>1. IsFiniteSet({l})
  BY FS_Singleton
<1>2. Sum({l}) = Total(f, {l})
  BY <1>1, SumIsTotal
<1>3. f[l] = l.amount
  OBVIOUS
<1> HIDE DEF f
<1>4. Total(f, {l}) = f[l]
  BY <1>3, TotalOne
<1> QED BY <1>2, <1>3, <1>4

(* A part of the lines and the rest make up the whole.                     *)
LEMMA SumOfParts ==
  ASSUME NEW S, IsFiniteSet(S), NEW R, R \subseteq S, \A l \in S : l.amount \in Int
  PROVE  Sum(S) \in Int /\ Sum(R) \in Int /\ Sum(S \ R) + Sum(R) = Sum(S)
<1>1. IsFiniteSet(R) /\ IsFiniteSet(S \ R)
  BY FS_Subset
<1>2. PICK f : f = [l \in S |-> l.amount]
  OBVIOUS
<1>3. \A T \in SUBSET S : IsFiniteSet(T) => Sum(T) = Total(f, T) /\ Sum(T) \in Int
  <2> SUFFICES ASSUME NEW T \in SUBSET S, IsFiniteSet(T) PROVE Sum(T) = Total(f, T) /\ Sum(T) \in Int
    OBVIOUS
  <2>1. PICK e : e = [l \in T |-> l.amount]
    OBVIOUS
  <2>2. Sum(T) = Total(e, T)
    BY <2>1, SumIsTotal
  <2>3. \A l \in T : e[l] = f[l] /\ e[l] \in Int
    BY <1>2, <2>1
  <2>4. Total(e, T) = Total(f, T)
    BY <2>3, TotalAgrees
  <2>5. Total(e, T) \in Int
    BY <2>3, TotalType
  <2> QED BY <2>2, <2>4, <2>5
<1>4. \A l \in S : f[l] \in Int
  BY <1>2
<1>5. Total(f, S) = Total(f, R) + Total(f, S \ R)
  BY <1>4, TotalSplit
<1> QED BY <1>1, <1>3, <1>5

(* A correction renames an account and leaves the amounts.                 *)
LEMMA MovedLines ==
  ASSUME NEW lines, WellDrawn(lines), NEW from, NEW to
  PROVE  /\ WellDrawn(Moved(lines, from, to))
         /\ \A side : Sum(SideOf(Moved(lines, from, to), side)) = Sum(SideOf(lines, side))
<1>1. PICK n : n = [l \in lines |-> [l EXCEPT !.code = IF @ = from THEN to ELSE @]]
  OBVIOUS
<1>2. Moved(lines, from, to) = {n[l] : l \in lines}
  <2>1. \A x : x \in Moved(lines, from, to) <=> \E l \in lines : x = n[l]
    BY <1>1 DEF Moved
  <2>2. \A x : x \in {n[l] : l \in lines} <=> \E l \in lines : x = n[l]
    OBVIOUS
  <2> QED BY <2>1, <2>2
<1>3. \A l \in lines : /\ n[l] = [at |-> l.at, side |-> l.side, code |-> n[l].code, amount |-> l.amount]
                       /\ n[l].at = l.at /\ n[l].side = l.side /\ n[l].amount = l.amount
  <2> SUFFICES ASSUME NEW l \in lines
               PROVE  /\ n[l] = [at |-> l.at, side |-> l.side, code |-> n[l].code, amount |-> l.amount]
                      /\ n[l].at = l.at /\ n[l].side = l.side /\ n[l].amount = l.amount
    OBVIOUS
  <2>1. PICK p, s, c, m : l = [at |-> p, side |-> s, code |-> c, amount |-> m]
    BY DEF WellDrawn
  <2>2. n[l] = [at |-> p, side |-> s, code |-> IF c = from THEN to ELSE c, amount |-> m]
    BY <1>1, <2>1
  <2> QED BY <2>1, <2>2
<1>4. \A l, m \in lines : n[l] = n[m] => l = m
  <2> SUFFICES ASSUME NEW l \in lines, NEW m \in lines, n[l] = n[m] PROVE l = m
    OBVIOUS
  <2>1. l.at = m.at
    BY <1>3
  <2> QED BY <2>1 DEF WellDrawn
<1>5. \A x \in Moved(lines, from, to) : \E l \in lines : x = n[l]
  BY <1>2
<1>6. ASSUME NEW side
      PROVE  /\ IsFiniteSet(SideOf(Moved(lines, from, to), side))
             /\ Sum(SideOf(Moved(lines, from, to), side)) = Sum(SideOf(lines, side))
  <2> DEFINE S == SideOf(lines, side)
             T == {n[l] : l \in S}
  <2>1. T = SideOf(Moved(lines, from, to), side)
    <3>1. ASSUME NEW x \in SideOf(Moved(lines, from, to), side) PROVE \E l \in S : x = n[l]
      <4>1. PICK l \in lines : x = n[l]
        BY <1>5 DEF SideOf
      <4>2. x.side = side /\ n[l].side = l.side
        BY <1>3 DEF SideOf
      <4>3. l \in S
        BY <4>1, <4>2 DEF SideOf
      <4> QED BY <4>1, <4>3
    <3>2. \A l \in S : n[l] \in SideOf(Moved(lines, from, to), side)
      BY <1>2, <1>3 DEF SideOf
    <3> QED BY <3>1, <3>2
  <2>2. S \subseteq lines /\ IsFiniteSet(S)
    BY FS_Subset DEF SideOf, WellDrawn
  <2>3. PICK f, e : f = [l \in S |-> l.amount] /\ e = [l \in T |-> l.amount]
    OBVIOUS
  <2>4. \A l \in S : f[l] \in Int /\ e[n[l]] = f[l]
    BY <1>3, <2>2, <2>3 DEF WellDrawn
  <2>5. \A l, m \in S : n[l] = n[m] => l = m
    BY <1>4, <2>2
  <2>6. IsFiniteSet(T) /\ Total(e, T) = Total(f, S)
    BY <2>2, <2>4, <2>5, TotalRenamed
  <2>7. Sum(T) = Total(e, T) /\ Sum(S) = Total(f, S)
    BY <2>2, <2>3, <2>6, SumIsTotal
  <2> QED BY <2>1, <2>6, <2>7
<1>7. \A x \in Moved(lines, from, to) :
        /\ x = [at |-> x.at, side |-> x.side, code |-> x.code, amount |-> x.amount]
        /\ x.at \in Nat /\ x.amount \in Int /\ x.side \in {"debit", "credit"}
  <2> SUFFICES ASSUME NEW l \in lines
               PROVE  /\ n[l] = [at |-> n[l].at, side |-> n[l].side, code |-> n[l].code, amount |-> n[l].amount]
                      /\ n[l].at \in Nat /\ n[l].amount \in Int /\ n[l].side \in {"debit", "credit"}
    BY <1>5
  <2>1. n[l] = [at |-> n[l].at, side |-> n[l].side, code |-> n[l].code, amount |-> n[l].amount]
    BY <1>3
  <2>2. n[l].at \in Nat /\ n[l].amount \in Int /\ n[l].side \in {"debit", "credit"}
    BY <1>3 DEF WellDrawn
  <2> QED BY <2>1, <2>2
<1>8. \A x, y \in Moved(lines, from, to) : x.at = y.at => x = y
  <2> SUFFICES ASSUME NEW l \in lines, NEW m \in lines, n[l].at = n[m].at PROVE n[l] = n[m]
    BY <1>5
  <2>1. l.at = m.at
    BY <1>3
  <2> QED BY <2>1 DEF WellDrawn
<1>9. Moved(lines, from, to) = SideOf(Moved(lines, from, to), "debit") \cup SideOf(Moved(lines, from, to), "credit")
  BY <1>7 DEF SideOf
<1>10. IsFiniteSet(Moved(lines, from, to))
  <2>1. IsFiniteSet(SideOf(Moved(lines, from, to), "debit")) /\ IsFiniteSet(SideOf(Moved(lines, from, to), "credit"))
    BY <1>6
  <2>2. IsFiniteSet(SideOf(Moved(lines, from, to), "debit") \cup SideOf(Moved(lines, from, to), "credit"))
    BY <2>1, FS_Union
  <2> QED BY <2>2, <1>9
<1>11. WellDrawn(Moved(lines, from, to))
  BY <1>7, <1>8, <1>10 DEF WellDrawn
<1> QED BY <1>6, <1>11

(* The pattern that is selected books a purchase.                          *)
LEMMA PatternIsFound ==
  ASSUME NEW d, NEW named, NEW family, Candidates(d, named, family) # {}
  PROVE  BooksAPurchase(SelectPattern(d, named, family))
<1> DEFINE fit == Candidates(d, named, family)
           best == {i \in fit : \A j \in fit : Specificity(Patterns[j]) <= Specificity(Patterns[i])}
<1>1. fit \subseteq DOMAIN Patterns /\ \A i \in fit : "Purchase Invoice" \in Patterns[i].docs
  BY DEF Candidates
<1>2. \A p : Specificity(p) \in Nat /\ Specificity(p) <= 2
  <2> SUFFICES ASSUME NEW p PROVE Specificity(p) \in Nat /\ Specificity(p) <= 2
    OBVIOUS
  <2> DEFINE both == {<<1, p.vat>>, <<2, p.cit>>}
             some == {part \in both : part[2] # "any"}
  <2>3. IsFiniteSet(both) /\ Cardinality(both) <= 2
    <3>1. PICK a, b : a = <<1, p.vat>> /\ b = <<2, p.cit>>
      OBVIOUS
    <3>2. IsFiniteSet({a}) /\ Cardinality({a}) = 1
      BY FS_Singleton
    <3>3. /\ IsFiniteSet({a} \cup {b})
          /\ Cardinality({a} \cup {b}) = IF b \in {a} THEN Cardinality({a}) ELSE Cardinality({a}) + 1
      BY <3>2, FS_AddElement
    <3>4. both = {a} \cup {b}
      BY <3>1
    <3> QED BY <3>2, <3>3, <3>4
  <2>4. IsFiniteSet(some) /\ Cardinality(some) <= Cardinality(both)
    BY <2>3, FS_Subset
  <2>5. Cardinality(some) \in Nat /\ Cardinality(both) \in Nat
    BY <2>3, <2>4, FS_CardinalityType
  <2>6. Specificity(p) = Cardinality(some)
    BY DEF Specificity
  <2> QED BY <2>3, <2>4, <2>5, <2>6
<1> DEFINE Lacks == {2 - Specificity(Patterns[i]) : i \in fit}
<1>3. Lacks \in SUBSET Nat /\ Lacks # {}
  BY <1>2
<1>4. PICK n \in Lacks : \A m \in Lacks : n <= m
  BY <1>3, Least
<1>5. PICK i \in fit : n = 2 - Specificity(Patterns[i])
  OBVIOUS
<1>6. \A j \in fit : 2 - Specificity(Patterns[i]) <= 2 - Specificity(Patterns[j])
  BY <1>4, <1>5
<1>7. \A j \in fit : Specificity(Patterns[j]) <= Specificity(Patterns[i])
  BY <1>2, <1>6
<1>8. best # {} /\ best \in SUBSET Nat
  <2>1. fit \subseteq 1..Len(Patterns)
    BY <1>1, PatternsAssumption
  <2>2. best \subseteq fit /\ i \in best
    BY <1>7
  <2>3. 1..Len(Patterns) \subseteq Nat
    <3>1. PICK m \in Nat : m = Len(Patterns)
      BY PatternsAssumption
    <3> QED BY <3>1
  <2> HIDE DEF best, fit
  <2> QED BY <2>1, <2>2, <2>3
<1> HIDE DEF best
<1>9. \E k \in best : \A m \in best : k <= m
  BY <1>8, Least
<1>10. Min(best) \in best
  BY <1>9 DEF Min
<1>11. SelectPattern(d, named, family) = Patterns[Min(best)]
  BY DEF SelectPattern, best
<1>12. best \subseteq fit
  BY DEF best
<1> QED BY <1>1, <1>10, <1>11, <1>12, PatternsAssumption

(* The places of a sequence.                                               *)
LEMMA Places ==
  \A m \in Nat : IsFiniteSet(1..m) /\ \A i \in 1..m : i \in Nat /\ i # 0 /\ i <= i
<1> TAKE m \in Nat
<1>1. IsFiniteSet(1..m)
  BY FS_Interval
<1> QED BY <1>1

(* The primary line is the debit of the document's amount.                 *)
LEMMA PrimaryIsTheDebit ==
  ASSUME NEW p, BooksAPurchase(p),
         NEW i \in DOMAIN p.lines, p.lines[i].side = "debit", p.lines[i].kind # "vat"
  PROVE  PrimaryLine(p) = i /\ i # 0
<1> DEFINE debits == {j \in DOMAIN p.lines : p.lines[j].side = "debit" /\ p.lines[j].kind \in {"net", "gross"}}
<1>1. debits = {i}
  BY DEF BooksAPurchase
<1>2. i \in Nat /\ i # 0 /\ i <= i
  BY Places DEF BooksAPurchase
<1>3. PrimaryLine(p) = IF debits = {} THEN 0 ELSE Min(debits)
  BY DEF PrimaryLine
<1>4. Min({i}) = i
  <2>1. \A j \in {i} : i <= j
    BY <1>2, Zenon
  <2> QED BY <1>2, <2>1, Zenon DEF Min
<1> HIDE DEF debits
<1> QED BY <1>1, <1>2, <1>3, <1>4

(* A cash or a bank account, when it is in the chart, holds money.         *)
LEMMA MoneyHoldsMoney ==
  ASSUME NEW chart, NEW role \in {"cash", "bank"}, RoleIn(chart, role) \in Codes
  PROVE  TypeOf[RoleIn(chart, role)] \in {"Cash", "Bank"}
<1>1. SchemeOf(chart) \in {"v03", "v1", "accountant"}
  BY EntriesAssumption DEF SchemeOf
<1>2. RoleIn(chart, role) \in {RoleCode["v03"][role], RoleCode["v1"][role], AliasOf[RoleCode["v03"][role]]}
  BY <1>1 DEF RoleIn
<1> QED BY <1>2, MoneyAssumption

(* What a purchase pattern draws: one credit of the whole, on the account  *)
(* the payment comes from, and debits of the classified account or of the  *)
(* VAT there is.                                                           *)
LEMMA LinesDrawn ==
  ASSUME NEW p, BooksAPurchase(p),
         NEW amounts \in [gross : Int, vat : Int, net : Int],
         NEW chart, NEW code, NEW cash, Fillable(p, amounts, chart, code, cash)
  PROVE  LET lines == LinesOf(p, amounts, chart, code, cash)
         IN  /\ WellDrawn(lines)
             /\ \E l \in lines :
                  /\ SideOf(lines, "credit") = {l} /\ l.amount = amounts.gross
                  /\ cash => \E role \in {"cash", "bank"} : l.code = RoleIn(chart, role)
             /\ \A l \in SideOf(lines, "debit") :
                  l.code = code \/ (l.amount = amounts.vat /\ amounts.vat > 0)
<1> DEFINE lines == LinesOf(p, amounts, chart, code, cash)
           at(i) == [at     |-> i,
                     side   |-> p.lines[i].side,
                     code   |-> Resolve(p, i, chart, code, cash),
                     amount |-> amounts[p.lines[i].kind]]
<1>1. /\ DOMAIN p.lines = 1..Len(p.lines) /\ Len(p.lines) \in Nat
      /\ \A i \in DOMAIN p.lines : p.lines[i].kind \in {"net", "gross", "vat"}
  BY DEF BooksAPurchase
<1>2. PICK c \in DOMAIN p.lines :
        /\ p.lines[c].side = "credit" /\ p.lines[c].kind = "gross" /\ ~p.lines[c].optional
        /\ p.lines[c].role \in {"payable", "bank"}
        /\ \A j \in DOMAIN p.lines \ {c} : p.lines[j].side = "debit" /\ p.lines[j].role # p.lines[c].role
  BY DEF BooksAPurchase
<1> DEFINE kept == Kept(p, amounts)
<1>3. kept \subseteq DOMAIN p.lines /\ c \in kept
  BY <1>2 DEF Kept
<1>4. \A i \in kept : Has(amounts, p.lines[i].kind)
  BY DEF Fillable
<1>5. \A i \in DOMAIN p.lines : amounts[p.lines[i].kind] \in Int
  <2> SUFFICES ASSUME NEW i \in DOMAIN p.lines PROVE amounts[p.lines[i].kind] \in Int
    OBVIOUS
  <2>1. amounts["gross"] \in Int /\ amounts["net"] \in Int /\ amounts["vat"] \in Int
    OBVIOUS
  <2> QED BY <1>1, <2>1
<1>6. PICK n : n = [i \in kept |-> at(i)]
  OBVIOUS
<1>7. \A i \in kept : /\ n[i] = [at |-> i, side |-> p.lines[i].side, code |-> n[i].code, amount |-> n[i].amount]
                      /\ n[i].at = i /\ n[i].side = p.lines[i].side
                      /\ n[i].code = Resolve(p, i, chart, code, cash)
                      /\ n[i].amount = amounts[p.lines[i].kind]
  BY <1>6
<1>8. /\ \A x \in lines : \E i \in kept : x = n[i]
      /\ \A i \in kept : n[i] \in lines
  BY <1>6 DEF LinesOf
<1> HIDE DEF lines, kept
<1>9. IsFiniteSet(lines)
  <2>1. IsFiniteSet(kept)
    <3>1. PICK m \in Nat : m = Len(p.lines)
      BY <1>1
    <3>2. IsFiniteSet(1..m)
      BY Places
    <3>3. kept \in SUBSET (1..m)
      BY <1>1, <1>3, <3>1
    <3> QED BY <3>2, <3>3, FS_Subset
  <2>2. IsFiniteSet({n[i] : i \in kept})
    BY <2>1, FiniteImage
  <2>3. lines = {n[i] : i \in kept}
    BY <1>8
  <2> QED BY <2>2, <2>3
<1>10. \A i \in kept : n[i].at \in Nat /\ n[i].amount \in Int /\ n[i].side \in {"debit", "credit"}
  <2> SUFFICES ASSUME NEW i \in kept PROVE n[i].at \in Nat /\ n[i].amount \in Int /\ n[i].side \in {"debit", "credit"}
    OBVIOUS
  <2>1. n[i].amount \in Int
    BY <1>3, <1>5, <1>7
  <2>2. p.lines[i].side \in {"debit", "credit"}
    BY <1>2, <1>3
  <2>3. n[i].at \in Nat
    BY <1>1, <1>3, <1>7, Places
  <2> QED BY <1>7, <2>1, <2>2, <2>3
<1>11. WellDrawn(lines)
  <2>1. \A l \in lines : /\ l = [at |-> l.at, side |-> l.side, code |-> l.code, amount |-> l.amount]
                         /\ l.at \in Nat /\ l.amount \in Int /\ l.side \in {"debit", "credit"}
    <3> SUFFICES ASSUME NEW i \in kept
                 PROVE  /\ n[i] = [at |-> n[i].at, side |-> n[i].side, code |-> n[i].code, amount |-> n[i].amount]
                        /\ n[i].at \in Nat /\ n[i].amount \in Int /\ n[i].side \in {"debit", "credit"}
      BY <1>8
    <3>1. n[i] = [at |-> n[i].at, side |-> n[i].side, code |-> n[i].code, amount |-> n[i].amount]
      BY <1>7
    <3> QED BY <3>1, <1>10
  <2>2. ASSUME NEW l \in lines, NEW m \in lines, l.at = m.at PROVE l = m
    <3>1. PICK i \in kept, j \in kept : l = n[i] /\ m = n[j]
      BY <1>8
    <3>2. i = j
      BY <1>7, <2>2, <3>1
    <3> QED BY <3>1, <3>2
  <2> QED BY <2>1, <2>2, <1>9 DEF WellDrawn
<1>12. n[c] \in lines /\ SideOf(lines, "credit") = {n[c]} /\ n[c].amount = amounts.gross
  <2>1. n[c] \in lines /\ n[c].side = "credit" /\ n[c].amount = amounts.gross
    BY <1>2, <1>3, <1>7, <1>8
  <2>2. \A x \in SideOf(lines, "credit") : x = n[c]
    <3> SUFFICES ASSUME NEW i \in kept, n[i].side = "credit" PROVE n[i] = n[c]
      BY <1>8 DEF SideOf
    <3>1. p.lines[i].side = "credit"
      BY <1>7
    <3> QED BY <3>1, <1>2, <1>3
  <2> QED BY <2>1, <2>2 DEF SideOf
<1>13. cash => \E role \in {"cash", "bank"} : n[c].code = RoleIn(chart, role)
  <2> SUFFICES ASSUME cash PROVE \E role \in {"cash", "bank"} : n[c].code = RoleIn(chart, role)
    OBVIOUS
  <2>1. PrimaryLine(p) # 0 => p.lines[PrimaryLine(p)].role # p.lines[c].role
    <3> SUFFICES ASSUME PrimaryLine(p) # 0 PROVE p.lines[PrimaryLine(p)].role # p.lines[c].role
      OBVIOUS
    <3>1. PICK i \in DOMAIN p.lines : p.lines[i].side = "debit" /\ p.lines[i].kind # "vat"
      BY <1>1 DEF PrimaryLine
    <3>2. PrimaryLine(p) = i
      BY <3>1, PrimaryIsTheDebit
    <3>3. i # c
      BY <3>1, <1>2
    <3> QED BY <3>2, <3>3, <1>2
  <2>2. n[c].code = RoleIn(chart, IF p.lines[c].role = "payable" THEN "cash" ELSE p.lines[c].role)
    BY <2>1, <1>2, <1>3, <1>7 DEF Resolve
  <2> QED BY <2>2, <1>2
<1>14. \A l \in SideOf(lines, "debit") : l.code = code \/ (l.amount = amounts.vat /\ amounts.vat > 0)
  <2> SUFFICES ASSUME NEW i \in kept, n[i].side = "debit"
               PROVE  n[i].code = code \/ (n[i].amount = amounts.vat /\ amounts.vat > 0)
    BY <1>8 DEF SideOf
  <2>1. CASE p.lines[i].kind = "vat"
    BY <2>1, <1>4, <1>7 DEF Has
  <2>2. CASE p.lines[i].kind # "vat"
    <3>1. i \in DOMAIN p.lines /\ p.lines[i].side = "debit"
      BY <1>3, <1>7
    <3>2. PrimaryLine(p) = i /\ i # 0
      BY <3>1, <2>2, PrimaryIsTheDebit
    <3>3. Resolve(p, i, chart, code, cash) = code
      BY <3>2 DEF Resolve
    <3> QED BY <3>3, <1>7
  <2> QED BY <2>1, <2>2
<1> QED BY <1>11, <1>12, <1>13, <1>14 DEF lines

(* Input VAT is taken by a payer only, off a receipt that prints it and    *)
(* from a seller not known to be none.                                     *)
LEMMA WithheldIsDue ==
  ASSUME NEW proposed, NEW payer \in BOOLEAN, NEW printed \in Int, NEW seller,
         VatTreatment(proposed, payer, printed, seller) = "withheld"
  PROVE  payer /\ printed > 0 /\ seller # "non_payer"
<1>1. CASE ~payer
  BY <1>1 DEF VatTreatment
<1>2. CASE payer /\ printed <= 0
  BY <1>2 DEF VatTreatment
<1>3. CASE payer /\ printed > 0 /\ seller = "non_payer"
  BY <1>3 DEF VatTreatment
<1> QED BY <1>1, <1>2, <1>3

(* The VAT line is one of the debits.                                      *)
LEMMA VatLineIsADebit ==
  ASSUME NEW entry, WellDrawn(entry.lines)
  PROVE  VatLine(entry) \subseteq SideOf(entry.lines, "debit")
<1> DEFINE found == {l \in SideOf(entry.lines, "debit") :
                       TypeOf[l.code] = "Tax" /\ l.amount = entry.vat /\ entry.vat > 0}
           ats == {l.at : l \in found}
<1>1. found \subseteq SideOf(entry.lines, "debit") /\ found \subseteq entry.lines
  BY DEF SideOf
<1>2. VatLine(entry) = IF entry.treatment # "withheld" \/ found = {} THEN {}
                       ELSE {CHOOSE l \in found : \A o \in found : l.at <= o.at}
  BY DEF VatLine
<1> HIDE DEF found
<1>3. ASSUME found # {} PROVE \E l \in found : \A o \in found : l.at <= o.at
  <2>1. ats \in SUBSET Nat /\ ats # {}
    BY <1>1, <1>3 DEF WellDrawn
  <2>2. PICK n \in ats : \A m \in ats : n <= m
    BY <2>1, Least
  <2> QED BY <2>2
<1>4. found # {} => (CHOOSE l \in found : \A o \in found : l.at <= o.at) \in found
  BY <1>3
<1> QED BY <1>1, <1>2, <1>4

(* ERPNext books what the card shows: the supplier is credited with the    *)
(* debits' sum, which is the one credit's amount.                          *)
LEMMA BookedAsShown ==
  ASSUME NEW entry, WellDrawn(entry.lines), NEW c \in entry.lines, SideOf(entry.lines, "credit") = {c},
         Sum(SideOf(entry.lines, "debit")) = c.amount
  PROVE  Booked(entry, c.code) = {[side |-> l.side, code |-> l.code, amount |-> l.amount] : l \in entry.lines}
<1> DEFINE debits == SideOf(entry.lines, "debit")
           shown == {[side |-> l.side, code |-> l.code, amount |-> l.amount] : l \in entry.lines}
           row == [side |-> c.side, code |-> c.code, amount |-> c.amount]
           owed == [side |-> "credit", code |-> c.code, amount |-> Sum(debits \ VatLine(entry)) + Sum(VatLine(entry))]
           paid == TypeOf[c.code] \in {"Cash", "Bank"}
           debited == {[side |-> l.side, code |-> l.code, amount |-> l.amount] : l \in debits}
<1>1. IsFiniteSet(debits) /\ \A l \in debits : l.amount \in Int
  BY FS_Subset DEF SideOf, WellDrawn
<1>2. VatLine(entry) \subseteq debits
  BY VatLineIsADebit
<1>3. Sum(debits \ VatLine(entry)) + Sum(VatLine(entry)) = Sum(debits)
  BY <1>1, <1>2, SumOfParts
<1>4. c.side = "credit"
  BY DEF SideOf
<1>5. owed = row
  BY <1>3, <1>4
<1>6. entry.lines = debits \cup {c}
  BY DEF SideOf, WellDrawn
<1>7. shown = debited \cup {row}
  BY <1>6
<1>8. Booked(entry, c.code) =
        IF entry.kind = "journal_entry" THEN shown
        ELSE debited \cup IF paid THEN {row} ELSE {owed}
  <2>1. (\E l \in {c} : {c} = {l} /\ TypeOf[l.code] \in {"Cash", "Bank"}) <=> paid
    OBVIOUS
  <2>2. {[side |-> l.side, code |-> l.code, amount |-> l.amount] : l \in {c}} = {row}
    OBVIOUS
  <2> QED BY <2>1, <2>2 DEF Booked
<1> HIDE DEF debits, shown, debited, row, owed, paid
<1> QED BY <1>5, <1>7, <1>8 DEF shown

(* A draft that an owner may approve accounts for the whole receipt, and   *)
(* is sound.                                                               *)
LEMMA DraftIsSound ==
  ASSUME NEW f, NEW see, see.leaves \subseteq Codes, NEW r, r.total \in Int, r.vat \in Int, NEW a, NEW up,
         Draftable(f, see, r, a, up),
         NEW draft, draft = Draft(f, see, r, a, up),
         NEW p, p.reading = r, p.isNew = draft.isNew, p.seller = draft.seller, p.code = draft.code
  PROVE  /\ WellDrawn(draft.entry.lines)
         /\ ~draft.needs => /\ Sum(SideOf(draft.entry.lines, "debit")) = r.total
                            /\ Balanced(draft.entry.lines)
                            /\ Sound(p, draft.entry)
<1>1. PICK info, n, choice, seller, treatment, pattern :
        /\ treatment = VatTreatment(choice.treatment, PaysVat(DateOf(r)), r.vat, seller)
        /\ BooksAPurchase(pattern)
        /\ Fillable(pattern, Amounts(r.total, r.vat, treatment), see.leaves, choice.code, r.cash)
        /\ draft.code = choice.code /\ draft.seller = seller
        /\ draft.entry = Entry(pattern, DateOf(r), Amounts(r.total, r.vat, treatment), treatment,
                               see.leaves, choice.code, r.cash)
        /\ draft.needs = (\/ Doubtful(r, draft.isNew) \/ choice.odd \/ pattern.id \notin cleared
                          \/ Problems(draft.entry, see.leaves) # {})
  <2> DEFINE info == SellerInfo(see.supplier, r, up)
             n == SupplierOf(f, see.supplier, r, info)
             choice == Choice(see, r, a, n)
             seller == SellerVat(see.supplier, n, info)
             treatment == VatTreatment(choice.treatment, PaysVat(DateOf(r)), r.vat, seller)
             pattern == SelectPattern(DateOf(r), choice.named, FamilyOf(choice.code))
  <2>1. /\ Candidates(DateOf(r), choice.named, FamilyOf(choice.code)) # {}
        /\ Fillable(pattern, Amounts(r.total, r.vat, treatment), see.leaves, choice.code, r.cash)
    BY DEF Draftable
  <2>2. BooksAPurchase(pattern)
    BY <2>1, PatternIsFound
  <2>3. /\ draft.code = choice.code /\ draft.seller = seller
        /\ draft.entry = Entry(pattern, DateOf(r), Amounts(r.total, r.vat, treatment), treatment,
                               see.leaves, choice.code, r.cash)
        /\ draft.needs = (\/ Doubtful(r, draft.isNew) \/ choice.odd \/ pattern.id \notin cleared
                          \/ Problems(draft.entry, see.leaves) # {})
    BY DEF Draft
  <2> HIDE DEF info, n, choice, seller, treatment, pattern
  <2>4. treatment = VatTreatment(choice.treatment, PaysVat(DateOf(r)), r.vat, seller)
    BY DEF treatment
  <2> QED BY <2>1, <2>2, <2>3, <2>4
<1>2. PICK amounts : amounts = Amounts(r.total, r.vat, treatment)
  OBVIOUS
<1>3. /\ amounts \in [gross : Int, vat : Int, net : Int]
      /\ amounts.gross = r.total /\ amounts.vat = IF treatment = "withheld" THEN r.vat ELSE 0
  BY <1>2 DEF Amounts
<1>4. PICK lines : lines = LinesOf(pattern, amounts, see.leaves, choice.code, r.cash)
  OBVIOUS
<1>5. /\ WellDrawn(lines)
      /\ \E l \in lines :
           /\ SideOf(lines, "credit") = {l} /\ l.amount = amounts.gross
           /\ r.cash => \E role \in {"cash", "bank"} : l.code = RoleIn(see.leaves, role)
      /\ \A l \in SideOf(lines, "debit") : l.code = choice.code \/ (l.amount = amounts.vat /\ amounts.vat > 0)
  BY <1>1, <1>2, <1>3, <1>4, LinesDrawn
<1>6. PICK c \in lines :
        /\ SideOf(lines, "credit") = {c} /\ c.amount = r.total
        /\ r.cash => \E role \in {"cash", "bank"} : c.code = RoleIn(see.leaves, role)
  BY <1>3, <1>5
<1>7. /\ draft.entry.lines = lines /\ draft.entry.date = DateOf(r) /\ draft.entry.treatment = treatment
      /\ draft.entry.total = r.total /\ draft.entry.vat = amounts.vat
  BY <1>1, <1>2, <1>3, <1>4 DEF Entry
<1>8. SUFFICES ASSUME ~draft.needs
               PROVE  /\ Sum(SideOf(lines, "debit")) = r.total
                      /\ Balanced(lines)
                      /\ Sound(p, draft.entry)
  BY <1>5, <1>7
<1>9. Problems(draft.entry, see.leaves) = {} /\ ~Doubtful(r, draft.isNew)
  BY <1>1, <1>8
<1>10. /\ Balanced(lines)
       /\ \A l \in lines : l.code \in see.leaves
       /\ treatment = "withheld" => VatConsistent(r.total, amounts.vat, RateOn(DateOf(r)))
  BY <1>7, <1>9 DEF Problems
<1>11. Sum(SideOf(lines, "credit")) = r.total
  BY <1>3, <1>6, SumOfOne
<1>12. Sum(SideOf(lines, "debit")) = r.total
  BY <1>10, <1>11 DEF Balanced
<1>13. r.date = draft.entry.date /\ ~draft.isNew
  BY <1>7, <1>9 DEF Doubtful, DateOf
<1>14. r.cash => TypeOf[c.code] \in {"Cash", "Bank"}
  BY <1>6, <1>10, MoneyHoldsMoney
<1>15. ASSUME NEW l \in SideOf(lines, "debit"), l.code # choice.code
       PROVE  /\ PaysVat(DateOf(r)) /\ seller # "non_payer"
              /\ l.amount = r.vat /\ VatConsistent(r.total, l.amount, RateOn(DateOf(r)))
  <2>1. l.amount = amounts.vat /\ amounts.vat > 0
    BY <1>5, <1>15
  <2>2. treatment = "withheld" /\ amounts.vat = r.vat
    BY <1>3, <2>1
  <2>3. PaysVat(DateOf(r)) \in BOOLEAN
    BY DEF PaysVat
  <2>4. PaysVat(DateOf(r)) /\ seller # "non_payer"
    BY <1>1, <2>2, <2>3, WithheldIsDue
  <2> QED BY <1>10, <2>1, <2>2, <2>4
<1>16. Booked(draft.entry, c.code) =
         {[side |-> l.side, code |-> l.code, amount |-> l.amount] : l \in draft.entry.lines}
  BY <1>5, <1>6, <1>7, <1>12, BookedAsShown
<1>17. Sound(p, draft.entry)
  BY <1>1, <1>6, <1>7, <1>13, <1>14, <1>15, <1>16 DEF Sound
<1> QED BY <1>10, <1>12, <1>17

-----------------------------------------------------------------------------
(* What is drawn up stays sound                                            *)

(* A job sees accounts of the chart.                                       *)
ChartIsSeen ==
  /\ leaves \subseteq Codes
  /\ \A f \in Files : job[f] = "running" => seen[f].leaves \subseteq Codes

(* Every entry is drawn as its pattern draws it, corrected or not.         *)
EntriesAreDrawn == \A f \in Files : doc[f] = "proposed" => WellDrawn(proposal[f].entry.lines)

Uses(i) == {f \in Files : doc[f] = "proposed" /\ proposal[f].rule = i}

(* The hit counts a job has seen are not ahead of the proposals: rules are *)
(* never removed, and proposals stay.                                      *)
HitsAreSeen ==
  \A f \in Files : job[f] = "running" =>
    /\ RuleTable(seen[f].rules) /\ DOMAIN seen[f].rules \subseteq DOMAIN rules
    /\ \A i \in DOMAIN seen[f].rules : seen[f].rules[i].hits <= Cardinality(Uses(i))

DInv == ChartIsSeen /\ EntriesAreDrawn /\ OwnersGetSoundEntries /\ RuleTable(rules) /\ HitsAreSeen /\ HitsAreUses

LEMMA UsesAreFinite == \A i : IsFiniteSet(Uses(i)) /\ Cardinality(Uses(i)) \in Nat
<1> TAKE i
<1>1. Uses(i) \in SUBSET Files
  BY DEF Uses
<1>2. IsFiniteSet(Uses(i))
  BY <1>1, IntakeAssumption, FS_Subset
<1> QED BY <1>2, FS_CardinalityType

LEMMA DraftInit == Init => DInv
<1> SUFFICES ASSUME Init PROVE DInv
  OBVIOUS
<1>1. \A f \in Files : doc[f] # "proposed" /\ job[f] # "running"
  BY IntakeAssumption DEF Init
<1>2. leaves \subseteq Codes /\ rules = SeedRules
  BY DEF Init
<1>3. RuleTable(SeedRules) /\ \A i \in DOMAIN SeedRules : SeedRules[i].hits = 0
  BY IntakeAssumption
<1>4. \A i \in DOMAIN rules : rules[i].hits <= Cardinality(Uses(i))
  BY <1>2, <1>3, UsesAreFinite
<1> QED BY <1>1, <1>2, <1>3, <1>4
        DEF DInv, ChartIsSeen, EntriesAreDrawn, OwnersGetSoundEntries, HitsAreSeen, HitsAreUses, Uses

(* Steps that draw up nothing, and count nothing.                          *)
LEMMA QuietStep ==
  ASSUME DInv, UNCHANGED <<proposal, rules>>, leaves' \subseteq Codes,
         \A g \in Files : doc'[g] = "proposed" <=> doc[g] = "proposed",
         \A g \in Files : job'[g] = "running" =>
           seen'[g] = SiteNow \/ (job[g] = "running" /\ seen'[g] = seen[g])
  PROVE  DInv'
<1>1. \A i : Uses(i)' = Uses(i)
  BY DEF Uses
<1>2. ChartIsSeen'
  BY DEF DInv, ChartIsSeen, SiteNow
<1>3. EntriesAreDrawn' /\ OwnersGetSoundEntries'
  BY DEF DInv, EntriesAreDrawn, OwnersGetSoundEntries
<1>4. RuleTable(rules)'
  BY DEF DInv
<1>5. \A i \in DOMAIN rules : rules[i].hits <= Cardinality(Uses(i))
  BY DEF DInv, HitsAreUses, Uses
<1>6. HitsAreUses'
  BY <1>1, <1>5 DEF HitsAreUses, Uses
<1>7. SiteNow.rules = rules
  BY DEF SiteNow
<1>8. HitsAreSeen'
  <2> SUFFICES ASSUME NEW g \in Files, job'[g] = "running"
               PROVE  /\ RuleTable(seen'[g].rules) /\ DOMAIN seen'[g].rules \subseteq DOMAIN rules
                      /\ \A i \in DOMAIN seen'[g].rules : seen'[g].rules[i].hits <= Cardinality(Uses(i))
    BY <1>1 DEF HitsAreSeen
  <2>1. CASE seen'[g] = SiteNow
    BY <2>1, <1>5, <1>7 DEF DInv
  <2>2. CASE job[g] = "running" /\ seen'[g] = seen[g]
    BY <2>2 DEF DInv, HitsAreSeen
  <2> QED BY <2>1, <2>2
<1> QED BY <1>2, <1>3, <1>4, <1>6, <1>8 DEF DInv

(* The rule a draft comes of is one of those its job has seen.             *)
LEMMA RuleIsSeen ==
  ASSUME NEW see, RuleTable(see.rules), NEW r, NEW n, MatchRule(see, r, n) # 0
  PROVE  MatchRule(see, r, n) \in DOMAIN see.rules
<1> DEFINE hit == {i \in DOMAIN see.rules : see.rules[i].status = "active" /\ Hits(see.rules[i], r, see.supplier, n)}
           first == {i \in hit : \A j \in hit : Order(see.rules[i].kind) <= Order(see.rules[j].kind)}
           orders == {Order(see.rules[i].kind) : i \in hit}
<1>1. hit \subseteq DOMAIN see.rules /\ DOMAIN see.rules \subseteq Nat
  <2>1. PICK m \in Nat : m = Len(see.rules) /\ DOMAIN see.rules = 1..m
    BY DEF RuleTable
  <2> QED BY <2>1
<1>2. MatchRule(see, r, n) = IF hit = {} THEN 0 ELSE Min(first)
  BY DEF MatchRule
<1> HIDE DEF hit
<1>3. \A i \in DOMAIN see.rules : Order(see.rules[i].kind) \in Nat
  <2>1. \A kind \in {"register_no", "name", "item", "band"} : Order(kind) \in Nat
    BY DEF Order
  <2> QED BY <2>1 DEF RuleTable
<1>4. hit # {}
  BY <1>2
<1>5. orders \in SUBSET Nat /\ orders # {}
  BY <1>1, <1>3, <1>4
<1>6. PICK k \in orders : \A m \in orders : k <= m
  BY <1>5, Least
<1>7. PICK i \in hit : k = Order(see.rules[i].kind)
  OBVIOUS
<1>8. i \in first
  BY <1>6, <1>7
<1>9. first \in SUBSET Nat /\ first # {}
  BY <1>1, <1>8
<1>10. PICK l \in first : \A m \in first : l <= m
  BY <1>9, Least
<1>11. Min(first) \in first
  BY <1>10 DEF Min
<1> QED BY <1>1, <1>2, <1>4, <1>11

LEMMA DraftsRule ==
  ASSUME NEW f, NEW see, RuleTable(see.rules), NEW r, NEW a, NEW up, Draft(f, see, r, a, up).rule # 0
  PROVE  Draft(f, see, r, a, up).rule \in DOMAIN see.rules
<1>1. PICK n : Draft(f, see, r, a, up).rule = Choice(see, r, a, n).rule
  BY DEF Draft
<1>2. Choice(see, r, a, n).rule = MatchRule(see, r, n)
  BY DEF Choice
<1> QED BY <1>1, <1>2, RuleIsSeen

(* One row of the table is another.                                        *)
LEMMA RowChanges ==
  ASSUME NEW table, RuleTable(table), NEW k \in DOMAIN table, NEW row,
         row = [kind |-> row.kind, value |-> row.value, code |-> row.code, treatment |-> row.treatment,
                pattern |-> row.pattern, status |-> row.status, hits |-> row.hits],
         row.kind \in {"register_no", "name", "item", "band"}, row.hits \in Nat
  PROVE  /\ RuleTable([table EXCEPT ![k] = row])
         /\ DOMAIN [table EXCEPT ![k] = row] = DOMAIN table
         /\ [table EXCEPT ![k] = row][k] = row
         /\ \A i \in DOMAIN table \ {k} : [table EXCEPT ![k] = row][i] = table[i]
<1>1. PICK m \in Nat : m = Len(table) /\ DOMAIN table = 1..m /\ table = [i \in 1..m |-> table[i]]
  BY DEF RuleTable
<1>2. PICK new : new = [table EXCEPT ![k] = row]
  OBVIOUS
<1>3. DOMAIN new = 1..m /\ new = [i \in 1..m |-> new[i]]
  BY <1>1, <1>2
<1>4. new[k] = row /\ \A i \in DOMAIN table \ {k} : new[i] = table[i]
  BY <1>1, <1>2
<1>5. Len(new) = m
  BY <1>3
<1>6. \A i \in DOMAIN new :
        /\ new[i] = [kind |-> new[i].kind, value |-> new[i].value, code |-> new[i].code,
                     treatment |-> new[i].treatment, pattern |-> new[i].pattern,
                     status |-> new[i].status, hits |-> new[i].hits]
        /\ new[i].kind \in {"register_no", "name", "item", "band"} /\ new[i].hits \in Nat
  <2> SUFFICES ASSUME NEW i \in DOMAIN new
               PROVE  /\ new[i] = [kind |-> new[i].kind, value |-> new[i].value, code |-> new[i].code,
                                   treatment |-> new[i].treatment, pattern |-> new[i].pattern,
                                   status |-> new[i].status, hits |-> new[i].hits]
                      /\ new[i].kind \in {"register_no", "name", "item", "band"} /\ new[i].hits \in Nat
    OBVIOUS
  <2>1. CASE i = k
    BY <2>1, <1>4
  <2>2. CASE i # k
    BY <2>2, <1>1, <1>3, <1>4 DEF RuleTable
  <2> QED BY <2>1, <2>2
<1>7. RuleTable(new)
  BY <1>3, <1>5, <1>6 DEF RuleTable
<1> QED BY <1>1, <1>2, <1>3, <1>4, <1>7

(* A row is added.                                                         *)
LEMMA RowIsAdded ==
  ASSUME NEW table, RuleTable(table), NEW row,
         row = [kind |-> row.kind, value |-> row.value, code |-> row.code, treatment |-> row.treatment,
                pattern |-> row.pattern, status |-> row.status, hits |-> row.hits],
         row.kind \in {"register_no", "name", "item", "band"}, row.hits \in Nat
  PROVE  /\ RuleTable(Append(table, row)) /\ DOMAIN table \subseteq DOMAIN Append(table, row)
         /\ \A i \in DOMAIN table : Append(table, row)[i] = table[i]
         /\ \A i \in DOMAIN Append(table, row) \ DOMAIN table : Append(table, row)[i] = row
<1>1. PICK m \in Nat : m = Len(table) /\ DOMAIN table = 1..m /\ table = [i \in 1..m |-> table[i]]
  BY DEF RuleTable
<1>2. PICK S : S = {table[i] : i \in 1..m} \cup {row}
  OBVIOUS
<1>3. table \in [1..m -> S]
  <2>1. \A i \in 1..m : table[i] \in S
    BY <1>2
  <2>2. [i \in 1..m |-> table[i]] \in [1..m -> S]
    BY <2>1
  <2> QED BY <1>1, <2>2
<1>4. table \in Seq(S) /\ row \in S
  BY <1>2, <1>3, SeqDef
<1>5. PICK new : new = Append(table, row)
  OBVIOUS
<1>6. /\ new \in Seq(S) /\ Len(new) = m + 1
      /\ \A i \in 1..m : new[i] = table[i]
      /\ new[m + 1] = row
  BY <1>1, <1>4, <1>5, AppendProperties
<1>7. DOMAIN new = 1..(m + 1) /\ new = [i \in 1..(m + 1) |-> new[i]]
  BY <1>6
<1>8. \A i \in 1..(m + 1) : i \in 1..m \/ i = m + 1
  OBVIOUS
<1>9. \A i \in DOMAIN new :
        /\ new[i] = [kind |-> new[i].kind, value |-> new[i].value, code |-> new[i].code,
                     treatment |-> new[i].treatment, pattern |-> new[i].pattern,
                     status |-> new[i].status, hits |-> new[i].hits]
        /\ new[i].kind \in {"register_no", "name", "item", "band"} /\ new[i].hits \in Nat
  <2> SUFFICES ASSUME NEW i \in 1..(m + 1)
               PROVE  /\ new[i] = [kind |-> new[i].kind, value |-> new[i].value, code |-> new[i].code,
                                   treatment |-> new[i].treatment, pattern |-> new[i].pattern,
                                   status |-> new[i].status, hits |-> new[i].hits]
                      /\ new[i].kind \in {"register_no", "name", "item", "band"} /\ new[i].hits \in Nat
    BY <1>7
  <2>1. CASE i = m + 1
    BY <2>1, <1>6
  <2>2. CASE i \in 1..m
    <3>1. new[i] = table[i] /\ i \in DOMAIN table
      BY <2>2, <1>1, <1>6
    <3> QED BY <3>1 DEF RuleTable
  <2> QED BY <2>1, <2>2, <1>8
<1>10. Len(new) \in Nat /\ new = [i \in 1..Len(new) |-> new[i]]
  BY <1>6, <1>7
<1>11. RuleTable(new)
  BY <1>9, <1>10 DEF RuleTable
<1>12. 1..m \subseteq 1..(m + 1)
  OBVIOUS
<1>13. \A i \in DOMAIN new \ DOMAIN table : new[i] = row
  BY <1>1, <1>6, <1>7, <1>8
<1> QED BY <1>1, <1>5, <1>6, <1>7, <1>11, <1>12, <1>13

(* The hit count of a rule goes on from what the job has seen, and the     *)
(* proposal is one more use of it.                                         *)
LEMMA ProposeCounts ==
  ASSUME IInv, DInv, NEW f \in Files, NEW r, NEW a, NEW up, Propose(f, r, a, up)
  PROVE  RuleTable(rules)' /\ HitsAreUses' /\ HitsAreSeen'
<1> DEFINE draft == Draft(f, seen[f], r, a, up)
<1>1. /\ job[f] = "running"
      /\ proposal' = [proposal EXCEPT ![f] =
            [reading |-> r, supplier |-> draft.supplier, isNew |-> draft.isNew, seller |-> draft.seller,
             rule |-> draft.rule, code |-> draft.code, entry |-> draft.entry, needs |-> draft.needs,
             corrected |-> FALSE]]
      /\ rules' = Counted(f, draft)
      /\ doc' = [doc EXCEPT ![f] = "proposed"]
      /\ job' = [job EXCEPT ![f] = "done"] /\ seen' = [seen EXCEPT ![f] = None]
  BY DEF Propose, Save
<1>2. /\ RuleTable(seen[f].rules) /\ DOMAIN seen[f].rules \subseteq DOMAIN rules
      /\ \A i \in DOMAIN seen[f].rules : seen[f].rules[i].hits <= Cardinality(Uses(i))
      /\ RuleTable(rules) /\ \A i \in DOMAIN rules : rules[i].hits <= Cardinality(Uses(i))
  BY <1>1 DEF DInv, HitsAreSeen, HitsAreUses, Uses
<1>3. draft.rule # 0 => draft.rule \in DOMAIN seen[f].rules
  BY <1>2, DraftsRule
<1>4. PICK k : k = draft.rule
  OBVIOUS
<1> HIDE DEF draft
<1>5. /\ doc[f] # "proposed" /\ doc'[f] = "proposed" /\ proposal'[f].rule = k /\ job'[f] = "done"
      /\ \A g \in Files \ {f} : doc'[g] = doc[g] /\ proposal'[g] = proposal[g] /\ job'[g] = job[g] /\ seen'[g] = seen[g]
  BY <1>1, <1>4 DEF IInv, Shape, JobsLookBack
<1>6. \A i : Uses(i)' = IF i = k THEN Uses(i) \cup {f} ELSE Uses(i)
  <2> SUFFICES ASSUME NEW i, NEW x PROVE x \in Uses(i)' <=> x \in (IF i = k THEN Uses(i) \cup {f} ELSE Uses(i))
    OBVIOUS
  <2> QED BY <1>5 DEF Uses
<1>7. f \notin Uses(k)
  BY <1>5 DEF Uses
<1>8. \A i : Cardinality(Uses(i)') = IF i = k THEN Cardinality(Uses(i)) + 1 ELSE Cardinality(Uses(i))
  <2>1. Cardinality(Uses(k) \cup {f}) = Cardinality(Uses(k)) + 1
    BY <1>7, UsesAreFinite, FS_AddElement
  <2> QED BY <2>1, <1>6
<1>9. \A i : Cardinality(Uses(i)) \in Nat /\ Cardinality(Uses(i)') \in Nat /\ Cardinality(Uses(i)) <= Cardinality(Uses(i)')
  <2>1. \A i : Cardinality(Uses(i)) \in Nat
    BY UsesAreFinite
  <2> QED BY <2>1, <1>8
<1>10. /\ RuleTable(rules') /\ DOMAIN rules' = DOMAIN rules
       /\ \A i \in DOMAIN rules : rules'[i].hits <= Cardinality(Uses(i)')
  <2>1. CASE k = 0
    <3>1. rules' = rules
      BY <1>1, <1>4, <2>1 DEF Counted
    <3>2. \A i \in DOMAIN rules : rules[i].hits \in Nat
      BY <1>2 DEF RuleTable
    <3>3. ASSUME NEW i \in DOMAIN rules PROVE rules[i].hits <= Cardinality(Uses(i)')
      BY <3>2, <1>2, <1>9
    <3> QED BY <3>1, <3>3, <1>2
  <2>2. CASE k # 0
    <3>1. k \in DOMAIN seen[f].rules /\ k \in DOMAIN rules
      BY <2>2, <1>2, <1>3, <1>4
    <3>2. PICK n : n = seen[f].rules[k].hits + 1
      OBVIOUS
    <3>3. seen[f].rules[k].hits \in Nat /\ seen[f].rules[k].hits <= Cardinality(Uses(k))
      BY <3>1, <1>2 DEF RuleTable
    <3>4. n \in Nat /\ n <= Cardinality(Uses(k)')
      BY <3>2, <3>3, <1>8, <1>9
    <3>5. rules' = [rules EXCEPT ![k].hits = n]
      BY <1>1, <1>4, <2>2, <3>2 DEF Counted
    <3>6. PICK row : row = [rules[k] EXCEPT !.hits = n]
      OBVIOUS
    <3>7. rules' = [rules EXCEPT ![k] = row]
      BY <3>5, <3>6
    <3>8. /\ row = [kind |-> row.kind, value |-> row.value, code |-> row.code, treatment |-> row.treatment,
                    pattern |-> row.pattern, status |-> row.status, hits |-> row.hits]
          /\ row.kind \in {"register_no", "name", "item", "band"} /\ row.hits = n
      <4>1. PICK kd, v, c, t, p, s, h : rules[k] = [kind |-> kd, value |-> v, code |-> c, treatment |-> t,
                                                    pattern |-> p, status |-> s, hits |-> h]
        BY <3>1, <1>2 DEF RuleTable
      <4>2. kd \in {"register_no", "name", "item", "band"}
        BY <4>1, <3>1, <1>2 DEF RuleTable
      <4>3. row = [kind |-> kd, value |-> v, code |-> c, treatment |-> t, pattern |-> p, status |-> s, hits |-> n]
        BY <4>1, <3>6
      <4> QED BY <4>2, <4>3
    <3>9. /\ RuleTable([rules EXCEPT ![k] = row]) /\ DOMAIN [rules EXCEPT ![k] = row] = DOMAIN rules
          /\ [rules EXCEPT ![k] = row][k] = row
          /\ \A i \in DOMAIN rules \ {k} : [rules EXCEPT ![k] = row][i] = rules[i]
      BY <3>1, <3>4, <3>8, <1>2, RowChanges
    <3>10. \A i \in DOMAIN rules : rules[i].hits \in Nat
      BY <1>2 DEF RuleTable
    <3>11. ASSUME NEW i \in DOMAIN rules PROVE rules'[i].hits <= Cardinality(Uses(i)')
      <4>1. CASE i = k
        BY <4>1, <3>4, <3>7, <3>8, <3>9
      <4>2. CASE i # k
        <5>1. rules'[i] = rules[i]
          BY <4>2, <3>7, <3>9
        <5> QED BY <5>1, <3>10, <1>2, <1>9
      <4> QED BY <4>1, <4>2
    <3> QED BY <3>7, <3>9, <3>11
  <2> QED BY <2>1, <2>2
<1>11. HitsAreUses'
  BY <1>10 DEF HitsAreUses, Uses
<1>12. HitsAreSeen'
  <2> SUFFICES ASSUME NEW g \in Files, job'[g] = "running"
               PROVE  /\ RuleTable(seen'[g].rules) /\ DOMAIN seen'[g].rules \subseteq DOMAIN rules'
                      /\ \A i \in DOMAIN seen'[g].rules : seen'[g].rules[i].hits <= Cardinality(Uses(i)')
    BY DEF HitsAreSeen
  <2>1. g # f /\ job[g] = "running" /\ seen'[g] = seen[g]
    BY <1>5
  <2>2. /\ RuleTable(seen[g].rules) /\ DOMAIN seen[g].rules \subseteq DOMAIN rules
        /\ \A i \in DOMAIN seen[g].rules : seen[g].rules[i].hits <= Cardinality(Uses(i))
    BY <2>1 DEF DInv, HitsAreSeen
  <2>3. \A i \in DOMAIN seen[g].rules : seen[g].rules[i].hits \in Nat
    BY <2>2 DEF RuleTable
  <2>4. ASSUME NEW i \in DOMAIN seen[g].rules PROVE seen[g].rules[i].hits <= Cardinality(Uses(i)')
    BY <2>2, <2>3, <1>9
  <2> QED BY <2>1, <2>2, <2>4, <1>10
<1> QED BY <1>10, <1>11, <1>12

LEMMA ProposeDraws ==
  ASSUME IInv, DInv, NEW f \in Files, NEW r, NEW a, NEW up, r.total \in Int, r.vat \in Int, Propose(f, r, a, up)
  PROVE  DInv'
<1> DEFINE draft == Draft(f, seen[f], r, a, up)
           new == [reading |-> r, supplier |-> draft.supplier, isNew |-> draft.isNew, seller |-> draft.seller,
                   rule |-> draft.rule, code |-> draft.code, entry |-> draft.entry, needs |-> draft.needs,
                   corrected |-> FALSE]
<1>1. /\ job[f] = "running" /\ Draftable(f, seen[f], r, a, up)
      /\ proposal' = [proposal EXCEPT ![f] = new]
      /\ doc' = [doc EXCEPT ![f] = "proposed"] /\ UNCHANGED leaves
      /\ job' = [job EXCEPT ![f] = "done"] /\ seen' = [seen EXCEPT ![f] = None]
  BY DEF Propose, Save
<1>2. seen[f].leaves \subseteq Codes
  BY <1>1 DEF DInv, ChartIsSeen
<1>3. PICK p : p = new
  OBVIOUS
<1>4. PICK d : d = draft
  OBVIOUS
<1>5. p.reading = r /\ p.isNew = d.isNew /\ p.seller = d.seller /\ p.code = d.code /\ p.entry = d.entry /\ p.needs = d.needs
  BY <1>3, <1>4
<1>6. /\ WellDrawn(d.entry.lines)
      /\ ~d.needs => /\ Sum(SideOf(d.entry.lines, "debit")) = r.total
                     /\ Balanced(d.entry.lines)
                     /\ Sound(p, d.entry)
  BY <1>1, <1>2, <1>4, <1>5, DraftIsSound
<1> HIDE DEF draft, new
<1>7. /\ doc[f] # "proposed" /\ doc'[f] = "proposed" /\ proposal'[f] = p /\ job'[f] = "done"
      /\ \A g \in Files \ {f} : doc'[g] = doc[g] /\ proposal'[g] = proposal[g] /\ job'[g] = job[g] /\ seen'[g] = seen[g]
  BY <1>1, <1>3 DEF IInv, Shape, JobsLookBack
<1>8. ChartIsSeen'
  BY <1>1, <1>7 DEF DInv, ChartIsSeen
<1>9. EntriesAreDrawn'
  BY <1>5, <1>6, <1>7 DEF DInv, EntriesAreDrawn
<1>10. OwnersGetSoundEntries'
  <2> SUFFICES ASSUME NEW g \in Files, doc'[g] = "proposed", ~proposal'[g].needs
               PROVE  /\ Sum(SideOf(proposal'[g].entry.lines, "debit")) = proposal'[g].reading.total
                      /\ Balanced(proposal'[g].entry.lines)
                      /\ proposal'[g].corrected \/ Sound(proposal'[g], proposal'[g].entry)
    BY DEF OwnersGetSoundEntries
  <2>1. CASE g = f
    BY <2>1, <1>5, <1>6, <1>7
  <2>2. CASE g # f
    BY <2>2, <1>7 DEF DInv, OwnersGetSoundEntries
  <2> QED BY <2>1, <2>2
<1> QED BY <1>8, <1>9, <1>10, ProposeCounts DEF DInv

(* A correction leaves every amount where it was.                          *)
LEMMA CorrectionKeeps ==
  ASSUME IInv, DInv, NEW f \in Files, NEW c, ChangeAccount(f, c)
  PROVE  DInv'
<1>1. /\ doc[f] = "proposed" /\ proposal' = [proposal EXCEPT ![f] = Corrected(proposal[f], c)]
      /\ UNCHANGED <<doc, job, seen, leaves>>
  BY DEF ChangeAccount
<1>2. PICK log, n, t : rules' = Learned(log, n, c, t)
  BY DEF ChangeAccount
<1>3. PICK p, q : p = proposal[f] /\ q = Corrected(p, c)
  OBVIOUS
<1>4. /\ q.reading = p.reading /\ q.rule = p.rule /\ q.needs = p.needs /\ q.corrected = TRUE
      /\ q.entry = [p.entry EXCEPT !.lines = Moved(@, p.code, c)]
  BY <1>3 DEF Corrected
<1>5. /\ proposal'[f] = q /\ \A g \in Files \ {f} : proposal'[g] = proposal[g]
  BY <1>1, <1>3 DEF IInv, Shape
<1>6. \A i : Uses(i)' = Uses(i)
  BY <1>1, <1>3, <1>4, <1>5 DEF Uses
<1>7. /\ WellDrawn(p.entry.lines)
      /\ ~p.needs => Sum(SideOf(p.entry.lines, "debit")) = p.reading.total /\ Balanced(p.entry.lines)
  BY <1>1, <1>3 DEF DInv, EntriesAreDrawn, OwnersGetSoundEntries
<1>8. q.entry.lines = Moved(p.entry.lines, p.code, c)
  BY <1>4
<1>9. /\ WellDrawn(q.entry.lines)
      /\ \A side : Sum(SideOf(q.entry.lines, side)) = Sum(SideOf(p.entry.lines, side))
  BY <1>7, <1>8, MovedLines
<1>10. ~q.needs => Sum(SideOf(q.entry.lines, "debit")) = q.reading.total /\ Balanced(q.entry.lines)
  BY <1>4, <1>7, <1>9 DEF Balanced
<1>11. ChartIsSeen'
  BY <1>1 DEF DInv, ChartIsSeen
<1>12. EntriesAreDrawn' /\ OwnersGetSoundEntries'
  <2>1. EntriesAreDrawn'
    BY <1>1, <1>5, <1>9 DEF DInv, EntriesAreDrawn
  <2>2. ASSUME NEW g \in Files, doc'[g] = "proposed", ~proposal'[g].needs
        PROVE  /\ Sum(SideOf(proposal'[g].entry.lines, "debit")) = proposal'[g].reading.total
               /\ Balanced(proposal'[g].entry.lines)
               /\ proposal'[g].corrected \/ Sound(proposal'[g], proposal'[g].entry)
    <3>1. CASE g = f
      BY <3>1, <2>2, <1>4, <1>5, <1>10
    <3>2. CASE g # f
      BY <3>2, <2>2, <1>1, <1>5 DEF DInv, OwnersGetSoundEntries
    <3> QED BY <3>1, <3>2
  <2> QED BY <2>1, <2>2 DEF OwnersGetSoundEntries
<1>13. RuleTable(rules) /\ \A i \in DOMAIN rules : rules[i].hits <= Cardinality(Uses(i))
  BY DEF DInv, HitsAreUses, Uses
<1>14. /\ RuleTable(rules') /\ DOMAIN rules \subseteq DOMAIN rules'
       /\ \A i \in DOMAIN rules : rules'[i] = rules[i]
       /\ \A i \in DOMAIN rules' \ DOMAIN rules : rules'[i].hits = 0
  <2>1. CASE rules' = rules
    BY <2>1, <1>13
  <2>2. CASE rules' # rules
    <3>1. PICK row : /\ row = [kind |-> LearnedKind(n), value |-> LearnedValue(n), code |-> c, treatment |-> t,
                               pattern |-> NoPattern, status |-> "pending", hits |-> 0]
                     /\ rules' = Append(rules, row)
      BY <2>2, <1>2 DEF Learned
    <3>2. LearnedKind(n) \in {"register_no", "name", "item", "band"}
      BY DEF LearnedKind
    <3>3. /\ row = [kind |-> row.kind, value |-> row.value, code |-> row.code, treatment |-> row.treatment,
                    pattern |-> row.pattern, status |-> row.status, hits |-> row.hits]
          /\ row.kind \in {"register_no", "name", "item", "band"} /\ row.hits \in Nat /\ row.hits = 0
      BY <3>1, <3>2
    <3> QED BY <3>1, <3>3, <1>13, RowIsAdded
  <2> QED BY <2>1, <2>2
<1>15. HitsAreUses'
  <2> SUFFICES ASSUME NEW i \in DOMAIN rules' PROVE rules'[i].hits <= Cardinality(Uses(i)')
    BY DEF HitsAreUses, Uses
  <2>1. Cardinality(Uses(i)) \in Nat
    BY UsesAreFinite
  <2>2. rules'[i].hits <= Cardinality(Uses(i))
    BY <2>1, <1>13, <1>14
  <2> QED BY <2>2, <1>6
<1>16. HitsAreSeen'
  BY <1>1, <1>6, <1>14 DEF DInv, HitsAreSeen
<1> QED BY <1>11, <1>12, <1>14, <1>15, <1>16 DEF DInv

(* A rule is confirmed or retired.                                         *)
LEMMA StatusStep ==
  ASSUME DInv, NEW k \in DOMAIN rules, ConfirmRule(k) \/ RetireRule(k)
  PROVE  DInv'
<1>1. PICK s : rules' = [rules EXCEPT ![k].status = s] /\ UNCHANGED <<doc, job, seen, proposal, leaves>>
  BY DEF ConfirmRule, RetireRule
<1>2. RuleTable(rules) /\ \A i \in DOMAIN rules : rules[i].hits <= Cardinality(Uses(i))
  BY DEF DInv, HitsAreUses, Uses
<1>3. PICK row : row = [rules[k] EXCEPT !.status = s]
  OBVIOUS
<1>4. /\ row = [kind |-> row.kind, value |-> row.value, code |-> row.code, treatment |-> row.treatment,
                pattern |-> row.pattern, status |-> row.status, hits |-> row.hits]
      /\ row.kind \in {"register_no", "name", "item", "band"} /\ row.hits \in Nat /\ row.hits = rules[k].hits
  <2>1. PICK kd, v, c, t, p, o, h : rules[k] = [kind |-> kd, value |-> v, code |-> c, treatment |-> t,
                                                pattern |-> p, status |-> o, hits |-> h]
    BY <1>2 DEF RuleTable
  <2>2. kd \in {"register_no", "name", "item", "band"} /\ h \in Nat
    BY <2>1, <1>2 DEF RuleTable
  <2>3. row = [kind |-> kd, value |-> v, code |-> c, treatment |-> t, pattern |-> p, status |-> s, hits |-> h]
    BY <2>1, <1>3
  <2> QED BY <2>1, <2>2, <2>3
<1>5. rules' = [rules EXCEPT ![k] = row]
  BY <1>1, <1>3
<1>6. /\ RuleTable(rules') /\ DOMAIN rules' = DOMAIN rules
      /\ \A i \in DOMAIN rules : rules'[i].hits = rules[i].hits
  <2>1. /\ RuleTable([rules EXCEPT ![k] = row]) /\ DOMAIN [rules EXCEPT ![k] = row] = DOMAIN rules
        /\ [rules EXCEPT ![k] = row][k] = row
        /\ \A i \in DOMAIN rules \ {k} : [rules EXCEPT ![k] = row][i] = rules[i]
    BY <1>2, <1>4, RowChanges
  <2> QED BY <2>1, <1>4, <1>5
<1>7. \A i : Uses(i)' = Uses(i)
  BY <1>1 DEF Uses
<1>8. HitsAreUses'
  BY <1>2, <1>6, <1>7 DEF HitsAreUses, Uses
<1>9. HitsAreSeen'
  BY <1>1, <1>6, <1>7 DEF DInv, HitsAreSeen
<1>10. ChartIsSeen' /\ EntriesAreDrawn' /\ OwnersGetSoundEntries'
  BY <1>1 DEF DInv, ChartIsSeen, EntriesAreDrawn, OwnersGetSoundEntries
<1> QED BY <1>6, <1>8, <1>9, <1>10 DEF DInv

LEMMA DraftNext == IInv /\ DInv /\ [Next]_vars => DInv'
<1> SUFFICES ASSUME IInv, DInv, [Next]_vars PROVE DInv'
  OBVIOUS
<1>0. leaves \subseteq Codes /\ IsFiniteSet(Files) /\ Editable \subseteq Codes
  BY IntakeAssumption DEF DInv, ChartIsSeen
<1>1. ASSUME NEW f \in Files, SendFile(f) PROVE DInv'
  <2>1. /\ UNCHANGED <<proposal, rules, leaves, seen>> /\ job' = [job EXCEPT ![f] = "committed"]
        /\ doc[f] = None /\ doc' = [doc EXCEPT ![f] = "received"]
    BY <1>1 DEF SendFile, site
  <2>2. \A g \in Files : doc'[g] = "proposed" <=> doc[g] = "proposed"
    BY <2>1, IntakeAssumption DEF IInv, Shape
  <2>3. \A g \in Files : job'[g] = "running" => job[g] = "running" /\ seen'[g] = seen[g]
    BY <2>1 DEF IInv, Shape
  <2> QED BY <2>1, <2>2, <2>3, <1>0, QuietStep
<1>2. ASSUME NEW f \in Files, Enqueue(f) \/ WorkerDies(f) PROVE DInv'
  <2>1. /\ UNCHANGED <<doc, proposal, rules, leaves, seen>>
        /\ job' = [job EXCEPT ![f] = "queued"] \/ job' = [job EXCEPT ![f] = "lost"]
    BY <1>2 DEF Enqueue, WorkerDies, site
  <2>2. \A g \in Files : job'[g] = "running" => job[g] = "running" /\ seen'[g] = seen[g]
    BY <2>1 DEF IInv, Shape
  <2> QED BY <2>1, <2>2, <1>0, QuietStep
<1>3. ASSUME NEW f \in Files, StartJob(f) PROVE DInv'
  <2>1. /\ UNCHANGED <<doc, proposal, rules, leaves>>
        /\ job' = [job EXCEPT ![f] = "running"] /\ seen' = [seen EXCEPT ![f] = SiteNow]
    BY <1>3 DEF StartJob, site
  <2>2. \A g \in Files : job'[g] = "running" => seen'[g] = SiteNow \/ (job[g] = "running" /\ seen'[g] = seen[g])
    BY <2>1 DEF IInv, Shape
  <2> QED BY <2>1, <2>2, <1>0, QuietStep
<1>4. ASSUME NEW f \in Files, NEW say \in ModelSays[f], NEW up, Propose(f, say.reading, say.answer, up) PROVE DInv'
  <2>1. say.reading.total \in Int /\ say.reading.vat \in Int
    BY IntakeAssumption
  <2> QED BY <2>1, <1>4, ProposeDraws
<1>5. ASSUME NEW f \in Files, FailJob(f) \/ RetryJob(f) PROVE DInv'
  <2>1. /\ UNCHANGED <<doc, proposal, rules, leaves>> /\ seen' = [seen EXCEPT ![f] = None]
        /\ job' = [job EXCEPT ![f] = "failed"] \/ job' = [job EXCEPT ![f] = "queued"]
    BY <1>5 DEF FailJob, RetryJob, site
  <2>2. \A g \in Files : job'[g] = "running" => job[g] = "running" /\ seen'[g] = seen[g]
    BY <2>1 DEF IInv, Shape
  <2> QED BY <2>1, <2>2, <1>0, QuietStep
<1>6. ASSUME NEW f \in Files, NEW c, ChangeAccount(f, c) PROVE DInv'
  BY <1>6, CorrectionKeeps
<1>7. ASSUME NEW i \in DOMAIN rules, ConfirmRule(i) \/ RetireRule(i) PROVE DInv'
  BY <1>7, StatusStep
<1>8. ASSUME NEW c, SwitchAccount(c) PROVE DInv'
  <2>1. UNCHANGED <<doc, job, seen, proposal, rules>> /\ leaves' \subseteq Codes
    BY <1>8, <1>0 DEF SwitchAccount
  <2> QED BY <2>1, QuietStep
<1>9. CASE UNCHANGED vars
  <2>1. UNCHANGED <<doc, job, seen, proposal, rules, leaves>>
    BY <1>9 DEF vars, site
  <2> QED BY <2>1, <1>0, QuietStep
<1> QED BY <1>1, <1>2, <1>3, <1>4, <1>5, <1>6, <1>7, <1>8, <1>9 DEF Next

(* What is drawn up is sound, for any number of photos, whatever the model *)
(* reads and answers and however the site changes under a job: an entry an *)
(* owner may approve alone books the whole receipt and what the receipt    *)
(* says (pipeline._run, post.change_account), and a rule counts no more    *)
(* hits than there are proposals of it (rules.record_hit).                 *)
THEOREM DraftsStaySound == Spec => []DraftsAreSound
<1>1. DInv => DraftsAreSound
  BY DEF DInv, DraftsAreSound
<1> QED BY <1>1, InitHolds, NextHolds, DraftInit, DraftNext, PTL DEF Spec
=============================================================================
