------------------------------ MODULE ChatProofs ------------------------------
(***************************************************************************)
(* What is proved of the chat.  First ChatUpdates, for any number of       *)
(* updates, web processes and workers: Telegram's retries run no handler   *)
(* twice.  The stamp is what the argument hangs on: a row that was read    *)
(* and has the stamp of the table is the row of the table.                 *)
(*                                                                         *)
(* Then Onboarding, the wizard of /эхлэх, for any people, companies,       *)
(* banks, currencies and stock lists: every question it stands on can be   *)
(* answered, its summary tells what is in the ledger, a company follows    *)
(* what was confirmed of it, and no way out of it loses a stock list.      *)
(* The two modules have no state in common.                                *)
(***************************************************************************)
EXTENDS ChatUpdates, Onboarding, Sums, SequenceTheorems, FiniteSetTheorems, TLAPS

Serving(r) == request[r] # Free

Committed(r) == Serving(r) /\ request[r].phase = "committed"

(* A row that somebody read is older than the table's row, or equal to it. *)
Older(seen) ==
  /\ seen.stamp <= row.stamp
  /\ seen.stamp = row.stamp => seen = row

ReadsAreOlder ==
  /\ \A r \in Requests : Serving(r) => Older(request[r].row)
  /\ \A w \in Workers : job[w] # Free => Older(job[w].row)

(* The mark covers what was handed over and what is about to be, and one   *)
(* request at most is about to hand over an update nobody has handed over. *)
MarkCovers ==
  /\ \A u \in Updates : enqueued[u] > 0 => u <= row.last
  /\ \A r \in Requests : Committed(r) =>
       /\ request[r].update <= row.last
       /\ enqueued[request[r].update] = 0
  /\ \A r, s \in Requests :
       Committed(r) /\ Committed(s) /\ request[r].update = request[s].update => r = s

UpdatesInv == UpdatesTypeOK /\ ReadsAreOlder /\ MarkCovers /\ HandedOverAtMostOnce

-----------------------------------------------------------------------------
(* Nothing has been read or handed over yet.                               *)
LEMMA UpdatesInitInv == UpdatesInit => UpdatesInv
  BY UpdatesAssumption
  DEF UpdatesInit, UpdatesInv, UpdatesTypeOK, RequestRow, JobRow, Row, Updates, ReadsAreOlder, Serving, MarkCovers, Committed,
      HandedOverAtMostOnce

(* Steps of the web processes.                                             *)
LEMMA RequestSteps ==
  ASSUME UpdatesInv, NEW r \in Requests,
         \/ \E u \in Updates : Deliver(r, u)
         \/ Serve(r) \/ AnswerLost(r) \/ RequestDies(r)
  PROVE  UpdatesInv'
<1>1. ASSUME NEW u \in Updates, Deliver(r, u) PROVE UpdatesInv'
  <2> DEFINE new == [update |-> u, phase |-> "read", row |-> row]
  <2>1. /\ request' = [request EXCEPT ![r] = new]
        /\ UNCHANGED <<row, job, queue, answered, recorded, refused, enqueued, lost>>
    BY <1>1 DEF Deliver
  <2>2. new \in RequestRow /\ new.phase = "read" /\ new.row = row
    BY DEF RequestRow, UpdatesInv, UpdatesTypeOK
  <2> HIDE DEF new
  <2>3. UpdatesTypeOK'
    BY <2>1, <2>2 DEF UpdatesInv, UpdatesTypeOK, RequestRow
  <2>4. ReadsAreOlder'
    BY <2>1, <2>2 DEF UpdatesInv, UpdatesTypeOK, RequestRow, JobRow, Row, ReadsAreOlder, Serving, Older
  <2>5. MarkCovers' /\ HandedOverAtMostOnce'
    BY <2>1, <2>2 DEF UpdatesInv, MarkCovers, Serving, Committed, HandedOverAtMostOnce
  <2> QED BY <2>3, <2>4, <2>5 DEF UpdatesInv
<1>2. CASE RefuseDuplicate(r) \/ Collide(r) \/ RequestDies(r)
  <2>1. /\ request' = [request EXCEPT ![r] = Free]
        /\ UNCHANGED <<row, job, queue, recorded, enqueued>>
    BY <1>2 DEF RefuseDuplicate, Collide, RequestDies
  <2>2. answered' \subseteq Updates /\ refused' \subseteq Updates /\ lost' \in 0 .. MaxLosses
    BY <1>2, UpdatesAssumption DEF RefuseDuplicate, Collide, RequestDies, UpdatesInv, UpdatesTypeOK, RequestRow, JobRow
  <2>3. UpdatesTypeOK'
    BY <2>1, <2>2 DEF UpdatesInv, UpdatesTypeOK, RequestRow, JobRow
  <2>4. ReadsAreOlder'
    BY <2>1 DEF UpdatesInv, ReadsAreOlder, Serving, Older
  <2>5. MarkCovers' /\ HandedOverAtMostOnce'
    BY <2>1 DEF UpdatesInv, MarkCovers, Serving, Committed, HandedOverAtMostOnce
  <2> QED BY <2>3, <2>4, <2>5 DEF UpdatesInv
<1>3. CASE Record(r)
  <2> DEFINE u == request[r].update
             new == [request[r] EXCEPT !.phase = "committed"]
             saved == [last |-> u, step |-> request[r].row.step, stamp |-> row.stamp + 1]
  <2>1. /\ request[r] \in RequestRow /\ request[r].row = row /\ row \in Row
        /\ u \in Updates /\ u > row.last
    BY <1>3 DEF Record, UpdatesInv, UpdatesTypeOK, RequestRow, Row, Updates, ReadsAreOlder, Serving, Older, Fresh,
       Duplicate
  <2>2. /\ new \in RequestRow /\ new.phase = "committed" /\ new.update = u /\ new.row = row
        /\ saved \in Row /\ saved.last = u /\ saved.stamp = row.stamp + 1
    BY <2>1 DEF RequestRow, Row
  <2>3. /\ request' = [request EXCEPT ![r] = new]
        /\ row' = saved /\ recorded' = recorded \cup {u}
        /\ UNCHANGED <<job, queue, answered, refused, enqueued, lost>>
    BY <1>3 DEF Record
  <2> HIDE DEF new, saved
  <2>4. UpdatesTypeOK'
    BY <2>1, <2>2, <2>3 DEF UpdatesInv, UpdatesTypeOK, RequestRow
  <2>5. \A seen \in Row : Older(seen) => Older(seen)'
    BY <2>1, <2>2, <2>3 DEF Older, Row
  <2>6. Older(row)' /\ \A x \in Requests : request[x] # Free => request[x].row \in Row
    BY <2>1, <2>2, <2>3 DEF Older, Row, UpdatesInv, UpdatesTypeOK, RequestRow, JobRow
  <2>7. ReadsAreOlder'
    BY <2>2, <2>3, <2>5, <2>6, <2>1 DEF UpdatesInv, UpdatesTypeOK, RequestRow, JobRow, ReadsAreOlder, Serving, Older, Row
  <2>8. enqueued[u] = 0
    BY <2>1 DEF UpdatesInv, MarkCovers, UpdatesTypeOK, RequestRow, JobRow, Updates, Row
  <2>9. \A x \in Requests : Committed(x) => request[x].update # u
    BY <2>1 DEF UpdatesInv, MarkCovers, UpdatesTypeOK, RequestRow, JobRow, Updates, Row
  <2>10. \A x \in Updates : x <= row.last => x <= row'.last
    BY <2>1, <2>2, <2>3 DEF Updates, Row
  <2>11. \A x \in Requests : Committed(x) => request[x].update \in Updates
    BY DEF UpdatesInv, UpdatesTypeOK, RequestRow, JobRow, Committed, Serving
  <2>12. u <= row'.last
    BY <2>1, <2>2, <2>3 DEF Updates
  <2>13. \A x \in Requests : Committed(x)' <=> x = r \/ Committed(x)
    BY UpdatesAssumption, <2>1, <2>2, <2>3 DEF Committed, Serving, UpdatesInv, UpdatesTypeOK, RequestRow, JobRow, Updates
  <2>14. \A x \in Requests : x # r => request'[x] = request[x]
    BY <2>3
  <2>15. request'[r].update = u
    BY <2>2, <2>3 DEF UpdatesInv, UpdatesTypeOK, RequestRow, JobRow
  <2>16. MarkCovers'
    BY <2>3, <2>8, <2>9, <2>10, <2>11, <2>12, <2>13, <2>14, <2>15 DEF UpdatesInv, MarkCovers
  <2>17. HandedOverAtMostOnce'
    BY <2>3 DEF UpdatesInv, HandedOverAtMostOnce
  <2> QED BY <2>4, <2>7, <2>16, <2>17 DEF UpdatesInv
<1>4. CASE Enqueue(r) \/ AnswerLost(r)
  <2> DEFINE u == request[r].update
  <2>1. /\ Committed(r)
        /\ request' = [request EXCEPT ![r] = Free]
        /\ queue' = Append(queue, u)
        /\ enqueued' = [enqueued EXCEPT ![u] = @ + 1]
        /\ UNCHANGED <<row, job, recorded, refused>>
    BY <1>4 DEF Enqueue, AnswerLost, Committed, Serving
  <2>2. u \in Updates /\ enqueued[u] = 0 /\ u <= row.last
    BY <2>1 DEF UpdatesInv, UpdatesTypeOK, RequestRow, JobRow, MarkCovers, Committed, Serving
  <2>3. answered' \subseteq Updates /\ lost' \in 0 .. MaxLosses
    BY <1>4, <2>2, UpdatesAssumption DEF Enqueue, AnswerLost, UpdatesInv, UpdatesTypeOK, RequestRow, JobRow
  <2>4. UpdatesTypeOK'
    BY <2>1, <2>2, <2>3 DEF UpdatesInv, UpdatesTypeOK, RequestRow, JobRow
  <2>5. ReadsAreOlder'
    BY <2>1 DEF UpdatesInv, ReadsAreOlder, Serving, Older
  <2>6. \A x \in Requests : Committed(x)' => Committed(x) /\ x # r /\ request'[x] = request[x]
    BY <2>1 DEF Committed, Serving, UpdatesInv, UpdatesTypeOK, RequestRow, JobRow
  <2>7. enqueued'[u] = 1 /\ \A x \in Updates : x # u => enqueued'[x] = enqueued[x]
    BY <2>1, <2>2 DEF UpdatesInv, UpdatesTypeOK, RequestRow, JobRow
  <2>8. \A x \in Requests : Committed(x)' => request[x].update # u /\ request[x].update \in Updates
    BY <2>1, <2>6 DEF UpdatesInv, MarkCovers, UpdatesTypeOK, RequestRow, JobRow, Committed, Serving
  <2>9. MarkCovers'
    BY <2>1, <2>2, <2>6, <2>7, <2>8 DEF UpdatesInv, MarkCovers
  <2>10. HandedOverAtMostOnce'
    BY <2>2, <2>7 DEF UpdatesInv, HandedOverAtMostOnce
  <2> QED BY <2>4, <2>5, <2>9, <2>10 DEF UpdatesInv
<1> QED
  BY <1>1, <1>2, <1>3, <1>4 DEF Serve

(* Steps of the workers.                                                   *)
LEMMA WorkerSteps ==
  ASSUME UpdatesInv, NEW w \in Workers, Work(w)
  PROVE  UpdatesInv'
<1>1. CASE Take(w)
  <2> DEFINE new == [update |-> Head(queue), row |-> row]
  <2>1. /\ job' = [job EXCEPT ![w] = new] /\ queue' = Tail(queue)
        /\ UNCHANGED <<row, request, answered, recorded, refused, enqueued, lost>>
    BY <1>1 DEF Take
  <2>2. new \in JobRow /\ new.row = row /\ queue' \in Seq(Updates)
    BY <1>1 DEF Take, JobRow, UpdatesInv, UpdatesTypeOK, RequestRow, JobRow
  <2> HIDE DEF new
  <2>3. UpdatesTypeOK'
    BY <2>1, <2>2 DEF UpdatesInv, UpdatesTypeOK, RequestRow, JobRow
  <2>4. ReadsAreOlder'
    BY <2>1, <2>2 DEF UpdatesInv, UpdatesTypeOK, RequestRow, JobRow, Row, ReadsAreOlder, Serving, Older
  <2>5. MarkCovers' /\ HandedOverAtMostOnce'
    BY <2>1 DEF UpdatesInv, MarkCovers, Serving, Committed, HandedOverAtMostOnce
  <2> QED BY <2>3, <2>4, <2>5 DEF UpdatesInv
<1>2. CASE EndWithoutStep(w)
  <2>1. /\ job' = [job EXCEPT ![w] = Free]
        /\ UNCHANGED <<row, request, queue, answered, recorded, refused, enqueued, lost>>
    BY <1>2 DEF EndWithoutStep
  <2> QED BY <2>1 DEF UpdatesInv, UpdatesTypeOK, RequestRow, JobRow, ReadsAreOlder, MarkCovers, Serving, Committed, Older,
             HandedOverAtMostOnce
<1>3. ASSUME NEW to \in {0} \cup Updates, MoveOn(w, to) PROVE UpdatesInv'
  <2> DEFINE saved == [last |-> job[w].row.last, step |-> to, stamp |-> row.stamp + 1]
  <2>1. job[w].row = row /\ row \in Row
    BY <1>3 DEF MoveOn, UpdatesInv, UpdatesTypeOK, RequestRow, JobRow, ReadsAreOlder, Older, Fresh
  <2>2. saved \in Row /\ saved.last = row.last /\ saved.stamp = row.stamp + 1
    BY <2>1 DEF Row
  <2>3. /\ job' = [job EXCEPT ![w] = Free] /\ row' = saved
        /\ UNCHANGED <<request, queue, answered, recorded, refused, enqueued, lost>>
    BY <1>3 DEF MoveOn
  <2> HIDE DEF saved
  <2>4. UpdatesTypeOK'
    BY <2>2, <2>3 DEF UpdatesInv, UpdatesTypeOK, RequestRow, JobRow
  <2>5. \A seen \in Row : Older(seen) => Older(seen)'
    BY <2>1, <2>2, <2>3 DEF Older, Row
  <2>6. ReadsAreOlder'
    BY <2>3, <2>5 DEF UpdatesInv, UpdatesTypeOK, RequestRow, JobRow, ReadsAreOlder, Serving
  <2>7. row'.last = row.last
    BY <2>2, <2>3
  <2>8. MarkCovers' /\ HandedOverAtMostOnce'
    BY <2>3, <2>7 DEF UpdatesInv, MarkCovers, Serving, Committed, HandedOverAtMostOnce
  <2> QED BY <2>4, <2>6, <2>8 DEF UpdatesInv
<1> QED
  BY <1>1, <1>2, <1>3 DEF Work

LEMMA UpdatesInvStep == UpdatesInv /\ [UpdatesNext]_updatesVars => UpdatesInv'
<1> SUFFICES ASSUME UpdatesInv, [UpdatesNext]_updatesVars PROVE UpdatesInv'
  OBVIOUS
<1>1. CASE UNCHANGED updatesVars
  BY <1>1 DEF updatesVars, UpdatesInv, UpdatesTypeOK, RequestRow, JobRow, ReadsAreOlder, MarkCovers, Serving, Committed, Older,
     HandedOverAtMostOnce
<1> QED
  BY <1>1, RequestSteps, WorkerSteps DEF UpdatesNext

(* Whatever Telegram redelivers, and however the deliveries overlap with   *)
(* each other and with the handlers, an update reaches the queue at most   *)
(* once.                                                                   *)
THEOREM RetriesRunNothingTwice == UpdatesSpec => []HandedOverAtMostOnce
<1>1. UpdatesSpec => []UpdatesInv
  BY UpdatesInitInv, UpdatesInvStep, PTL DEF UpdatesSpec
<1>2. UpdatesInv => HandedOverAtMostOnce
  BY DEF UpdatesInv
<1> QED
  BY <1>1, <1>2, PTL

(* No handler that saves its whole row takes the webhook's mark back.      *)
THEOREM MarkOnlyAdvances == UpdatesSpec => MarkNeverGoesBack
<1>1. UpdatesSpec => []UpdatesInv
  BY UpdatesInitInv, UpdatesInvStep, PTL DEF UpdatesSpec
<1>2. ASSUME UpdatesInv, [UpdatesNext]_updatesVars PROVE row'.last >= row.last
  <2>1. row.last \in Nat
    BY <1>2 DEF UpdatesInv, UpdatesTypeOK, RequestRow, JobRow, Row, Updates
  <2>2. ASSUME NEW r \in Requests, Record(r) PROVE row'.last >= row.last
    BY <1>2, <2>2 DEF Record, Duplicate, UpdatesInv, UpdatesTypeOK, RequestRow, JobRow, Row, Updates, ReadsAreOlder, Serving, Older, Fresh
  <2>3. ASSUME NEW w \in Workers, NEW to \in {0} \cup Updates, MoveOn(w, to)
        PROVE  row'.last >= row.last
    BY <1>2, <2>1, <2>3 DEF MoveOn, UpdatesInv, UpdatesTypeOK, RequestRow, JobRow, Row, ReadsAreOlder, Older, Fresh
  <2>4. CASE UNCHANGED row
    BY <2>1, <2>4
  <2> QED
    BY <1>2, <2>2, <2>3, <2>4
    DEF UpdatesNext, Serve, Work, Deliver, RefuseDuplicate, Collide, Enqueue, AnswerLost, RequestDies,
        Take, EndWithoutStep, updatesVars
<1>3. UpdatesInv /\ [UpdatesNext]_updatesVars => [row'.last >= row.last]_updatesVars
  BY <1>2
<1> QED
  BY <1>1, <1>3, PTL DEF UpdatesSpec, MarkNeverGoesBack

(* A handler that moves the conversation on has read the step it replaces. *)
THEOREM StepsAreReadFirst == UpdatesSpec => StepsAreNotOverwritten
<1>1. UpdatesSpec => []UpdatesInv
  BY UpdatesInitInv, UpdatesInvStep, PTL DEF UpdatesSpec
<1>2. ASSUME UpdatesInv, [UpdatesNext]_updatesVars, NEW w \in Workers, job[w] # Free, job'[w] = Free, row' # row
      PROVE  job[w].row.step = row.step
  <2>1. ASSUME NEW v \in Workers, NEW to \in {0} \cup Updates, MoveOn(v, to)
        PROVE  job[w].row.step = row.step
    <3>1. v = w
      BY <1>2, <2>1 DEF MoveOn, UpdatesInv, UpdatesTypeOK
    <3> QED BY <1>2, <2>1, <3>1 DEF MoveOn, Fresh, UpdatesInv, ReadsAreOlder, Older
  <2>2. ASSUME NEW r \in Requests, Record(r) PROVE FALSE
    BY <1>2, <2>2 DEF Record
  <2> QED
    BY <1>2, <2>1, <2>2
    DEF UpdatesNext, Serve, Work, Deliver, RefuseDuplicate, Collide, Enqueue, AnswerLost, RequestDies,
        Take, EndWithoutStep, updatesVars
<1>3. UpdatesInv /\ [UpdatesNext]_updatesVars =>
        [\A w \in Workers :
           job[w] # Free /\ job'[w] = Free /\ row' # row => job[w].row.step = row.step]_updatesVars
  BY <1>2
<1> QED
  BY <1>1, <1>3, PTL DEF UpdatesSpec, StepsAreNotOverwritten

(* The chat's row and the processes around it always have their types.     *)
THEOREM UpdatesAreTyped == UpdatesSpec => []UpdatesTypeOK
<1>1. UpdatesSpec => []UpdatesInv
  BY UpdatesInitInv, UpdatesInvStep, PTL DEF UpdatesSpec
<1>2. UpdatesInv => UpdatesTypeOK
  BY DEF UpdatesInv
<1> QED
  BY <1>1, <1>2, PTL

-----------------------------------------------------------------------------
(* Onboarding.                                                            *)
BankRow ==
  [bank : Banks, currencies : Seq(Currencies), numbers : [Currencies -> Numbers \cup {NoNumber}]]

BankList == Seq(Banks)

RowList == Seq(BankRow)

CurrencyList == Seq(Currencies)

Payload ==
  [company : Companies, vat : BOOLEAN, selected : BankList, banks : RowList, index : Nat,
   currencies : CurrencyList, queue : CurrencyList, stock : BOOLEAN, skipped : BOOLEAN,
   intake : Nat \cup {None}, count : Nat, posted : Nat \cup {None}, filed : Nat]

IntakeRow ==
  [company : Companies \cup {None}, rows : Nat, status : {"draft", "failed", "posted", "cancelled"}]

CodeRow ==
  [company : Companies, role : Roles, status : {"open", "used", "expired"}]

Types ==
  /\ step \in [Chats -> Steps \cup {None}]
  /\ answers \in [Chats -> Payload \cup {None}]
  /\ active \in [Chats -> Companies \cup {None}]
  /\ codes \in Seq(CodeRow)
  /\ intakes \in Seq(IntakeRow)

(* What question s takes for granted of the banks in payload a, ...        *)
BanksFit(s, a) ==
  /\ s \in {"cur", "cur_other", "acct"} => AtBank(a)
  /\ s = "acct" => a.queue # <<>>

(* ... and of the stock: whoever is past it has posted a list, has skipped *)
(* it or has none.                                                         *)
StockFits(s, a) ==
  /\ s \in {"inv_wait", "inv_confirm"} => a.stock
  /\ s = "inv_confirm" <=> Unfiled(a)
  /\ a.posted # None => a.stock
  /\ s \in {"acc_name", "micpa", "summary"} /\ a.posted = None => (a.stock <=> a.skipped)

(* What the payload says of the lists on the desk.                         *)
TellsOf(s, a, list) ==
  /\ a.intake # None => a.intake \in DOMAIN list
  /\ a.posted # None =>
       /\ a.posted \in DOMAIN list
       /\ list[a.posted].status = "posted"
       /\ list[a.posted].rows = a.filed
  /\ s = "inv_confirm" =>
       list[a.intake].status \in {"draft", "failed"} /\ list[a.intake].rows = a.count

Open(c) == step[c] # None

ChatFits(c) ==
  Open(c) => /\ answers[c] \in Payload
             /\ BanksFit(step[c], answers[c])
             /\ StockFits(step[c], answers[c])
             /\ TellsOf(step[c], answers[c], intakes)

(* No two wizards speak of one list.                                       *)
OwnLists ==
  \A c, d \in Chats :
    c # d /\ Open(c) /\ Open(d) /\ answers[c].intake # None => answers[c].intake # answers[d].intake

IInv == Types /\ OwnLists /\ \A c \in Chats : ChatFits(c)

-----------------------------------------------------------------------------
(* The payload                                                             *)

LEMMA BlankFits ==
  ASSUME NEW co \in Companies, NEW list
  PROVE  /\ Blank(co) \in Payload
         /\ BanksFit("vat", Blank(co)) /\ StockFits("vat", Blank(co)) /\ TellsOf("vat", Blank(co), list)
  BY OnboardingAssumption DEF Steps, Blank, Payload, BankList, RowList, CurrencyList, BanksFit, StockFits, TellsOf, Unfiled

LEMMA WithoutType ==
  ASSUME NEW S, NEW list \in Seq(S), NEW x, Holds(list, x)
  PROVE  Without(list, x) \in Seq(S)
<1> DEFINE i == CHOOSE i \in DOMAIN list : list[i] = x
<1>1. i \in 1..Len(list)
  BY DEF Holds
<1>2. SubSeq(list, 1, i - 1) \in Seq(S) /\ SubSeq(list, i + 1, Len(list)) \in Seq(S)
  <2>1. \A m, n \in Int : (\A j \in m..n : j \in 1..Len(list)) => SubSeq(list, m, n) \in Seq(S)
    OBVIOUS
  <2>2. Len(list) \in Nat
    OBVIOUS
  <2> HIDE DEF i
  <2> QED BY <1>1, <2>1, <2>2
<1> QED BY <1>2 DEF Without

LEMMA ToggledType ==
  ASSUME NEW S, NEW list \in Seq(S), NEW x \in S
  PROVE  Toggled(list, x) \in Seq(S)
  BY WithoutType DEF Toggled

-----------------------------------------------------------------------------
(* Steps of one chat                                                       *)

(* The question changes, and the payload with it; the lists may, as long as *)
(* what the other wizards say of them stays true.                          *)
LEMMA AskStep ==
  ASSUME IInv, NEW c \in Chats, NEW s \in Steps, NEW a \in Payload, Ask(c, s, a),
         BanksFit(s, a), StockFits(s, a), TellsOf(s, a, intakes'),
         active' \in [Chats -> Companies \cup {None}], codes' \in Seq(CodeRow), intakes' \in Seq(IntakeRow),
         \A d \in Chats \ {c} : Open(d) =>
           /\ TellsOf(step[d], answers[d], intakes')
           /\ a.intake # None => a.intake # answers[d].intake
  PROVE  IInv'
<1>1. Types'
  BY DEF Ask, IInv, Types
<1>2. \A d \in Chats \ {c} : step'[d] = step[d] /\ answers'[d] = answers[d]
  BY DEF Ask, IInv, Types
<1>3. step'[c] = s /\ answers'[c] = a
  BY DEF Ask, IInv, Types
<1>4. \A d \in Chats : ChatFits(d)'
  <2> SUFFICES ASSUME NEW d \in Chats, Open(d)' PROVE ChatFits(d)'
    BY DEF ChatFits
  <2>1. CASE d = c
    BY <2>1, <1>3 DEF ChatFits
  <2>2. CASE d # c
    BY <2>2, <1>2 DEF ChatFits, Open, IInv
  <2> QED BY <2>1, <2>2
<1>5. OwnLists'
  <2> SUFFICES ASSUME NEW d \in Chats, NEW e \in Chats, d # e, Open(d)', Open(e)', answers'[d].intake # None
               PROVE  answers'[d].intake # answers'[e].intake
    BY DEF OwnLists
  <2>1. CASE d = c
    BY <2>1, <1>2, <1>3 DEF Open
  <2>2. CASE e = c
    BY <2>2, <1>2, <1>3 DEF Open
  <2>3. CASE d # c /\ e # c
    BY <2>3, <1>2 DEF Open, IInv, OwnLists
  <2> QED BY <2>1, <2>2, <2>3
<1> QED BY <1>1, <1>4, <1>5 DEF IInv

(* The lists stay, and so does what the payload says of them.              *)
SameLists(a, b) ==
  a.company = b.company /\ a.intake = b.intake /\ a.posted = b.posted /\ a.filed = b.filed /\ a.count = b.count

(* A question that follows another, and touches nothing else.              *)
Quiet(c) ==
  /\ UNCHANGED <<people, books, intakes>>
  /\ \E s \in Steps \ {"inv_confirm"}, b \in Payload : b.company = answers[c].company /\ Ask(c, s, b)

LEMMA QuietAsk ==
  ASSUME IInv, NEW c \in Chats, Open(c), NEW s \in Steps \ {"inv_confirm"}, NEW a \in Payload, Ask(c, s, a),
         BanksFit(s, a), StockFits(s, a), SameLists(a, answers[c]),
         UNCHANGED <<people, books, intakes>>
  PROVE  IInv' /\ Quiet(c)
<1>1. TellsOf(s, a, intakes')
  BY DEF SameLists, TellsOf, people, IInv, ChatFits
<1>2. \A d \in Chats \ {c} : Open(d) =>
        /\ TellsOf(step[d], answers[d], intakes')
        /\ a.intake # None => a.intake # answers[d].intake
  BY DEF SameLists, IInv, ChatFits, OwnLists
<1>3. active' \in [Chats -> Companies \cup {None}] /\ codes' \in Seq(CodeRow) /\ intakes' \in Seq(IntakeRow)
  BY DEF IInv, Types, people
<1>4. Quiet(c)
  BY DEF Quiet, SameLists
<1> QED BY <1>1, <1>2, <1>3, <1>4, AskStep

(* A wizard is closed, or none was open; what the others say stays true.   *)
LEMMA CloseStep ==
  ASSUME IInv, NEW c \in Chats, Close(c),
         active' \in [Chats -> Companies \cup {None}], codes' \in Seq(CodeRow), intakes' \in Seq(IntakeRow),
         \A d \in Chats \ {c} : Open(d) => TellsOf(step[d], answers[d], intakes')
  PROVE  IInv'
<1>1. Types'
  BY DEF Close, IInv, Types
<1>2. \A d \in Chats \ {c} : step'[d] = step[d] /\ answers'[d] = answers[d]
  BY DEF Close, IInv, Types
<1>3. step'[c] = None
  BY DEF Close, IInv, Types
<1>4. \A d \in Chats : ChatFits(d)'
  BY <1>2, <1>3 DEF ChatFits, Open, IInv
<1>5. OwnLists'
  BY <1>2, <1>3 DEF OwnLists, Open, IInv
<1> QED BY <1>1, <1>4, <1>5 DEF IInv

-----------------------------------------------------------------------------
(* The bank questions                                                      *)

(* A payload that is a step further among the banks; of the stock nothing  *)
(* changes.                                                                *)
SameStock(a, b) == SameLists(a, b) /\ a.stock = b.stock /\ a.skipped = b.skipped

LEMMA BankStep ==
  ASSUME IInv, NEW c \in Chats, Open(c), step[c] # "inv_confirm",
         NEW s \in {"vat", "400m", "banks", "cur", "cur_other", "acct", "inv"},
         NEW a \in Payload, Ask(c, s, a), BanksFit(s, a), SameStock(a, answers[c]),
         UNCHANGED <<people, books, intakes>>
  PROVE  IInv' /\ Quiet(c)
<1>1. StockFits(s, a)
  BY DEF StockFits, SameStock, SameLists, IInv, ChatFits, Unfiled
<1> QED BY <1>1, QuietAsk DEF SameStock, Steps

LEMMA CurrenciesStep ==
  ASSUME IInv, NEW c \in Chats, Open(c), step[c] # "inv_confirm", NEW a \in Payload, AskCurrencies(c, a), SameStock(a, answers[c]), a.index >= 1,
         UNCHANGED <<people, books, intakes>>
  PROVE  IInv' /\ Quiet(c)
<1>1. CASE a.index > Len(a.banks)
  BY <1>1, BankStep DEF AskCurrencies, BanksFit
<1>2. CASE ~(a.index > Len(a.banks))
  <2> DEFINE b == [a EXCEPT !.currencies = <<>>]
  <2>1. b \in Payload /\ b.index = a.index /\ b.banks = a.banks /\ SameStock(b, answers[c])
    <3>1. <<>> \in CurrencyList
      BY DEF CurrencyList
    <3> QED BY <3>1 DEF Payload, SameStock, SameLists
  <2>2. AtBank(b)
    BY <1>2, <2>1 DEF AtBank, Payload, RowList
  <2>3. Ask(c, "cur", b)
    BY <1>2 DEF AskCurrencies
  <2> HIDE DEF b
  <2> QED BY <2>1, <2>2, <2>3, BankStep DEF BanksFit
<1> QED BY <1>1, <1>2

LEMMA NumberStep ==
  ASSUME IInv, NEW c \in Chats, Open(c), step[c] # "inv_confirm", NEW a \in Payload, AskNumber(c, a), SameStock(a, answers[c]), AtBank(a),
         UNCHANGED <<people, books, intakes>>
  PROVE  IInv' /\ Quiet(c)
<1>1. CASE a.queue = <<>>
  <2> DEFINE b == [a EXCEPT !.index = @ + 1]
  <2>1. b \in Payload /\ SameStock(b, answers[c]) /\ b.index >= 1
    <3>1. b \in Payload /\ b.index >= 1
      BY DEF Payload
    <3> QED BY <3>1 DEF Payload, SameStock, SameLists
  <2>2. AskCurrencies(c, b)
    BY <1>1 DEF AskNumber
  <2> HIDE DEF b
  <2> QED BY <2>1, <2>2, CurrenciesStep
<1>2. CASE a.queue # <<>>
  BY <1>2, BankStep DEF AskNumber, BanksFit
<1> QED BY <1>1, <1>2

LEMMA QueueStep ==
  ASSUME IInv, NEW c \in Chats, step[c] = "cur", NEW list \in CurrencyList,
         AskNumber(c, WithCurrencies(answers[c], list)), UNCHANGED <<people, books, intakes>>
  PROVE  IInv' /\ Quiet(c)
<1> DEFINE a == answers[c]
           b == WithCurrencies(a, list)
<1>1. Open(c) /\ a \in Payload /\ AtBank(a)
  BY OnboardingAssumption DEF Open, IInv, ChatFits, BanksFit, Steps
<1>2. b \in Payload /\ SameStock(b, a) /\ AtBank(b)
  <2>1. a.banks[a.index] \in BankRow
    BY <1>1 DEF AtBank, Payload, RowList
  <2>2. [a.banks[a.index] EXCEPT !.currencies = list] \in BankRow
    BY <2>1 DEF BankRow, CurrencyList
  <2> DEFINE banks == [a.banks EXCEPT ![a.index] = [a.banks[a.index] EXCEPT !.currencies = list]]
  <2>3. banks \in RowList /\ DOMAIN banks = DOMAIN a.banks
    BY <1>1, <2>2 DEF Payload, AtBank, RowList
  <2>4. b = [a EXCEPT !.banks = banks, !.queue = list]
    BY <1>1 DEF WithCurrencies, Payload, AtBank
  <2> HIDE DEF banks, a, b
  <2>5. b \in Payload
    BY <1>1, <2>3, <2>4 DEF Payload
  <2>6. b.banks = banks /\ b.index = a.index /\ SameStock(b, a)
    BY <1>1, <2>4 DEF Payload, SameStock, SameLists
  <2> QED BY <1>1, <2>3, <2>5, <2>6 DEF AtBank
<1>3. AskNumber(c, b)
  OBVIOUS
<1> HIDE DEF b
<1> QED BY <1>1, <1>2, <1>3, NumberStep

LEMMA BankAnswers ==
  ASSUME IInv, NEW c \in Chats,
         \/ \E yes \in BOOLEAN : TapVat(c, yes)
         \/ Tap400m(c) \/ BanksDone(c) \/ CurrenciesDone(c) \/ TapOtherCurrency(c)
         \/ \E b \in Banks : ToggleBank(c, b)
         \/ \E k \in Currencies : ToggleCurrency(c, k)
         \/ \E k \in Currencies \cup {None} : TypeCurrency(c, k)
         \/ \E n \in Numbers \cup {NoNumber} : AnswerNumber(c, n)
         \/ SkipBanks(c) \/ SkipCurrencies(c) \/ SkipCode(c)
  PROVE  IInv' /\ Quiet(c)
<1> DEFINE a == answers[c]
<1>0. Open(c) /\ a \in Payload /\ BanksFit(step[c], a) /\ step[c] # "inv_confirm"
  BY OnboardingAssumption DEF Steps, Open, IInv, ChatFits, TapVat, Tap400m, BanksDone, CurrenciesDone, TapOtherCurrency,
     ToggleBank, ToggleCurrency, TypeCurrency, AnswerNumber, SkipBanks, SkipCurrencies, SkipCode
<1>e. <<>> \in BankList /\ <<>> \in RowList /\ <<MNT>> \in CurrencyList
  BY OnboardingAssumption DEF BankList, RowList, CurrencyList
<1>1. ASSUME NEW yes \in BOOLEAN, TapVat(c, yes) PROVE IInv' /\ Quiet(c)
  <2> DEFINE b == [a EXCEPT !.vat = yes]
  <2>1. b \in Payload /\ SameStock(b, a)
    BY <1>0 DEF Payload, SameStock, SameLists
  <2>2. Ask(c, "400m", b) /\ UNCHANGED <<people, books, intakes>>
    BY <1>1 DEF TapVat
  <2> HIDE DEF b
  <2> QED BY <1>0, <2>1, <2>2, BankStep DEF BanksFit
<1>2. CASE Tap400m(c)
  <2> DEFINE b == [a EXCEPT !.selected = <<>>]
  <2>1. b \in Payload /\ SameStock(b, a)
    <3> HIDE DEF a
    <3> QED BY <1>0, <1>e DEF Payload, SameStock, SameLists
  <2>2. Ask(c, "banks", b) /\ UNCHANGED <<people, books, intakes>>
    BY <1>2 DEF Tap400m
  <2> HIDE DEF b
  <2> QED BY <1>0, <2>1, <2>2, BankStep DEF BanksFit
<1>3. CASE BanksDone(c)
  <2> DEFINE chosen == a.selected
             list == [i \in DOMAIN chosen |-> Bank(chosen[i])]
             b == [a EXCEPT !.banks = list, !.index = 1]
  <2>1. \A k \in Banks : Bank(k) \in BankRow
    BY DEF Bank, BankRow
  <2>2. list \in RowList
    <3>1. chosen \in Seq(Banks)
      BY <1>0 DEF Payload, BankList
    <3> HIDE DEF chosen
    <3>2. list \in [1..Len(chosen) -> BankRow] /\ Len(chosen) \in Nat
      BY <2>1, <3>1
    <3> QED BY <3>2 DEF RowList
  <2>3. AskCurrencies(c, b) /\ UNCHANGED <<people, books, intakes>>
    BY <1>3 DEF BanksDone
  <2>4. b \in Payload /\ SameStock(b, a) /\ b.index >= 1
    <3> HIDE DEF a, list
    <3>1. b \in Payload
      BY <1>0, <2>2 DEF Payload
    <3>2. b.index = 1 /\ SameStock(b, a)
      BY <1>0 DEF Payload, SameStock, SameLists
    <3> QED BY <3>1, <3>2
  <2> HIDE DEF b
  <2> QED BY <1>0, <2>3, <2>4, CurrenciesStep
<1>4. CASE CurrenciesDone(c)
  <2> DEFINE list == IF a.currencies = <<>> THEN <<MNT>> ELSE a.currencies
  <2>1. list \in CurrencyList
    BY <1>0, <1>e DEF Payload
  <2>2. step[c] = "cur" /\ AskNumber(c, WithCurrencies(a, list)) /\ UNCHANGED <<people, books, intakes>>
    BY <1>4 DEF CurrenciesDone
  <2> HIDE DEF list
  <2> QED BY <2>1, <2>2, QueueStep
<1>5. CASE TapOtherCurrency(c)
  BY <1>0, <1>5, BankStep DEF TapOtherCurrency, BanksFit, SameStock, SameLists
<1>6. ASSUME NEW k \in Banks, ToggleBank(c, k) PROVE IInv' /\ Quiet(c)
  <2> DEFINE list == Toggled(a.selected, k)
             b == [a EXCEPT !.selected = list]
  <2>1. list \in BankList
    BY <1>0, ToggledType DEF Payload, BankList, CurrencyList
  <2>2. Ask(c, "banks", b) /\ UNCHANGED <<people, books, intakes>>
    BY <1>0, <1>6 DEF ToggleBank, Payload
  <2> HIDE DEF list
  <2>3. b \in Payload /\ SameStock(b, a)
    BY <1>0, <2>1 DEF Payload, SameStock, SameLists
  <2> HIDE DEF b
  <2> QED BY <1>0, <2>2, <2>3, BankStep DEF BanksFit
<1>7. ASSUME NEW k \in Currencies, ToggleCurrency(c, k) PROVE IInv' /\ Quiet(c)
  <2> DEFINE list == Toggled(a.currencies, k)
             b == [a EXCEPT !.currencies = list]
  <2>1. list \in CurrencyList
    BY <1>0, ToggledType DEF Payload, BankList, CurrencyList
  <2>2. Ask(c, "cur", b) /\ UNCHANGED <<people, books, intakes>> /\ AtBank(a)
    BY <1>0, <1>7 DEF ToggleCurrency, Payload, BanksFit
  <2> HIDE DEF list
  <2>3. b \in Payload /\ SameStock(b, a) /\ AtBank(b)
    BY <1>0, <2>1, <2>2 DEF Payload, SameStock, SameLists, AtBank
  <2> HIDE DEF b
  <2> QED BY <1>0, <2>2, <2>3, BankStep DEF BanksFit
<1>8. ASSUME NEW k \in Currencies \cup {None}, TypeCurrency(c, k) PROVE IInv' /\ Quiet(c)
  <2> DEFINE list == IF k = None \/ Holds(a.currencies, k) THEN a.currencies ELSE Append(a.currencies, k)
             b == [a EXCEPT !.currencies = list]
  <2>1. list \in CurrencyList
    BY <1>0 DEF Payload, CurrencyList
  <2>2. Ask(c, "cur", b) /\ UNCHANGED <<people, books, intakes>> /\ AtBank(a)
    BY <1>0, <1>8 DEF TypeCurrency, Payload, BanksFit
  <2> HIDE DEF list
  <2>3. b \in Payload /\ SameStock(b, a) /\ AtBank(b)
    BY <1>0, <2>1, <2>2 DEF Payload, SameStock, SameLists, AtBank
  <2> HIDE DEF b
  <2> QED BY <1>0, <2>2, <2>3, BankStep DEF BanksFit
<1>9. ASSUME NEW n \in Numbers \cup {NoNumber}, AnswerNumber(c, n) PROVE IInv' /\ Quiet(c)
  <2> DEFINE k == Head(a.queue)
             kept == IF n = NoNumber THEN a ELSE [a EXCEPT !.banks[a.index].numbers[k] = n]
             b == [kept EXCEPT !.queue = Tail(@)]
  <2>1. AtBank(a) /\ a.queue # <<>> /\ k \in Currencies /\ Tail(a.queue) \in CurrencyList
    BY <1>0, <1>9 DEF AnswerNumber, BanksFit, Payload, CurrencyList
  <2>2. AskNumber(c, b) /\ UNCHANGED <<people, books, intakes>>
    BY <1>9 DEF AnswerNumber
  <2>3. kept \in Payload /\ SameStock(kept, a) /\ AtBank(kept) /\ kept.queue = a.queue
    <3>1. CASE n = NoNumber
      BY <1>0, <2>1, <3>1 DEF SameStock, SameLists
    <3>2. CASE n # NoNumber
      <4> DEFINE entry == [a.banks[a.index] EXCEPT !.numbers[k] = n]
                 banks == [a.banks EXCEPT ![a.index] = entry]
      <4>1. a.banks[a.index] \in BankRow
        BY <1>0, <2>1 DEF AtBank, Payload, RowList
      <4>2. entry \in BankRow
        BY <4>1, <2>1 DEF BankRow
      <4>3. kept = [a EXCEPT !.banks = banks]
        BY <1>0, <2>1, <3>2 DEF Payload, AtBank
      <4> HIDE DEF entry, kept
      <4>4. banks \in RowList /\ DOMAIN banks = DOMAIN a.banks
        BY <1>0, <4>2, <2>1 DEF Payload, AtBank, RowList
      <4> HIDE DEF banks, a
      <4> QED BY <1>0, <4>3, <4>4, <2>1 DEF Payload, SameStock, SameLists, AtBank
    <3> QED BY <3>1, <3>2
  <2> HIDE DEF kept
  <2>4. b \in Payload /\ SameStock(b, a) /\ AtBank(b)
    BY <2>1, <2>3 DEF Payload, SameStock, SameLists, AtBank
  <2> HIDE DEF b
  <2> QED BY <1>0, <2>2, <2>4, NumberStep
<1>10. CASE SkipBanks(c)
  <2> DEFINE b == [a EXCEPT !.selected = <<>>, !.banks = <<>>, !.index = 1]
  <2>1. b \in Payload /\ SameStock(b, a)
    <3> HIDE DEF a
    <3> QED BY <1>0, <1>e DEF Payload, SameStock, SameLists
  <2>2. Ask(c, "inv", b) /\ UNCHANGED <<people, books, intakes>>
    BY <1>10 DEF SkipBanks
  <2> HIDE DEF b
  <2> QED BY <1>0, <2>1, <2>2, BankStep DEF BanksFit
<1>11. CASE SkipCurrencies(c)
  BY <1>11, <1>e, QueueStep DEF SkipCurrencies
<1>12. CASE SkipCode(c)
  BY <1>0, <1>12, BankStep DEF SkipCode, BanksFit, SameStock, SameLists
<1> QED BY <1>1, <1>2, <1>3, <1>4, <1>5, <1>6, <1>7, <1>8, <1>9, <1>10, <1>11, <1>12

-----------------------------------------------------------------------------
(* The stock questions                                                     *)

(* Cancelling the list that this wizard has not filed touches no list the   *)
(* others speak of, and leaves nothing of it in the payload.               *)
LEMMA CancelledLists ==
  ASSUME IInv, NEW c \in Chats, Open(c)
  PROVE  LET a == answers[c] list == Cancelled(a)
         IN  /\ list \in Seq(IntakeRow)
             /\ \A d \in Chats \ {c} : Open(d) => TellsOf(step[d], answers[d], list)
             /\ Forgotten(a) \in Payload /\ ~Unfiled(Forgotten(a))
             /\ Forgotten(a).stock = a.stock /\ Forgotten(a).skipped = a.skipped /\ Forgotten(a).posted = a.posted
             /\ Forgotten(a).banks = a.banks /\ Forgotten(a).index = a.index
             /\ \A s \in Steps \ {"inv_confirm"} : TellsOf(s, Forgotten(a), list)
             /\ \A d \in Chats \ {c} :
                  Open(d) /\ Forgotten(a).intake # None => Forgotten(a).intake # answers[d].intake
<1> DEFINE a == answers[c]
           list == Cancelled(a)
<1>1. a \in Payload /\ TellsOf(step[c], a, intakes) /\ intakes \in Seq(IntakeRow)
  BY DEF IInv, ChatFits, Types
<1>2. CASE ~Unfiled(a)
  <2>1. list = intakes /\ Forgotten(a) = a
    BY <1>2 DEF Cancelled, Forgotten
  <2>2. \A d \in Chats \ {c} : Open(d) =>
          TellsOf(step[d], answers[d], intakes) /\ (a.intake # None => a.intake # answers[d].intake)
    BY DEF IInv, ChatFits, OwnLists
  <2>3. \A s \in Steps \ {"inv_confirm"} : TellsOf(s, a, intakes)
    <3> HIDE DEF a
    <3> QED BY <1>1 DEF TellsOf
  <2> HIDE DEF list
  <2> QED BY <1>1, <1>2, <2>1, <2>2, <2>3 DEF list
<1>3. CASE Unfiled(a)
  <2>1. a.intake \in DOMAIN intakes /\ a.intake # None /\ a.intake # a.posted
    BY <1>1, <1>3 DEF TellsOf, Unfiled
  <2>2. /\ list \in Seq(IntakeRow)
        /\ DOMAIN list = DOMAIN intakes
        /\ \A i \in DOMAIN intakes : i # a.intake \/ intakes[i].status = "posted" => list[i] = intakes[i]
        /\ \A i \in DOMAIN intakes : list[i].rows = intakes[i].rows
    <3> HIDE DEF a
    <3>1. CASE intakes[a.intake].status = "posted"
      BY <1>1, <3>1 DEF Cancelled
    <3>2. CASE intakes[a.intake].status # "posted"
      <4> DEFINE entry == [intakes[a.intake] EXCEPT !.status = "cancelled"]
      <4>1. entry \in IntakeRow /\ entry.rows = intakes[a.intake].rows
        <5>1. intakes[a.intake] \in IntakeRow
          BY <1>1, <2>1
        <5> QED BY <5>1 DEF IntakeRow
      <4>2. list = [intakes EXCEPT ![a.intake] = entry]
        BY <1>1, <1>3, <3>2 DEF Cancelled
      <4> HIDE DEF entry, list
      <4> QED BY <1>1, <2>1, <3>2, <4>1, <4>2
    <3> QED BY <3>1, <3>2
  <2> HIDE DEF list
  <2>3. \A d \in Chats \ {c} : Open(d) => TellsOf(step[d], answers[d], list)
    <3> SUFFICES ASSUME NEW d \in Chats \ {c}, Open(d) PROVE TellsOf(step[d], answers[d], list)
      OBVIOUS
    <3>1. TellsOf(step[d], answers[d], intakes) /\ StockFits(step[d], answers[d])
      BY DEF IInv, ChatFits
    <3>2. answers[d].intake # None => answers[d].intake # a.intake
      BY <2>1 DEF IInv, OwnLists
    <3> HIDE DEF a
    <3>3. step[d] = "inv_confirm" => answers[d].intake # None
      BY <3>1 DEF StockFits, Unfiled
    <3> QED BY <2>2, <3>1, <3>2, <3>3 DEF TellsOf
  <2>4. Forgotten(a) = [a EXCEPT !.intake = None, !.count = 0]
    BY <1>3 DEF Forgotten
  <2> DEFINE b == Forgotten(a)
  <2>5. /\ b \in Payload /\ b.intake = None
        /\ b.stock = a.stock /\ b.skipped = a.skipped /\ b.posted = a.posted /\ b.filed = a.filed
        /\ b.banks = a.banks /\ b.index = a.index
    <3> HIDE DEF a, b
    <3>1. b = [a EXCEPT !.intake = None, !.count = 0]
      BY <2>4 DEF b
    <3>2. b \in Payload
      BY <1>1, <3>1 DEF Payload
    <3>3. b.intake = None /\ b.stock = a.stock /\ b.skipped = a.skipped /\ b.posted = a.posted
      BY <1>1, <3>1 DEF Payload
    <3>4. b.filed = a.filed /\ b.banks = a.banks /\ b.index = a.index
      BY <1>1, <3>1 DEF Payload
    <3> QED BY <3>2, <3>3, <3>4
  <2>6. \A s \in Steps \ {"inv_confirm"} : TellsOf(s, b, list)
    <3> HIDE DEF a, b
    <3> QED BY <1>1, <2>1, <2>2, <2>5 DEF TellsOf
  <2>7. b.intake # None => FALSE
    BY <2>5
  <2>8. ~Unfiled(b)
    BY <2>5 DEF Unfiled
  <2> HIDE DEF b, list
  <2> QED BY <2>2, <2>3, <2>5, <2>6, <2>7, <2>8 DEF b, list
<1> QED BY <1>2, <1>3

(* The wizard goes on without the list, or is closed.                      *)
LEMMA ForgetStep ==
  ASSUME IInv, NEW c \in Chats, Open(c), NEW s \in {"inv_wait"}, intakes' = Cancelled(answers[c]),
         Ask(c, s, Forgotten(answers[c])), StockFits(s, Forgotten(answers[c])), UNCHANGED <<people, books>>
  PROVE  IInv'
<1>1. active' \in [Chats -> Companies \cup {None}] /\ codes' \in Seq(CodeRow)
  BY DEF IInv, Types, people
<1>2. s \in Steps \ {"inv_confirm"} /\ BanksFit(s, Forgotten(answers[c]))
  BY DEF Steps, BanksFit
<1> QED BY <1>1, <1>2, CancelledLists, AskStep

LEMMA LeaveStep ==
  ASSUME IInv, NEW c \in Chats, intakes' = LeftBehind(c),
         active' \in [Chats -> Companies \cup {None}], codes' \in Seq(CodeRow),
         \/ Close(c)
         \/ \E co \in Companies : Ask(c, "vat", Blank(co))
  PROVE  IInv'
<1>1. /\ intakes' \in Seq(IntakeRow)
      /\ \A d \in Chats \ {c} : Open(d) => TellsOf(step[d], answers[d], intakes')
  <2>1. CASE Open(c)
    BY <2>1, CancelledLists DEF LeftBehind, Open
  <2>2. CASE ~Open(c)
    BY <2>2 DEF LeftBehind, Open, IInv, ChatFits, Types
  <2> QED BY <2>1, <2>2
<1>2. CASE Close(c)
  BY <1>1, <1>2, CloseStep
<1>3. ASSUME NEW co \in Companies, Ask(c, "vat", Blank(co)) PROVE IInv'
  <2>1. Blank(co).intake = None
    BY DEF Blank
  <2> QED BY <1>1, <1>3, <2>1, BlankFits, AskStep DEF Steps
<1> QED BY <1>2, <1>3

(* Nothing is asked and no list changes.                                   *)
LEMMA IdleStep ==
  ASSUME IInv, UNCHANGED <<wizard, intakes>>,
         active' \in [Chats -> Companies \cup {None}], codes' \in Seq(CodeRow)
  PROVE  IInv'
  BY DEF IInv, Types, OwnLists, ChatFits, Open, wizard

LEMMA ListAnswers ==
  ASSUME IInv, NEW c \in Chats,
         \/ \E yes \in BOOLEAN : TapStock(c, yes)
         \/ \E ok \in BOOLEAN : PostList(c, ok)
         \/ SendList(c) \/ RefuseList(c) \/ SkipList(c)
  PROVE  IInv'
<1> DEFINE a == answers[c]
<1>0. /\ Open(c) /\ a \in Payload /\ StockFits(step[c], a) /\ TellsOf(step[c], a, intakes)
      /\ intakes \in Seq(IntakeRow)
      /\ (UNCHANGED people => active' \in [Chats -> Companies \cup {None}] /\ codes' \in Seq(CodeRow))
  BY OnboardingAssumption
  DEF Steps, Open, IInv, ChatFits, Types, people, TapStock, PostList, SendList, RefuseList, SkipList
<1>1. ASSUME NEW yes \in BOOLEAN, TapStock(c, yes) PROVE IInv'
  <2> DEFINE s == IF yes THEN "inv_wait" ELSE "acc_name"
             b == [a EXCEPT !.stock = yes, !.skipped = FALSE]
             d == [a EXCEPT !.stock = TRUE]
  <2>1. CASE a.posted # None /\ ~yes
    <3>1. Ask(c, "inv", d) /\ UNCHANGED <<people, books, intakes>>
      BY <1>1, <2>1 DEF TapStock
    <3>2. d \in Payload /\ SameLists(d, a) /\ d.stock
      <4> HIDE DEF a
      <4> QED BY <1>0 DEF Payload, SameLists
    <3> HIDE DEF d
    <3> QED BY <1>0, <1>1, <3>1, <3>2, QuietAsk DEF TapStock, Steps, BanksFit, StockFits, SameLists, Unfiled
  <2>2. CASE ~(a.posted # None /\ ~yes)
    <3>1. Ask(c, s, b) /\ UNCHANGED <<people, books, intakes>>
      BY <1>1, <2>2 DEF TapStock
    <3>2. b \in Payload
      <4> HIDE DEF a
      <4> QED BY <1>0 DEF Payload
    <3>3. SameLists(b, a) /\ b.stock = yes /\ b.skipped = FALSE
      <4> HIDE DEF a
      <4> QED BY <1>0 DEF Payload, SameLists
    <3>4. BanksFit(s, b) /\ StockFits(s, b) /\ s \in Steps \ {"inv_confirm"}
      <4>1. ~Unfiled(a)
        BY <1>0, <1>1 DEF TapStock, StockFits
      <4> HIDE DEF a, b
      <4> QED BY <2>2, <3>3, <4>1 DEF BanksFit, StockFits, SameLists, Steps, Unfiled
    <3> HIDE DEF b, s
    <3> QED BY <1>0, <3>1, <3>2, <3>3, <3>4, QuietAsk
  <2> QED BY <2>1, <2>2
<1>2. ASSUME NEW ok \in BOOLEAN, PostList(c, ok) PROVE IInv'
  <2> DEFINE st == IF ok THEN "posted" ELSE "failed"
             entry == [intakes[a.intake] EXCEPT !.status = st]
             b == [a EXCEPT !.posted = a.intake, !.filed = a.count]
  <2>1. /\ step[c] = "inv_confirm" /\ a.intake \in DOMAIN intakes /\ a.intake # None /\ a.stock
        /\ intakes[a.intake].status # "posted" /\ intakes[a.intake].rows = a.count
    BY <1>0, <1>2 DEF PostList, StockFits, TellsOf, Unfiled
  <2>2. intakes' = [intakes EXCEPT ![a.intake] = entry] /\ UNCHANGED <<people, books>>
    BY <1>0, <1>2, <2>1 DEF PostList
  <2>3. entry \in IntakeRow /\ entry.status = st /\ entry.rows = intakes[a.intake].rows
    <3>1. intakes[a.intake] \in IntakeRow
      BY <1>0, <2>1
    <3> QED BY <3>1 DEF IntakeRow
  <2> HIDE DEF entry
  <2>4. /\ intakes' \in Seq(IntakeRow) /\ DOMAIN intakes' = DOMAIN intakes
        /\ \A i \in DOMAIN intakes : i # a.intake => intakes'[i] = intakes[i]
        /\ intakes'[a.intake] = entry
    <3> HIDE DEF a
    <3> QED BY <1>0, <2>1, <2>2, <2>3
  <2>5. \A d \in Chats \ {c} : Open(d) =>
          TellsOf(step[d], answers[d], intakes') /\ a.intake # answers[d].intake
    <3> SUFFICES ASSUME NEW d \in Chats \ {c}, Open(d)
                 PROVE TellsOf(step[d], answers[d], intakes') /\ a.intake # answers[d].intake
      OBVIOUS
    <3>1. TellsOf(step[d], answers[d], intakes) /\ StockFits(step[d], answers[d])
      BY DEF IInv, ChatFits
    <3>2. a.intake # answers[d].intake
      BY <1>0, <2>1 DEF IInv, OwnLists
    <3>3. step[d] = "inv_confirm" => answers[d].intake # None
      BY <3>1 DEF StockFits, Unfiled
    <3> HIDE DEF a
    <3> QED BY <2>1, <2>4, <3>1, <3>2, <3>3 DEF TellsOf
  <2>6. CASE ok
    <3>1. Ask(c, "acc_name", b)
      BY <1>2, <2>6 DEF PostList
    <3>2. b \in Payload
      <4> HIDE DEF a
      <4> QED BY <1>0 DEF Payload
    <3>3. b.posted = a.intake /\ b.intake = a.intake /\ b.filed = a.count /\ b.stock = a.stock
      <4> HIDE DEF a
      <4> QED BY <1>0 DEF Payload
    <3>4. BanksFit("acc_name", b) /\ StockFits("acc_name", b) /\ TellsOf("acc_name", b, intakes')
      <4> HIDE DEF a, b
      <4> QED BY <2>1, <2>3, <2>4, <2>6, <3>3 DEF BanksFit, StockFits, TellsOf, Unfiled
    <3>5. "acc_name" \in Steps
      BY DEF Steps
    <3> HIDE DEF b
    <3> QED BY <1>0, <2>2, <2>4, <2>5, <3>1, <3>2, <3>3, <3>4, <3>5, AskStep
  <2>7. CASE ~ok
    <3>1. Ask(c, "inv_confirm", a)
      BY <1>2, <2>1, <2>7 DEF PostList, Ask, wizard, IInv, Types
    <3>2. BanksFit("inv_confirm", a) /\ StockFits("inv_confirm", a)
      BY <1>0, <2>1 DEF BanksFit
    <3>3. TellsOf("inv_confirm", a, intakes')
      <4>1. a.posted # None => a.posted # a.intake
        BY <1>0, <2>1 DEF TellsOf
      <4> HIDE DEF a
      <4> QED BY <1>0, <2>1, <2>3, <2>4, <2>7, <4>1 DEF TellsOf
    <3>4. "inv_confirm" \in Steps
      BY DEF Steps
    <3> QED BY <1>0, <2>2, <2>4, <2>5, <3>1, <3>2, <3>3, <3>4, AskStep
  <2> QED BY <2>6, <2>7
<1>3. CASE SendList(c)
  <2> DEFINE i == Len(intakes) + 1
             entry == [company |-> active[c], rows |-> Sizes[i], status |-> "draft"]
             b == [a EXCEPT !.intake = i, !.count = Sizes[i], !.skipped = FALSE]
  <2>1. /\ step[c] = "inv_wait" /\ Len(intakes) < Len(Sizes) /\ UNCHANGED <<people, books>>
        /\ intakes' = Append(intakes, entry) /\ Ask(c, "inv_confirm", b)
    BY <1>3 DEF SendList
  <2>2. i \in Nat /\ i \notin DOMAIN intakes /\ Sizes[i] \in Nat
    BY <1>0, <2>1, OnboardingAssumption
  <2>3. entry \in IntakeRow
    BY <2>2 DEF IntakeRow, IInv, Types
  <2>4. /\ intakes' \in Seq(IntakeRow) /\ intakes'[i] = entry /\ i \in DOMAIN intakes'
        /\ \A j \in DOMAIN intakes : j \in DOMAIN intakes' /\ intakes'[j] = intakes[j]
    <3> HIDE DEF entry
    <3> QED BY <1>0, <2>1, <2>3
  <2>5. b \in Payload
    <3> HIDE DEF a, i
    <3> QED BY <1>0, <2>2 DEF Payload
  <2>6. /\ b.intake = i /\ b.count = Sizes[i] /\ b.stock = a.stock
        /\ b.posted = a.posted /\ b.filed = a.filed
    <3> HIDE DEF a, i
    <3> QED BY <1>0 DEF Payload
  <2>7. entry.status = "draft" /\ entry.rows = Sizes[i]
    OBVIOUS
  <2> HIDE DEF entry, b, i
  <2>8. a.posted # None => a.posted # i
    BY <1>0, <2>2 DEF TellsOf
  <2>9. i # None
    BY <2>2, OnboardingAssumption
  <2>10. BanksFit("inv_confirm", b) /\ StockFits("inv_confirm", b) /\ "inv_confirm" \in Steps
    BY <1>0, <2>1, <2>6, <2>8, <2>9 DEF BanksFit, StockFits, Unfiled, Steps
  <2>11. TellsOf("inv_confirm", b, intakes')
    <3> HIDE DEF a
    <3> QED BY <1>0, <2>4, <2>6, <2>7 DEF TellsOf
  <2>12. \A d \in Chats \ {c} : Open(d) => TellsOf(step[d], answers[d], intakes') /\ i # answers[d].intake
    <3> SUFFICES ASSUME NEW d \in Chats \ {c}, Open(d)
                 PROVE TellsOf(step[d], answers[d], intakes') /\ i # answers[d].intake
      OBVIOUS
    <3>1. TellsOf(step[d], answers[d], intakes) /\ StockFits(step[d], answers[d])
      BY DEF IInv, ChatFits
    <3>2. step[d] = "inv_confirm" => answers[d].intake # None
      BY <3>1 DEF StockFits, Unfiled
    <3> QED BY <2>2, <2>4, <2>9, <3>1, <3>2 DEF TellsOf
  <2> QED BY <1>0, <2>1, <2>4, <2>5, <2>6, <2>10, <2>11, <2>12, AskStep
<1>4. CASE RefuseList(c)
  <2>1. StockFits("inv_wait", Forgotten(a))
    BY <1>0, <1>4, CancelledLists DEF RefuseList, StockFits
  <2> QED BY <1>0, <1>4, <2>1, ForgetStep DEF RefuseList
<1>5. CASE SkipList(c)
  <2> DEFINE b == Forgotten([a EXCEPT !.skipped = TRUE])
             e == Forgotten(a)
  <2>1. b = [e EXCEPT !.skipped = TRUE] /\ a.stock /\ e \in Payload
    <3>1. a.stock
      BY <1>0, <1>5 DEF SkipList, StockFits
    <3>2. e \in Payload
      BY <1>0, CancelledLists
    <3>3. b = [e EXCEPT !.skipped = TRUE]
      <4> HIDE DEF a
      <4> QED BY <1>0 DEF Forgotten, Unfiled, Payload
    <3> QED BY <3>1, <3>2, <3>3
  <2> HIDE DEF b, e
  <2>2. b \in Payload
    BY <2>1 DEF Payload
  <2>3. SameLists(b, e) /\ b.stock = e.stock /\ b.skipped = TRUE
    BY <2>1 DEF Payload, SameLists
  <2>4. /\ \A d \in Chats \ {c} : Open(d) =>
             TellsOf(step[d], answers[d], intakes') /\ (e.intake # None => e.intake # answers[d].intake)
        /\ TellsOf("acc_name", e, intakes') /\ intakes' \in Seq(IntakeRow) /\ e.stock = a.stock /\ ~Unfiled(e)
    BY <1>0, <1>5, CancelledLists DEF SkipList, Steps, e
  <2>5. BanksFit("acc_name", b) /\ StockFits("acc_name", b) /\ TellsOf("acc_name", b, intakes') /\ "acc_name" \in Steps
    BY <2>1, <2>3, <2>4 DEF BanksFit, StockFits, TellsOf, SameLists, Steps, Unfiled
  <2>6. Ask(c, "acc_name", b) /\ UNCHANGED people
    BY <1>5 DEF SkipList, b
  <2> QED BY <1>0, <2>2, <2>3, <2>4, <2>5, <2>6, AskStep DEF SameLists
<1> QED BY <1>1, <1>2, <1>3, <1>4, <1>5

-----------------------------------------------------------------------------
(* Every way out of a question, and everything around the wizard           *)

LEMMA EscapeStep ==
  ASSUME IInv, NEW c \in Chats,
         Back(c) \/ Cancel(c) \/ TypeName(c) \/ TypePermit(c) \/ Confirm(c)
  PROVE  IInv'
<1> DEFINE a == answers[c]
<1>0. /\ Open(c) /\ a \in Payload /\ BanksFit(step[c], a) /\ StockFits(step[c], a)
      /\ intakes \in Seq(IntakeRow)
      /\ (UNCHANGED people => active' \in [Chats -> Companies \cup {None}] /\ codes' \in Seq(CodeRow))
  BY OnboardingAssumption
  DEF Steps, Open, IInv, ChatFits, Types, people, Back, Cancel, TypeName, TypePermit, Confirm
<1>1. CASE Back(c)
  <2> DEFINE s == BackTarget(step[c], a)
  <2>1. CASE step[c] = "inv_confirm"
    <3>1. s = "inv_wait"
      BY <2>1 DEF BackTarget
    <3>2. StockFits("inv_wait", Forgotten(a))
      BY <1>0, <2>1, CancelledLists DEF StockFits
    <3> QED BY <1>0, <1>1, <2>1, <3>1, <3>2, ForgetStep DEF Back
  <2>2. CASE step[c] # "inv_confirm"
    <3>1. Ask(c, s, a) /\ UNCHANGED <<people, books, intakes>> /\ s # None
      BY <1>1, <2>2 DEF Back
    <3>2. s \in Steps \ {"inv_confirm"}
      BY <3>1 DEF BackTarget, Steps
    <3>3. BanksFit(s, a)
      BY <1>0, <2>2, <3>1 DEF BackTarget, BanksFit
    <3>4. StockFits(s, a)
      BY <1>0, <2>2, <3>1 DEF BackTarget, StockFits
    <3>5. SameLists(a, a)
      BY DEF SameLists
    <3> QED BY <1>0, <3>1, <3>2, <3>3, <3>4, <3>5, QuietAsk
  <2> QED BY <2>1, <2>2
<1>2. CASE Cancel(c)
  BY <1>0, <1>2, LeaveStep DEF Cancel, LeftBehind, Open
<1>3. CASE TypeName(c)
  BY <1>0, <1>3, QuietAsk DEF TypeName, Steps, BanksFit, StockFits, SameLists
<1>4. CASE TypePermit(c)
  BY <1>0, <1>4, QuietAsk DEF TypePermit, Steps, BanksFit, StockFits, SameLists
<1>5. CASE Confirm(c)
  <2>1. \A d \in Chats \ {c} : Open(d) => TellsOf(step[d], answers[d], intakes)
    BY DEF IInv, ChatFits
  <2>2. intakes' = intakes /\ Close(c) /\ UNCHANGED people
    BY <1>5 DEF Confirm
  <2> QED BY <1>0, <2>1, <2>2, CloseStep
<1> QED BY <1>1, <1>2, <1>3, <1>4, <1>5

LEMMA TalkStep ==
  ASSUME IInv, NEW c \in Chats, Talk(c)
  PROVE  IInv'
<1>0. active \in [Chats -> Companies \cup {None}] /\ codes \in Seq(CodeRow)
  BY DEF IInv, Types
<1>1. ASSUME NEW k \in DOMAIN codes, TypeCode(c, k) PROVE IInv'
  <2> DEFINE co == IF active[c] = None THEN codes[k].company ELSE active[c]
             entry == [codes[k] EXCEPT !.status = "used"]
  <2>1. codes[k] \in CodeRow
    BY <1>0
  <2>2. entry \in CodeRow /\ co \in Companies
    BY <1>0, <2>1 DEF CodeRow
  <2>3. codes' = [codes EXCEPT ![k] = entry] /\ active' = [active EXCEPT ![c] = co] /\ UNCHANGED intakes
    BY <1>0, <1>1 DEF TypeCode
  <2>4. Ask(c, "vat", Blank(co)) \/ UNCHANGED wizard
    BY <1>1 DEF TypeCode
  <2> HIDE DEF entry, co
  <2>5. active' \in [Chats -> Companies \cup {None}] /\ codes' \in Seq(CodeRow)
    BY <1>0, <2>2, <2>3
  <2>6. CASE Ask(c, "vat", Blank(co))
    <3>1. /\ \A d \in Chats \ {c} : Open(d) => TellsOf(step[d], answers[d], intakes')
          /\ intakes' \in Seq(IntakeRow)
      BY <2>3 DEF IInv, ChatFits, Types
    <3>2. Blank(co).intake = None /\ "vat" \in Steps
      BY DEF Blank, Steps
    <3> QED BY <2>2, <2>5, <2>6, <3>1, <3>2, BlankFits, AskStep
  <2>7. CASE UNCHANGED wizard
    BY <2>3, <2>5, <2>7, IdleStep
  <2> QED BY <2>4, <2>6, <2>7
<1>2. ASSUME NEW co \in Companies, SwitchByButton(c, co) PROVE IInv'
  BY <1>0, <1>2, IdleStep DEF SwitchByButton
<1>3. ASSUME NEW co \in Companies, SwitchByCommand(c, co) PROVE IInv'
  BY <1>0, <1>3, LeaveStep DEF SwitchByCommand
<1>4. CASE Command(c)
  BY <1>0, <1>4, LeaveStep DEF Command, people
<1>5. ASSUME NEW again \in BOOLEAN, Start(c, again) PROVE IInv'
  <2>1. active[c] \in Companies /\ (Close(c) \/ Ask(c, "vat", Blank(active[c])))
    BY <1>0, <1>5 DEF Start
  <2> QED BY <1>0, <1>5, <2>1, LeaveStep DEF Start, people
<1>6. CASE Displaced(c)
  <2>1. \A d \in Chats \ {c} : Open(d) => TellsOf(step[d], answers[d], intakes)
    BY DEF IInv, ChatFits
  <2>2. intakes' = intakes /\ Close(c) /\ UNCHANGED people /\ intakes \in Seq(IntakeRow)
    BY <1>6 DEF Displaced, IInv, Types
  <2> QED BY <1>0, <2>1, <2>2, CloseStep DEF people
<1> QED BY <1>1, <1>2, <1>3, <1>4, <1>5, <1>6 DEF Talk

LEMMA DeskStep ==
  ASSUME IInv, Desk
  PROVE  IInv'
<1>0. active \in [Chats -> Companies \cup {None}] /\ codes \in Seq(CodeRow)
  BY DEF IInv, Types
<1>1. ASSUME NEW co \in Companies, NEW order \in Orders, Provision(co, order) PROVE IInv'
  BY <1>0, <1>1, IdleStep DEF Provision, people
<1>2. ASSUME NEW co \in Companies, NEW role \in Roles, IssueCode(role, co) PROVE IInv'
  <2>1. codes' \in Seq(CodeRow)
    BY <1>0, <1>2 DEF IssueCode, CodeRow
  <2> QED BY <1>0, <1>2, <2>1, IdleStep DEF IssueCode
<1>3. ASSUME NEW k \in DOMAIN codes, ExpireCode(k) PROVE IInv'
  <2> DEFINE entry == [codes[k] EXCEPT !.status = "expired"]
  <2>1. codes[k] \in CodeRow
    BY <1>0
  <2>2. entry \in CodeRow /\ codes' = [codes EXCEPT ![k] = entry]
    BY <1>0, <1>3, <2>1 DEF ExpireCode, CodeRow
  <2> HIDE DEF entry
  <2>3. codes' \in Seq(CodeRow)
    BY <1>0, <2>2
  <2> QED BY <1>0, <1>3, <2>3, IdleStep DEF ExpireCode
<1> QED BY <1>1, <1>2, <1>3 DEF Desk

-----------------------------------------------------------------------------
LEMMA InitFits == Init => IInv
<1> SUFFICES ASSUME Init PROVE IInv
  OBVIOUS
<1>1. <<>> \in Seq(CodeRow) /\ <<>> \in Seq(IntakeRow)
  OBVIOUS
<1> QED BY <1>1 DEF Init, IInv, Types, OwnLists, ChatFits, Open

LEMMA StepFits ==
  ASSUME IInv, [Next]_vars
  PROVE  IInv'
<1>1. ASSUME NEW c \in Chats, Answer(c) PROVE IInv'
  BY <1>1, BankAnswers, ListAnswers, EscapeStep DEF Answer
<1>2. CASE UNCHANGED vars
  BY <1>2, IdleStep DEF vars, wizard, IInv, Types
<1> QED BY <1>1, <1>2, TalkStep, DeskStep DEF Next

LEMMA OnboardingInvariant == Spec => []IInv
  BY InitFits, StepFits, PTL DEF Spec

(* Wherever taps, typed answers, the way back and the way around have       *)
(* taken it, the wizard stands on a question that can be answered: the     *)
(* bank, the currency and the list its handler looks up are there          *)
(* (_ask_currencies, _ask_account_number, handle_intake_callback).         *)
THEOREM QuestionsAreAnswerable == Spec => []QuestionsCanBeAnswered
<1>1. IInv => QuestionsCanBeAnswered
  <2> SUFFICES ASSUME IInv, NEW c \in Chats
               PROVE /\ step[c] \in {"cur", "cur_other", "acct"} => AtBank(answers[c])
                     /\ step[c] = "acct" => answers[c].queue # <<>>
                     /\ step[c] = "inv_confirm" =>
                          Unfiled(answers[c]) /\ intakes[answers[c].intake].status \in {"draft", "failed"}
    BY DEF QuestionsCanBeAnswered
  <2>1. step[c] \in Steps => Open(c)
    BY OnboardingAssumption DEF Open
  <2> QED BY <2>1 DEF IInv, ChatFits, BanksFit, StockFits, TellsOf, Steps
<1> QED BY <1>1, OnboardingInvariant, PTL

(* The summary a person confirms names a number of stock rows only when a   *)
(* list of that many is posted, and denies the stock only when this walk   *)
(* has posted none (onboarding_summary_parts).                             *)
THEOREM SummaryIsTrue == Spec => []SummaryTellsTheLedger
<1>1. IInv => SummaryTellsTheLedger
  <2> SUFFICES ASSUME IInv, NEW c \in Chats, step[c] = "summary"
               PROVE LET a == answers[c]
                     IN IF a.posted = None THEN Shown(a) = (IF a.stock THEN "later" ELSE "none")
                        ELSE a.stock /\ intakes[a.posted].status = "posted" /\ Shown(a) = intakes[a.posted].rows
    BY DEF SummaryTellsTheLedger
  <2> DEFINE a == answers[c]
  <2>1. a \in Payload /\ StockFits("summary", a) /\ TellsOf("summary", a, intakes)
    BY OnboardingAssumption DEF IInv, ChatFits, Open, Steps
  <2>2. a.stock \in BOOLEAN /\ a.skipped \in BOOLEAN
    BY <2>1 DEF Payload
  <2>3. Shown(a) = IF a.posted # None THEN a.filed ELSE IF a.stock THEN "later" ELSE "none"
    <3> HIDE DEF a
    <3> QED BY <2>1, <2>2 DEF StockFits, Shown
  <2>4. a.posted # None => a.stock /\ intakes[a.posted].status = "posted" /\ a.filed = intakes[a.posted].rows
    BY <2>1 DEF StockFits, TellsOf
  <2> QED BY <2>3, <2>4
<1> QED BY <1>1, OnboardingInvariant, PTL
-----------------------------------------------------------------------------
(* The company's books: what is written and what is opened go together.    *)

BooksFit ==
  /\ settings \in [Companies -> Setting \cup {None}]
  /\ DOMAIN taxes = Companies /\ DOMAIN ledgers = Companies
  /\ \A co \in Companies : IsFiniteSet(ledgers[co]) /\ Cardinality(ledgers[co]) <= SubCodes
  /\ CompanyFollowsItsAnswers

(* Who works for which company.                                            *)
PeopleFit ==
  /\ links \in [Chats -> [Companies -> Roles \cup {None}]]
  /\ \A c \in Chats, co \in Companies : links[c][co] # None => co \in Provisioned /\ active[c] # None
  /\ \A c \in Chats : active[c] # None => links[c][active[c]] # None
  /\ \A k \in DOMAIN codes : codes[k].company \in Provisioned
  /\ \A c \in Chats : Open(c) => active[c] # None /\ answers[c].company \in Provisioned

(* The accounts at one bank, a row for each currency.                      *)
AccountsAt(bank, keys, numbers) == {[bank |-> bank, currency |-> k, number |-> numbers[k]] : k \in keys}

LEMMA OneBankFinite ==
  ASSUME NEW keys, IsFiniteSet(keys), NEW bank, NEW numbers
  PROVE  IsFiniteSet(AccountsAt(bank, keys, numbers))
<1> DEFINE all == AccountsAt(bank, keys, numbers)
<1> PICK f : f = [k \in keys |-> [bank |-> bank, currency |-> k, number |-> numbers[k]]]
  OBVIOUS
<1>1. \A k \in keys : f[k] = [bank |-> bank, currency |-> k, number |-> numbers[k]]
  OBVIOUS
<1>2. all = {f[k] : k \in keys}
  BY <1>1 DEF AccountsAt
<1> HIDE DEF all
<1>3. IsFiniteSet(all)
  BY <1>2, FiniteImage
<1> QED BY <1>3 DEF all

(* The accounts of a wizard's answers are finitely many.                   *)
LEMMA BankRowsFinite ==
  ASSUME NEW a \in Payload
  PROVE  IsFiniteSet(BankRows(a)) /\ BankRows(a) \subseteq BankAccount
<1> DEFINE held(i) == {k \in Currencies : Holds(a.banks[i].currencies, k) \/ (a.banks[i].currencies = <<>> /\ k = MNT)}
           rows(i) == {[bank |-> a.banks[i].bank, currency |-> k, number |-> a.banks[i].numbers[k]] : k \in held(i)}
           all == {rows(i) : i \in DOMAIN a.banks}
<1>1. a.banks \in Seq(BankRow) /\ IsFiniteSet(DOMAIN a.banks)
  <2>1. a.banks \in Seq(BankRow)
    BY DEF Payload, RowList
  <2>2. DOMAIN a.banks = 1..Len(a.banks) /\ Len(a.banks) \in Nat
    BY <2>1
  <2> QED BY <2>1, <2>2, FS_Interval
<1>2. ASSUME NEW i \in DOMAIN a.banks
      PROVE  IsFiniteSet(rows(i)) /\ rows(i) \subseteq BankAccount
  <2> PICK account : account = a.banks[i]
    OBVIOUS
  <2>1. account \in BankRow
    BY <1>1
  <2> PICK list : list = account.currencies
    OBVIOUS
  <2>2. list \in Seq(Currencies) /\ account.bank \in Banks /\ account.numbers \in [Currencies -> Numbers \cup {NoNumber}]
    BY <2>1 DEF BankRow
  <2> PICK image : image = {list[j] : j \in DOMAIN list}
    OBVIOUS
  <2>3. IsFiniteSet(image)
    <3>1. DOMAIN list = 1..Len(list) /\ Len(list) \in Nat
      BY <2>2
    <3>2. IsFiniteSet(DOMAIN list)
      BY <3>1, FS_Interval
    <3> QED BY <3>2, FiniteImage
  <2>4. held(i) \subseteq image \cup {MNT}
    BY DEF Holds
  <2>5. IsFiniteSet(held(i))
    <3>1. IsFiniteSet(image \cup {MNT})
      BY <2>3, FS_AddElement
    <3> QED BY <2>4, <3>1, FS_Subset
  <2>7. IsFiniteSet(rows(i))
    <3> PICK keys : keys = held(i)
      OBVIOUS
    <3> PICK bank, numbers : bank = account.bank /\ numbers = account.numbers
      OBVIOUS
    <3>1. IsFiniteSet(keys) /\ rows(i) = AccountsAt(bank, keys, numbers)
      BY <2>5 DEF AccountsAt
    <3> HIDE DEF held, rows
    <3> QED BY <3>1, OneBankFinite
  <2>8. rows(i) \subseteq BankAccount
    BY <2>2 DEF BankAccount
  <2> HIDE DEF rows
  <2> QED BY <2>7, <2>8
<1>3. IsFiniteSet(all)
  <2> PICK f : f = [i \in DOMAIN a.banks |-> rows(i)]
    OBVIOUS
  <2> HIDE DEF rows
  <2>1. all = {f[i] : i \in DOMAIN a.banks}
    OBVIOUS
  <2> HIDE DEF all
  <2> QED BY <1>1, <2>1, FiniteImage
<1>4. BankRows(a) = UNION all
  BY DEF BankRows
<1>5. \A t \in all : IsFiniteSet(t) /\ t \subseteq BankAccount
  <2> HIDE DEF rows
  <2> QED BY <1>2
<1>6. IsFiniteSet(UNION all)
  <2> HIDE DEF all
  <2> QED BY <1>3, <1>5, FS_UNION
<1>7. UNION all \subseteq BankAccount
  <2> HIDE DEF all
  <2> QED BY <1>5
<1> HIDE DEF all
<1> QED BY <1>4, <1>6, <1>7

LEMMA NamesFinite ==
  ASSUME NEW rows, IsFiniteSet(rows)
  PROVE  IsFiniteSet(Names(rows))
<1> PICK f : f = [account \in rows |-> Name(account)]
  OBVIOUS
<1>1. Names(rows) = {f[account] : account \in rows}
  BY DEF Names
<1> QED BY <1>1, FiniteImage

(* The company is given a setting s, and the ledgers in made are opened:   *)
(* they are all that is missing, or all that there was room for.           *)
LEMMA BooksStep ==
  ASSUME BooksFit, NEW co \in Companies, NEW s \in Setting, NEW made,
         IsFiniteSet(made), made \cap ledgers[co] = {}, Cardinality(made) <= Room(co),
         \A account \in s.rows : Name(account) \in ledgers[co] \cup made \/ Cardinality(made) = Room(co),
         settings' = [settings EXCEPT ![co] = s],
         taxes' = [taxes EXCEPT ![co] = s.vat],
         ledgers' = [ledgers EXCEPT ![co] = @ \cup made]
  PROVE  BooksFit' /\ Provisioned \subseteq Provisioned'
<1> USE OnboardingAssumption
<1> PICK opened : opened = ledgers[co] \cup made
  OBVIOUS
<1>1. /\ settings' \in [Companies -> Setting \cup {None}]
      /\ DOMAIN taxes' = Companies /\ DOMAIN ledgers' = Companies
      /\ settings'[co] = s /\ taxes'[co] = s.vat /\ ledgers'[co] = opened
      /\ \A d \in Companies : d # co =>
           settings'[d] = settings[d] /\ taxes'[d] = taxes[d] /\ ledgers'[d] = ledgers[d]
  BY DEF BooksFit
<1>2. IsFiniteSet(opened) /\ Cardinality(opened) = Cardinality(ledgers[co]) + Cardinality(made)
  <2>1. IsFiniteSet(ledgers[co])
    BY DEF BooksFit
  <2>2. /\ IsFiniteSet(ledgers[co] \cup made)
        /\ Cardinality(ledgers[co] \cup made)
             = Cardinality(ledgers[co]) + Cardinality(made) - Cardinality(ledgers[co] \cap made)
    BY <2>1, FS_Union
  <2>3. ledgers[co] \cap made = {} /\ Cardinality({}) = 0
    BY FS_EmptySet
  <2>4. Cardinality(ledgers[co]) \in Nat /\ Cardinality(made) \in Nat
    BY <2>1, FS_CardinalityType
  <2>5. Cardinality(ledgers[co] \cap made) = 0
    BY <2>3
  <2>6. Cardinality(ledgers[co] \cup made) = Cardinality(ledgers[co]) + Cardinality(made)
    BY <2>2, <2>4, <2>5
  <2> QED BY <2>2, <2>6
<1>3. /\ Cardinality(ledgers[co]) \in Nat /\ Cardinality(made) \in Nat /\ SubCodes \in Nat
  BY FS_CardinalityType DEF BooksFit
<1>4. Cardinality(opened) <= SubCodes
  BY <1>2, <1>3 DEF Room
<1>5. Cardinality(made) = Room(co) => SubCodes - Cardinality(opened) = 0
  BY <1>2, <1>3 DEF Room
<1>6. ASSUME NEW account \in s.rows
      PROVE  Name(account) \in opened \/ SubCodes - Cardinality(opened) = 0
  BY <1>5
<1>7. \A d \in Companies : IsFiniteSet(ledgers'[d]) /\ Cardinality(ledgers'[d]) <= SubCodes
  BY <1>1, <1>2, <1>4 DEF BooksFit
<1>8. Provisioned \subseteq Provisioned'
  <2>1. s # None
    OBVIOUS
  <2> QED BY <1>1, <2>1 DEF Provisioned
<1>9. CompanyFollowsItsAnswers'
  <2> SUFFICES ASSUME NEW d \in Companies, settings'[d] # None
               PROVE  /\ \A account \in settings'[d].rows : Name(account) \in ledgers'[d] \/ SubCodes - Cardinality(ledgers'[d]) = 0
                      /\ taxes'[d] = settings'[d].vat
    BY DEF CompanyFollowsItsAnswers, Provisioned, Room, Name
  <2>1. CASE d = co
    BY <1>1, <1>6, <2>1
  <2>2. CASE d # co
    <3>1. settings[d] # None /\ settings'[d] = settings[d] /\ taxes'[d] = taxes[d] /\ ledgers'[d] = ledgers[d]
      BY <1>1, <2>2
    <3>2. /\ \A account \in settings[d].rows : Name(account) \in ledgers[d] \/ SubCodes - Cardinality(ledgers[d]) = 0
          /\ taxes[d] = settings[d].vat
      BY <3>1 DEF BooksFit, CompanyFollowsItsAnswers, Provisioned, Room
    <3> QED BY <3>1, <3>2
  <2> QED BY <2>1, <2>2
<1> QED BY <1>1, <1>7, <1>8, <1>9 DEF BooksFit

LEMMA ProvisionKeeps ==
  ASSUME BooksFit, NEW co \in Companies, NEW order \in Orders, Provision(co, order)
  PROVE  BooksFit' /\ Provisioned \subseteq Provisioned'
<1> USE OnboardingAssumption
<1>0. /\ order.vat \in BOOLEAN /\ order.stock \in BOOLEAN /\ order.rows \in SUBSET BankAccount
      /\ IsFiniteSet(order.rows)
  OBVIOUS
<1>1. settings[co] \in Setting \cup {None} /\ IsFiniteSet(ledgers[co])
  BY DEF BooksFit
<1> PICK old : old = settings[co]
  OBVIOUS
<1> PICK s : s = IF old = None
                 THEN [completed |-> FALSE, vat |-> order.vat, stock |-> order.stock, rows |-> order.rows]
                 ELSE [completed |-> old.completed, vat |-> old.vat, stock |-> old.stock \/ order.stock,
                       rows |-> old.rows \cup order.rows]
  OBVIOUS
<1> PICK made : made = Names(order.rows) \ ledgers[co]
  OBVIOUS
<1>2. s \in Setting /\ s.rows \subseteq order.rows \cup (IF old = None THEN {} ELSE old.rows)
  <2>1. CASE old = None
    BY <1>0, <2>1 DEF Setting
  <2>2. CASE old # None
    <3>1. old \in Setting
      BY <1>1, <2>2
    <3>2. /\ old.completed \in BOOLEAN /\ old.vat \in BOOLEAN /\ (old.stock \/ order.stock) \in BOOLEAN
          /\ (old.rows \cup order.rows) \in SUBSET BankAccount
      BY <1>0, <3>1 DEF Setting
    <3> QED BY <2>2, <3>2 DEF Setting
  <2> QED BY <2>1, <2>2
<1>3. s.vat = IF old = None THEN order.vat ELSE old.vat
  OBVIOUS
<1>4. settings' = [settings EXCEPT ![co] = s]
  BY DEF Provision
<1>5. taxes' = [taxes EXCEPT ![co] = s.vat]
  <2>1. old # None => taxes[co] = old.vat
    BY DEF BooksFit, CompanyFollowsItsAnswers, Provisioned
  <2>2. taxes' = [taxes EXCEPT ![co] = IF old # None THEN taxes[co] ELSE order.vat]
    BY DEF Provision, Provisioned
  <2> QED BY <1>3, <2>1, <2>2
<1>6. ledgers' = [ledgers EXCEPT ![co] = @ \cup made]
  <2>1. ledgers[co] \cup Names(order.rows) = ledgers[co] \cup made
    OBVIOUS
  <2> QED BY <2>1 DEF Provision
<1>7. IsFiniteSet(made) /\ made \cap ledgers[co] = {} /\ Cardinality(made) <= Room(co)
  <2>1. IsFiniteSet(Names(order.rows))
    BY <1>0, NamesFinite
  <2>2. made \in SUBSET Names(order.rows)
    OBVIOUS
  <2>3. IsFiniteSet(made)
    BY <2>1, <2>2, FS_Subset
  <2> QED BY <2>3 DEF Provision
<1>8. ASSUME NEW account \in s.rows
      PROVE  Name(account) \in ledgers[co] \cup made \/ Cardinality(made) = Room(co)
  <2>1. CASE account \in order.rows
    BY <2>1 DEF Names
  <2>2. CASE old # None /\ account \in old.rows
    <3>1. Name(account) \in ledgers[co] \/ Room(co) = 0
      BY <2>2 DEF BooksFit, CompanyFollowsItsAnswers, Provisioned
    <3>2. Cardinality(made) \in Nat
      BY <1>7, FS_CardinalityType
    <3> QED BY <1>7, <3>1, <3>2
  <2> QED BY <1>2, <2>1, <2>2
<1> QED BY <1>2, <1>4, <1>5, <1>6, <1>7, <1>8, BooksStep

LEMMA ConfirmKeeps ==
  ASSUME BooksFit, NEW c \in Chats, Confirm(c), answers[c] \in Payload, answers[c].company \in Provisioned
  PROVE  BooksFit' /\ Provisioned \subseteq Provisioned'
<1> USE OnboardingAssumption
<1> PICK a, co : a = answers[c] /\ co = answers[c].company
  OBVIOUS
<1> PICK missing : missing = Names(BankRows(a)) \ ledgers[co]
  OBVIOUS
<1> PICK made \in Opened(co, missing) : ledgers' = [ledgers EXCEPT ![co] = @ \cup made]
  BY DEF Confirm
<1>1. co \in Companies /\ settings[co] \in Setting /\ settings[co] # None /\ IsFiniteSet(ledgers[co])
  BY DEF BooksFit, Provisioned
<1>2. /\ a.vat \in BOOLEAN /\ a.stock \in BOOLEAN
      /\ IsFiniteSet(BankRows(a)) /\ BankRows(a) \subseteq BankAccount
  BY BankRowsFinite DEF Payload
<1> PICK old : old = settings[co].rows
  OBVIOUS
<1>3. old \subseteq BankAccount
  BY <1>1 DEF Setting
<1> PICK s : s = [completed |-> TRUE, vat |-> a.vat, stock |-> a.stock, rows |-> old \cup BankRows(a)]
  OBVIOUS
<1>4. s \in Setting /\ s.rows = old \cup BankRows(a) /\ s.vat = a.vat
  <2>1. old \cup BankRows(a) \in SUBSET BankAccount
    BY <1>2, <1>3
  <2> QED BY <1>2, <2>1 DEF Setting
<1>5. settings' = [settings EXCEPT ![co] = s] /\ taxes' = [taxes EXCEPT ![co] = s.vat]
  BY <1>4 DEF Confirm
<1>6. IsFiniteSet(missing) /\ missing \cap ledgers[co] = {} /\ made \subseteq missing
  <2>1. IsFiniteSet(Names(BankRows(a)))
    BY <1>2, NamesFinite
  <2>2. missing \in SUBSET Names(BankRows(a))
    OBVIOUS
  <2>3. IsFiniteSet(missing)
    BY <2>1, <2>2, FS_Subset
  <2> QED BY <2>3 DEF Opened
<1>7. /\ IsFiniteSet(made) /\ made \cap ledgers[co] = {}
      /\ Cardinality(made) = IF Cardinality(missing) <= Room(co) THEN Cardinality(missing) ELSE Room(co)
  <2>1. IsFiniteSet(made)
    BY <1>6, FS_Subset
  <2> QED BY <1>6, <2>1 DEF Opened
<1>8. Cardinality(missing) \in Nat /\ Room(co) \in Int
  <2>1. Cardinality(missing) \in Nat /\ Cardinality(ledgers[co]) \in Nat
    BY <1>1, <1>6, FS_CardinalityType
  <2> QED BY <2>1 DEF Room
<1>9. Cardinality(made) <= Room(co)
  BY <1>7, <1>8
<1>10. ASSUME NEW account \in s.rows
       PROVE  Name(account) \in ledgers[co] \cup made \/ Cardinality(made) = Room(co)
  <2>1. CASE account \in BankRows(a)
    <3>1. Name(account) \in ledgers[co] \cup missing
      BY <2>1 DEF Names
    <3>2. CASE Cardinality(missing) <= Room(co)
      <4>1. made = missing
        BY <1>6, <1>7, <3>2, FS_Subset
      <4> QED BY <3>1, <4>1
    <3>3. CASE ~(Cardinality(missing) <= Room(co))
      BY <1>7, <3>3
    <3> QED BY <3>2, <3>3
  <2>2. CASE account \in old
    <3>1. Name(account) \in ledgers[co] \/ Room(co) = 0
      BY <1>1, <2>2 DEF BooksFit, CompanyFollowsItsAnswers, Provisioned
    <3>2. Cardinality(made) \in Nat
      BY <1>7, FS_CardinalityType
    <3> QED BY <1>9, <3>1, <3>2
  <2> QED BY <1>4, <2>1, <2>2
<1>11. ledgers' = [ledgers EXCEPT ![co] = @ \cup made]
  OBVIOUS
<1>12. co \in Companies /\ s \in Setting /\ IsFiniteSet(made) /\ made \cap ledgers[co] = {}
  BY <1>1, <1>4, <1>7
<1> QED BY <1>5, <1>9, <1>10, <1>11, <1>12, BooksStep

-----------------------------------------------------------------------------
(* What a step of one chat does to everything but its answers.             *)

(* Question s with payload a asks about list i.                            *)
Asks(s, a, i) == s = "inv_confirm" /\ a.intake = i

Waiting(list) == {i \in DOMAIN list : list[i].status \in {"draft", "failed"}}

(* A list that waits after the step is the one the chat asks about now, or *)
(* waited before and was not the chat's; and lists that were not the       *)
(* chat's stay as they are.                                                *)
Told(c) ==
  /\ \A i \in Waiting(intakes') :
       \/ Asks(step'[c], answers'[c], i)
       \/ i \in Waiting(intakes) /\ ~Asks(step[c], answers[c], i)
  /\ \A i \in DOMAIN intakes : Asks(step[c], answers[c], i) \/ intakes'[i] = intakes[i]

(* The wizard stays, is closed, or goes on for a company that is set up.   *)
Moves(c) ==
  \/ UNCHANGED wizard
  \/ Close(c)
  \/ active[c] # None /\ \E s \in Steps, b \in Payload : b.company \in Provisioned /\ Ask(c, s, b)

LEMMA CancelledWaits ==
  ASSUME IInv, NEW c \in Chats, Open(c)
  PROVE  /\ \A i \in Waiting(Cancelled(answers[c])) : i \in Waiting(intakes) /\ ~Asks(step[c], answers[c], i)
         /\ \A i \in DOMAIN intakes : Asks(step[c], answers[c], i) \/ Cancelled(answers[c])[i] = intakes[i]
<1> PICK a : a = answers[c]
  OBVIOUS
<1>1. intakes \in Seq(IntakeRow) /\ StockFits(step[c], a) /\ TellsOf(step[c], a, intakes)
  BY DEF IInv, ChatFits, Types
<1>2. CASE Unfiled(a) /\ intakes[a.intake].status # "posted"
  <2>1. a.intake \in DOMAIN intakes /\ Asks(step[c], a, a.intake)
    BY <1>1, <1>2 DEF Unfiled, TellsOf, StockFits, Asks
  <2>2. intakes[a.intake] \in IntakeRow
    BY <1>1, <2>1
  <2> PICK entry : entry = [intakes[a.intake] EXCEPT !.status = "cancelled"]
    OBVIOUS
  <2>3. entry.status = "cancelled"
    BY <2>2 DEF IntakeRow
  <2>4. Cancelled(a) = [intakes EXCEPT ![a.intake] = entry]
    BY <1>2 DEF Cancelled
  <2>5. \A i \in DOMAIN intakes : i # a.intake => Cancelled(a)[i] = intakes[i]
    BY <1>1, <2>4
  <2>6. \A i \in Waiting(Cancelled(a)) : i \in DOMAIN intakes /\ i # a.intake /\ Cancelled(a)[i] = intakes[i]
    BY <1>1, <2>1, <2>3, <2>4 DEF Waiting
  <2>7. \A i \in Waiting(Cancelled(a)) : i \in Waiting(intakes) /\ ~Asks(step[c], a, i)
    BY <2>6 DEF Waiting, Asks
  <2> QED BY <2>1, <2>5, <2>7
<1>3. CASE ~(Unfiled(a) /\ intakes[a.intake].status # "posted")
  <2>1. Cancelled(a) = intakes
    BY <1>3 DEF Cancelled
  <2>2. step[c] # "inv_confirm"
    BY <1>1, <1>3 DEF StockFits, TellsOf
  <2> QED BY <2>1, <2>2 DEF Asks
<1> QED BY <1>2, <1>3

LEMMA LeftIsTold ==
  ASSUME IInv, NEW c \in Chats, intakes' = LeftBehind(c)
  PROVE  Told(c)
<1>1. CASE Open(c)
  BY <1>1, CancelledWaits DEF LeftBehind, Open, Told
<1>2. CASE ~Open(c)
  BY <1>2, OnboardingAssumption DEF LeftBehind, Open, Told, Asks, Steps
<1> QED BY <1>1, <1>2

(* An answer is given by a chat with an open wizard.                       *)
LEMMA AnswerMoves ==
  ASSUME IInv, PeopleFit, NEW c \in Chats, Answer(c)
  PROVE  Moves(c) /\ Told(c) /\ UNCHANGED people
<1> DEFINE a == answers[c]
<1> USE OnboardingAssumption
<1>0. /\ Open(c) /\ a \in Payload /\ active[c] # None /\ a.company \in Provisioned
      /\ step \in [Chats -> Steps \cup {None}] /\ answers \in [Chats -> Payload \cup {None}]
      /\ UNCHANGED people
  <2>1. Open(c)
    BY DEF Answer, Open, Steps, TapVat, TapStock, Tap400m, BanksDone, CurrenciesDone, TapOtherCurrency, ToggleBank,
       ToggleCurrency, TypeCurrency, AnswerNumber, PostList, SendList, RefuseList, TypeName, TypePermit, Confirm, Back,
       SkipList, SkipBanks, SkipCurrencies, SkipCode, Cancel
  <2>2. UNCHANGED people
    BY DEF Answer, TapVat, TapStock, Tap400m, BanksDone, CurrenciesDone, TapOtherCurrency, ToggleBank,
       ToggleCurrency, TypeCurrency, AnswerNumber, PostList, SendList, RefuseList, TypeName, TypePermit, Confirm, Back,
       SkipList, SkipBanks, SkipCurrencies, SkipCode, Cancel
  <2> QED BY <2>1, <2>2 DEF IInv, ChatFits, Types, PeopleFit
<1>a. ASSUME NEW s \in Steps, NEW b \in Payload, b.company = a.company, Ask(c, s, b)
      PROVE  Moves(c)
  BY <1>0, <1>a DEF Moves
<1>b. ASSUME NEW s, NEW b, Ask(c, s, b)
      PROVE  step'[c] = s /\ answers'[c] = b
  BY <1>0, <1>b DEF Ask
<1>1. CASE /\ Quiet(c) /\ step[c] # "inv_confirm"
  BY <1>0, <1>1, <1>a DEF Quiet, Told, Asks
<1>2. CASE \/ \E yes \in BOOLEAN : TapVat(c, yes)
           \/ Tap400m(c) \/ BanksDone(c) \/ CurrenciesDone(c) \/ TapOtherCurrency(c)
           \/ \E b \in Banks : ToggleBank(c, b)
           \/ \E k \in Currencies : ToggleCurrency(c, k)
           \/ \E k \in Currencies \cup {None} : TypeCurrency(c, k)
           \/ \E n \in Numbers \cup {NoNumber} : AnswerNumber(c, n)
           \/ SkipBanks(c) \/ SkipCurrencies(c) \/ SkipCode(c)
  <2>1. step[c] # "inv_confirm"
    BY <1>2 DEF TapVat, Tap400m, BanksDone, CurrenciesDone, TapOtherCurrency, ToggleBank,
       ToggleCurrency, TypeCurrency, AnswerNumber, SkipBanks, SkipCurrencies, SkipCode
  <2>2. Quiet(c)
    BY <1>2, BankAnswers
  <2> QED BY <1>1, <2>1, <2>2
<1>3. CASE \/ \E yes \in BOOLEAN : TapStock(c, yes)
           \/ TypeName(c) \/ TypePermit(c)
  <2>1. step[c] # "inv_confirm" /\ UNCHANGED intakes
    BY <1>3 DEF TapStock, TypeName, TypePermit
  <2>2. \E s \in Steps, b \in Payload : b.company = a.company /\ Ask(c, s, b)
    <3>1. ASSUME NEW yes \in BOOLEAN, TapStock(c, yes)
          PROVE  \E s \in Steps, b \in Payload : b.company = a.company /\ Ask(c, s, b)
      <4> PICK b : b = [a EXCEPT !.stock = TRUE]
        OBVIOUS
      <4> PICK d : d = [a EXCEPT !.stock = yes, !.skipped = FALSE]
        OBVIOUS
      <4>1. Ask(c, "inv", b) \/ \E s \in {"inv_wait", "acc_name"} : Ask(c, s, d)
        BY <3>1 DEF TapStock
      <4> HIDE DEF a
      <4>2. b \in Payload /\ d \in Payload
        BY <1>0 DEF Payload
      <4>3. b.company = a.company /\ d.company = a.company
        BY <1>0 DEF Payload
      <4> QED BY <4>1, <4>2, <4>3 DEF Steps
    <3>2. CASE TypeName(c) \/ TypePermit(c)
      BY <1>0, <3>2 DEF TypeName, TypePermit, Steps
    <3> QED BY <1>3, <3>1, <3>2
  <2>3. Moves(c)
    BY <1>a, <2>2
  <2>4. Told(c)
    BY <2>1 DEF Told, Asks
  <2> QED BY <1>0, <2>3, <2>4
<1>4. ASSUME NEW ok \in BOOLEAN, PostList(c, ok) PROVE Moves(c) /\ Told(c)
  <2> DEFINE st == IF ok THEN "posted" ELSE "failed"
             b == [a EXCEPT !.posted = a.intake, !.filed = a.count]
  <2>1. step[c] = "inv_confirm" /\ intakes' = [intakes EXCEPT ![a.intake].status = st]
    BY <1>4 DEF PostList
  <2>2. intakes \in Seq(IntakeRow) /\ a.intake \in DOMAIN intakes /\ a.intake # None
    BY <1>0, <2>1 DEF IInv, Types, ChatFits, StockFits, TellsOf, Unfiled
  <2> PICK entry : entry = [intakes[a.intake] EXCEPT !.status = st]
    OBVIOUS
  <2>3. entry.status = st /\ intakes' = [intakes EXCEPT ![a.intake] = entry]
    <3>1. intakes[a.intake] \in IntakeRow
      BY <2>2
    <3> QED BY <2>1, <2>2, <3>1 DEF IntakeRow
  <2>4. \A i \in Waiting(intakes') : i # a.intake => i \in Waiting(intakes)
    <3> HIDE DEF a
    <3> QED BY <2>2, <2>3 DEF Waiting
  <2>7. \A i \in DOMAIN intakes : Asks(step[c], answers[c], i) \/ intakes'[i] = intakes[i]
    <3>1. \A i \in DOMAIN intakes : i # a.intake => intakes'[i] = intakes[i]
      <4> HIDE DEF a
      <4> QED BY <2>2, <2>3
    <3> QED BY <2>1, <3>1 DEF Asks
  <2>5. CASE ok
    <3>1. Ask(c, "acc_name", b) /\ "acc_name" \in Steps
      BY <1>4, <2>5 DEF PostList, Steps
    <3>2. b \in Payload
      <4> HIDE DEF a
      <4> QED BY <1>0, <2>2 DEF Payload
    <3>3. b.company = a.company
      <4> HIDE DEF a
      <4> QED BY <1>0 DEF Payload
    <3>4. a.intake \notin Waiting(intakes')
      <4> HIDE DEF a
      <4> QED BY <2>2, <2>3, <2>5 DEF Waiting
    <3>5. Told(c)
      BY <2>4, <2>7, <3>4 DEF Told, Asks
    <3> HIDE DEF b
    <3> QED BY <1>a, <3>1, <3>2, <3>3, <3>5
  <2>6. CASE ~ok
    <3>1. UNCHANGED wizard
      BY <1>4, <2>6 DEF PostList
    <3>2. Told(c)
      BY <2>1, <2>4, <2>7, <3>1 DEF Told, Asks, wizard
    <3> QED BY <3>1, <3>2 DEF Moves
  <2> QED BY <2>5, <2>6
<1>5. CASE SendList(c)
  <2> PICK i, size : i = Len(intakes) + 1 /\ size = Sizes[i]
    OBVIOUS
  <2> PICK entry : entry = [company |-> active[c], rows |-> size, status |-> "draft"]
    OBVIOUS
  <2> PICK b : b = [a EXCEPT !.intake = i, !.count = size, !.skipped = FALSE]
    OBVIOUS
  <2>1. step[c] = "inv_wait" /\ Len(intakes) < Len(Sizes) /\ intakes' = Append(intakes, entry) /\ Ask(c, "inv_confirm", b)
    BY <1>5 DEF SendList
  <2>2. intakes \in Seq(IntakeRow) /\ i \in Nat /\ size \in Nat
    BY <2>1 DEF IInv, Types
  <2>3. \A j \in DOMAIN intakes' : j = i \/ (j \in DOMAIN intakes /\ intakes'[j] = intakes[j])
    BY <2>1, <2>2
  <2>4. b \in Payload
    <3> HIDE DEF a
    <3> QED BY <1>0, <2>2 DEF Payload
  <2>5. b.company = a.company /\ b.intake = i
    <3> HIDE DEF a
    <3> QED BY <1>0 DEF Payload
  <2>6. Told(c)
    <3>1. step'[c] = "inv_confirm" /\ answers'[c] = b
      BY <1>b, <2>1
    <3>2. Asks(step'[c], answers'[c], i)
      BY <2>5, <3>1 DEF Asks
    <3>3. \A j : ~Asks(step[c], answers[c], j)
      BY <2>1 DEF Asks
    <3>4. \A j \in DOMAIN intakes : intakes'[j] = intakes[j]
      BY <2>1, <2>2
    <3> QED BY <2>3, <3>2, <3>3, <3>4 DEF Told, Waiting
  <2> QED BY <1>0, <1>a, <2>1, <2>4, <2>5, <2>6 DEF Steps
<1>6. CASE Cancel(c)
  BY <1>0, <1>6, LeftIsTold DEF Cancel, LeftBehind, Open, Moves
<1>7. CASE RefuseList(c) \/ SkipList(c) \/ (Back(c) /\ step[c] = "inv_confirm")
  <2>1. intakes' = LeftBehind(c)
    BY <1>0, <1>7 DEF RefuseList, SkipList, Back, LeftBehind, Open
  <2> PICK d : d = [a EXCEPT !.skipped = TRUE]
    OBVIOUS
  <2>2. d \in Payload
    <3> HIDE DEF a
    <3> QED BY <1>0 DEF Payload
  <2>3. d.company = a.company
    <3> HIDE DEF a
    <3> QED BY <1>0 DEF Payload
  <2>4. ASSUME NEW e \in Payload
        PROVE  Forgotten(e) \in Payload /\ Forgotten(e).company = e.company
    <3> PICK f : f = [e EXCEPT !.intake = None, !.count = 0]
      OBVIOUS
    <3>1. f \in Payload
      BY DEF Payload
    <3>2. f.company = e.company
      BY DEF Payload
    <3> QED BY <3>1, <3>2 DEF Forgotten
  <2>5. \E s \in Steps : Ask(c, s, Forgotten(a)) \/ Ask(c, s, Forgotten(d))
    BY <1>7 DEF RefuseList, SkipList, Back, BackTarget, Steps
  <2>6. Moves(c)
    BY <1>0, <1>a, <2>2, <2>3, <2>4, <2>5
  <2> QED BY <1>0, <2>1, <2>6, LeftIsTold
<1>8. CASE Back(c) /\ step[c] # "inv_confirm"
  <2> PICK s : s = BackTarget(step[c], a)
    OBVIOUS
  <2>1. Ask(c, s, a) /\ UNCHANGED intakes /\ s # None
    BY <1>8 DEF Back
  <2>2. s \in Steps
    BY <2>1 DEF BackTarget, Steps
  <2>3. Moves(c)
    BY <1>0, <1>a, <2>1, <2>2
  <2>4. Told(c)
    BY <1>8, <2>1 DEF Told, Asks
  <2> QED BY <1>0, <2>3, <2>4
<1>9. CASE Confirm(c)
  <2>1. Close(c) /\ UNCHANGED intakes /\ step[c] = "summary"
    BY <1>9 DEF Confirm
  <2> QED BY <1>0, <2>1 DEF Moves, Told, Asks
<1> QED BY <1>0, <1>2, <1>3, <1>4, <1>5, <1>6, <1>7, <1>8, <1>9 DEF Answer

-----------------------------------------------------------------------------
(* Who works for which company stays so.                                   *)

LEMMA PeopleMove ==
  ASSUME IInv, PeopleFit, NEW c \in Chats, Moves(c), Provisioned \subseteq Provisioned', UNCHANGED links,
         \A d \in Chats : active'[d] = active[d] \/ (active'[d] \in Companies /\ links[d][active'[d]] # None),
         \A k \in DOMAIN codes' : codes'[k].company \in Provisioned'
  PROVE  PeopleFit'
<1> USE OnboardingAssumption
<1>1. \A d \in Chats : active[d] # None => active'[d] # None
  OBVIOUS
<1>2. \A d \in Chats : active'[d] # None => links'[d][active'[d]] # None
  BY DEF PeopleFit
<1>3. \A d \in Chats, co \in Companies : links'[d][co] # None => co \in Provisioned' /\ active'[d] # None
  BY <1>1 DEF PeopleFit
<1>4. ASSUME NEW d \in Chats, Open(d)'
      PROVE  active'[d] # None /\ answers'[d].company \in Provisioned'
  <2>0. step \in [Chats -> Steps \cup {None}] /\ answers \in [Chats -> Payload \cup {None}]
    BY DEF IInv, Types
  <2>1. CASE UNCHANGED wizard
    BY <1>1, <1>4, <2>1 DEF wizard, Open, PeopleFit
  <2>2. CASE Close(c)
    BY <1>1, <1>4, <2>0, <2>2 DEF Close, Open, PeopleFit
  <2>3. ASSUME active[c] # None, NEW s \in Steps, NEW b \in Payload, b.company \in Provisioned, Ask(c, s, b)
        PROVE  active'[d] # None /\ answers'[d].company \in Provisioned'
    <3>1. CASE d = c
      BY <1>1, <2>0, <2>3, <3>1 DEF Ask
    <3>2. CASE d # c
      BY <1>1, <1>4, <2>0, <2>3, <3>2 DEF Ask, Open, PeopleFit
    <3> QED BY <3>1, <3>2
  <2> QED BY <2>1, <2>2, <2>3 DEF Moves
<1>5. links' \in [Chats -> [Companies -> Roles \cup {None}]]
  BY DEF PeopleFit
<1> QED BY <1>2, <1>3, <1>4, <1>5 DEF PeopleFit

(* A code that is typed links its person; somebody who had no company gets *)
(* an active one by it.                                                    *)
LEMMA TypeCodeKeepsPeople ==
  ASSUME IInv, PeopleFit, NEW c \in Chats, NEW k \in DOMAIN codes, TypeCode(c, k)
  PROVE  PeopleFit' /\ Provisioned' = Provisioned
<1> USE OnboardingAssumption
<1>0. /\ step \in [Chats -> Steps \cup {None}] /\ answers \in [Chats -> Payload \cup {None}]
      /\ active \in [Chats -> Companies \cup {None}] /\ codes[k] \in CodeRow /\ codes \in Seq(CodeRow)
  BY DEF IInv, Types
<1> PICK co : co = IF active[c] = None THEN codes[k].company ELSE active[c]
  OBVIOUS
<1> PICK mine : mine = [links[c] EXCEPT ![codes[k].company] = codes[k].role]
  OBVIOUS
<1> PICK entry : entry = [codes[k] EXCEPT !.status = "used"]
  OBVIOUS
<1>1. /\ codes' = [codes EXCEPT ![k] = entry] /\ links' = [links EXCEPT ![c] = mine]
      /\ active' = [active EXCEPT ![c] = co] /\ UNCHANGED settings
      /\ Ask(c, "vat", Blank(co)) \/ UNCHANGED wizard
  BY DEF TypeCode, books
<1>2. Provisioned' = Provisioned
  BY <1>1 DEF Provisioned
<1>3. /\ codes[k].company \in Companies /\ codes[k].role \in Roles /\ codes[k].company \in Provisioned
      /\ entry.company = codes[k].company
  BY <1>0 DEF CodeRow, PeopleFit
<1>4. co \in Provisioned /\ co \in Companies
  <2>1. CASE active[c] = None
    BY <1>3, <2>1
  <2>2. CASE active[c] # None
    BY <1>0, <2>2 DEF PeopleFit
  <2> QED BY <2>1, <2>2
<1>5. /\ mine \in [Companies -> Roles \cup {None}]
      /\ mine[codes[k].company] # None
      /\ \A d \in Companies : mine[d] # None => d = codes[k].company \/ links[c][d] # None
      /\ \A d \in Companies : links[c][d] # None => mine[d] # None
  <2>1. links[c] \in [Companies -> Roles \cup {None}]
    BY DEF PeopleFit
  <2> QED BY <1>3, <2>1
<1>6. links' \in [Chats -> [Companies -> Roles \cup {None}]]
  BY <1>1, <1>5 DEF PeopleFit
<1>7. /\ links'[c] = mine /\ active'[c] = co
      /\ \A d \in Chats : d # c => links'[d] = links[d] /\ active'[d] = active[d]
  BY <1>0, <1>1 DEF PeopleFit
<1>8. mine[co] # None
  <2>1. CASE active[c] = None
    BY <1>5, <2>1
  <2>2. CASE active[c] # None
    BY <1>0, <1>5, <2>2 DEF PeopleFit
  <2> QED BY <2>1, <2>2
<1>9. \A d \in Chats, e \in Companies : links'[d][e] # None => e \in Provisioned /\ active'[d] # None
  <2> SUFFICES ASSUME NEW d \in Chats, NEW e \in Companies, links'[d][e] # None
               PROVE  e \in Provisioned /\ active'[d] # None
    OBVIOUS
  <2>1. CASE d = c
    <3>1. mine[e] # None
      BY <1>7, <2>1
    <3>2. e = codes[k].company \/ links[c][e] # None
      BY <1>5, <3>1
    <3>3. e \in Provisioned
      BY <1>3, <3>2 DEF PeopleFit
    <3>4. active'[d] # None
      BY <1>4, <1>7, <2>1
    <3> QED BY <3>3, <3>4
  <2>2. CASE d # c
    BY <1>7, <2>2 DEF PeopleFit
  <2> QED BY <2>1, <2>2
<1>10. \A d \in Chats : active'[d] # None => links'[d][active'[d]] # None
  <2> SUFFICES ASSUME NEW d \in Chats, active'[d] # None
               PROVE  links'[d][active'[d]] # None
    OBVIOUS
  <2>1. CASE d = c
    BY <1>7, <1>8, <2>1
  <2>2. CASE d # c
    BY <1>7, <2>2 DEF PeopleFit
  <2> QED BY <2>1, <2>2
<1>11. \A l \in DOMAIN codes' : codes'[l].company \in Provisioned
  <2> SUFFICES ASSUME NEW l \in DOMAIN codes' PROVE codes'[l].company \in Provisioned
    OBVIOUS
  <2>1. CASE l = k
    BY <1>1, <1>3, <2>1
  <2>2. CASE l # k
    BY <1>1, <2>2 DEF PeopleFit
  <2> QED BY <2>1, <2>2
<1>12. \A d \in Chats : Open(d)' => active'[d] # None /\ answers'[d].company \in Provisioned
  <2> SUFFICES ASSUME NEW d \in Chats, Open(d)' PROVE active'[d] # None /\ answers'[d].company \in Provisioned
    OBVIOUS
  <2>1. active[d] # None => active'[d] # None
    BY <1>4, <1>7
  <2>2. CASE UNCHANGED wizard
    BY <2>1, <2>2 DEF wizard, Open, PeopleFit
  <2>3. CASE Ask(c, "vat", Blank(co))
    <3>1. CASE d = c
      <4>1. answers'[d] = Blank(co)
        BY <1>0, <2>3, <3>1 DEF Ask
      <4>2. Blank(co).company = co
        BY DEF Blank
      <4> QED BY <1>4, <1>7, <3>1, <4>1, <4>2
    <3>2. CASE d # c
      BY <1>0, <2>1, <2>3, <3>2 DEF Ask, Open, PeopleFit
    <3> QED BY <3>1, <3>2
  <2> QED BY <1>1, <2>2, <2>3
<1> QED BY <1>2, <1>6, <1>9, <1>10, <1>11, <1>12 DEF PeopleFit

(* What else a person says: codes and links stay.                          *)
LEMMA TalkMoves ==
  ASSUME IInv, PeopleFit, NEW c \in Chats,
         \/ \E co \in Companies : SwitchByButton(c, co) \/ SwitchByCommand(c, co)
         \/ Command(c) \/ \E again \in BOOLEAN : Start(c, again)
  PROVE  /\ Moves(c) /\ Told(c) /\ UNCHANGED <<links, codes, books>>
         /\ \A d \in Chats : active'[d] = active[d] \/ (active'[d] \in Companies /\ links[d][active'[d]] # None)
<1>0. active \in [Chats -> Companies \cup {None}]
  BY DEF IInv, Types
<1>1. ASSUME NEW co \in Companies, SwitchByButton(c, co)
      PROVE  /\ Moves(c) /\ Told(c) /\ UNCHANGED <<links, codes, books>>
             /\ \A d \in Chats : active'[d] = active[d] \/ (active'[d] \in Companies /\ links[d][active'[d]] # None)
  BY <1>0, <1>1 DEF SwitchByButton, Moves, Told, Asks, wizard
<1>2. ASSUME NEW co \in Companies, SwitchByCommand(c, co)
      PROVE  /\ Moves(c) /\ Told(c) /\ UNCHANGED <<links, codes, books>>
             /\ \A d \in Chats : active'[d] = active[d] \/ (active'[d] \in Companies /\ links[d][active'[d]] # None)
  BY <1>0, <1>2, LeftIsTold DEF SwitchByCommand, Moves
<1>3. CASE Command(c)
  BY <1>3, LeftIsTold DEF Command, Moves, people
<1>4. ASSUME NEW again \in BOOLEAN, Start(c, again)
      PROVE  /\ Moves(c) /\ Told(c) /\ UNCHANGED <<links, codes, books, active>>
  <2>1. active[c] \in Provisioned /\ Blank(active[c]) \in Payload /\ Blank(active[c]).company = active[c]
    <3>1. active[c] # None /\ active[c] \in Companies
      BY <1>0, <1>4 DEF Start
    <3>2. active[c] \in Provisioned
      BY <3>1 DEF PeopleFit
    <3> QED BY <3>1, <3>2, BlankFits DEF Blank
  <2>2. Moves(c)
    BY <1>4, <2>1 DEF Start, Moves, Steps
  <2> QED BY <1>4, <2>2, LeftIsTold DEF Start, people
<1> QED BY <1>1, <1>2, <1>3, <1>4

-----------------------------------------------------------------------------
(* The desk leaves the conversations alone.                                *)
LEMMA DeskKeepsPeople ==
  ASSUME IInv, BooksFit, PeopleFit, Desk
  PROVE  BooksFit' /\ PeopleFit'
<1>1. ASSUME NEW co \in Companies, NEW order \in Orders, Provision(co, order)
      PROVE  BooksFit' /\ PeopleFit'
  <2>1. BooksFit' /\ Provisioned \subseteq Provisioned'
    BY <1>1, ProvisionKeeps
  <2>2. UNCHANGED <<wizard, people>>
    BY <1>1 DEF Provision
  <2>3. PeopleFit'
    BY <2>1, <2>2 DEF PeopleFit, Open, wizard, people
  <2> QED BY <2>1, <2>3
<1>2. ASSUME UNCHANGED <<wizard, links, active, books>>,
             \A k \in DOMAIN codes' : codes'[k].company \in Provisioned
      PROVE  BooksFit' /\ PeopleFit'
  <2>1. BooksFit' /\ Provisioned' = Provisioned
    BY <1>2 DEF BooksFit, books, CompanyFollowsItsAnswers, Provisioned, Room
  <2>2. PeopleFit'
    BY <1>2, <2>1 DEF PeopleFit, Open, wizard
  <2> QED BY <2>1, <2>2
<1>3. ASSUME NEW co \in Companies, NEW role \in Roles, IssueCode(role, co)
      PROVE  BooksFit' /\ PeopleFit'
  <2> PICK entry : entry = [company |-> co, role |-> role, status |-> "open"]
    OBVIOUS
  <2>1. codes \in Seq(CodeRow) /\ entry \in CodeRow /\ entry.company = co
    BY DEF IInv, Types, CodeRow
  <2>2. codes' = Append(codes, entry) /\ co \in Provisioned
    BY <1>3 DEF IssueCode
  <2>3. \A k \in DOMAIN codes' : codes'[k] = entry \/ (k \in DOMAIN codes /\ codes'[k] = codes[k])
    BY <2>1, <2>2
  <2>4. \A k \in DOMAIN codes' : codes'[k].company \in Provisioned
    BY <2>1, <2>2, <2>3 DEF PeopleFit
  <2> QED BY <1>2, <1>3, <2>4 DEF IssueCode
<1>4. ASSUME NEW k \in DOMAIN codes, ExpireCode(k)
      PROVE  BooksFit' /\ PeopleFit'
  <2> PICK entry : entry = [codes[k] EXCEPT !.status = "expired"]
    OBVIOUS
  <2>1. codes[k] \in CodeRow /\ entry.company = codes[k].company /\ codes' = [codes EXCEPT ![k] = entry]
    <3>1. codes[k] \in CodeRow
      BY DEF IInv, Types
    <3> QED BY <1>4, <3>1 DEF ExpireCode, CodeRow
  <2>2. \A l \in DOMAIN codes' : codes'[l].company \in Provisioned
    BY <2>1 DEF PeopleFit
  <2> QED BY <1>2, <1>4, <2>2 DEF ExpireCode
<1> QED BY <1>1, <1>3, <1>4 DEF Desk

LEMMA BooksIdle ==
  ASSUME BooksFit, UNCHANGED books
  PROVE  BooksFit' /\ Provisioned' = Provisioned
  BY DEF BooksFit, books, CompanyFollowsItsAnswers, Provisioned, Room

LEMMA CompanyStep ==
  ASSUME IInv, BooksFit, PeopleFit, [Next]_vars
  PROVE  BooksFit' /\ PeopleFit'
<1>1. CASE Desk
  BY <1>1, DeskKeepsPeople
<1>2. ASSUME NEW c \in Chats, Talk(c) PROVE BooksFit' /\ PeopleFit'
  <2>1. ASSUME NEW k \in DOMAIN codes, TypeCode(c, k) PROVE BooksFit' /\ PeopleFit'
    BY <2>1, TypeCodeKeepsPeople, BooksIdle DEF TypeCode
  <2>2. CASE \/ \E co \in Companies : SwitchByButton(c, co) \/ SwitchByCommand(c, co)
             \/ Command(c) \/ \E again \in BOOLEAN : Start(c, again)
    <3>1. /\ Moves(c) /\ UNCHANGED <<links, codes, books>>
          /\ \A d \in Chats : active'[d] = active[d] \/ (active'[d] \in Companies /\ links[d][active'[d]] # None)
      BY <2>2, TalkMoves
    <3>2. BooksFit' /\ Provisioned' = Provisioned
      BY <3>1, BooksIdle
    <3>3. \A k \in DOMAIN codes' : codes'[k].company \in Provisioned'
      BY <3>1, <3>2 DEF PeopleFit
    <3> QED BY <3>1, <3>2, <3>3, PeopleMove
  <2>3. CASE Displaced(c)
    <3>1. Moves(c) /\ UNCHANGED <<links, active, codes, books>>
      BY <2>3 DEF Displaced, Moves, people
    <3>2. BooksFit' /\ Provisioned' = Provisioned
      BY <3>1, BooksIdle
    <3>3. \A k \in DOMAIN codes' : codes'[k].company \in Provisioned'
      BY <3>1, <3>2 DEF PeopleFit
    <3> QED BY <3>1, <3>2, <3>3, PeopleMove
  <2> QED BY <1>2, <2>1, <2>2, <2>3 DEF Talk
<1>3. ASSUME NEW c \in Chats, Answer(c) PROVE BooksFit' /\ PeopleFit'
  <2>1. Moves(c) /\ UNCHANGED people
    BY <1>3, AnswerMoves
  <2>2. BooksFit' /\ Provisioned \subseteq Provisioned'
    <3>1. CASE Confirm(c)
      <4>1. answers[c] \in Payload /\ answers[c].company \in Provisioned
        BY <3>1, OnboardingAssumption DEF Confirm, Open, Steps, IInv, ChatFits, PeopleFit
      <4> QED BY <3>1, <4>1, ConfirmKeeps
    <3>2. CASE UNCHANGED books
      BY <3>2, BooksIdle
    <3>3. Confirm(c) \/ UNCHANGED books
      BY <1>3 DEF Answer, TapVat, TapStock, Tap400m, BanksDone, CurrenciesDone, TapOtherCurrency, ToggleBank,
         ToggleCurrency, TypeCurrency, AnswerNumber, PostList, SendList, RefuseList, TypeName, TypePermit, Back,
         SkipList, SkipBanks, SkipCurrencies, SkipCode, Cancel
    <3> QED BY <3>1, <3>2, <3>3
  <2>3. UNCHANGED <<links, codes, active>>
    BY <2>1 DEF people
  <2>4. \A k \in DOMAIN codes' : codes'[k].company \in Provisioned'
    BY <2>2, <2>3 DEF PeopleFit
  <2> QED BY <2>1, <2>2, <2>3, <2>4, PeopleMove
<1>4. CASE UNCHANGED vars
  <2>1. BooksFit' /\ Provisioned' = Provisioned
    BY <1>4, BooksIdle DEF vars, books
  <2>2. PeopleFit'
    BY <1>4, <2>1 DEF vars, PeopleFit, Open
  <2> QED BY <2>1, <2>2
<1> QED BY <1>1, <1>2, <1>3, <1>4 DEF Next

LEMMA CompanyInit == Init => BooksFit /\ PeopleFit
<1> SUFFICES ASSUME Init PROVE BooksFit /\ PeopleFit
  OBVIOUS
<1>1. \A co \in Companies : settings[co] = None /\ ledgers[co] = {}
  BY DEF Init
<1>2. \A c \in Chats : step[c] = None /\ active[c] = None /\ links[c] = [co \in Companies |-> None]
  BY DEF Init
<1>3. BooksFit
  <2>1. IsFiniteSet({}) /\ Cardinality({}) = 0
    BY FS_EmptySet
  <2>2. \A co \in Companies : IsFiniteSet(ledgers[co]) /\ Cardinality(ledgers[co]) <= SubCodes
    <3>1. 0 <= SubCodes
      BY OnboardingAssumption
    <3> QED BY <1>1, <2>1, <3>1
  <2>3. settings \in [Companies -> Setting \cup {None}] /\ DOMAIN taxes = Companies /\ DOMAIN ledgers = Companies
    BY DEF Init
  <2>4. Provisioned = {}
    BY <1>1 DEF Provisioned
  <2> QED BY <2>2, <2>3, <2>4 DEF BooksFit, CompanyFollowsItsAnswers
<1>4. PeopleFit
  <2>1. links \in [Chats -> [Companies -> Roles \cup {None}]] /\ DOMAIN codes = {}
    BY DEF Init
  <2> QED BY <1>2, <2>1 DEF PeopleFit, Open
<1> QED BY <1>3, <1>4

LEMMA CompanyInvariant == Spec => [](IInv /\ BooksFit /\ PeopleFit)
<1>1. Init => IInv /\ BooksFit /\ PeopleFit
  BY InitFits, CompanyInit
<1>2. IInv /\ BooksFit /\ PeopleFit /\ [Next]_vars => (IInv /\ BooksFit /\ PeopleFit)'
  BY StepFits, CompanyStep
<1> QED BY <1>1, <1>2, PTL DEF Spec

(* However often a company is provisioned and set up, and in whatever       *)
(* order its people answer: an account that was confirmed has its ledger   *)
(* unless the chart has no code left, and the VAT templates are those of   *)
(* its VAT status (provision_company, ensure_bank_accounts, complete).     *)
THEOREM CompaniesFollow == Spec => []CompanyFollowsItsAnswers
<1>1. BooksFit => CompanyFollowsItsAnswers
  BY DEF BooksFit
<1> QED BY <1>1, CompanyInvariant, PTL

-----------------------------------------------------------------------------
(* The lists on the desk.                                                  *)

LEMMA UnexplainedMeaning ==
  Unexplained = {i \in Waiting(intakes) : ~\E c \in Chats : Asks(step[c], answers[c], i)}
  BY DEF Unexplained, Waiting, Asks

(* No list has lost its question, and those that have none are left alone. *)
InOrder ==
  /\ \A i \in Unexplained' : i \in Unexplained
  /\ \A i \in Unexplained : intakes'[i] = intakes[i]

LEMMA ListsStayInOrder ==
  ASSUME NEW c \in Chats, Told(c),
         \A d \in Chats \ {c} : step'[d] = step[d] /\ answers'[d] = answers[d]
  PROVE  InOrder
<1>1. ASSUME NEW i \in Unexplained' PROVE i \in Unexplained
  <2>1. i \in Waiting(intakes') /\ ~\E d \in Chats : Asks(step'[d], answers'[d], i)
    BY <1>1 DEF Unexplained, Waiting, Asks
  <2>2. i \in Waiting(intakes) /\ ~Asks(step[c], answers[c], i)
    BY <2>1 DEF Told
  <2>3. ASSUME NEW d \in Chats, Asks(step[d], answers[d], i) PROVE FALSE
    <3>1. d # c
      BY <2>2, <2>3
    <3>2. step'[d] = step[d] /\ answers'[d] = answers[d]
      BY <3>1
    <3> QED BY <2>1, <2>3, <3>2
  <2> QED BY <2>2, <2>3, UnexplainedMeaning
<1>2. ASSUME NEW i \in Unexplained PROVE intakes'[i] = intakes[i]
  BY <1>2, UnexplainedMeaning DEF Told, Waiting
<1> QED BY <1>1, <1>2 DEF InOrder

LEMMA OthersStay ==
  ASSUME IInv, NEW c \in Chats, Moves(c)
  PROVE  \A d \in Chats \ {c} : step'[d] = step[d] /\ answers'[d] = answers[d]
  BY DEF IInv, Types, Moves, Ask, Close, wizard

LEMMA IdleIsInOrder ==
  ASSUME UNCHANGED <<wizard, intakes>>
  PROVE  InOrder
  BY DEF InOrder, Unexplained, wizard

(* Another card's question, or a worker's, takes the chat from the wizard, *)
(* or a link code that is typed in its middle does.                        *)
Interrupted == \E c \in Chats : step[c] # None /\ (Displaced(c) \/ \E k \in DOMAIN codes : TypeCode(c, k))

LEMMA OrderStep ==
  ASSUME IInv, PeopleFit, [Next]_vars
  PROVE  InOrder \/ (Interrupted /\ UNCHANGED intakes)
<1> USE OnboardingAssumption
<1>1. CASE Desk
  BY <1>1, IdleIsInOrder DEF Desk, Provision, IssueCode, ExpireCode
<1>2. ASSUME NEW c \in Chats, NEW k \in DOMAIN codes, TypeCode(c, k)
      PROVE  InOrder \/ (Interrupted /\ UNCHANGED intakes)
  <2>1. UNCHANGED intakes
    BY <1>2 DEF TypeCode
  <2>2. CASE step[c] = None
    <3>1. Told(c)
      BY <2>1, <2>2 DEF Told, Asks, Steps
    <3>2. \A d \in Chats \ {c} : step'[d] = step[d] /\ answers'[d] = answers[d]
      BY <1>2 DEF TypeCode, Ask, wizard, IInv, Types
    <3> QED BY <3>1, <3>2, ListsStayInOrder
  <2>3. CASE step[c] # None
    BY <1>2, <2>1, <2>3 DEF Interrupted
  <2> QED BY <2>2, <2>3
<1>3. ASSUME NEW c \in Chats, Displaced(c)
      PROVE  InOrder \/ (Interrupted /\ UNCHANGED intakes)
  BY <1>3 DEF Displaced, Interrupted
<1>4. ASSUME NEW c \in Chats,
             \/ \E co \in Companies : SwitchByButton(c, co) \/ SwitchByCommand(c, co)
             \/ Command(c) \/ \E again \in BOOLEAN : Start(c, again)
      PROVE  InOrder
  BY <1>4, TalkMoves, OthersStay, ListsStayInOrder
<1>5. ASSUME NEW c \in Chats, Answer(c)
      PROVE  InOrder
  BY <1>5, AnswerMoves, OthersStay, ListsStayInOrder
<1>6. CASE UNCHANGED vars
  BY <1>6, IdleIsInOrder DEF vars, wizard
<1> QED BY <1>1, <1>2, <1>3, <1>4, <1>5, <1>6 DEF Next, Talk

(* Whichever way a person leaves the wizard, the stock list it has read is  *)
(* filed or cancelled (_forget_inventory_list, leave_open_flow); a list    *)
(* loses its question only when another card or a worker asks for          *)
(* something else, or a link code is typed; and no tap ever files or       *)
(* cancels a list that has lost it.                                        *)
THEOREM NoWayOutLosesAList == Spec => ListsAreLeftInOrder
<1>1. ASSUME IInv, PeopleFit, [Next]_vars
      PROVE  [/\ \A i \in Unexplained' : i \in Unexplained \/
                   \E c \in Chats : step[c] # None /\ (Displaced(c) \/ \E k \in DOMAIN codes : TypeCode(c, k))
              /\ \A i \in Unexplained : intakes'[i] = intakes[i]]_vars
  <2>1. InOrder \/ (Interrupted /\ UNCHANGED intakes)
    BY <1>1, OrderStep
  <2> QED BY <2>1 DEF InOrder, Interrupted
<1> QED BY <1>1, CompanyInvariant, PTL DEF Spec, ListsAreLeftInOrder
===============================================================================
