----------------------------- MODULE ReceiptIntake -----------------------------
(***************************************************************************)
(* A photo of a receipt, from the chat that sends it to the proposal on a  *)
(* card: the document, the queue job that reads it with the model, the     *)
(* supplier and the learned rule it meets, and the corrections the rules   *)
(* are learned from.                                                       *)
(*                                                                         *)
(* A job is one database transaction.  It reads the site as it was at its  *)
(* first query, minutes before the model has answered; what it writes      *)
(* appears when it ends, and not at all when it raises.  The long queue's  *)
(* workers run jobs side by side.                                          *)
(***************************************************************************)
EXTENDS ReceiptEntries

CONSTANTS
  Files,           \* photos, each with contents of its own
  Sellers,         \* names as they are printed
  Unknown,         \* a supplier whose name could not be read
  Nameless,        \* a receipt without a readable seller
  Ids, NoId,       \* register numbers
  Registry,        \* [Ids -> {"payer", "non_payer", "none"}]
  RegistryName,    \* [Ids -> Sellers]
  ModelSays,       \* [Files -> what the model may read off each photo and how classify it]
  SeedRules,       \* rules the accountant has written
  Editable,        \* accounts the desk switches off and on
  Offered,         \* accounts an accountant finds for a correction
  Today,
  MaxTries,        \* runs of one job that Frappe repeats after a deadlock
  MaxCorrections,  \* bound on the corrections an accountant makes
  None

(* Rows of the DocType Nyabo Rule.                                         *)
RuleTable(table) ==
  /\ Len(table) \in Nat /\ table = [i \in 1..Len(table) |-> table[i]]
  /\ \A i \in DOMAIN table :
       /\ table[i] = [kind |-> table[i].kind, value |-> table[i].value, code |-> table[i].code,
                      treatment |-> table[i].treatment, pattern |-> table[i].pattern,
                      status |-> table[i].status, hits |-> table[i].hits]
       /\ table[i].kind \in {"register_no", "name", "item", "band"} /\ table[i].hits \in Nat

ASSUME IntakeAssumption ==
  /\ MaxTries \in Nat /\ MaxCorrections \in Nat
  /\ Registry \in [Ids -> {"payer", "non_payer", "none"}]
  /\ RegistryName \in [Ids -> Sellers]
  /\ None \notin {"received", "proposed"}
  /\ NoId \notin Ids /\ Unknown \notin Sellers /\ Nameless \notin Sellers
  /\ IsFiniteSet(Files) /\ Editable \subseteq Codes
  /\ \A f \in Files : \A say \in ModelSays[f] : say.reading.total \in Int /\ say.reading.vat \in Int
  /\ RuleTable(SeedRules) /\ \A i \in DOMAIN SeedRules : SeedRules[i].hits = 0

VARIABLES
  doc,         \* status of each file's Nyabo Document, None before it is sent
  job,         \* its pipeline job
  tries,       \* how often the job has been started again
  seen,        \* what the running job's transaction sees of the site
  proposal,    \* the proposal drawn up for each file
  supplier,    \* Supplier rows, by name
  rules,       \* Nyabo Rule rows, in the order of their creation
  leaves,      \* accounts of the chart that are ledgers and enabled
  cleared,     \* patterns and rate rows these books may post on (see RuleClearance)
  corrections  \* Nyabo Correction rows of an account, oldest first

site == <<supplier, rules, leaves, cleared>>
vars == <<doc, job, tries, seen, proposal, supplier, rules, leaves, cleared, corrections>>

SiteNow == [supplier |-> supplier, rules |-> rules, leaves |-> leaves]

-----------------------------------------------------------------------------
(* The seller and the supplier                                             *)

(* The suppliers that carry a register number; db.get_value takes one.     *)
Carrying(table, id) == {n \in DOMAIN table : id # NoId /\ table[n].id = id}

Checked(table, id) == {n \in Carrying(table, id) : table[n].vat # "unchecked"}

(* lookup_seller: the answer kept on the supplier, else the registry's,    *)
(* which may be out.                                                       *)
SellerInfo(table, r, up) ==
  CASE r.id # NoId /\ Checked(table, r.id) # {} ->
         LET n == CHOOSE n \in Checked(table, r.id) : TRUE
         IN  [found |-> TRUE, name |-> n, vat |-> table[n].vat]
    [] r.id # NoId /\ Checked(table, r.id) = {} /\ up /\ Registry[r.id] # "none" ->
         [found |-> TRUE, name |-> RegistryName[r.id], vat |-> Registry[r.id]]
    [] OTHER -> [found |-> FALSE, name |-> Nameless, vat |-> "unchecked"]

(* supplier.match: by register number, then by the registry's name, then   *)
(* by the printed one.                                                     *)
Matches(table, r, info) ==
  CASE Carrying(table, r.id) # {} -> Carrying(table, r.id)
    [] Carrying(table, r.id) = {} /\ info.name \in DOMAIN table -> {info.name}
    [] OTHER -> {r.name} \cap DOMAIN table

(* supplier.create: the registry's name when there is one, and a suffix    *)
(* when the name is taken.                                                 *)
NewName(f, table, r, info) ==
  LET name == CASE info.found -> info.name
                [] ~info.found /\ r.name # Nameless -> r.name
                [] OTHER -> Unknown
  IN  IF name \in DOMAIN table THEN f ELSE name

SupplierOf(f, table, r, info) ==
  IF Matches(table, r, info) # {} THEN CHOOSE n \in Matches(table, r, info) : TRUE
  ELSE NewName(f, table, r, info)

(* The table with the receipt's supplier: a new row, or a row the registry *)
(* answer is kept on.                                                      *)
WithSupplier(table, n, r, info) ==
  CASE n \notin DOMAIN table ->
         [m \in DOMAIN table \cup {n} |->
            IF m = n THEN [id |-> r.id, vat |-> info.vat] ELSE table[m]]
    [] n \in DOMAIN table /\ info.found /\ table[n].id = r.id -> [table EXCEPT ![n].vat = info.vat]
    [] OTHER -> table

(* What is known of the seller: the registry now, or when last asked.      *)
SellerVat(table, n, info) ==
  IF info.found THEN info.vat
  ELSE IF n \in DOMAIN table THEN table[n].vat ELSE "unchecked"

-----------------------------------------------------------------------------
(* Learned and written rules                                               *)

Order(kind) ==
  CASE kind = "register_no" -> 1 [] kind = "name" -> 2 [] kind = "item" -> 3 [] kind = "band" -> 4

Hits(rule, r, table, n) ==
  LET kept == IF n \in DOMAIN table THEN table[n].id ELSE r.id
  IN  CASE rule.kind = "register_no" -> rule.value \in {r.id, kept} \ {NoId}
        [] rule.kind = "name" -> rule.value \in {r.name, n}
        [] rule.kind = "item" -> rule.value = r.item
        [] rule.kind = "band" ->
             rule.value[1] <= r.total /\ (rule.value[2] <= 0 \/ r.total <= rule.value[2])

(* match_rule: by kind first and then by age; 0 when none hits.            *)
MatchRule(see, r, n) ==
  LET hit == {i \in DOMAIN see.rules : see.rules[i].status = "active" /\ Hits(see.rules[i], r, see.supplier, n)}
      first == {i \in hit : \A j \in hit : Order(see.rules[i].kind) <= Order(see.rules[j].kind)}
  IN  IF hit = {} THEN 0 ELSE Min(first)

(* enforce: an account of the chart, the default otherwise.                *)
Enforced(see, a) == IF a.code \in see.leaves THEN a.code ELSE DefaultIn(see.leaves)

-----------------------------------------------------------------------------
(* The draft of a receipt                                                  *)

DateOf(r) == IF r.date = None THEN Today ELSE r.date

(* Account, treatment and pattern come of a rule, or of the model.         *)
Choice(see, r, a, n) ==
  LET i == MatchRule(see, r, n)
  IN  IF i # 0
      THEN [rule      |-> i,
            code      |-> IF see.rules[i].code \in see.leaves THEN see.rules[i].code ELSE DefaultIn(see.leaves),
            treatment |-> see.rules[i].treatment,
            named     |-> see.rules[i].pattern,
            odd       |-> see.rules[i].code \notin see.leaves]
      ELSE [rule      |-> 0,
            code      |-> Enforced(see, a),
            treatment |-> IF a.treatment = "withheld" /\ ~PaysVat(DateOf(r)) THEN "in_expense" ELSE a.treatment,
            named     |-> NoPattern,
            odd       |-> \/ a.code \notin see.leaves
                          \/ a.treatment = "withheld" /\ ~PaysVat(DateOf(r))]

(* Mutant: a supplier made for the receipt is like any other.              *)
Doubtful_AnySupplier(r, isNew) == r.date = None \/ r.name = Nameless \/ ~r.sure \/ ~r.clean

(* What makes a draft the accountant's before its entry is looked at.      *)
Doubtful(r, isNew) == isNew \/ r.date = None \/ r.name = Nameless \/ ~r.sure \/ ~r.clean

(* _run, up to the entry; the fields that depend on an earlier one are     *)
(* built up in turn.                                                       *)
Draft(f, see, r, a, up) ==
  LET info == SellerInfo(see.supplier, r, up)
      n == SupplierOf(f, see.supplier, r, info)
      isNew == n \notin DOMAIN see.supplier
      choice == Choice(see, r, a, n)
      seller == SellerVat(see.supplier, n, info)
      treatment == VatTreatment(choice.treatment, PaysVat(DateOf(r)), r.vat, seller)
      pattern == SelectPattern(DateOf(r), choice.named, FamilyOf(choice.code))
      amounts == Amounts(r.total, r.vat, treatment)
      entry == Entry(pattern, DateOf(r), amounts, treatment, see.leaves, choice.code, r.cash)
  IN  [supplier  |-> n,
       isNew     |-> isNew,
       info      |-> info,
       seller    |-> seller,
       rule      |-> choice.rule,
       code      |-> choice.code,
       entry     |-> entry,
       needs     |-> \/ Doubtful(r, isNew)
                     \/ choice.odd
                     \/ pattern.id \notin cleared
                     \/ Problems(entry, see.leaves) # {}]

(* Where _run raises instead: no total, no regime, no account to fall back *)
(* on, no pattern, a line without amount or account, no rate these books   *)
(* may use.                                                                *)
Draftable(f, see, r, a, up) ==
  /\ r.total > 0
  /\ HasRegime(DateOf(r))
  /\ HasRate(DateOf(r), cleared)
  /\ LET info == SellerInfo(see.supplier, r, up)
         n == SupplierOf(f, see.supplier, r, info)
         choice == Choice(see, r, a, n)
         treatment == VatTreatment(choice.treatment, PaysVat(DateOf(r)), r.vat, SellerVat(see.supplier, n, info))
         pattern == SelectPattern(DateOf(r), choice.named, FamilyOf(choice.code))
     IN  /\ choice.rule = 0 => Enforced(see, a) \in see.leaves
         /\ Candidates(DateOf(r), choice.named, FamilyOf(choice.code)) # {}
         /\ Fillable(pattern, Amounts(r.total, r.vat, treatment), see.leaves, choice.code, r.cash)
-----------------------------------------------------------------------------
(* The file arrives                                                        *)

(* _intake: the document is saved and the sender told it is being read;    *)
(* a file whose hash is known is refused, whatever became of the document. *)
SendFile(f) ==
  /\ doc[f] = None
  /\ doc' = [doc EXCEPT ![f] = "received"]
  /\ job' = [job EXCEPT ![f] = "committed"]
  /\ UNCHANGED <<tries, seen, proposal, corrections, site>>

(* enqueue_after_commit: the job follows the commit that saved the         *)
(* document, ...                                                           *)
Enqueue(f) ==
  /\ job[f] = "committed"
  /\ job' = [job EXCEPT ![f] = "queued"]
  /\ UNCHANGED <<doc, tries, seen, proposal, corrections, site>>

(* ... unless the web worker died in between.                              *)
WorkerDies(f) ==
  /\ job[f] = "committed"
  /\ job' = [job EXCEPT ![f] = "lost"]
  /\ UNCHANGED <<doc, tries, seen, proposal, corrections, site>>

-----------------------------------------------------------------------------
(* The job                                                                 *)

StartJob(f) ==
  /\ job[f] = "queued"
  /\ job' = [job EXCEPT ![f] = "running"]
  /\ seen' = [seen EXCEPT ![f] = SiteNow]
  /\ UNCHANGED <<doc, tries, proposal, corrections, site>>

(* A supplier of that name has been committed since the job first looked.  *)
Taken(f, draft) == draft.isNew /\ draft.supplier \in DOMAIN supplier

(* Mutant: every attempt at a receipt counts.                              *)
Counted_Attempts(f, draft) ==
  IF draft.rule = 0 THEN rules ELSE [rules EXCEPT ![draft.rule].hits = @ + 1 + tries[f]]

(* The rule's hit count goes on from what the job has seen of it.          *)
Counted(f, draft) ==
  IF draft.rule = 0 THEN rules
  ELSE [rules EXCEPT ![draft.rule].hits = seen[f].rules[draft.rule].hits + 1]

(* process_receipt succeeds: supplier, rule, proposal and document commit  *)
(* together.                                                               *)
Save(f, r, draft) ==
  /\ ~Taken(f, draft)
  /\ proposal' = [proposal EXCEPT ![f] =
       [reading |-> r, supplier |-> draft.supplier, isNew |-> draft.isNew, seller |-> draft.seller,
        rule |-> draft.rule, code |-> draft.code, entry |-> draft.entry, needs |-> draft.needs,
        corrected |-> FALSE]]
  /\ supplier' = WithSupplier(supplier, draft.supplier, r, draft.info)
  /\ rules' = Counted(f, draft)
  /\ doc' = [doc EXCEPT ![f] = "proposed"]
  /\ job' = [job EXCEPT ![f] = "done"]
  /\ seen' = [seen EXCEPT ![f] = None]
  /\ UNCHANGED <<tries, leaves, cleared, corrections>>

Propose(f, r, a, up) ==
  /\ job[f] = "running" /\ (r.id = NoId => up)
  /\ Draftable(f, seen[f], r, a, up)
  /\ Save(f, r, Draft(f, seen[f], r, a, up))

(* It raises, at whatever step: the document is marked failed, and the     *)
(* queue rolls the mark back with the rest of the transaction.             *)
FailJob(f) ==
  /\ job[f] = "running"
  /\ job' = [job EXCEPT ![f] = "failed"]
  /\ seen' = [seen EXCEPT ![f] = None]
  /\ UNCHANGED <<doc, tries, proposal, corrections, site>>

(* Mutant: the repeats of a job are not counted.                           *)
RetryJob_Forever(f) ==
  /\ job[f] = "running"
  /\ job' = [job EXCEPT ![f] = "queued"]
  /\ seen' = [seen EXCEPT ![f] = None]
  /\ UNCHANGED <<doc, tries, proposal, corrections, site>>

(* A deadlock or a lock wait that times out: rolled back and started over, *)
(* a few times.                                                            *)
RetryJob(f) ==
  /\ job[f] = "running" /\ tries[f] < MaxTries
  /\ job' = [job EXCEPT ![f] = "queued"]
  /\ tries' = [tries EXCEPT ![f] = @ + 1]
  /\ seen' = [seen EXCEPT ![f] = None]
  /\ UNCHANGED <<doc, proposal, corrections, site>>

-----------------------------------------------------------------------------
(* Corrections, and what is learned from them                              *)

(* The key a rule is learned under: the register number, else the name.    *)
LearnedKind(n) == IF supplier[n].id # NoId THEN "register_no" ELSE "name"

LearnedValue(n) == IF supplier[n].id # NoId THEN supplier[n].id ELSE n

Agreeing(log, n, c) == {i \in DOMAIN log : log[i].supplier = n /\ log[i].code = c}

KnownRule(n, c) ==
  \E i \in DOMAIN rules :
    /\ rules[i].kind = LearnedKind(n) /\ rules[i].value = LearnedValue(n)
    /\ rules[i].code = c /\ rules[i].status \in {"active", "pending"}

(* learn_from_correction: two corrections that agree become a rule that    *)
(* waits to be confirmed.                                                  *)
Learned(log, n, c, treatment) ==
  IF Cardinality(Agreeing(log, n, c)) < 2 \/ KnownRule(n, c) THEN rules
  ELSE Append(rules, [kind |-> LearnedKind(n), value |-> LearnedValue(n), code |-> c, treatment |-> treatment,
                      pattern |-> NoPattern, status |-> "pending", hits |-> 0])

(* change_account moves every line that stands on the old account.         *)
Moved(lines, from, to) == {[l EXCEPT !.code = IF @ = from THEN to ELSE @] : l \in lines}

Corrected(p, c) ==
  [reading |-> p.reading, supplier |-> p.supplier, isNew |-> p.isNew, seller |-> p.seller,
   rule |-> p.rule, needs |-> p.needs, corrected |-> TRUE, code |-> c,
   entry |-> [p.entry EXCEPT !.lines = Moved(@, p.code, c)]]

ChangeAccount(f, c) ==
  /\ doc[f] = "proposed" /\ Len(corrections) < MaxCorrections
  /\ c \in leaves /\ c # proposal[f].code
  /\ LET log == Append(corrections, [supplier |-> proposal[f].supplier, code |-> c])
     IN  /\ corrections' = log
         /\ rules' = Learned(log, proposal[f].supplier, c, proposal[f].entry.treatment)
  /\ proposal' = [proposal EXCEPT ![f] = Corrected(proposal[f], c)]
  /\ UNCHANGED <<doc, job, tries, seen, supplier, leaves, cleared>>

ConfirmRule(i) ==
  /\ rules[i].status # "active"
  /\ rules' = [rules EXCEPT ![i].status = "active"]
  /\ UNCHANGED <<doc, job, tries, seen, proposal, supplier, leaves, cleared, corrections>>

(* The desk: a rule is retired, an account switched off or on.             *)
RetireRule(i) ==
  /\ rules[i].status = "active"
  /\ rules' = [rules EXCEPT ![i].status = "disabled"]
  /\ UNCHANGED <<doc, job, tries, seen, proposal, supplier, leaves, cleared, corrections>>

SwitchAccount(c) ==
  /\ c \in Editable
  /\ leaves' = IF c \in leaves THEN leaves \ {c} ELSE leaves \cup {c}
  /\ UNCHANGED <<doc, job, tries, seen, proposal, supplier, rules, cleared, corrections>>

-----------------------------------------------------------------------------
NamesOfRules == {Patterns[i].id : i \in DOMAIN Patterns} \cup {r.name : r \in Rates}

Init ==
  /\ doc = [f \in Files |-> None]
  /\ job = [f \in Files |-> "none"]
  /\ tries = [f \in Files |-> 0]
  /\ seen = [f \in Files |-> None]
  /\ proposal = [f \in Files |-> None]
  /\ supplier = [n \in {} |-> None]
  /\ rules = SeedRules
  /\ leaves = Codes
  /\ cleared \in {NamesOfRules, NamesOfRules \ {Patterns[1].id}}
  /\ corrections = <<>>

Next ==
  \/ \E f \in Files :
       \/ SendFile(f)
       \/ Enqueue(f)
       \/ WorkerDies(f)
       \/ StartJob(f)
       \/ \E say \in ModelSays[f], up \in BOOLEAN : Propose(f, say.reading, say.answer, up)
       \/ FailJob(f)
       \/ RetryJob(f)
       \/ \E c \in Offered : ChangeAccount(f, c)
  \/ \E i \in DOMAIN rules : ConfirmRule(i) \/ RetireRule(i)
  \/ \E c \in Editable : SwitchAccount(c)

(* The web worker goes on unless it dies, the queue's workers take every   *)
(* job, and a job that has not ended when its time is up is made to raise. *)
Fairness == \A f \in Files : WF_vars(Enqueue(f)) /\ WF_vars(StartJob(f)) /\ WF_vars(FailJob(f))

Spec == Init /\ [][Next]_vars /\ Fairness

-----------------------------------------------------------------------------
(* Properties                                                              *)

(* The types of the intake's state.                                        *)
TypeOK ==
  /\ doc \in [Files -> {None, "received", "proposed"}]
  /\ job \in [Files -> {"none", "committed", "queued", "running", "done", "failed", "lost"}]
  /\ tries \in [Files -> 0..MaxTries]
  /\ DOMAIN supplier \subseteq Sellers \cup {Unknown} \cup Files
  /\ RuleTable(rules) /\ leaves \subseteq Codes
  /\ cleared \subseteq NamesOfRules
  /\ Len(corrections) <= MaxCorrections
  /\ \A f \in Files : (seen[f] # None) = (job[f] = "running")
  /\ \A f \in Files : (proposal[f] # None) = (doc[f] = "proposed")

(* What an entry must be for its reading, before anyone corrects it: dated *)
(* as printed, from a seller that was known, paid out of the money account *)
(* when it was paid in cash, with input VAT only for a company that pays   *)
(* VAT, from a seller not known not to, in the amount the rate gives; and  *)
(* booked by ERPNext as the card showed it.                                *)
Sound(p, e) ==
  /\ p.reading.date = e.date /\ ~p.isNew
  /\ p.reading.cash => \A l \in SideOf(e.lines, "credit") : TypeOf[l.code] \in {"Cash", "Bank"}
  /\ \A l \in SideOf(e.lines, "debit") :
       TypeOf[l.code] = "Tax" /\ l.code # p.code =>
         /\ PaysVat(e.date) /\ p.seller # "non_payer"
         /\ l.amount = p.reading.vat /\ VatConsistent(p.reading.total, l.amount, RateOn(e.date))
  /\ \A payable \in {l.code : l \in SideOf(e.lines, "credit")} :
       Booked(e, payable) = {[side |-> l.side, code |-> l.code, amount |-> l.amount] : l \in e.lines}

(* A proposal that an owner may approve alone accounts for the whole       *)
(* receipt on both sides, and is sound, whatever the model read and chose  *)
(* and however the site changed while it did.                              *)
OwnersGetSoundEntries ==
  \A f \in Files : doc[f] = "proposed" /\ ~proposal[f].needs =>
    LET p == proposal[f] e == p.entry
    IN  /\ Sum(SideOf(e.lines, "debit")) = p.reading.total
        /\ Balanced(e.lines)
        /\ p.corrected \/ Sound(p, e)

(* Every supplier the intake created came of exactly one proposal, and     *)
(* that one is the accountant's to approve, however many receipts of the   *)
(* same new seller were read at once.                                      *)
NewSuppliersAreFlagged ==
  \A n \in DOMAIN supplier :
    \E f \in Files :
      /\ {g \in Files : doc[g] = "proposed" /\ proposal[g].supplier = n /\ proposal[g].isNew} = {f}
      /\ proposal[f].needs

(* A rule is never credited with more hits than there are proposals drawn  *)
(* up from it: an attempt that was rolled back, or repeated, does not      *)
(* count.                                                                  *)
HitsAreUses ==
  \A i \in DOMAIN rules :
    rules[i].hits <= Cardinality({f \in Files : doc[f] = "proposed" /\ proposal[f].rule = i})

(* What is drawn up is sound: for whom it waits, and what it counts as.    *)
DraftsAreSound == OwnersGetSoundEntries /\ HitsAreUses

(* A photo that reached the queue is read to an end: a proposal, or a      *)
(* failure, in spite of the jobs Frappe repeats.                           *)
QueuedPhotosAreRead ==
  \A f \in Files : job[f] = "queued" ~> job[f] \in {"done", "failed"}

(* process_receipt: "Any failure marks the document ``failed``".           *)
FailuresAreMarked == \A f \in Files : job[f] = "failed" => doc[f] = "failed"

(* change_account: "Swap the classified account on the proposal"; what a   *)
(* correction leaves on the credit side is what was there.                 *)
CorrectionsKeepTheCredit ==
  [][\A f \in Files : doc[f] = "proposed" =>
       SideOf(proposal'[f].entry.lines, "credit") = SideOf(proposal[f].entry.lines, "credit")]_vars
=============================================================================
