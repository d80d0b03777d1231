---------------------------- MODULE ReceiptEntries -----------------------------
(***************************************************************************)
(* From what a receipt says to the entry that books it: the tax regime and *)
(* the VAT rate on its date, the VAT treatment, the posting pattern, the   *)
(* accounts its lines resolve to, the checks on the result, and the lines  *)
(* ERPNext books when the entry is posted.  Amounts are in hundredths.     *)
(***************************************************************************)
EXTENDS Integers, Sequences, FiniteSets, FiniteSetsExt

CONSTANTS
  Codes,        \* account numbers of the company's chart
  TypeOf,       \* [Codes -> account types]
  RoleCode,     \* [{"v03", "v1"} -> [roles -> Codes]]: code_roles.json
  AliasOf,      \* alias rows: v03 codes to the accountant's own chart
  Preferred,    \* the scheme in the company's settings
  DefaultCode,  \* its default expense account
  Patterns,     \* sequence of posting patterns
  Regimes,      \* rows: regime, from, to
  Rates,        \* rows of the VAT rate: name, from, to, percent, pending
  NoPattern     \* a rule that names no pattern

ASSUME EntriesAssumption ==
  /\ DefaultCode \in Codes
  /\ TypeOf \in [Codes -> STRING]
  /\ {"v03", "v1"} \subseteq DOMAIN RoleCode
  /\ Preferred \in {"v03", "v1", "accountant"}

(* A pattern that books a purchase, as posting_patterns.json has them: one *)
(* debit of the document's amount, perhaps a debit of the VAT, and one     *)
(* credit of the whole, to the supplier or to the bank.                    *)
BooksAPurchase(p) ==
  /\ Len(p.lines) \in Nat /\ DOMAIN p.lines = 1..Len(p.lines)
  /\ \A i \in DOMAIN p.lines : p.lines[i].kind \in {"net", "gross", "vat"}
  /\ \A i, j \in {l \in DOMAIN p.lines : p.lines[l].side = "debit" /\ p.lines[l].kind # "vat"} : i = j
  /\ \E i \in DOMAIN p.lines :
       /\ p.lines[i].side = "credit" /\ p.lines[i].kind = "gross" /\ ~p.lines[i].optional
       /\ p.lines[i].role \in {"payable", "bank"}
       /\ \A j \in DOMAIN p.lines \ {i} : p.lines[j].side = "debit" /\ p.lines[j].role # p.lines[i].role

ASSUME PatternsAssumption ==
  /\ Len(Patterns) \in Nat /\ DOMAIN Patterns = 1..Len(Patterns)
  /\ \A k \in DOMAIN Patterns : "Purchase Invoice" \in Patterns[k].docs => BooksAPurchase(Patterns[k])

(* The accounts that code_roles.json gives for cash and bank, and the ones *)
(* the accountant's own chart has in their place, hold money.  The alias   *)
(* rows are the accountant's; the code checks that the account is there.   *)
ASSUME MoneyAssumption ==
  \A role \in {"cash", "bank"} :
    \A c \in {RoleCode["v03"][role], RoleCode["v1"][role], AliasOf[RoleCode["v03"][role]]} \cap Codes :
      TypeOf[c] \in {"Cash", "Bank"}

(* validate_entry's tolerance: one togrog.                                 *)
Tolerance == 100

-----------------------------------------------------------------------------
(* Dated rows                                                              *)

Covering(rows, d) == {r \in rows : r.from <= d /\ d <= r.to}

(* regime_on: of the rows that cover the date, the one that started last.  *)
HasRegime(d) == Covering(Regimes, d) # {}

RegimeOn(d) ==
  (CHOOSE r \in Covering(Regimes, d) : \A o \in Covering(Regimes, d) : o.from <= r.from).regime

PaysVat(d) == RegimeOn(d) = "vat_payer"

(* resolve_parameter behind the guard: one row covers the date, has a      *)
(* value, and may be used for these books.                                 *)
HasRate(d, cleared) ==
  \E r \in Rates : Covering(Rates, d) = {r} /\ ~r.pending /\ r.name \in cleared

RateOn(d) == (CHOOSE r \in Rates : Covering(Rates, d) = {r}).percent

(* g * r / (1 + r), halves up; a printed VAT agrees within the tolerance.  *)
VatFromGross(g, percent) ==
  (2 * g * percent + 100 + percent) \div (2 * (100 + percent))

VatConsistent(g, vat, percent) ==
  LET gap == vat - VatFromGross(g, percent) IN -Tolerance <= gap /\ gap <= Tolerance

-----------------------------------------------------------------------------
(* The VAT treatment: the regime and the seller override the model.        *)

(* Mutant: what the registry says of the seller is not asked.              *)
VatTreatment_AnySeller(proposed, payer, printed, seller) ==
  CASE ~payer -> IF printed > 0 THEN "in_expense" ELSE "none"
    [] payer /\ printed <= 0 -> IF proposed \in {"exempt", "zero"} THEN proposed ELSE "none"
    [] OTHER -> IF proposed \in {"exempt", "zero"} THEN proposed ELSE "withheld"

VatTreatment(proposed, payer, printed, seller) ==
  CASE ~payer -> IF printed > 0 THEN "in_expense" ELSE "none"
    [] payer /\ printed <= 0 -> IF proposed \in {"exempt", "zero"} THEN proposed ELSE "none"
    [] payer /\ printed > 0 /\ seller = "non_payer" -> "in_expense"
    [] OTHER -> IF proposed \in {"exempt", "zero"} THEN proposed ELSE "withheld"

Amounts(gross, printed, treatment) ==
  LET vat == IF treatment = "withheld" THEN printed ELSE 0
  IN  [gross |-> gross, vat |-> vat, net |-> gross - vat]

-----------------------------------------------------------------------------
(* The pattern                                                             *)

Applies(p, d) ==
  /\ p.vat \in {"any", IF PaysVat(d) THEN "vat_payer" ELSE "non_vat"}
  /\ p.cit \in {"any", IF RegimeOn(d) = "simplified_1pct" THEN "simplified" ELSE "regular"}

Specificity(p) == Cardinality({part \in {<<1, p.vat>>, <<2, p.cit>>} : part[2] # "any"})

(* family_for_code: by the account's type, never by the model's words.     *)
FamilyOf(code) ==
  CASE TypeOf[code] = "Stock" -> "purchase_inventory"
    [] TypeOf[code] = "Fixed Asset" -> "fixed_asset_acquire"
    [] OTHER -> "purchase_expense"

(* A pattern the rule names is still held to the regime and the document.  *)
Candidates(d, named, family) ==
  {i \in DOMAIN Patterns :
     /\ Patterns[i].enabled
     /\ Applies(Patterns[i], d)
     /\ "Purchase Invoice" \in Patterns[i].docs
     /\ IF named # NoPattern THEN Patterns[i].id = named ELSE Patterns[i].family = family}

(* The most specific; among equals the first.                              *)
SelectPattern(d, named, family) ==
  LET fit == Candidates(d, named, family)
      best == {i \in fit : \A j \in fit : Specificity(Patterns[j]) <= Specificity(Patterns[i])}
  IN  Patterns[Min(best)]

-----------------------------------------------------------------------------
(* The accounts                                                            *)

(* chart_scheme: a scheme whose payable is in the chart, the settings' own *)
(* first, or the settings' when there is none.                             *)
SchemeOf(leaves) ==
  LET fits(s) == s \in DOMAIN RoleCode /\ RoleCode[s]["payable"] \in leaves
      other == {s \in {"v03", "v1"} : s # Preferred /\ fits(s)}
  IN  CASE fits(Preferred) -> Preferred
        [] ~fits(Preferred) /\ "v03" \in other -> "v03"
        [] ~fits(Preferred) /\ other = {"v1"} -> "v1"
        [] OTHER -> Preferred

RoleIn(leaves, role) ==
  IF SchemeOf(leaves) = "accountant" THEN AliasOf[RoleCode["v03"][role]] ELSE RoleCode[SchemeOf(leaves)][role]

DefaultIn(leaves) == IF DefaultCode \in leaves THEN DefaultCode ELSE RoleIn(leaves, "default_expense")

(* The first debit of the document's amount, which takes the classified    *)
(* account; 0 when the pattern has none.                                   *)
PrimaryLine(p) ==
  LET debits == {i \in DOMAIN p.lines : p.lines[i].side = "debit" /\ p.lines[i].kind \in {"net", "gross"}}
  IN  IF debits = {} THEN 0 ELSE Min(debits)

(* make_resolver: a class and the primary line are the classified account; *)
(* a payable paid over the counter is the cash account.                    *)
Resolve(p, i, leaves, code, cash) ==
  LET role == p.lines[i].role
  IN  CASE \/ role = "class"
           \/ PrimaryLine(p) # 0 /\ role = p.lines[PrimaryLine(p)].role -> code
        [] OTHER -> RoleIn(leaves, IF cash /\ role = "payable" THEN "cash" ELSE role)

(* There is a VAT amount only when it is withheld.                         *)
Has(amounts, kind) == kind \in {"gross", "net"} \/ (kind = "vat" /\ amounts.vat > 0)

(* The lines that are booked: an optional one without an amount is         *)
(* dropped.                                                                *)
Kept(p, amounts) == {i \in DOMAIN p.lines : p.lines[i].optional => Has(amounts, p.lines[i].kind)}

(* Every line has its amount, and a role its leaf of the chart; the        *)
(* classified account is checked with the entry.                           *)
Fillable(p, amounts, leaves, code, cash) ==
  \A i \in Kept(p, amounts) :
    /\ Has(amounts, p.lines[i].kind)
    /\ LET to == Resolve(p, i, leaves, code, cash) IN to = code \/ to \in leaves

-----------------------------------------------------------------------------
(* The entry                                                               *)

LinesOf(p, amounts, leaves, code, cash) ==
  {[at     |-> i,
    side   |-> p.lines[i].side,
    code   |-> Resolve(p, i, leaves, code, cash),
    amount |-> amounts[p.lines[i].kind]] : i \in Kept(p, amounts)}

(* A purchase invoice only when the VAT is withheld.                       *)
KindOf(p, treatment) ==
  IF treatment = "withheld" /\ "Purchase Invoice" \in p.docs THEN "purchase_invoice" ELSE "journal_entry"

Entry(p, d, amounts, treatment, leaves, code, cash) ==
  [pattern   |-> p.id,
   date      |-> d,
   kind      |-> KindOf(p, treatment),
   treatment |-> treatment,
   total     |-> amounts.gross,
   vat       |-> amounts.vat,
   lines     |-> LinesOf(p, amounts, leaves, code, cash)]

SideOf(lines, side) == {l \in lines : l.side = side}

Sum(lines) == MapThenSumSet(LAMBDA l : l.amount, lines)

Balanced(lines) == Sum(SideOf(lines, "debit")) = Sum(SideOf(lines, "credit"))

(* validate_entry: what is wrong with an entry.                            *)
Problems(entry, leaves) ==
  {x \in {"few", "zero", "account", "unbalanced", "vat"} :
     \/ x = "few" /\ Cardinality(entry.lines) < 2
     \/ x = "zero" /\ \E l \in entry.lines : l.amount <= 0
     \/ x = "account" /\ \E l \in entry.lines : l.code \notin leaves
     \/ x = "unbalanced" /\ ~Balanced(entry.lines)
     \/ /\ x = "vat" /\ entry.treatment = "withheld"
        /\ ~VatConsistent(entry.total, entry.vat, RateOn(entry.date))}

-----------------------------------------------------------------------------
(* What ERPNext books                                                      *)

(* _split_lines: the VAT line of a withheld entry is the first debit of    *)
(* the VAT on an account of type Tax.                                      *)
VatLine(entry) ==
  LET found == {l \in SideOf(entry.lines, "debit") :
                  TypeOf[l.code] = "Tax" /\ l.amount = entry.vat /\ entry.vat > 0}
  IN  IF entry.treatment # "withheld" \/ found = {} THEN {}
      ELSE {CHOOSE l \in found : \A o \in found : l.at <= o.at}

(* A purchase invoice debits its items and its tax and credits the         *)
(* supplier, or the money account a single credit names; a journal entry   *)
(* books the lines as they are.  The tax is debited to the account of the  *)
(* line: the purchase template, whose account comes first in the code, is  *)
(* provisioned with the account of the same role, input_vat.               *)
Booked(entry, payable) ==
  LET debits == SideOf(entry.lines, "debit")
      credits == SideOf(entry.lines, "credit")
      row(l) == [side |-> l.side, code |-> l.code, amount |-> l.amount]
      paid == \E l \in credits : credits = {l} /\ TypeOf[l.code] \in {"Cash", "Bank"}
  IN  IF entry.kind = "journal_entry"
      THEN {row(l) : l \in entry.lines}
      ELSE {row(l) : l \in debits}
           \cup IF paid THEN {row(l) : l \in credits}
                ELSE {[side |-> "credit", code |-> payable,
                       amount |-> Sum(debits \ VatLine(entry)) + Sum(VatLine(entry))]}
=============================================================================
