----------------------------- MODULE RuleClearance -----------------------------
(***************************************************************************)
(* Which rules may post, and for whose books.  A posting rule is cleared   *)
(* when a site admin verified its row, for every company, or when an       *)
(* accountant of one company accepted it for that company, as it then      *)
(* read.  A refused [Approve] leaves a trail of events: the block, the     *)
(* request to whoever can clear the rule, and the note that a change has   *)
(* outrun an acceptance.  The acceptance that follows finishes the refused *)
(* approval.                                                               *)
(*                                                                         *)
(* Handlers are atomic.  A card may be tapped by any chat: it may stand in *)
(* a shared chat, and its datum may have been copied out of another one.   *)
(***************************************************************************)
EXTENDS Integers, Sequences

CONSTANTS
  Chats,            \* linked Telegram users
  Companies,
  Rules,            \* posting patterns and tax parameters
  Contents,         \* what a rule's row can say, as its fingerprint tells it
  Drafted,          \* what each rule said when the proposals were drafted
  Proposals,
  CompanyOf,        \* [Proposals -> Companies]
  RuleOf,           \* [Proposals -> Rules]
  NeedsAccountant,  \* proposals only an accountant may approve
  OwnerSimple,      \* proposals an owner's auto-approve policy covers
  Role,             \* [Chats -> [Companies -> roles]]: Nyabo User Company rows
  SiteAdmins,       \* chats in ADMIN_TELEGRAM_IDS
  NoCompany         \* a card that asks for no company

ASSUME ClearanceAssumption ==
  /\ Drafted \in [Rules -> Contents]
  /\ CompanyOf \in [Proposals -> Companies]
  /\ RuleOf \in [Proposals -> Rules]
  /\ Role \in [Chats -> [Companies -> {"Accountant", "Owner", "none"}]]
  /\ SiteAdmins \subseteq Chats
  /\ NoCompany \notin Companies

VARIABLES
  rule,         \* rows of the guarded DocTypes: content, verified
  acceptances,  \* Nyabo Rule Acceptance rows
  proposal,     \* status of the proposals
  active,       \* the active company of each link
  cards,        \* decision cards whose buttons are on a screen
  blocks,       \* rule_blocked events of the last quarter of an hour, oldest first
  requests,     \* rule_verify_requested events of the last quarter of an hour
  notes         \* rule_changed_after_acceptance events

vars == <<rule, acceptances, proposal, active, cards, blocks, requests, notes>>

-----------------------------------------------------------------------------
(* Who is who                                                              *)

(* get_link: an active link gives a role, and the companies to keep.       *)
Linked(c, company) == Role[c][company] # "none"

KeepsBooks(c, company) == company \in Companies /\ Role[c][company] = "Accountant"

KeepsAnyBooks(c) == \E company \in Companies : KeepsBooks(c, company)

MayReadRules(c) == KeepsAnyBooks(c) \/ c \in SiteAdmins

Accountants(company) == {c \in Chats : KeepsBooks(c, company)}

(* The handler's question, which it asks of the active company, ...        *)
CanApprove(c, p) ==
  \/ Role[c][active[c]] = "Accountant"
  \/ /\ Role[c][active[c]] = "Owner"
     /\ p \notin NeedsAccountant
     /\ p \in OwnerSimple

(* ... and the one post_proposal asks of the proposal's company.           *)
CheckCanApprove(c, p) ==
  \/ Role[c][CompanyOf[p]] = "Accountant"
  \/ Role[c][CompanyOf[p]] = "Owner" /\ p \notin NeedsAccountant

-----------------------------------------------------------------------------
(* What clears a rule                                                      *)

(* rule_content and fingerprint: of a row, what decides how a rule posts.  *)
Reads(r) == rule[r].content

(* acceptance: a row of this company, made of the rule as it reads now.    *)
Covers(a, company, r) ==
  /\ a.company = company
  /\ a.rule = r
  /\ a.content = Reads(r)

AcceptedFor(company, r) == \E a \in acceptances : Covers(a, company, r)

Cleared(company, r) == rule[r].verified \/ AcceptedFor(company, r)

(* /rules: what will refuse this company's postings.                       *)
Pending(company) == {r \in Rules : ~Cleared(company, r)}

(* The acceptances of r that stop covering it when it says content.        *)
OutrunBy(r, content) == {a \in acceptances : a.rule = r /\ a.content # content}

(* note_rule_changed, on every save of a guarded row: an event for each    *)
(* acceptance the row has left behind.                                     *)
Noted(r, content) ==
  notes \cup {[company |-> a.company, rule |-> r, accepted |-> a.content] : a \in OutrunBy(r, content)}

-----------------------------------------------------------------------------
(* The trail of a refusal                                                  *)

SameBlock(b, c, p, r) ==
  b.chat = c /\ b.proposal = p /\ b.company = CompanyOf[p] /\ b.rule = r

(* Mutant: every tap writes its row.                                       *)
WithBlock_Always(c, p, r) ==
  Append(blocks, [chat |-> c, company |-> CompanyOf[p], rule |-> r, proposal |-> p])

(* record_block: not twice within the quarter of an hour.                  *)
WithBlock(c, p, r) ==
  IF \E i \in DOMAIN blocks : SameBlock(blocks[i], c, p, r) THEN blocks
  ELSE Append(blocks, [chat |-> c, company |-> CompanyOf[p], rule |-> r, proposal |-> p])

(* Mutant: whoever was stopped by the rule will do.                        *)
OwnBlocks_Anybody(c, company, r) ==
  {i \in DOMAIN blocks : blocks[i].company = company /\ blocks[i].rule = r}

(* _recent_blocks: this chat's own refusals of the rule for the company.   *)
OwnBlocks(c, company, r) ==
  {i \in DOMAIN blocks : blocks[i].chat = c /\ blocks[i].company = company /\ blocks[i].rule = r}

(* blocked_proposal: the newest of them, whatever has become of it.        *)
BlockedProposals(c, company, r) ==
  LET mine == OwnBlocks(c, company, r)
  IN {blocks[i].proposal : i \in {i \in mine : \A j \in mine : j <= i}}

RecentRequest(company, r) == \E q \in requests : q.company = company /\ q.rule = r

(* _tell_who_can_clear_it: any number of those who can may be reachable,   *)
(* never the one who was stopped.                                          *)
CanClear(c, company) == (Accountants(company) \cup SiteAdmins) \ {c}

-----------------------------------------------------------------------------
Init ==
  /\ rule = [r \in Rules |-> [content |-> Drafted[r], verified |-> FALSE]]
  /\ acceptances = {}
  /\ proposal = [p \in Proposals |-> "proposed"]
  /\ active \in [Chats -> Companies]
  /\ \A c \in Chats : Linked(c, active[c])
  /\ cards = {}
  /\ blocks = <<>>
  /\ requests = {}
  /\ notes = {}

(* The question about r, with the evidence of what it reads, in chat c.    *)
Card(c, company, r) == [chat |-> c, company |-> company, rule |-> r]

(* rule_blocked for somebody who cannot answer: one request per company    *)
(* and rule, with what the notices reached.                                *)
AsksForClearance(c, company, r) ==
  IF RecentRequest(company, r) THEN UNCHANGED requests
  ELSE \E reached \in SUBSET CanClear(c, company) :
         requests' = requests \cup {[company |-> company, rule |-> r, reached |-> reached]}

(* rule_blocked: the block is on record first; who keeps the books, or a   *)
(* site admin, is shown the question.                                      *)
RuleBlocked(c, p, r) ==
  /\ blocks' = WithBlock(c, p, r)
  /\ IF KeepsBooks(c, CompanyOf[p]) \/ c \in SiteAdmins
     THEN /\ cards' = cards \cup {Card(c, CompanyOf[p], r)}
          /\ UNCHANGED requests
     ELSE /\ AsksForClearance(c, CompanyOf[p], r)
          /\ UNCHANGED cards

(* A tap on [Approve].  The guard asks for the rule as it reads now.       *)
Approve(c, p) ==
  /\ Linked(c, CompanyOf[p])
  /\ proposal[p] = "proposed"
  /\ CanApprove(c, p)
  /\ CheckCanApprove(c, p)
  /\ \/ /\ Cleared(CompanyOf[p], RuleOf[p])
        /\ proposal' = [proposal EXCEPT ![p] = "posted"]
        /\ UNCHANGED <<cards, blocks, requests>>
     \/ /\ ~Cleared(CompanyOf[p], RuleOf[p])
        /\ RuleBlocked(c, p, RuleOf[p])
        /\ UNCHANGED proposal
  /\ UNCHANGED <<rule, acceptances, active, notes>>

Reject(c, p) ==
  /\ Linked(c, CompanyOf[p])
  /\ proposal[p] = "proposed"
  /\ proposal' = [proposal EXCEPT ![p] = "rejected"]
  /\ UNCHANGED <<rule, acceptances, active, cards, blocks, requests, notes>>

(* [Open] under /rules: the card asks for the active company, or for none  *)
(* when the reader does not keep its books.                                *)
ShowRule(c, r) ==
  LET company == IF KeepsBooks(c, active[c]) THEN active[c] ELSE NoCompany IN
  /\ MayReadRules(c)
  /\ r \in Pending(active[c])
  /\ cards' = cards \cup {Card(c, company, r)}
  /\ UNCHANGED <<rule, acceptances, proposal, active, blocks, requests, notes>>

(* Mutant: the acceptance is written for the books the tapper works in.    *)
CardCompany_Active(c, k) ==
  IF KeepsBooks(c, active[c]) THEN {active[c]} ELSE {}

(* _card_company: the client the card asked about, if the tapper keeps its *)
(* books.                                                                  *)
CardCompany(c, k) == IF KeepsBooks(c, k.company) THEN {k.company} ELSE {}

(* post_after_rule_cleared: the approval goes through if the proposal      *)
(* still waits for it and the chat may still approve it.                   *)
Finishable(c, p) == proposal[p] = "proposed" /\ CanApprove(c, p) /\ CheckCanApprove(c, p)

(* _finish_the_blocked_tap: of this chat's own refusals, the newest.       *)
FinishTheBlockedTap(c, company, r) ==
  proposal' = [p \in Proposals |->
                 IF p \in BlockedProposals(c, company, r) /\ Finishable(c, p)
                 THEN "posted" ELSE proposal[p]]

(* The row accept writes: who, for whom, and the content it was said of.   *)
AcceptanceRow(c, company, r) ==
  [company |-> company, rule |-> r, content |-> Reads(r), by |-> c]

(* [Applies to our company].  A second acceptance of the same content is   *)
(* answered and changes nothing.                                           *)
AcceptRule(c, k) ==
  \E company \in CardCompany(c, k) :
    /\ ~AcceptedFor(company, k.rule)
    /\ acceptances' = acceptances \cup {AcceptanceRow(c, company, k.rule)}
    /\ cards' = cards \ {k}
    /\ FinishTheBlockedTap(c, company, k.rule)
    /\ UNCHANGED <<rule, active, blocks, requests, notes>>

(* verify: the flag of a row that did not carry it, and the note that goes *)
(* with every save of a guarded row.                                       *)
Verify(r) ==
  /\ ~rule[r].verified
  /\ rule' = [rule EXCEPT ![r] = [content |-> Reads(r), verified |-> TRUE]]
  /\ notes' = Noted(r, Reads(r))

(* [Verify for the whole site].                                            *)
ConfirmRule(c, k) ==
  /\ c \in SiteAdmins
  /\ Verify(k.rule)
  /\ cards' = cards \ {k}
  /\ UNCHANGED <<acceptances, proposal, active, blocks, requests>>

Leave(c, k) ==
  /\ MayReadRules(c)
  /\ cards' = cards \ {k}
  /\ UNCHANGED <<rule, acceptances, proposal, active, blocks, requests, notes>>

SwitchCompany(c, company) ==
  /\ Linked(c, company)
  /\ active' = [active EXCEPT ![c] = company]
  /\ UNCHANGED <<rule, acceptances, proposal, cards, blocks, requests, notes>>

(* Mutant: the note belongs to the seed alone, a desk edit leaves none.    *)
DeskEdit_Silent(r, content, flag) ==
  /\ rule' = [rule EXCEPT ![r] = [content |-> content, verified |-> flag]]
  /\ UNCHANGED <<acceptances, proposal, active, cards, blocks, requests, notes>>

(* A row edited in the desk, its flag included.                            *)
DeskEdit(r, content, flag) ==
  /\ rule' = [rule EXCEPT ![r] = [content |-> content, verified |-> flag]]
  /\ notes' = Noted(r, content)
  /\ UNCHANGED <<acceptances, proposal, active, cards, blocks, requests>>

(* upsert: the seed rewrites a row nobody has verified, its flag included, *)
(* and with force any row; of a verified one it fills what is no content,  *)
(* and the save is noted all the same.                                     *)
Deploy(r, content, flag, force) ==
  LET stays == rule[r].verified /\ ~force
      new == IF stays THEN Reads(r) ELSE content
  IN /\ rule' = [rule EXCEPT ![r] = [content |-> new, verified |-> stays \/ flag]]
     /\ notes' = Noted(r, new)
     /\ UNCHANGED <<acceptances, proposal, active, cards, blocks, requests>>

(* The desk deletes an acceptance: it is withdrawn.                        *)
Withdraw(a) ==
  /\ acceptances' = acceptances \ {a}
  /\ UNCHANGED <<rule, proposal, active, cards, blocks, requests, notes>>

(* REQUEST_DEDUPE_MINUTES go by.                                           *)
QuarterHourPasses ==
  /\ blocks' = <<>>
  /\ requests' = {}
  /\ UNCHANGED <<rule, acceptances, proposal, active, cards, notes>>

Next ==
  \/ \E c \in Chats :
       \/ \E p \in Proposals : Approve(c, p) \/ Reject(c, p)
       \/ \E r \in Rules : ShowRule(c, r)
       \/ \E k \in cards : AcceptRule(c, k) \/ ConfirmRule(c, k) \/ Leave(c, k)
       \/ \E company \in Companies : SwitchCompany(c, company)
  \/ \E r \in Rules, content \in Contents, flag \in BOOLEAN :
       \/ DeskEdit(r, content, flag)
       \/ \E force \in BOOLEAN : Deploy(r, content, flag, force)
  \/ \E a \in acceptances : Withdraw(a)
  \/ QuarterHourPasses

Spec == Init /\ [][Next]_vars

-----------------------------------------------------------------------------
Acceptance == [company : Companies, rule : Rules, content : Contents, by : Chats]

Block == [chat : Chats, company : Companies, rule : Rules, proposal : Proposals]

(* The tables hold rows of their DocTypes, and no chat's refusal of a      *)
(* proposal by a rule is on record twice within the quarter of an hour.    *)
TypeOK ==
  /\ rule \in [Rules -> [content : Contents, verified : BOOLEAN]]
  /\ acceptances \subseteq Acceptance
  /\ proposal \in [Proposals -> {"proposed", "posted", "rejected"}]
  /\ active \in [Chats -> Companies]
  /\ cards \subseteq [chat : Chats, company : Companies \cup {NoCompany}, rule : Rules]
  /\ blocks \in Seq(Block)
  /\ \A i, j \in DOMAIN blocks : blocks[i] = blocks[j] => i = j
  /\ requests \subseteq [company : Companies, rule : Rules, reached : SUBSET Chats]
  /\ notes \subseteq [company : Companies, rule : Rules, accepted : Contents]

(* An acceptance that no longer covers its rule was never outrun in        *)
(* silence: the event that says so is in the log, whichever way the row    *)
(* was rewritten (note_rule_changed_after_save on every guarded DocType).  *)
OutrunIsNoted ==
  \A a \in acceptances :
    a.content # Reads(a.rule) =>
      [company |-> a.company, rule |-> a.rule, accepted |-> a.content] \in notes

(* No chat's refusal of a proposal by a rule is on record twice within the *)
(* quarter of an hour (record_block).                                       *)
RefusedOnce == \A i, j \in DOMAIN blocks : blocks[i] = blocks[j] => i = j

(* The append-only log tells what happened, and tells it once.             *)
EventsTellOnce == OutrunIsNoted /\ RefusedOnce

(* An acceptance is written by an accountant of the company, for the       *)
(* company and the rule a card asked about, and of the rule as it reads    *)
(* at the tap (_card_company, accept).                                     *)
AcceptedAsAsked ==
  [][\A a \in acceptances' \ acceptances :
       /\ KeepsBooks(a.by, a.company)
       /\ a.content = Reads(a.rule)
       /\ \E k \in cards : k.company = a.company /\ k.rule = a.rule]_vars

(* What a step posts is cleared, for its own company, by what the rule     *)
(* says in that step; and a tap on a rule's card posts nothing but the     *)
(* proposal whose [Approve] the same chat was refused, minutes ago, for    *)
(* that rule and that company (VER-04).                                    *)
PostsOnlyTheCleared ==
  [][\A p \in Proposals :
       proposal[p] = "proposed" /\ proposal'[p] = "posted" =>
         /\ \/ rule[RuleOf[p]].verified
            \/ \E a \in acceptances' : /\ a.company = CompanyOf[p]
                                       /\ a.rule = RuleOf[p]
                                       /\ a.content = Reads(RuleOf[p])
         /\ \A a \in acceptances' \ acceptances :
              /\ a.company = CompanyOf[p]
              /\ \E i \in DOMAIN blocks :
                   /\ blocks[i].chat = a.by
                   /\ blocks[i].proposal = p
                   /\ blocks[i].rule = a.rule]_vars

(* "An accountant may tap [Approve] on a proposal for any client they are  *)
(* linked to": whoever keeps a proposal's books can approve it, whichever  *)
(* company is active.                                                      *)
AccountantsMayApprove ==
  \A c \in Chats, p \in Proposals : KeepsBooks(c, CompanyOf[p]) => CanApprove(c, p)

(* An acceptance "covers the debit and credit lines that were in front" of *)
(* its accountant: an entry that was posted was drafted from a content     *)
(* that somebody verified or accepted for its company.                     *)
PostedAsAccepted ==
  [][\A p \in Proposals :
       proposal[p] = "proposed" /\ proposal'[p] = "posted" =>
         \/ rule[RuleOf[p]].verified
         \/ \E a \in acceptances' : /\ a.company = CompanyOf[p]
                                    /\ a.rule = RuleOf[p]
                                    /\ a.content = Drafted[RuleOf[p]]]_vars
=============================================================================
