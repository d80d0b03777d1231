-------------------------- MODULE RulesAndCallsProofs --------------------------
(***************************************************************************)
(* Proofs about RuleClearance and ModelCalls, for every value of their     *)
(* constants: what a posting rests on, and what the calls to a model cost. *)
(***************************************************************************)
EXTENDS RuleClearance, ModelCalls, TLAPS

-----------------------------------------------------------------------------
(* RuleClearance.                                                          *)

(* The trail stays a sequence of blocks without repetition.                *)
LEMMA WithBlockType ==
  ASSUME ClearanceAssumption, TypeOK, NEW c \in Chats, NEW p \in Proposals, NEW r \in Rules
  PROVE  /\ WithBlock(c, p, r) \in Seq(Block)
         /\ \A i, j \in DOMAIN WithBlock(c, p, r) :
              WithBlock(c, p, r)[i] = WithBlock(c, p, r)[j] => i = j
<1> DEFINE new == [chat |-> c, company |-> CompanyOf[p], rule |-> r, proposal |-> p]
<1>1. new \in Block
  BY DEF ClearanceAssumption, Block
<1>2. CASE \E i \in DOMAIN blocks : SameBlock(blocks[i], c, p, r)
  BY <1>2 DEF WithBlock, TypeOK
<1>3. CASE ~ \E i \in DOMAIN blocks : SameBlock(blocks[i], c, p, r)
  <2>1. WithBlock(c, p, r) = Append(blocks, new)
    BY <1>3 DEF WithBlock
  <2>2. \A i \in DOMAIN blocks : blocks[i] # new
    BY <1>3 DEF SameBlock
  <2>3. blocks \in Seq(Block) /\ \A i, j \in DOMAIN blocks : blocks[i] = blocks[j] => i = j
    BY DEF TypeOK
  <2> HIDE DEF new
  <2>4. QED  BY <1>1, <2>1, <2>2, <2>3
<1>4. QED  BY <1>2, <1>3

LEMMA BlockedType ==
  ASSUME ClearanceAssumption, TypeOK, NEW c \in Chats, NEW p \in Proposals,
         RuleBlocked(c, p, RuleOf[p])
  PROVE  /\ blocks' \in Seq(Block)
         /\ \A i, j \in DOMAIN blocks' : blocks'[i] = blocks'[j] => i = j
         /\ cards' \subseteq [chat : Chats, company : Companies \cup {NoCompany}, rule : Rules]
         /\ requests' \subseteq [company : Companies, rule : Rules, reached : SUBSET Chats]
<1>1. RuleOf[p] \in Rules /\ CompanyOf[p] \in Companies
  BY DEF ClearanceAssumption
<1>2. blocks' = WithBlock(c, p, RuleOf[p])
  BY DEF RuleBlocked
<1>3. cards' \subseteq [chat : Chats, company : Companies \cup {NoCompany}, rule : Rules]
  BY <1>1 DEF RuleBlocked, Card, TypeOK
<1>4. requests' \subseteq [company : Companies, rule : Rules, reached : SUBSET Chats]
  <2>1. CanClear(c, CompanyOf[p]) \subseteq Chats
    BY DEF CanClear, Accountants, ClearanceAssumption
  <2>2. CASE UNCHANGED requests
    BY <2>2 DEF TypeOK
  <2>3. CASE AsksForClearance(c, CompanyOf[p], RuleOf[p]) /\ ~UNCHANGED requests
    BY <1>1, <2>1, <2>3 DEF AsksForClearance, TypeOK
  <2>4. QED  BY <2>2, <2>3 DEF RuleBlocked
<1>5. QED  BY <1>1, <1>2, <1>3, <1>4, WithBlockType

LEMMA NotedType ==
  ASSUME TypeOK, NEW r \in Rules, NEW content
  PROVE  Noted(r, content) \subseteq [company : Companies, rule : Rules, accepted : Contents]
BY DEF TypeOK, Noted, OutrunBy, Acceptance

LEMMA RowType ==
  ASSUME TypeOK, NEW r \in Rules, NEW content \in Contents, NEW flag \in BOOLEAN,
         rule' = [rule EXCEPT ![r] = [content |-> content, verified |-> flag]]
  PROVE  rule' \in [Rules -> [content : Contents, verified : BOOLEAN]]
BY DEF TypeOK

LEMMA InitType == ASSUME ClearanceAssumption, Init PROVE TypeOK
BY DEF ClearanceAssumption, Init, TypeOK, Block

LEMMA StepType == ASSUME ClearanceAssumption, TypeOK, [Next]_vars PROVE TypeOK'
<1> USE DEF TypeOK
<1>1. ASSUME NEW c \in Chats, NEW p \in Proposals, Approve(c, p) PROVE TypeOK'
  <2>1. CASE UNCHANGED <<cards, blocks, requests>>
    BY <1>1, <2>1 DEF Approve
  <2>2. CASE RuleBlocked(c, p, RuleOf[p]) /\ UNCHANGED proposal
    BY <1>1, <2>2, BlockedType DEF Approve
  <2>3. QED  BY <1>1, <2>1, <2>2 DEF Approve
<1>2. ASSUME NEW c \in Chats, NEW p \in Proposals, Reject(c, p) PROVE TypeOK'
  BY <1>2 DEF Reject
<1>3. ASSUME NEW c \in Chats, NEW r \in Rules, ShowRule(c, r) PROVE TypeOK'
  BY <1>3 DEF ShowRule, Card
<1>4. ASSUME NEW c \in Chats, NEW k \in cards, AcceptRule(c, k) PROVE TypeOK'
  <2>1. k.rule \in Rules
    OBVIOUS
  <2>2. PICK company \in CardCompany(c, k) :
          /\ acceptances' = acceptances \cup {AcceptanceRow(c, company, k.rule)}
          /\ cards' = cards \ {k}
          /\ FinishTheBlockedTap(c, company, k.rule)
          /\ UNCHANGED <<rule, active, blocks, requests, notes>>
    BY <1>4 DEF AcceptRule
  <2>3. company \in Companies
    BY <2>2 DEF CardCompany, KeepsBooks
  <2>4. acceptances' \subseteq Acceptance
    BY <2>1, <2>2, <2>3 DEF AcceptanceRow, Reads, Acceptance
  <2>5. proposal' \in [Proposals -> {"proposed", "posted", "rejected"}]
    BY <2>2 DEF FinishTheBlockedTap
  <2>6. QED  BY <2>2, <2>4, <2>5
<1>5. ASSUME NEW c \in Chats, NEW k \in cards, ConfirmRule(c, k) PROVE TypeOK'
  <2>1. k.rule \in Rules /\ Reads(k.rule) \in Contents
    BY DEF Reads
  <2>2. rule' \in [Rules -> [content : Contents, verified : BOOLEAN]]
    BY <1>5, <2>1, RowType DEF ConfirmRule, Verify
  <2>3. QED  BY <1>5, <2>1, <2>2, NotedType DEF ConfirmRule, Verify
<1>6. ASSUME NEW c \in Chats, NEW k \in cards, Leave(c, k) PROVE TypeOK'
  BY <1>6 DEF Leave
<1>7. ASSUME NEW c \in Chats, NEW company \in Companies, SwitchCompany(c, company) PROVE TypeOK'
  BY <1>7 DEF SwitchCompany
<1>8. ASSUME NEW r \in Rules, NEW content \in Contents, NEW flag \in BOOLEAN,
             DeskEdit(r, content, flag)
      PROVE  TypeOK'
  <2>1. rule' \in [Rules -> [content : Contents, verified : BOOLEAN]]
    BY <1>8, RowType DEF DeskEdit
  <2>2. QED  BY <1>8, <2>1, NotedType DEF DeskEdit
<1>9. ASSUME NEW r \in Rules, NEW content \in Contents, NEW flag \in BOOLEAN,
             NEW force \in BOOLEAN, Deploy(r, content, flag, force)
      PROVE  TypeOK'
  <2> DEFINE stays == rule[r].verified /\ ~force
             new == IF stays THEN Reads(r) ELSE content
             verified == stays \/ flag
  <2>1. new \in Contents /\ verified \in BOOLEAN
    BY DEF Reads
  <2>2. rule' = [rule EXCEPT ![r] = [content |-> new, verified |-> verified]]
    BY <1>9 DEF Deploy
  <2>3. notes' = Noted(r, new) /\ UNCHANGED <<acceptances, proposal, active, cards, blocks, requests>>
    BY <1>9 DEF Deploy
  <2> HIDE DEF new, verified
  <2>4. rule' \in [Rules -> [content : Contents, verified : BOOLEAN]]
    BY <2>1, <2>2, RowType
  <2>5. QED  BY <2>3, <2>4, NotedType
<1>10. ASSUME NEW a \in acceptances, Withdraw(a) PROVE TypeOK'
  BY <1>10 DEF Withdraw
<1>11. CASE QuarterHourPasses
  BY <1>11 DEF QuarterHourPasses
<1>12. CASE UNCHANGED vars
  BY <1>12 DEF vars
<1>13. QED
  BY <1>1, <1>2, <1>3, <1>4, <1>5, <1>6, <1>7, <1>8, <1>9, <1>10, <1>11, <1>12 DEF Next

(* The rows of every table have their type, and no refusal is on record    *)
(* twice within the quarter of an hour, in every reachable state.          *)
THEOREM ClearanceIsTyped == ASSUME ClearanceAssumption PROVE Spec => []TypeOK
<1>1. Init => TypeOK
  BY InitType
<1>2. TypeOK /\ [Next]_vars => TypeOK'
  BY StepType
<1>3. QED  BY <1>1, <1>2, PTL DEF Spec

-----------------------------------------------------------------------------
(* A save notes every acceptance it leaves behind, and forgets no note.    *)
LEMMA SaveNotes ==
  ASSUME OutrunIsNoted, TypeOK, NEW r \in Rules, NEW content, NEW flag,
         rule' = [rule EXCEPT ![r] = [content |-> content, verified |-> flag]],
         notes' = Noted(r, content), UNCHANGED acceptances
  PROVE  OutrunIsNoted'
<1> SUFFICES ASSUME NEW a \in acceptances, a.content # rule'[a.rule].content
             PROVE  [company |-> a.company, rule |-> a.rule, accepted |-> a.content] \in notes'
  BY DEF OutrunIsNoted, Reads
<1>1. a.rule \in Rules /\ rule \in [Rules -> [content : Contents, verified : BOOLEAN]]
  BY DEF TypeOK, Acceptance
<1>2. CASE a.rule = r
  <2>1. a \in OutrunBy(r, content)
    BY <1>1, <1>2 DEF OutrunBy
  <2>2. QED  BY <1>2, <2>1 DEF Noted
<1>3. CASE a.rule # r
  BY <1>1, <1>3 DEF OutrunIsNoted, Noted, Reads
<1>4. QED  BY <1>2, <1>3

LEMMA StepNoted ==
  ASSUME ClearanceAssumption, TypeOK, OutrunIsNoted, [Next]_vars PROVE OutrunIsNoted'
<1>1. ASSUME UNCHANGED <<rule, notes>>, acceptances' \subseteq acceptances PROVE OutrunIsNoted'
  BY <1>1 DEF OutrunIsNoted, Reads
<1>2. ASSUME NEW c \in Chats, NEW k \in cards, AcceptRule(c, k) PROVE OutrunIsNoted'
  BY <1>2 DEF AcceptRule, AcceptanceRow, OutrunIsNoted, Reads
<1>3. ASSUME NEW c \in Chats, NEW k \in cards, ConfirmRule(c, k) PROVE OutrunIsNoted'
  <2>1. k.rule \in Rules
    BY DEF TypeOK
  <2>2. QED  BY <1>3, <2>1, SaveNotes DEF ConfirmRule, Verify
<1>4. ASSUME NEW r \in Rules, NEW content \in Contents, NEW flag, DeskEdit(r, content, flag)
      PROVE  OutrunIsNoted'
  BY <1>4, SaveNotes DEF DeskEdit
<1>5. ASSUME NEW r \in Rules, NEW content \in Contents, NEW flag, NEW force,
             Deploy(r, content, flag, force)
      PROVE  OutrunIsNoted'
  <2> DEFINE stays == rule[r].verified /\ ~force
             new == IF stays THEN Reads(r) ELSE content
             verified == stays \/ flag
  <2>1. /\ rule' = [rule EXCEPT ![r] = [content |-> new, verified |-> verified]]
        /\ notes' = Noted(r, new) /\ UNCHANGED acceptances
    BY <1>5 DEF Deploy
  <2> HIDE DEF new, verified
  <2>2. QED  BY <2>1, SaveNotes
<1>6. ASSUME NEW a \in acceptances, Withdraw(a) PROVE OutrunIsNoted'
  BY <1>1, <1>6 DEF Withdraw
<1>7. ASSUME UNCHANGED <<rule, notes, acceptances>> PROVE OutrunIsNoted'
  BY <1>1, <1>7
<1>8. QED
  BY <1>2, <1>3, <1>4, <1>5, <1>6, <1>7
  DEF Next, Approve, Reject, ShowRule, Leave, SwitchCompany, QuarterHourPasses, vars

(* No acceptance is outrun in silence, however many rules, companies and   *)
(* rewrites there are.                                                     *)
THEOREM OutrunAcceptancesAreNoted == ASSUME ClearanceAssumption PROVE Spec => []OutrunIsNoted
<1>1. Init => TypeOK /\ OutrunIsNoted
  BY InitType DEF Init, OutrunIsNoted
<1>2. TypeOK /\ OutrunIsNoted /\ [Next]_vars => TypeOK' /\ OutrunIsNoted'
  BY StepType, StepNoted
<1>3. QED  BY <1>1, <1>2, PTL DEF Spec

(* The log of refusals and of outrun acceptances, together                 *)
(* (approve._refuse, note_rule_changed_after_save).                        *)
THEOREM LogTellsOnce == ASSUME ClearanceAssumption PROVE Spec => []EventsTellOnce
<1>1. TypeOK /\ OutrunIsNoted => EventsTellOnce
  BY DEF TypeOK, RefusedOnce, EventsTellOnce
<1> QED BY ClearanceIsTyped, OutrunAcceptancesAreNoted, <1>1, PTL

-----------------------------------------------------------------------------
(* A block names the company and the rule of its own proposal.             *)
BlocksAreTrue ==
  \A i \in DOMAIN blocks :
    /\ blocks[i].company = CompanyOf[blocks[i].proposal]
    /\ blocks[i].rule = RuleOf[blocks[i].proposal]

LEMMA StepBlocks ==
  ASSUME ClearanceAssumption, TypeOK, BlocksAreTrue, [Next]_vars PROVE BlocksAreTrue'
<1>1. ASSUME NEW c \in Chats, NEW p \in Proposals, RuleBlocked(c, p, RuleOf[p])
      PROVE  BlocksAreTrue'
  <2> DEFINE new == [chat |-> c, company |-> CompanyOf[p], rule |-> RuleOf[p], proposal |-> p]
  <2>1. new.company = CompanyOf[new.proposal] /\ new.rule = RuleOf[new.proposal]
    OBVIOUS
  <2>2. blocks' = blocks \/ blocks' = Append(blocks, new)
    BY <1>1 DEF RuleBlocked, WithBlock
  <2>3. blocks \in Seq(Block)
    BY DEF TypeOK
  <2> HIDE DEF new
  <2>4. QED  BY <2>1, <2>2, <2>3 DEF BlocksAreTrue
<1>2. CASE UNCHANGED blocks
  BY <1>2 DEF BlocksAreTrue
<1>3. CASE QuarterHourPasses
  BY <1>3 DEF QuarterHourPasses, BlocksAreTrue
<1>4. QED
  BY <1>1, <1>2, <1>3
  DEF Next, Approve, Reject, ShowRule, AcceptRule, ConfirmRule, Leave, SwitchCompany, DeskEdit,
      Deploy, Withdraw, vars

LEMMA StepAsked == ASSUME ClearanceAssumption, TypeOK, [Next]_vars
                   PROVE  \A a \in acceptances' \ acceptances :
                            /\ KeepsBooks(a.by, a.company)
                            /\ a.content = Reads(a.rule)
                            /\ \E k \in cards : k.company = a.company /\ k.rule = a.rule
<1>1. ASSUME NEW c \in Chats, NEW k \in cards, AcceptRule(c, k),
             NEW a \in acceptances' \ acceptances
      PROVE  /\ KeepsBooks(a.by, a.company)
             /\ a.content = Reads(a.rule)
             /\ \E l \in cards : l.company = a.company /\ l.rule = a.rule
  <2>1. KeepsBooks(c, k.company) /\ a = AcceptanceRow(c, k.company, k.rule)
    BY <1>1 DEF AcceptRule, CardCompany
  <2>2. QED  BY <2>1 DEF AcceptanceRow
<1>2. CASE acceptances' \subseteq acceptances
  BY <1>2
<1>3. QED
  BY <1>1, <1>2
  DEF Next, Approve, Reject, ShowRule, ConfirmRule, Verify, Leave, SwitchCompany, DeskEdit, Deploy,
      Withdraw, QuarterHourPasses, vars

LEMMA StepPosts ==
  ASSUME ClearanceAssumption, TypeOK, BlocksAreTrue, [Next]_vars,
         NEW p \in Proposals, proposal[p] = "proposed", proposal'[p] = "posted"
  PROVE  /\ \/ rule[RuleOf[p]].verified
            \/ \E a \in acceptances' : /\ a.company = CompanyOf[p]
                                       /\ a.rule = RuleOf[p]
                                       /\ a.content = Reads(RuleOf[p])
         /\ \A a \in acceptances' \ acceptances :
              /\ a.company = CompanyOf[p]
              /\ \E i \in DOMAIN blocks :
                   /\ blocks[i].chat = a.by
                   /\ blocks[i].proposal = p
                   /\ blocks[i].rule = a.rule
<1>1. CASE \E c \in Chats, q \in Proposals : Approve(c, q)
  <2>1. PICK c \in Chats, q \in Proposals : Approve(c, q)
    BY <1>1
  <2>2. q = p /\ Cleared(CompanyOf[p], RuleOf[p]) /\ UNCHANGED acceptances
    BY <2>1 DEF Approve, TypeOK
  <2>3. QED  BY <2>2 DEF Cleared, AcceptedFor, Covers
<1>2. CASE \E c \in Chats : \E k \in cards : AcceptRule(c, k)
  <2>1. PICK c \in Chats : \E k \in cards : AcceptRule(c, k)
    BY <1>2
  <2>2. PICK k \in cards : AcceptRule(c, k)
    BY <2>1
  <2> DEFINE new == AcceptanceRow(c, k.company, k.rule)
  <2>3. /\ acceptances' = acceptances \cup {new}
        /\ FinishTheBlockedTap(c, k.company, k.rule)
    BY <2>2 DEF AcceptRule, CardCompany
  <2>4. p \in BlockedProposals(c, k.company, k.rule)
    BY <2>3 DEF FinishTheBlockedTap
  <2>5. PICK i \in DOMAIN blocks :
          /\ blocks[i].chat = c
          /\ blocks[i].company = k.company
          /\ blocks[i].rule = k.rule
          /\ blocks[i].proposal = p
    BY <2>4 DEF BlockedProposals, OwnBlocks
  <2>6. k.company = CompanyOf[p] /\ k.rule = RuleOf[p]
    BY <2>5 DEF BlocksAreTrue
  <2>7. new.company = CompanyOf[p] /\ new.rule = RuleOf[p] /\ new.content = Reads(RuleOf[p]) /\ new.by = c
    BY <2>6 DEF AcceptanceRow
  <2> HIDE DEF new
  <2>8. QED  BY <2>3, <2>5, <2>6, <2>7
<1>3. ASSUME NEW c \in Chats, NEW q \in Proposals, Reject(c, q) PROVE FALSE
  BY <1>3 DEF Reject, TypeOK
<1>4. CASE UNCHANGED proposal
  BY <1>4
<1>5. QED
  BY <1>1, <1>2, <1>3, <1>4
  DEF Next, ShowRule, ConfirmRule, Leave, SwitchCompany, DeskEdit, Deploy, Withdraw,
      QuarterHourPasses, vars

(* Every acceptance was asked for: an accountant of the company answered a *)
(* card that asked about this company and this rule.                       *)
THEOREM AcceptancesWereAsked == ASSUME ClearanceAssumption PROVE Spec => AcceptedAsAsked
<1> DEFINE Asked == \A a \in acceptances' \ acceptances :
                      /\ KeepsBooks(a.by, a.company)
                      /\ a.content = Reads(a.rule)
                      /\ \E k \in cards : k.company = a.company /\ k.rule = a.rule
<1>1. TypeOK /\ [Next]_vars => Asked
  BY StepAsked
<1>2. TypeOK /\ [Next]_vars => [Asked]_vars
  BY <1>1
<1>3. AcceptedAsAsked <=> [][Asked]_vars
  BY DEF AcceptedAsAsked
<1> HIDE DEF Asked
<1>4. QED  BY <1>2, <1>3, ClearanceIsTyped, PTL DEF Spec

(* Nothing is posted on an uncleared rule, and a tap on a rule's card      *)
(* finishes only what the same chat was refused.                           *)
THEOREM OnlyTheClearedIsPosted == ASSUME ClearanceAssumption PROVE Spec => PostsOnlyTheCleared
<1> DEFINE Posts ==
      \A p \in Proposals :
       proposal[p] = "proposed" /\ proposal'[p] = "posted" =>
         /\ \/ rule[RuleOf[p]].verified
            \/ \E a \in acceptances' : /\ a.company = CompanyOf[p]
                                       /\ a.rule = RuleOf[p]
                                       /\ a.content = Reads(RuleOf[p])
         /\ \A a \in acceptances' \ acceptances :
              /\ a.company = CompanyOf[p]
              /\ \E i \in DOMAIN blocks :
                   /\ blocks[i].chat = a.by
                   /\ blocks[i].proposal = p
                   /\ blocks[i].rule = a.rule
<1>1. Init => BlocksAreTrue
  BY DEF Init, BlocksAreTrue
<1>2. TypeOK /\ BlocksAreTrue /\ [Next]_vars => BlocksAreTrue'
  BY StepBlocks
<1>3. TypeOK /\ BlocksAreTrue /\ [Next]_vars => [Posts]_vars
  BY StepPosts
<1>4. PostsOnlyTheCleared <=> [][Posts]_vars
  BY DEF PostsOnlyTheCleared
<1> HIDE DEF Posts
<1>5. QED  BY <1>1, <1>2, <1>3, <1>4, ClearanceIsTyped, PTL DEF Spec

-----------------------------------------------------------------------------
(* ModelCalls.  A job asks of each purpose the model its own site config   *)
(* routes it to; its rows say so and cost what was charged; and only the   *)
(* one open call of a running job is ever charged.                         *)

(* Routing: a purpose always has a model, and a pinned one has its pin.    *)

(* The first of four that is set.                                          *)
LEMMA FirstOfFour ==
  ASSUME NEW a, NEW b, NEW c, NEW d, d # None
  PROVE  /\ FirstSet(<<a, b, c, d>>) \in {a, b, c, d} \ {None}
         /\ a # None => FirstSet(<<a, b, c, d>>) = a
<1> DEFINE ids == <<a, b, c, d>>
           S == {i \in DOMAIN ids : ids[i] # None}
<1>1. /\ DOMAIN ids = 1..4
      /\ ids[1] = a /\ ids[2] = b /\ ids[3] = c /\ ids[4] = d
  OBVIOUS
<1>2. PICK m \in S : (\A i \in S : m <= i) /\ (a # None => m = 1)
  <2>1. S \subseteq 1..4 /\ 4 \in S /\ (a # None => 1 \in S)
    BY <1>1
  <2> HIDE DEF S
  <2>2. CASE 1 \in S
    BY <2>1, <2>2
  <2>3. CASE 1 \notin S /\ 2 \in S
    BY <2>1, <2>3
  <2>4. CASE 1 \notin S /\ 2 \notin S /\ 3 \in S
    BY <2>1, <2>4
  <2>5. CASE S = {4}
    BY <2>1, <2>5
  <2> QED BY <2>1, <2>2, <2>3, <2>4, <2>5
<1>3. S \subseteq 1..4
  BY <1>1
<1>4. Min(S) = m
  <2> HIDE DEF S
  <2>1. \A x \in S : (\A i \in S : x <= i) => x = m
    BY <1>2, <1>3
  <2>2. Min(S) = CHOOSE x \in S : \A i \in S : x <= i
    BY DEF Min
  <2> QED BY <1>2, <2>1, <2>2
<1>5. FirstSet(ids) = ids[m]
  BY <1>4 DEF FirstSet
<1>6. m \in 1..4 /\ ids[m] # None
  BY <1>2, <1>3
<1>7. m = 1 \/ m = 2 \/ m = 3 \/ m = 4
  BY <1>6
<1> QED BY <1>1, <1>2, <1>5, <1>6, <1>7

(* The first of two that is set.                                           *)
LEMMA FirstOfTwo ==
  ASSUME NEW a, NEW b, b # None
  PROVE  FirstSet(<<a, b>>) = IF a # None THEN a ELSE b
<1> DEFINE ids == <<a, b>>
           S == {i \in DOMAIN ids : ids[i] # None}
<1>1. DOMAIN ids = 1..2 /\ ids[1] = a /\ ids[2] = b
  OBVIOUS
<1>2. S \subseteq 1..2 /\ 2 \in S /\ (1 \in S <=> a # None)
  BY <1>1
<1>3. Min(S) = IF a # None THEN 1 ELSE 2
  <2> HIDE DEF S
  <2>1. PICK m \in S : m = (IF a # None THEN 1 ELSE 2) /\ \A i \in S : m <= i
    BY <1>2
  <2>2. \A x \in S : (\A i \in S : x <= i) => x = m
    BY <1>2, <2>1
  <2>3. Min(S) = CHOOSE x \in S : \A i \in S : x <= i
    BY DEF Min
  <2> QED BY <2>1, <2>2, <2>3
<1> QED BY <1>1, <1>3 DEF FirstSet

Sites == [SiteKeys -> Models \cup {None}]

LEMMA EveryPurposeHasAModel ==
  ASSUME NEW site, site.models \in Sites, NEW purpose \in Purposes, NEW provider
  PROVE  ResolveModel(site, purpose, provider) \in Models
<1> USE CallsAssumption
<1>1. Known(purpose) = purpose
  BY DEF Known
<1>2. DefaultOpenAi \in Models /\ DefaultAnthropic \in Models
      /\ DefaultOpenAi # None /\ DefaultAnthropic # None
  OBVIOUS
<1>3. CASE provider = "anthropic"
  <2>1. site.models["ANTHROPIC_MODEL"] \in Models \cup {None}
    BY DEF Sites, SiteKeys
  <2>2. FirstSet(<<site.models["ANTHROPIC_MODEL"], DefaultAnthropic>>) \in Models
    BY <1>2, <2>1, FirstOfTwo
  <2> QED BY <1>3, <2>2 DEF ResolveModel
<1>4. CASE provider # "anthropic"
  <2> DEFINE own == IF PurposeKey(purpose) = None THEN None ELSE site.models[PurposeKey(purpose)]
  <2>1. PurposeKey(purpose) \in SiteKeys \cup {None}
    BY DEF PurposeKey, SiteKeys, Purposes
  <2>2. own \in Models \cup {None}
    BY <2>1 DEF Sites
  <2>3. /\ Founders[purpose] \in Models \cup {None}
        /\ site.models["OPENAI_MODEL"] \in Models \cup {None}
    BY DEF Sites, SiteKeys
  <2>4. ResolveModel(site, purpose, provider)
          = FirstSet(<<own, Founders[purpose], site.models["OPENAI_MODEL"], DefaultOpenAi>>)
    BY <1>1, <1>4 DEF ResolveModel
  <2> HIDE DEF own
  <2>5. FirstSet(<<own, Founders[purpose], site.models["OPENAI_MODEL"], DefaultOpenAi>>)
          \in {own, Founders[purpose], site.models["OPENAI_MODEL"], DefaultOpenAi} \ {None}
    BY <1>2, FirstOfFour
  <2> QED BY <1>2, <2>2, <2>3, <2>4, <2>5
<1> QED BY <1>3, <1>4

LEMMA PinsHold ==
  ASSUME NEW site, site.models \in Sites, NEW model \in Models,
         NEW provider \in {"auto", "anthropic"}, NEW purpose \in {"extract", "classify"}
  PROVE  /\ PinModels(site, provider, model).models \in Sites
         /\ ResolveModel(PinModels(site, provider, model), purpose, provider) = model
<1> USE CallsAssumption
<1> DEFINE pinned == PinModels(site, provider, model).models
<1>0. pinned = [key \in SiteKeys |->
                 IF (key = "ANTHROPIC_MODEL") <=> (provider = "anthropic") THEN model ELSE site.models[key]]
  BY DEF PinModels
<1>1. pinned \in Sites
  BY <1>0 DEF Sites
<1>2. DefaultOpenAi # None /\ DefaultAnthropic # None /\ model # None
  OBVIOUS
<1>3. Known(purpose) = purpose
  BY DEF Known, Purposes
<1>4. CASE provider = "anthropic"
  <2>1. pinned["ANTHROPIC_MODEL"] = model
    BY <1>0, <1>4 DEF SiteKeys
  <2>2. ResolveModel(PinModels(site, provider, model), purpose, provider)
          = FirstSet(<<pinned["ANTHROPIC_MODEL"], DefaultAnthropic>>)
    BY <1>4 DEF ResolveModel
  <2> HIDE DEF pinned
  <2>3. FirstSet(<<model, DefaultAnthropic>>) = model
    BY <1>2, FirstOfTwo
  <2> QED BY <1>1, <2>1, <2>2, <2>3 DEF pinned
<1>5. CASE provider = "auto"
  <2>1. /\ PurposeKey(purpose) \in SiteKeys \ {"ANTHROPIC_MODEL"}
        /\ PurposeKey(purpose) \in {"OPENAI_MODEL_EXTRACT", "OPENAI_MODEL_CLASSIFY"}
    BY DEF PurposeKey, SiteKeys
  <2>2. pinned[PurposeKey(purpose)] = model
    BY <1>0, <1>5, <2>1
  <2> DEFINE own == IF PurposeKey(purpose) = None THEN None ELSE pinned[PurposeKey(purpose)]
  <2>3. ResolveModel(PinModels(site, provider, model), purpose, provider)
          = FirstSet(<<own, Founders[purpose], pinned["OPENAI_MODEL"], DefaultOpenAi>>)
    BY <1>3, <1>5 DEF ResolveModel
  <2>4. own = model
    BY <2>1, <2>2 DEF SiteKeys
  <2> HIDE DEF pinned, own
  <2>5. FirstSet(<<own, Founders[purpose], pinned["OPENAI_MODEL"], DefaultOpenAi>>) = own
    BY <1>2, <2>4, FirstOfFour
  <2> QED BY <1>1, <2>3, <2>4, <2>5 DEF pinned
<1> QED BY <1>4, <1>5
-----------------------------------------------------------------------------
(* The invariant, of the values of the variables.                          *)

Routed(j, purpose) == ResolveModel(j.site, purpose, j.provider)

JobFields == {"no", "kind", "provider", "site", "asked", "step", "call", "buffer", "rows"}
CallFields == {"no", "purpose", "model", "answeredAs", "params", "attempt", "dropped",
               "turn", "usage", "transcript", "ran"}
RowFields == {"call", "job", "purpose", "model", "ok", "usage", "cost", "proposal"}

Kinds == {"receipt", "sweep", "line", "layout", "note", "question"}

(* The numbers of the job, of its open call, and of all its calls.         *)
NoOf(j) == IF j = None THEN {} ELSE {j.no}
OpenOf(j) == IF j = None \/ j.call = None THEN {} ELSE {j.call.no}
CallsOf(j) == IF j = None THEN {} ELSE {r.call : r \in j.buffer \cup j.rows} \cup OpenOf(j)

Measured == {"extract", "classify"}

(* A row of a call j made: one model for each purpose, and paid for.       *)
RowOfJob(r, j, cs, ch) ==
  /\ DOMAIN r = RowFields
  /\ r.job = j.no /\ r.call \in 1..cs
  /\ r.purpose \in Purposes /\ (j.kind = "sweep" => r.purpose \in Measured)
  /\ Family[r.model] = Routed(j, r.purpose)
  /\ r.ok => r.cost = ch[r.call] * Price[Family[r.model]]

CallOfJob(c, j, cs, ch) ==
  /\ DOMAIN c = CallFields
  /\ c.no \in 1..cs
  /\ c.purpose \in Purposes /\ (j.kind = "sweep" => c.purpose \in Measured)
  /\ c.model = Routed(j, c.purpose)
  /\ c.usage = ch[c.no]

SoundJob(j, js, cs, ch) ==
  /\ DOMAIN j = JobFields
  /\ j.no \in 1..js /\ j.kind \in Kinds
  /\ j.site.models \in Sites
  /\ j.asked # None => j.kind = "sweep" /\ \A purpose \in Measured : Routed(j, purpose) = j.asked
  /\ j.call # None => CallOfJob(j.call, j, cs, ch)
  /\ \A r \in j.buffer \cup j.rows : RowOfJob(r, j, cs, ch) /\ r.call \notin OpenOf(j)

Counted(js, cs, ch) ==
  /\ js \in Nat /\ cs \in Nat /\ cs <= MaxCalls
  /\ ch \in [1..MaxCalls -> Nat]
  /\ \A n \in 1..MaxCalls : n > cs => ch[n] = 0

SoundJobs(jb, js, cs, ch) ==
  /\ DOMAIN jb = Workers
  /\ \A w \in Workers : jb[w] # None => SoundJob(jb[w], js, cs, ch)
  /\ \A w, v \in Workers : w # v =>
       NoOf(jb[w]) \cap NoOf(jb[v]) = {} /\ CallsOf(jb[w]) \cap CallsOf(jb[v]) = {}

SoundLog(jb, js, cs, ch, lg) ==
  /\ \A r \in lg : /\ r.job \in 1..js /\ r.call \in 1..cs
                   /\ r.ok => r.cost = ch[r.call] * Price[Family[r.model]]
  /\ \A r, o \in lg : r.job = o.job /\ r.purpose = o.purpose => Family[r.model] = Family[o.model]
  /\ \A r \in lg, w \in Workers : r.job \notin NoOf(jb[w]) /\ r.call \notin CallsOf(jb[w])

CInv ==
  /\ config.models \in Sites /\ config.secrets \subseteq {"openai", "anthropic"}
  /\ Counted(jobs, calls, charged)
  /\ SoundJobs(job, jobs, calls, charged)
  /\ SoundLog(job, jobs, calls, charged, log)

-----------------------------------------------------------------------------
(* Steps of one worker.                                                    *)

(* The responses charged to a call of another job change nothing.          *)
LEMMA JobsAreApart ==
  ASSUME NEW j, NEW js, NEW cs \in Nat, NEW ch,
         SoundJob(j, js, cs, ch),
         NEW js2, NEW cs2 \in Nat, NEW ch2, js \in Nat, js2 \in Nat, js <= js2, cs <= cs2,
         \A n \in CallsOf(j) : ch2[n] = ch[n], j # None
  PROVE  SoundJob(j, js2, cs2, ch2)
<1>1. j.no \in 1..js2
  BY DEF SoundJob
<1>2. ASSUME NEW r \in j.buffer \cup j.rows
      PROVE  RowOfJob(r, j, cs2, ch2)
  <2>1. RowOfJob(r, j, cs, ch) /\ r.call \in CallsOf(j)
    BY DEF SoundJob, CallsOf
  <2>2. r.call \in 1..cs2
    BY <2>1 DEF RowOfJob
  <2> QED BY <2>1, <2>2 DEF RowOfJob
<1>3. ASSUME j.call # None
      PROVE  CallOfJob(j.call, j, cs2, ch2)
  <2>1. CallOfJob(j.call, j, cs, ch) /\ j.call.no \in CallsOf(j)
    BY <1>3 DEF SoundJob, CallsOf, OpenOf
  <2>2. j.call.no \in 1..cs2
    BY <2>1 DEF CallOfJob
  <2> QED BY <2>1, <2>2 DEF CallOfJob
<1> QED BY <1>1, <1>2, <1>3 DEF SoundJob

(* A worker's job becomes another or ends, and leaves rows in the table.   *)
LEMMA OneWorkerMoves ==
  ASSUME NEW jb, NEW js, NEW cs, NEW ch, NEW lg,
         Counted(js, cs, ch), SoundJobs(jb, js, cs, ch), SoundLog(jb, js, cs, ch, lg),
         NEW w \in Workers, NEW j2, NEW js2, NEW cs2, NEW ch2, NEW new,
         Counted(js2, cs2, ch2), js <= js2, cs <= cs2,
         \A n \in 1..cs : n \notin OpenOf(jb[w]) => ch2[n] = ch[n],
         j2 # None => SoundJob(j2, js2, cs2, ch2),
         \A n \in NoOf(j2) : n \in NoOf(jb[w]) \/ n > js,
         \A n \in CallsOf(j2) : n \in CallsOf(jb[w]) \/ n > cs,
         new # {} => j2 = None /\ jb[w] # None,
         \A r \in new : RowOfJob(r, jb[w], cs2, ch2) /\ r.call \in CallsOf(jb[w])
  PROVE  /\ SoundJobs([jb EXCEPT ![w] = j2], js2, cs2, ch2)
         /\ SoundLog([jb EXCEPT ![w] = j2], js2, cs2, ch2, lg \cup new)
<1> PICK jb2 : jb2 = [jb EXCEPT ![w] = j2]
  OBVIOUS
<1>0. /\ js \in Nat /\ cs \in Nat /\ js2 \in Nat /\ cs2 \in Nat
      /\ DOMAIN jb = Workers
  BY DEF Counted, SoundJobs
<1>1. /\ DOMAIN jb2 = Workers /\ jb2[w] = j2
      /\ \A v \in Workers : v # w => jb2[v] = jb[v]
  BY <1>0
<1>2. ASSUME NEW v \in Workers
      PROVE  NoOf(jb[v]) \subseteq 1..js /\ CallsOf(jb[v]) \subseteq 1..cs
                /\ OpenOf(jb[v]) \subseteq CallsOf(jb[v])
  <2>1. CASE jb[v] = None
    BY <2>1 DEF NoOf, CallsOf, OpenOf
  <2>2. CASE jb[v] # None
    <3>1. SoundJob(jb[v], js, cs, ch)
      BY <2>2 DEF SoundJobs
    <3> QED BY <2>2, <3>1 DEF SoundJob, RowOfJob, CallOfJob, NoOf, CallsOf, OpenOf
  <2> QED BY <2>1, <2>2
<1>3. ASSUME NEW v \in Workers, v # w
      PROVE  /\ NoOf(jb[v]) \cap NoOf(jb[w]) = {} /\ CallsOf(jb[v]) \cap CallsOf(jb[w]) = {}
             /\ \A n \in CallsOf(jb[v]) : ch2[n] = ch[n]
  <2>1. NoOf(jb[v]) \cap NoOf(jb[w]) = {} /\ CallsOf(jb[v]) \cap CallsOf(jb[w]) = {}
    BY <1>3 DEF SoundJobs
  <2> QED BY <1>2, <2>1
<1>4. ASSUME NEW v \in Workers, jb2[v] # None
      PROVE  SoundJob(jb2[v], js2, cs2, ch2)
  <2>1. CASE v = w
    BY <1>1, <1>4, <2>1
  <2>2. CASE v # w
    BY <1>0, <1>1, <1>3, <1>4, <2>2, JobsAreApart DEF SoundJobs
  <2> QED BY <2>1, <2>2
<1>5. ASSUME NEW v \in Workers, NEW u \in Workers, v # u
      PROVE  NoOf(jb2[v]) \cap NoOf(jb2[u]) = {} /\ CallsOf(jb2[v]) \cap CallsOf(jb2[u]) = {}
  <2>1. CASE v # w /\ u # w
    BY <1>1, <1>5, <2>1 DEF SoundJobs
  <2>2. ASSUME NEW t \in Workers, t # w
        PROVE  NoOf(jb[t]) \cap NoOf(j2) = {} /\ CallsOf(jb[t]) \cap CallsOf(j2) = {}
    <3>1. \A n \in 1..js : ~(n > js)
      BY <1>0
    <3>2. \A n \in 1..cs : ~(n > cs)
      BY <1>0
    <3> QED BY <1>2, <1>3, <2>2, <3>1, <3>2
  <2> QED BY <1>1, <1>5, <2>1, <2>2
<1>6. SoundJobs(jb2, js2, cs2, ch2)
  BY <1>1, <1>4, <1>5 DEF SoundJobs
<1>7. ASSUME NEW r \in lg
      PROVE  /\ r.job \in 1..js2 /\ r.call \in 1..cs2
             /\ r.ok => r.cost = ch2[r.call] * Price[Family[r.model]]
  <2>1. /\ r.job \in 1..js /\ r.call \in 1..cs
        /\ r.ok => r.cost = ch[r.call] * Price[Family[r.model]]
        /\ r.call \notin CallsOf(jb[w])
    BY DEF SoundLog
  <2>2. ch2[r.call] = ch[r.call]
    BY <1>2, <2>1
  <2>3. r.job \in 1..js2 /\ r.call \in 1..cs2
    BY <1>0, <2>1
  <2> QED BY <2>1, <2>2, <2>3
<1>8. ASSUME NEW r \in new
      PROVE  /\ r.job \in 1..js2 /\ r.call \in 1..cs2
             /\ r.ok => r.cost = ch2[r.call] * Price[Family[r.model]]
             /\ r.job \in NoOf(jb[w]) /\ Family[r.model] = Routed(jb[w], r.purpose)
  <2>1. jb[w] # None /\ RowOfJob(r, jb[w], cs2, ch2)
    OBVIOUS
  <2>2. r.job \in NoOf(jb[w])
    BY <2>1 DEF RowOfJob, NoOf
  <2>3. r.job \in 1..js2
    BY <1>0, <1>2, <2>2
  <2> QED BY <2>1, <2>2, <2>3 DEF RowOfJob
<1>9. ASSUME NEW r \in lg \cup new, NEW o \in lg \cup new,
             r.job = o.job, r.purpose = o.purpose
      PROVE  Family[r.model] = Family[o.model]
  <2>1. CASE r \in lg /\ o \in lg
    BY <1>9, <2>1 DEF SoundLog
  <2>2. CASE r \in new /\ o \in new
    BY <1>8, <1>9, <2>2
  <2>3. \A q \in lg : q.job \notin NoOf(jb[w])
    BY DEF SoundLog
  <2> QED BY <1>8, <1>9, <2>1, <2>2, <2>3
<1>10. ASSUME NEW r \in lg \cup new, NEW v \in Workers
       PROVE  r.job \notin NoOf(jb2[v]) /\ r.call \notin CallsOf(jb2[v])
  <2>1. CASE r \in lg /\ v # w
    BY <1>1, <2>1 DEF SoundLog
  <2>2. CASE r \in lg /\ v = w
    <3>1. r.job \in 1..js /\ r.call \in 1..cs /\ r.job \notin NoOf(jb[w]) /\ r.call \notin CallsOf(jb[w])
      BY <2>2 DEF SoundLog
    <3>2. ~(r.job > js) /\ ~(r.call > cs)
      BY <1>0, <3>1
    <3> QED BY <1>1, <2>2, <3>1, <3>2
  <2>3. CASE r \in new /\ v # w
    <3>1. r.job \in NoOf(jb[w]) /\ r.call \in CallsOf(jb[w])
      BY <1>8, <2>3
    <3> QED BY <1>1, <1>3, <2>3, <3>1
  <2>4. CASE r \in new /\ v = w
    BY <1>1, <2>4 DEF NoOf, CallsOf
  <2> QED BY <2>1, <2>2, <2>3, <2>4
<1> QED BY <1>6, <1>7, <1>8, <1>9, <1>10 DEF SoundLog
-----------------------------------------------------------------------------
(* What a call's steps make of its job.                                    *)

(* At most the open call of j is charged for.                              *)
OneCharged(j, cs, ch, ch2) == \A n \in 1..cs : n \notin OpenOf(j) => ch2[n] = ch[n]

(* j2 is j with its call going on as c.                                    *)
GoesOn(j, c, ch2, j2) ==
  /\ DOMAIN c = CallFields
  /\ c.no = j.call.no /\ c.purpose = j.call.purpose /\ c.model = j.call.model
  /\ c.usage = ch2[c.no]
  /\ j2 = [j EXCEPT !.call = c]

(* j2 is j with its call over, and leaving rows.                           *)
IsOver(j, cs, ch2, rows, kept, j2) ==
  /\ kept \subseteq rows
  /\ \A r \in rows : RowOfJob(r, j, cs, ch2) /\ r.call = j.call.no
  /\ j2 = Emit(j, rows, kept)

(* The call goes on: it was repeated, or answered and asked again.         *)
LEMMA CallGoesOn ==
  ASSUME NEW j, NEW js \in Nat, NEW cs \in Nat, NEW ch, NEW ch2,
         SoundJob(j, js, cs, ch), j # None, j.call # None,
         OneCharged(j, cs, ch, ch2),
         NEW c, NEW j2, GoesOn(j, c, ch2, j2)
  PROVE  SoundJob(j2, js, cs, ch2) /\ NoOf(j2) \subseteq NoOf(j) /\ CallsOf(j2) \subseteq CallsOf(j)
<1>0. /\ DOMAIN c = CallFields
      /\ c.no = j.call.no /\ c.purpose = j.call.purpose /\ c.model = j.call.model
      /\ c.usage = ch2[c.no] /\ j2 = [j EXCEPT !.call = c]
      /\ \A n \in 1..cs : n # j.call.no => ch2[n] = ch[n]
  BY DEF GoesOn, OneCharged, OpenOf
<1>1. /\ DOMAIN j2 = JobFields /\ j2.call = c
      /\ j2.no = j.no /\ j2.kind = j.kind /\ j2.site = j.site /\ j2.provider = j.provider
      /\ j2.asked = j.asked /\ j2.buffer = j.buffer /\ j2.rows = j.rows
  BY <1>0 DEF SoundJob, JobFields
<1>2. \A purpose : Routed(j2, purpose) = Routed(j, purpose)
  BY <1>1 DEF Routed
<1>3. CallOfJob(j.call, j, cs, ch)
  BY DEF SoundJob
<1>4. CallOfJob(c, j2, cs, ch2)
  BY <1>0, <1>1, <1>2, <1>3 DEF CallOfJob
<1>5. ASSUME NEW r \in j.buffer \cup j.rows
      PROVE  RowOfJob(r, j2, cs, ch2) /\ r.call \notin OpenOf(j2)
  <2>1. RowOfJob(r, j, cs, ch) /\ r.call \notin OpenOf(j)
    BY DEF SoundJob
  <2>2. r.call # j.call.no /\ r.call \in 1..cs
    BY <2>1 DEF OpenOf, RowOfJob
  <2>3. ch2[r.call] = ch[r.call]
    BY <1>0, <2>2
  <2>4. RowOfJob(r, j2, cs, ch2)
    BY <1>1, <1>2, <2>1, <2>3 DEF RowOfJob
  <2> QED BY <1>0, <1>1, <2>2, <2>4 DEF OpenOf
<1>6. SoundJob(j2, js, cs, ch2)
  <2>1. SoundJob(j, js, cs, ch)
    OBVIOUS
  <2> QED BY <1>1, <1>2, <1>4, <1>5, <2>1 DEF SoundJob
<1> QED BY <1>0, <1>1, <1>6 DEF NoOf, CallsOf, OpenOf

(* The call is over: its rows are buffered or kept.                        *)
LEMMA CallIsOver ==
  ASSUME NEW j, NEW js \in Nat, NEW cs \in Nat, NEW ch, NEW ch2,
         SoundJob(j, js, cs, ch), j # None, j.call # None,
         OneCharged(j, cs, ch, ch2),
         NEW rows, NEW kept, NEW j2, IsOver(j, cs, ch2, rows, kept, j2)
  PROVE  SoundJob(j2, js, cs, ch2) /\ NoOf(j2) \subseteq NoOf(j) /\ CallsOf(j2) \subseteq CallsOf(j)
<1>0. /\ kept \subseteq rows /\ j2 = Emit(j, rows, kept)
      /\ \A r \in rows : RowOfJob(r, j, cs, ch2) /\ r.call = j.call.no
      /\ \A n \in 1..cs : n # j.call.no => ch2[n] = ch[n]
  BY DEF IsOver, OneCharged, OpenOf
<1>1. /\ DOMAIN j2 = JobFields /\ j2.call = None
      /\ j2.no = j.no /\ j2.kind = j.kind /\ j2.site = j.site /\ j2.provider = j.provider
      /\ j2.asked = j.asked
  BY <1>0 DEF SoundJob, JobFields, Emit
<1>2. j2.buffer \subseteq j.buffer \cup rows /\ j2.rows \subseteq j.rows \cup rows
  BY <1>0 DEF SoundJob, JobFields, Emit
<1>3. \A purpose : Routed(j2, purpose) = Routed(j, purpose)
  BY <1>1 DEF Routed
<1>4. OpenOf(j) = {j.call.no} /\ OpenOf(j2) = {}
  BY <1>1 DEF OpenOf
<1>5. ASSUME NEW r \in j2.buffer \cup j2.rows
      PROVE  RowOfJob(r, j, cs, ch2)
  <2>1. CASE r \in rows
    BY <1>0, <2>1
  <2>2. CASE r \in j.buffer \cup j.rows
    <3>1. RowOfJob(r, j, cs, ch) /\ r.call \notin OpenOf(j)
      BY <2>2 DEF SoundJob
    <3>2. r.call \in 1..cs /\ r.call # j.call.no
      BY <1>4, <3>1 DEF RowOfJob
    <3>3. ch2[r.call] = ch[r.call]
      BY <1>0, <3>2
    <3> QED BY <3>1, <3>3 DEF RowOfJob
  <2> QED BY <1>2, <2>1, <2>2
<1>6. \A r \in j2.buffer \cup j2.rows : RowOfJob(r, j2, cs, ch2) /\ r.call \notin OpenOf(j2)
  BY <1>1, <1>3, <1>4, <1>5 DEF RowOfJob
<1>7. SoundJob(j2, js, cs, ch2)
  <2>1. SoundJob(j, js, cs, ch)
    OBVIOUS
  <2> QED BY <1>1, <1>3, <1>6, <2>1 DEF SoundJob
<1>8. ASSUME NEW r \in j2.buffer \cup j2.rows
      PROVE  r.call \in CallsOf(j)
  BY <1>0, <1>2, <1>4 DEF CallsOf
<1>9. \A n \in CallsOf(j2) : n \in CallsOf(j)
  BY <1>4, <1>8 DEF CallsOf
<1> QED BY <1>1, <1>7, <1>9 DEF NoOf

(* c is the call of j with all its responses read.                         *)
IsRead(c, j, ch2) ==
  /\ c.no = j.call.no /\ c.purpose = j.call.purpose /\ c.model = j.call.model
  /\ c.usage = ch2[c.no] /\ c.answeredAs \in Answering[c.model]

LEMMA ModelsOfCalls ==
  ASSUME NEW j, NEW js, NEW cs, NEW ch, SoundJob(j, js, cs, ch), j.call # None
  PROVE  /\ j.call.purpose \in Purposes /\ j.call.no \in 1..cs
         /\ j.kind = "sweep" => j.call.purpose \in Measured
         /\ j.call.model = Routed(j, j.call.purpose)
         /\ Family[j.call.model] = j.call.model
         /\ \A id \in Answering[j.call.model] : Family[id] = j.call.model
<1>1. CallOfJob(j.call, j, cs, ch) /\ j.site.models \in Sites
  BY DEF SoundJob
<1>2. /\ j.call.purpose \in Purposes /\ j.call.no \in 1..cs
      /\ j.kind = "sweep" => j.call.purpose \in Measured
      /\ j.call.model = Routed(j, j.call.purpose)
  BY <1>1 DEF CallOfJob
<1>3. j.call.model \in Models
  BY <1>1, <1>2, EveryPurposeHasAModel DEF Routed
<1> QED BY <1>2, <1>3, CallsAssumption

(* The row of a call that failed, and of one that succeeded.               *)
LEMMA FailedRows ==
  ASSUME NEW j, NEW js, NEW cs, NEW ch, NEW ch2, SoundJob(j, js, cs, ch), j.call # None
  PROVE  RowOfJob(Row(j, j.call, FALSE), j, cs, ch2) /\ Row(j, j.call, FALSE).call = j.call.no
<1> PICK f : f = Row(j, j.call, FALSE)
  OBVIOUS
<1>1. /\ DOMAIN f = RowFields /\ f.call = j.call.no /\ f.job = j.no /\ f.purpose = j.call.purpose
      /\ f.model = j.call.model /\ f.ok = FALSE
  BY ModelsOfCalls DEF Row, RowFields
<1> QED BY <1>1, ModelsOfCalls DEF RowOfJob

LEMMA PaidRows ==
  ASSUME NEW j, NEW js, NEW cs, NEW ch, NEW ch2, SoundJob(j, js, cs, ch), j.call # None,
         NEW c, IsRead(c, j, ch2)
  PROVE  RowOfJob(Row(j, c, TRUE), j, cs, ch2) /\ Row(j, c, TRUE).call = j.call.no
<1>1. /\ c.no = j.call.no /\ c.purpose = j.call.purpose /\ c.model = j.call.model
      /\ c.usage = ch2[c.no] /\ c.answeredAs \in Answering[c.model]
  BY DEF IsRead
<1> PICK g : g = Row(j, c, TRUE)
  OBVIOUS
<1>2. /\ DOMAIN g = RowFields /\ g.call = j.call.no /\ g.job = j.no /\ g.purpose = j.call.purpose
      /\ g.model = c.answeredAs /\ g.cost = ch2[g.call] * Price[Family[g.model]]
  BY <1>1, ModelsOfCalls DEF Row, RowFields, PriceFor
<1>3. Family[g.model] = j.call.model
  BY <1>1, <1>2, ModelsOfCalls
<1> QED BY <1>1, <1>2, <1>3, ModelsOfCalls DEF RowOfJob

-----------------------------------------------------------------------------
(* Each action keeps the invariant.                                        *)

(* Worker w goes from its job to j2 and leaves the rows in new.            *)
Steps(w, j2, new) ==
  /\ job' = [job EXCEPT ![w] = j2] /\ log' = log \cup new /\ UNCHANGED config
  /\ Counted(jobs', calls', charged') /\ jobs <= jobs' /\ calls <= calls'
  /\ OneCharged(job[w], calls, charged, charged')
  /\ j2 # None => SoundJob(j2, jobs', calls', charged')
  /\ \A n \in NoOf(j2) : n \in NoOf(job[w]) \/ n > jobs
  /\ \A n \in CallsOf(j2) : n \in CallsOf(job[w]) \/ n > calls
  /\ new # {} => j2 = None /\ job[w] # None
  /\ \A r \in new : RowOfJob(r, job[w], calls', charged') /\ r.call \in CallsOf(job[w])

LEMMA WorkerSteps ==
  ASSUME CInv, NEW w \in Workers, NEW j2, NEW new, Steps(w, j2, new)
  PROVE  CInv'
<1>1. /\ Counted(jobs, calls, charged) /\ SoundJobs(job, jobs, calls, charged)
      /\ SoundLog(job, jobs, calls, charged, log)
  BY DEF CInv
<1>2. /\ SoundJobs(job', jobs', calls', charged')
      /\ SoundLog(job', jobs', calls', charged', log')
  <2> USE DEF Steps, OneCharged
  <2>1. \A n \in 1..calls : n \notin OpenOf(job[w]) => charged'[n] = charged[n]
    OBVIOUS
  <2> QED BY <1>1, <2>1, OneWorkerMoves, Zenon
<1> QED BY <1>2 DEF CInv, Steps

LEMMA Counts ==
  ASSUME CInv
  PROVE  /\ jobs \in Nat /\ calls \in Nat /\ calls <= MaxCalls
         /\ charged \in [1..MaxCalls -> Nat]
         /\ Counted(jobs, calls, charged) /\ Counted(jobs + 1, calls, charged)
         /\ DOMAIN job = Workers
         /\ \A w \in Workers : job[w] # None => SoundJob(job[w], jobs, calls, charged)
BY DEF CInv, Counted, SoundJobs

(* A job that ends and leaves nothing.                                     *)
LEMMA JobsEnd ==
  ASSUME CInv, NEW w \in Workers, JobOver(w), UNCHANGED <<config, jobs, calls, log>>,
         charged' \in [1..MaxCalls -> Nat],
         \A n \in 1..MaxCalls : n \notin OpenOf(job[w]) => charged'[n] = charged[n]
  PROVE  CInv'
<1>1. Counted(jobs', calls', charged')
  <2>1. \A n \in OpenOf(job[w]) : n \in 1..calls
    BY Counts DEF OpenOf, SoundJob, CallOfJob
  <2> QED BY <2>1, Counts DEF Counted, CInv
<1>2. NoOf(None) = {} /\ CallsOf(None) = {}
  BY DEF NoOf, CallsOf
<1>3. log' = log \cup {}
  OBVIOUS
<1>4. \A n \in 1..calls : n \notin OpenOf(job[w]) => charged'[n] = charged[n]
  BY Counts, CallsAssumption
<1>5. jobs <= jobs' /\ calls <= calls'
  BY Counts
<1>6. job' = [job EXCEPT ![w] = None] /\ UNCHANGED config
  BY DEF JobOver
<1>7. Steps(w, None, {})
  BY <1>1, <1>2, <1>3, <1>4, <1>5, <1>6 DEF Steps, OneCharged
<1> QED BY <1>7, WorkerSteps
(* Nothing but the worker's call changes, and nothing is charged.          *)
LEMMA CallsGoOn ==
  ASSUME CInv, NEW w \in Workers, Calling(w), NEW c, Continue(w, c),
         UNCHANGED <<config, jobs, calls, log>>,
         DOMAIN c = CallFields,
         c.no = job[w].call.no, c.purpose = job[w].call.purpose, c.model = job[w].call.model,
         \/ UNCHANGED charged /\ c.usage = job[w].call.usage
         \/ Charge(job[w].call) /\ c.usage = job[w].call.usage + 1
  PROVE  CInv'
<1> PICK j : j = job[w]
  OBVIOUS
<1>1. /\ SoundJob(j, jobs, calls, charged) /\ j # None /\ j.call # None
      /\ jobs \in Nat /\ calls \in Nat
  BY Counts DEF Calling
<1>2. /\ CallOfJob(j.call, j, calls, charged) /\ j.call.no \in 1..calls
      /\ j.call.usage = charged[j.call.no]
  BY <1>1 DEF SoundJob, CallOfJob
<1>3. 1..calls \subseteq 1..MaxCalls
  BY Counts, CallsAssumption
<1>4. /\ charged' \in [1..MaxCalls -> Nat]
      /\ \A n \in 1..MaxCalls : n # j.call.no => charged'[n] = charged[n]
      /\ c.usage = charged'[c.no]
  <2>1. CASE UNCHANGED charged /\ c.usage = j.call.usage
    BY <1>2, <2>1, Counts
  <2>2. CASE Charge(j.call) /\ c.usage = j.call.usage + 1
    BY <1>2, <1>3, <2>2, Counts DEF Charge
  <2> QED BY <2>1, <2>2
<1>5. \A n \in 1..calls : n # j.call.no => charged'[n] = charged[n]
  BY <1>3, <1>4
<1> PICK j2 : j2 = [j EXCEPT !.call = c]
  OBVIOUS
<1>6. SoundJob(j2, jobs, calls, charged') /\ NoOf(j2) \subseteq NoOf(j) /\ CallsOf(j2) \subseteq CallsOf(j)
  <2>1. /\ DOMAIN c = CallFields /\ c.no = j.call.no /\ c.purpose = j.call.purpose
        /\ c.model = j.call.model
    OBVIOUS
  <2>2. OneCharged(j, calls, charged, charged')
    BY <1>1, <1>5 DEF OneCharged, OpenOf
  <2>3. GoesOn(j, c, charged', j2)
    BY <1>4, <2>1 DEF GoesOn
  <2> QED BY <1>1, <2>2, <2>3, CallGoesOn
<1>7. job' = [job EXCEPT ![w] = j2]
  BY DEF Continue
<1>8. OpenOf(j) = {j.call.no}
  BY <1>1 DEF OpenOf
<1>9. Counted(jobs', calls', charged')
  BY <1>2, <1>4, Counts DEF Counted, CInv
<1>10. /\ log' = log \cup {} /\ UNCHANGED config /\ jobs <= jobs' /\ calls <= calls'
       /\ jobs' = jobs /\ calls' = calls
  BY Counts
<1>11. /\ \A n \in NoOf(j2) : n \in NoOf(job[w]) \/ n > jobs
       /\ \A n \in CallsOf(j2) : n \in CallsOf(job[w]) \/ n > calls
  BY <1>6
<1>12. \A n \in 1..calls : n \notin OpenOf(job[w]) => charged'[n] = charged[n]
  BY <1>5, <1>8
<1>13. SoundJob(j2, jobs', calls', charged')
  BY <1>6, <1>10
<1>14. Steps(w, j2, {})
  BY <1>7, <1>9, <1>10, <1>11, <1>12, <1>13 DEF Steps, OneCharged
<1> QED BY <1>14, WorkerSteps

(* The worker's call is over, and its job goes on.                         *)
LEMMA CallsEndWell ==
  ASSUME CInv, NEW w \in Workers, Calling(w),
         NEW rows, NEW kept \in SUBSET rows,
         job' = [job EXCEPT ![w] = Emit(job[w], rows, kept)],
         UNCHANGED <<config, jobs, calls, log>>,
         UNCHANGED charged \/ Charge(job[w].call),
         \A r \in rows : RowOfJob(r, job[w], calls, charged') /\ r.call = job[w].call.no
  PROVE  CInv'
<1> PICK j : j = job[w]
  OBVIOUS
<1>1. /\ SoundJob(j, jobs, calls, charged) /\ j # None /\ j.call # None
      /\ jobs \in Nat /\ calls \in Nat
  BY Counts DEF Calling
<1>2. j.call.no \in 1..calls
  BY <1>1 DEF SoundJob, CallOfJob
<1>3. 1..calls \subseteq 1..MaxCalls
  BY Counts, CallsAssumption
<1>4. /\ charged' \in [1..MaxCalls -> Nat]
      /\ \A n \in 1..MaxCalls : n # j.call.no => charged'[n] = charged[n]
  <2>1. CASE UNCHANGED charged
    BY <2>1, Counts
  <2>2. CASE Charge(j.call)
    BY <1>2, <1>3, <2>2, Counts DEF Charge
  <2> QED BY <2>1, <2>2
<1>5. \A n \in 1..calls : n # j.call.no => charged'[n] = charged[n]
  BY <1>3, <1>4
<1> PICK j2 : j2 = Emit(j, rows, kept)
  OBVIOUS
<1>6. SoundJob(j2, jobs, calls, charged') /\ NoOf(j2) \subseteq NoOf(j) /\ CallsOf(j2) \subseteq CallsOf(j)
  <2>1. OneCharged(j, calls, charged, charged')
    BY <1>1, <1>5 DEF OneCharged, OpenOf
  <2>2. IsOver(j, calls, charged', rows, kept, j2)
    BY DEF IsOver
  <2> QED BY <1>1, <2>1, <2>2, CallIsOver
<1>7. job' = [job EXCEPT ![w] = j2]
  OBVIOUS
<1>8. OpenOf(j) = {j.call.no}
  BY <1>1 DEF OpenOf
<1>9. Counted(jobs', calls', charged')
  BY <1>2, <1>4, Counts DEF Counted, CInv
<1>10. /\ log' = log \cup {} /\ UNCHANGED config /\ jobs <= jobs' /\ calls <= calls'
       /\ jobs' = jobs /\ calls' = calls
  BY Counts
<1>11. /\ \A n \in NoOf(j2) : n \in NoOf(job[w]) \/ n > jobs
       /\ \A n \in CallsOf(j2) : n \in CallsOf(job[w]) \/ n > calls
  BY <1>6
<1>12. \A n \in 1..calls : n \notin OpenOf(job[w]) => charged'[n] = charged[n]
  BY <1>5, <1>8
<1>13. SoundJob(j2, jobs', calls', charged')
  BY <1>6, <1>10
<1>14. Steps(w, j2, {})
  BY <1>7, <1>9, <1>10, <1>11, <1>12, <1>13 DEF Steps, OneCharged
<1> QED BY <1>14, WorkerSteps

(* The worker's job is over, and leaves rows of its calls.                 *)
LEMMA JobsLeaveRows ==
  ASSUME CInv, NEW w \in Workers, job[w] # None, JobOver(w),
         NEW rows, log' = log \cup rows,
         UNCHANGED <<config, jobs, calls>>,
         UNCHANGED charged \/ (Calling(w) /\ Charge(job[w].call)),
         \A r \in rows : RowOfJob(r, job[w], calls, charged') /\ r.call \in CallsOf(job[w])
  PROVE  CInv'
<1>1. /\ SoundJob(job[w], jobs, calls, charged) /\ jobs \in Nat /\ calls \in Nat
  BY Counts
<1>2. 1..calls \subseteq 1..MaxCalls
  BY Counts, CallsAssumption
<1>3. Calling(w) => /\ job[w].call.no \in 1..calls
                    /\ OpenOf(job[w]) = {job[w].call.no}
  BY <1>1 DEF Calling, SoundJob, CallOfJob, OpenOf
<1>4. /\ charged' \in [1..MaxCalls -> Nat]
      /\ \A n \in 1..MaxCalls : n \notin OpenOf(job[w]) => charged'[n] = charged[n]
      /\ \A n \in 1..MaxCalls : n > calls => charged'[n] = charged[n]
  <2>1. CASE UNCHANGED charged
    BY <2>1, Counts
  <2>2. CASE Calling(w) /\ Charge(job[w].call)
    <3> PICK n : n = job[w].call.no
      OBVIOUS
    <3>1. charged' = [charged EXCEPT ![n] = @ + 1] /\ n \in 1..calls /\ OpenOf(job[w]) = {n}
      BY <1>3, <2>2 DEF Charge
    <3> QED BY <1>2, <3>1, Counts
  <2> QED BY <2>1, <2>2
<1>5. Counted(jobs', calls', charged')
  BY <1>4, Counts DEF Counted, CInv
<1>6. NoOf(None) = {} /\ CallsOf(None) = {}
  BY DEF NoOf, CallsOf
<1>7. \A n \in 1..calls : n \notin OpenOf(job[w]) => charged'[n] = charged[n]
  BY <1>2, <1>4
<1>8. jobs <= jobs' /\ calls <= calls' /\ calls' = calls
  BY Counts
<1>9. job' = [job EXCEPT ![w] = None] /\ UNCHANGED config
  BY DEF JobOver
<1>10. \A r \in rows : RowOfJob(r, job[w], calls', charged') /\ r.call \in CallsOf(job[w])
  BY <1>8
<1>11. Steps(w, None, rows)
  BY <1>5, <1>6, <1>7, <1>8, <1>9, <1>10 DEF Steps, OneCharged
<1> QED BY <1>11, WorkerSteps
-----------------------------------------------------------------------------
(* The actions.                                                            *)

LEMMA MappedSites ==
  ASSUME NEW site, site.models \in Sites, site.secrets \subseteq {"openai", "anthropic"}
  PROVE  /\ FromMapping(site).models \in Sites
         /\ \A entry \in ConfiguredModels(FromMapping(site)) :
              entry.provider \in {"auto", "anthropic"} /\ entry.model \in Models
<1> USE CallsAssumption
<1> DEFINE openai == FirstSet(<<site.models["OPENAI_MODEL"], DefaultOpenAi>>)
           anthropic == FirstSet(<<site.models["ANTHROPIC_MODEL"], DefaultAnthropic>>)
<1>1. DefaultOpenAi \in Models /\ DefaultAnthropic \in Models /\ SweepModel \in Models
      /\ DefaultOpenAi # None /\ DefaultAnthropic # None
  OBVIOUS
<1>2. /\ site.models["OPENAI_MODEL"] \in Models \cup {None}
      /\ site.models["ANTHROPIC_MODEL"] \in Models \cup {None}
  BY DEF Sites, SiteKeys
<1>3. openai \in Models /\ anthropic \in Models
  BY <1>1, <1>2, FirstOfTwo
<1> PICK mapped : mapped = FromMapping(site)
  OBVIOUS
<1>4. mapped.models = [site.models EXCEPT !["OPENAI_MODEL"] = openai, !["ANTHROPIC_MODEL"] = anthropic]
  BY DEF FromMapping
<1> HIDE DEF openai, anthropic
<1>5. mapped.models \in Sites /\ mapped.models["ANTHROPIC_MODEL"] \in Models
  BY <1>2, <1>3, <1>4 DEF Sites, SiteKeys
<1>6. ASSUME NEW entry \in ConfiguredModels(mapped)
      PROVE  entry.provider \in {"auto", "anthropic"} /\ entry.model \in Models
  <2>1. CASE \E purpose \in Purposes :
               entry = [provider |-> "auto", model |-> ResolveModel(mapped, purpose, "auto")]
    <3> PICK purpose \in Purposes :
               entry = [provider |-> "auto", model |-> ResolveModel(mapped, purpose, "auto")]
      BY <2>1
    <3> QED BY <1>5, EveryPurposeHasAModel
  <2>2. CASE entry = [provider |-> "auto", model |-> SweepModel]
    BY <1>1, <2>2
  <2>3. CASE entry = [provider |-> "anthropic", model |-> mapped.models["ANTHROPIC_MODEL"]]
    BY <1>5, <2>3
  <2> QED BY <2>1, <2>2, <2>3 DEF ConfiguredModels
<1> QED BY <1>5, <1>6

(* A job that begins.                                                      *)
LEMMA JobsBegin ==
  ASSUME CInv, NEW w \in Workers, job[w] = None, jobs' = jobs + 1,
         UNCHANGED <<config, calls, charged, log>>,
         NEW kind \in Kinds, NEW provider, NEW site, site.models \in Sites, NEW asked,
         asked # None => /\ kind = "sweep"
                         /\ \A purpose \in Measured : ResolveModel(site, purpose, provider) = asked,
         job' = [job EXCEPT ![w] = NewJob(kind, provider, site, asked)]
  PROVE  CInv'
<1> PICK j2 : j2 = NewJob(kind, provider, site, asked)
  OBVIOUS
<1>1. /\ DOMAIN j2 = JobFields /\ j2.no = jobs + 1 /\ j2.kind = kind /\ j2.site = site
      /\ j2.provider = provider /\ j2.asked = asked /\ j2.call = None
      /\ j2.buffer = {} /\ j2.rows = {}
  BY DEF NewJob, JobFields
<1>2. jobs \in Nat /\ calls \in Nat /\ jobs' = jobs + 1 /\ calls' = calls
  BY Counts
<1>3. SoundJob(j2, jobs', calls', charged')
  <2>1. j2.no \in 1..(jobs + 1)
    BY <1>1, <1>2
  <2>2. \A purpose : Routed(j2, purpose) = ResolveModel(site, purpose, provider)
    BY <1>1 DEF Routed
  <2> QED BY <1>1, <1>2, <2>1, <2>2 DEF SoundJob
<1>4. Counted(jobs', calls', charged')
  BY <1>2, Counts
<1>5. /\ \A n \in NoOf(j2) : n > jobs
      /\ CallsOf(j2) = {}
  BY <1>1, <1>2 DEF NoOf, CallsOf, OpenOf
<1>6. jobs <= jobs' /\ calls <= calls' /\ log' = log \cup {} /\ charged' = charged
      /\ UNCHANGED config /\ job' = [job EXCEPT ![w] = j2]
  BY <1>2
<1>7. Steps(w, j2, {})
  BY <1>3, <1>4, <1>5, <1>6 DEF Steps, OneCharged
<1> QED BY <1>7, WorkerSteps

LEMMA StartJobKeeps ==
  ASSUME CInv, NEW w \in Workers, StartJob(w)
  PROVE  CInv'
<1> PICK site : site = FromMapping(config)
  OBVIOUS
<1>1. /\ site.models \in Sites
      /\ \A entry \in ConfiguredModels(site) :
           entry.provider \in {"auto", "anthropic"} /\ entry.model \in Models
  BY MappedSites DEF CInv
<1>2. Jobs \subseteq Kinds
  BY CallsAssumption DEF Kinds
<1>3. job[w] = None /\ jobs' = jobs + 1 /\ UNCHANGED <<config, calls, charged, log>>
  BY DEF StartJob
<1>4. ASSUME NEW kind \in Jobs \ {"sweep"},
             job' = [job EXCEPT ![w] = NewJob(kind, "auto", site, None)]
      PROVE  CInv'
  BY <1>1, <1>2, <1>3, <1>4, JobsBegin
<1>5. ASSUME "sweep" \in Jobs, NEW entry \in ConfiguredModels(site),
             job' = [job EXCEPT ![w] =
               NewJob("sweep", entry.provider, PinModels(site, entry.provider, entry.model), entry.model)]
      PROVE  CInv'
  <2> PICK provider, model : provider = entry.provider /\ model = entry.model
    OBVIOUS
  <2>1. provider \in {"auto", "anthropic"} /\ model \in Models
    BY <1>1
  <2> PICK pinned : pinned = PinModels(site, provider, model)
    OBVIOUS
  <2>2. /\ pinned.models \in Sites
        /\ \A purpose \in Measured : ResolveModel(pinned, purpose, provider) = model
    BY <1>1, <2>1, PinsHold DEF Measured
  <2>3. "sweep" \in Kinds
    BY DEF Kinds
  <2>4. job' = [job EXCEPT ![w] = NewJob("sweep", provider, pinned, model)]
    BY <1>5
  <2> QED BY <1>3, <2>2, <2>3, <2>4, JobsBegin
<1> QED BY <1>4, <1>5 DEF StartJob

LEMMA StartCallKeeps ==
  ASSUME CInv, NEW w \in Workers, StartCall(w)
  PROVE  CInv'
<1> PICK j : /\ j = job[w] /\ j # None
             /\ j.call = None /\ HasClient(j) /\ j.step \in DOMAIN Plan(j.kind)
             /\ calls < MaxCalls /\ calls' = calls + 1
             /\ \E model \in {ClientFor(j, Plan(j.kind)[j.step])} :
                  Continue(w,
                    Request([no |-> calls + 1, purpose |-> Plan(j.kind)[j.step],
                             model |-> model, answeredAs |-> model,
                             params |-> {}, attempt |-> 0, dropped |-> FALSE,
                             turn |-> 1, usage |-> 0, transcript |-> <<>>, ran |-> EmptyBag],
                            w, j))
             /\ UNCHANGED <<config, changes, learned, jobs, charged, log>>
  BY DEF StartCall
<1> PICK purpose : purpose = Plan(j.kind)[j.step]
  OBVIOUS
<1> PICK model : model = ClientFor(j, purpose)
  OBVIOUS
<1> PICK c : c = Request([no |-> calls + 1, purpose |-> purpose,
                          model |-> model, answeredAs |-> model,
                          params |-> {}, attempt |-> 0, dropped |-> FALSE,
                          turn |-> 1, usage |-> 0, transcript |-> <<>>, ran |-> EmptyBag],
                         w, j)
  OBVIOUS
<1>1. /\ SoundJob(j, jobs, calls, charged) /\ jobs \in Nat /\ calls \in Nat
  BY Counts
<1>2. purpose \in Purposes /\ (j.kind = "sweep" => purpose \in Measured)
  <2>1. j.kind \in Kinds /\ j.step \in DOMAIN Plan(j.kind)
    BY <1>1 DEF SoundJob
  <2>2. CASE j.kind \in {"receipt", "sweep"}
    <3>1. Plan(j.kind) = <<"extract", "classify">>
      BY <2>2 DEF Plan
    <3>2. j.step \in 1..2
      BY <2>1, <3>1
    <3>3. j.step = 1 \/ j.step = 2
      BY <3>2
    <3> QED BY <3>1, <3>3 DEF Purposes, Measured
  <2>3. CASE j.kind = "line"
    <3>1. Plan(j.kind) = <<"classify", "classify">>
      BY <2>3 DEF Plan
    <3>2. j.step \in 1..2
      BY <2>1, <3>1
    <3>3. j.step = 1 \/ j.step = 2
      BY <3>2
    <3> QED BY <2>3, <3>1, <3>3 DEF Purposes
  <2>4. CASE j.kind = "layout"
    BY <2>1, <2>4 DEF Plan, Purposes
  <2>5. CASE j.kind = "note"
    <3>1. Plan(j.kind) = <<"question", "question">>
      BY <2>5 DEF Plan
    <3>2. j.step \in 1..2
      BY <2>1, <3>1
    <3>3. j.step = 1 \/ j.step = 2
      BY <3>2
    <3> QED BY <2>5, <3>1, <3>3 DEF Purposes
  <2>6. CASE j.kind = "question"
    BY <2>1, <2>6 DEF Plan, Purposes
  <2> QED BY <2>1, <2>2, <2>3, <2>4, <2>5, <2>6 DEF Kinds
<1>3. model = Routed(j, purpose)
  <2>1. Known(purpose) = purpose
    BY <1>2 DEF Known
  <2>2. GetClient(j.site, j.provider) = [q \in Purposes |-> ResolveModel(j.site, q, j.provider)]
    BY DEF HasClient, GetClient
  <2> QED BY <1>2, <2>1, <2>2 DEF ClientFor, Routed
<1>4. /\ DOMAIN c = CallFields
      /\ c.no = calls + 1 /\ c.purpose = purpose /\ c.model = model /\ c.usage = 0
  BY DEF Request, CallFields
<1> PICK j2 : j2 = [j EXCEPT !.call = c]
  OBVIOUS
<1>5. /\ DOMAIN j2 = JobFields /\ j2.call = c
      /\ j2.no = j.no /\ j2.kind = j.kind /\ j2.site = j.site /\ j2.provider = j.provider
      /\ j2.asked = j.asked /\ j2.buffer = j.buffer /\ j2.rows = j.rows
  BY <1>1 DEF SoundJob, JobFields
<1>6. /\ jobs' = jobs /\ calls' = calls + 1 /\ charged' = charged /\ log' = log \cup {}
      /\ UNCHANGED config /\ job' = [job EXCEPT ![w] = j2]
  BY DEF Continue
<1>7. /\ MaxCalls \in Nat /\ calls + 1 \in 1..MaxCalls /\ calls + 1 \in Nat
      /\ charged[calls + 1] = 0 /\ calls + 1 > calls /\ calls <= calls + 1
  <2>1. MaxCalls \in Nat
    BY CallsAssumption
  <2>2. calls + 1 \in 1..MaxCalls /\ calls + 1 > calls /\ calls <= calls + 1
    BY <1>1, <2>1
  <2>3. charged[calls + 1] = 0
    BY <2>2, Counts DEF Counted
  <2> QED BY <1>1, <2>1, <2>2, <2>3
<1>8. \A q : Routed(j2, q) = Routed(j, q)
  BY <1>5 DEF Routed
<1>9. CallOfJob(c, j2, calls + 1, charged)
  <2>1. calls + 1 \in 1..(calls + 1)
    BY <1>1
  <2> QED BY <1>2, <1>3, <1>4, <1>5, <1>7, <1>8, <2>1 DEF CallOfJob
<1>10. ASSUME NEW r \in j.buffer \cup j.rows
       PROVE  RowOfJob(r, j2, calls + 1, charged) /\ r.call \notin OpenOf(j2)
  <2>1. RowOfJob(r, j, calls, charged)
    BY <1>1 DEF SoundJob
  <2>2. r.call \in 1..calls
    BY <2>1 DEF RowOfJob
  <2>3. r.call \in 1..(calls + 1) /\ r.call # calls + 1
    BY <1>1, <2>2
  <2>4. RowOfJob(r, j2, calls + 1, charged)
    BY <1>5, <1>8, <2>1, <2>3 DEF RowOfJob
  <2> QED BY <1>4, <1>5, <2>3, <2>4 DEF OpenOf
<1>11. SoundJob(j2, jobs, calls + 1, charged)
  <2>1. /\ j.no \in 1..jobs /\ j.kind \in Kinds /\ j.site.models \in Sites
        /\ j.asked # None => j.kind = "sweep" /\ \A q \in Measured : Routed(j, q) = j.asked
    BY <1>1 DEF SoundJob
  <2>2. /\ j2.no \in 1..jobs /\ j2.kind \in Kinds /\ j2.site.models \in Sites
        /\ j2.asked # None => j2.kind = "sweep" /\ \A q \in Measured : Routed(j2, q) = j2.asked
    BY <1>5, <1>8, <2>1
  <2> QED BY <1>5, <1>9, <1>10, <2>2 DEF SoundJob
<1>12. Counted(jobs, calls + 1, charged)
  <2>1. calls + 1 <= MaxCalls
    BY <1>7
  <2>2. \A n \in 1..MaxCalls : n > calls + 1 => n > calls
    BY <1>1
  <2> QED BY <1>7, <2>1, <2>2, Counts DEF Counted
<1>13. /\ NoOf(j2) \subseteq NoOf(job[w])
       /\ \A n \in CallsOf(j2) : n \in CallsOf(job[w]) \/ n = calls + 1
  <2>1. NoOf(j2) \subseteq NoOf(j)
    BY <1>5 DEF NoOf
  <2>2. OpenOf(j2) \subseteq {calls + 1}
    BY <1>4, <1>5 DEF OpenOf
  <2>3. \A n \in CallsOf(j2) : n \in OpenOf(j2) \/ \E r \in j.buffer \cup j.rows : n = r.call
    BY <1>5 DEF CallsOf
  <2>4. \A r \in j.buffer \cup j.rows : r.call \in CallsOf(j)
    BY <1>5 DEF CallsOf
  <2>5. \A n \in CallsOf(j2) : n \in CallsOf(j) \/ n = calls + 1
    BY <2>2, <2>3, <2>4
  <2> QED BY <2>1, <2>5
<1>14. jobs <= jobs
  BY <1>1
<1>15. Steps(w, j2, {})
  BY <1>6, <1>7, <1>11, <1>12, <1>13, <1>14 DEF Steps, OneCharged
<1> QED BY <1>15, WorkerSteps
(* Rows a job carries stay sound while its open call is charged for.       *)
LEMMA RowsStay ==
  ASSUME NEW j, NEW js, NEW cs, NEW ch, NEW ch2, SoundJob(j, js, cs, ch), j # None,
         OneCharged(j, cs, ch, ch2), NEW r \in j.buffer \cup j.rows
  PROVE  RowOfJob(r, j, cs, ch2) /\ r.call \in CallsOf(j)
<1>1. RowOfJob(r, j, cs, ch) /\ r.call \notin OpenOf(j)
  BY DEF SoundJob
<1>2. ch2[r.call] = ch[r.call]
  BY <1>1 DEF OneCharged, RowOfJob
<1> QED BY <1>1, <1>2 DEF RowOfJob, CallsOf

(* A call that failed: its job survives it, or ends and leaves its rows.   *)
LEMMA RaiseKeeps ==
  ASSUME CInv, NEW w \in Workers, Calling(w), NEW class,
         Raise(w, job[w], job[w].call, class),
         UNCHANGED <<config, jobs, calls>>,
         UNCHANGED charged \/ Charge(job[w].call)
  PROVE  CInv'
<1> PICK j : j = job[w]
  OBVIOUS
<1>1. /\ SoundJob(j, jobs, calls, charged) /\ j # None /\ j.call # None
      /\ jobs \in Nat /\ calls \in Nat
  BY Counts DEF Calling
<1>2. /\ OpenOf(j) = {j.call.no} /\ j.call.no \in CallsOf(j)
      /\ j.call.no \in 1..calls /\ 1..calls \subseteq 1..MaxCalls
  <2>1. OpenOf(j) = {j.call.no} /\ j.call.no \in CallsOf(j)
    BY <1>1 DEF OpenOf, CallsOf
  <2>2. j.call.no \in 1..calls
    BY <1>1 DEF SoundJob, CallOfJob
  <2> QED BY <2>1, <2>2, Counts, CallsAssumption
<1>3. OneCharged(j, calls, charged, charged')
  <2>1. CASE UNCHANGED charged
    BY <2>1 DEF OneCharged
  <2>2. CASE Charge(j.call)
    <3>1. \A n \in 1..MaxCalls : n # j.call.no => charged'[n] = charged[n]
      BY <2>2, Counts DEF Charge
    <3> QED BY <1>2, <3>1 DEF OneCharged
  <2> QED BY <2>1, <2>2
<1> PICK rows : rows = (IF class = "unexpected" THEN {} ELSE {Row(j, j.call, FALSE)})
  OBVIOUS
<1>4. \A r \in rows : RowOfJob(r, j, calls, charged') /\ r.call = j.call.no
  BY <1>1, FailedRows
<1> PICK kept \in Inserted(rows) :
       IF Survives(j.kind, class)
       THEN job' = [job EXCEPT ![w] = Emit(j, rows, kept)] /\ UNCHANGED log
       ELSE /\ JobOver(w)
            /\ log' = IF Commits(j.kind) THEN log \cup j.rows \cup kept ELSE log
  BY DEF Raise
<1>5. kept \in SUBSET rows
  BY DEF Inserted
<1>6. CASE Survives(j.kind, class)
  <2>1. job' = [job EXCEPT ![w] = Emit(job[w], rows, kept)] /\ UNCHANGED <<config, jobs, calls, log>>
    BY <1>6
  <2>2. \A r \in rows : RowOfJob(r, job[w], calls, charged') /\ r.call = job[w].call.no
    BY <1>4
  <2>3. UNCHANGED charged \/ Charge(job[w].call)
    OBVIOUS
  <2> QED BY <1>5, <2>1, <2>2, <2>3, CallsEndWell
<1>7. CASE ~Survives(j.kind, class)
  <2> PICK left : left = (IF Commits(j.kind) THEN j.rows \cup kept ELSE {})
    OBVIOUS
  <2>1. log' = log \cup left /\ JobOver(w)
    BY <1>7
  <2>2. ASSUME NEW r \in left
        PROVE  RowOfJob(r, j, calls, charged') /\ r.call \in CallsOf(j)
    <3>1. CASE r \in j.rows
      BY <1>1, <1>3, <3>1, RowsStay
    <3>2. CASE r \in kept
      BY <1>2, <1>4, <1>5, <3>2
    <3> QED BY <3>1, <3>2
  <2> QED BY <1>1, <2>1, <2>2, JobsLeaveRows
<1> QED BY <1>6, <1>7

(* What is sent again, without a parameter or not, is the same call.       *)
LEMMA RetryKeeps ==
  ASSUME CInv, NEW w \in Workers, Retry(w) \/ DropParameter(w)
  PROVE  CInv'
<1>1. Calling(w) /\ UNCHANGED <<config, jobs, calls, charged, log>>
  BY DEF Retry, DropParameter
<1>2. PICK call : call = job[w].call
  OBVIOUS
<1>3. DOMAIN call = CallFields
  BY <1>1, <1>2, Counts DEF Calling, SoundJob, CallOfJob
<1>4. CASE Retry(w)
  <2> PICK c : c = Again(call)
    OBVIOUS
  <2>1. /\ DOMAIN c = CallFields /\ c.no = call.no /\ c.purpose = call.purpose
        /\ c.model = call.model /\ c.usage = call.usage
    BY <1>3 DEF Again, CallFields
  <2>2. Continue(w, c)
    BY <1>2, <1>4 DEF Retry
  <2> QED BY <1>1, <1>2, <2>1, <2>2, CallsGoOn
<1>5. CASE DropParameter(w)
  <2> PICK name : Continue(w, Without(call, name))
    BY <1>2, <1>5 DEF DropParameter
  <2> PICK c : c = Without(call, name)
    OBVIOUS
  <2>1. /\ DOMAIN c = CallFields /\ c.no = call.no /\ c.purpose = call.purpose
        /\ c.model = call.model /\ c.usage = call.usage
    BY <1>3 DEF Without, CallFields
  <2>2. Continue(w, c)
    OBVIOUS
  <2> QED BY <1>1, <1>2, <2>1, <2>2, CallsGoOn
<1> QED BY <1>4, <1>5

(* A response that ends the call.                                          *)
LEMMA DoneKeeps ==
  ASSUME CInv, NEW w \in Workers, Calling(w), Charge(job[w].call),
         NEW c, c.no = job[w].call.no, c.purpose = job[w].call.purpose,
         c.model = job[w].call.model, c.usage = job[w].call.usage + 1,
         c.answeredAs \in Answering[c.model],
         Done(w, job[w], c), UNCHANGED <<config, jobs, calls, log>>
  PROVE  CInv'
<1> PICK j : j = job[w]
  OBVIOUS
<1>1. /\ SoundJob(j, jobs, calls, charged) /\ j # None /\ j.call # None
      /\ jobs \in Nat /\ calls \in Nat
  BY Counts DEF Calling
<1>2. j.call.no \in 1..calls /\ j.call.usage = charged[j.call.no] /\ 1..calls \subseteq 1..MaxCalls
  <2>1. CallOfJob(j.call, j, calls, charged)
    BY <1>1 DEF SoundJob
  <2> QED BY <2>1, Counts, CallsAssumption DEF CallOfJob
<1>3. c.usage = charged'[c.no]
  BY <1>2, Counts DEF Charge
<1>4. RowOfJob(Row(j, c, TRUE), j, calls, charged') /\ Row(j, c, TRUE).call = j.call.no
  <2>1. IsRead(c, j, charged')
    BY <1>3 DEF IsRead
  <2>2. SoundJob(j, jobs, calls, charged) /\ j.call # None
    BY <1>1
  <2>3. RowOfJob(Row(j, c, TRUE), j, calls, charged')
    BY <2>1, <2>2, PaidRows
  <2>4. Row(j, c, TRUE).call = j.call.no
    BY DEF Row
  <2> QED BY <2>3, <2>4
<1> PICK rows : rows = {Row(j, c, TRUE)}
  OBVIOUS
<1> PICK kept \in Inserted(rows) : job' = [job EXCEPT ![w] = Emit(j, rows, kept)]
  BY DEF Done
<1>5. kept \in SUBSET rows
  BY DEF Inserted
<1>6. \A r \in rows : RowOfJob(r, j, calls, charged') /\ r.call = j.call.no
  BY <1>4
<1> QED BY <1>5, <1>6, CallsEndWell

LEMMA AnswersKeep ==
  ASSUME CInv, NEW w \in Workers, StructuredAnswer(w) \/ ToolsAnswer(w)
  PROVE  CInv'
<1>1. Calling(w) /\ Charge(job[w].call) /\ UNCHANGED <<config, jobs, calls, log>>
  BY DEF StructuredAnswer, ToolsAnswer
<1> PICK call : call = job[w].call
  OBVIOUS
<1>2. DOMAIN call = CallFields
  BY <1>1, Counts DEF Calling, SoundJob, CallOfJob
<1>3. \A id : LET c == Read(call, id)
              IN /\ DOMAIN c = CallFields /\ c.no = call.no /\ c.purpose = call.purpose
                 /\ c.model = call.model /\ c.usage = call.usage + 1 /\ c.answeredAs = id
  BY <1>2 DEF Read, CallFields
<1>4. CASE StructuredAnswer(w)
  <2> PICK id \in Answering[call.model] : Done(w, job[w], Read(call, id))
    BY <1>4 DEF StructuredAnswer
  <2> PICK c : c = Read(call, id)
    OBVIOUS
  <2>1. /\ c.no = call.no /\ c.purpose = call.purpose
        /\ c.model = call.model /\ c.usage = call.usage + 1 /\ c.answeredAs = id
    BY <1>3
  <2> QED BY <1>1, <2>1, DoneKeeps
<1>5. CASE ToolsAnswer(w)
  <2> PICK id \in Answering[call.model], names \in Uses :
       LET j == job[w]
           read == Read(call, id)
           uses == [i \in DOMAIN names |-> ToolCall(read.turn, i, names[i])]
           next == [read EXCEPT !.transcript = @ \o Messages(j.provider, uses),
                                !.ran = @ (+) Runs(ToSet(uses)),
                                !.turn = @ + 1]
       IN IF uses = <<>> \/ read.turn = MaxTurns
          THEN Done(w, j, IF uses = <<>> THEN read ELSE next)
          ELSE Continue(w, Request(next, w, j))
    BY <1>5 DEF ToolsAnswer
  <2> PICK j : j = job[w]
    OBVIOUS
  <2> PICK read : read = Read(call, id)
    OBVIOUS
  <2> PICK uses : uses = [i \in DOMAIN names |-> ToolCall(read.turn, i, names[i])]
    OBVIOUS
  <2> PICK transcript, ran : /\ transcript = read.transcript \o Messages(j.provider, uses)
                             /\ ran = read.ran (+) Runs(ToSet(uses))
    OBVIOUS
  <2> PICK next : next = [read EXCEPT !.transcript = transcript, !.ran = ran, !.turn = @ + 1]
    OBVIOUS
  <2>1. IF uses = <<>> \/ read.turn = MaxTurns
        THEN Done(w, j, IF uses = <<>> THEN read ELSE next)
        ELSE Continue(w, Request(next, w, j))
    OBVIOUS
  <2>2. /\ DOMAIN read = CallFields /\ read.no = call.no /\ read.purpose = call.purpose
        /\ read.model = call.model /\ read.usage = call.usage + 1 /\ read.answeredAs = id
    BY <1>3
  <2>3. /\ DOMAIN next = CallFields /\ next.no = call.no /\ next.purpose = call.purpose
        /\ next.model = call.model /\ next.usage = call.usage + 1 /\ next.answeredAs = id
    BY <2>2 DEF CallFields
  <2> PICK c : c = Request(next, w, j)
    OBVIOUS
  <2>4. /\ DOMAIN c = CallFields /\ c.no = call.no /\ c.purpose = call.purpose
        /\ c.model = call.model /\ c.usage = call.usage + 1
    BY <2>3 DEF Request, CallFields
  <2>5. CASE Done(w, j, read)
    BY <1>1, <2>2, <2>5, DoneKeeps
  <2>6. CASE Done(w, j, next)
    BY <1>1, <2>3, <2>6, DoneKeeps
  <2>7. CASE Continue(w, c)
    BY <1>1, <2>4, <2>7, CallsGoOn
  <2> QED BY <2>1, <2>5, <2>6, <2>7
<1> QED BY <1>4, <1>5

(* The buffered rows of a receipt get its proposal's name, and no other.   *)
LEMMA FinishJobKeeps ==
  ASSUME CInv, NEW w \in Workers, FinishJob(w)
  PROVE  CInv'
<1> PICK j : /\ j = job[w] /\ j # None /\ JobOver(w)
             /\ \E kept \in Inserted(Flushed(j)) : log' = log \cup j.rows \cup kept
             /\ UNCHANGED <<config, changes, learned, jobs, calls, charged>>
  BY DEF FinishJob
<1> PICK kept \in Inserted(Flushed(j)) : log' = log \cup j.rows \cup kept
  OBVIOUS
<1>1. SoundJob(j, jobs, calls, charged)
  BY Counts
<1>2. OneCharged(j, calls, charged, charged)
  BY DEF OneCharged
<1>3. \A r \in j.buffer \cup j.rows : RowOfJob(r, j, calls, charged) /\ r.call \in CallsOf(j)
  BY <1>1, <1>2, RowsStay
<1>4. ASSUME NEW r \in kept
      PROVE  RowOfJob(r, j, calls, charged) /\ r.call \in CallsOf(j)
  <2> PICK row \in j.buffer : r = [row EXCEPT !.proposal = j.no]
    BY DEF Flushed, Inserted
  <2>1. RowOfJob(row, j, calls, charged) /\ row.call \in CallsOf(j) /\ DOMAIN row = RowFields
    BY <1>3 DEF RowOfJob
  <2>2. /\ DOMAIN r = RowFields /\ r.call = row.call /\ r.job = row.job /\ r.purpose = row.purpose
        /\ r.model = row.model /\ r.cost = row.cost /\ r.ok = row.ok
    BY <2>1 DEF RowFields
  <2> QED BY <2>1, <2>2 DEF RowOfJob
<1>5. log' = log \cup (j.rows \cup kept)
  OBVIOUS
<1>6. \A r \in j.rows \cup kept : RowOfJob(r, job[w], calls, charged') /\ r.call \in CallsOf(job[w])
  BY <1>3, <1>4
<1> QED BY <1>5, <1>6, JobsLeaveRows

LEMMA CallsInitHolds == CallsInit => CInv
<1> SUFFICES ASSUME CallsInit PROVE CInv
  OBVIOUS
<1> USE CallsAssumption DEF CallsInit
<1>1. config.models \in Sites /\ config.secrets \subseteq {"openai", "anthropic"}
  BY DEF Sites
<1>2. Counted(jobs, calls, charged)
  BY DEF Counted
<1>3. SoundJobs(job, jobs, calls, charged)
  BY DEF SoundJobs, NoOf, CallsOf
<1>4. SoundLog(job, jobs, calls, charged, log)
  BY DEF SoundLog
<1> QED BY <1>1, <1>2, <1>3, <1>4 DEF CInv

LEMMA CallsStep == CInv /\ [CallsNext]_callsVars => CInv'
<1> SUFFICES ASSUME CInv, [CallsNext]_callsVars PROVE CInv'
  OBVIOUS
<1>1. ASSUME NEW w \in Workers, StartJob(w) PROVE CInv'
  BY <1>1, StartJobKeeps
<1>2. ASSUME NEW w \in Workers, StartCall(w) PROVE CInv'
  BY <1>2, StartCallKeeps
<1>3. ASSUME NEW w \in Workers, RequestEnds(w) PROVE CInv'
  <2>1. CASE Retry(w) \/ DropParameter(w)
    BY <2>1, RetryKeeps
  <2>2. CASE RequestFails(w)
    <3> PICK class : Raise(w, job[w], job[w].call, class)
      BY <2>2 DEF RequestFails
    <3>1. Calling(w) /\ UNCHANGED <<config, jobs, calls, charged>>
      BY <2>2 DEF RequestFails
    <3> QED BY <3>1, RaiseKeeps
  <2>3. CASE BadAnswer(w)
    <3>1. /\ Calling(w) /\ Charge(job[w].call) /\ UNCHANGED <<config, jobs, calls>>
          /\ Raise(w, job[w], job[w].call, "LlmSchemaError")
      BY <2>3 DEF BadAnswer
    <3> QED BY <3>1, RaiseKeeps
  <2>4. CASE StructuredAnswer(w) \/ ToolsAnswer(w)
    BY <2>4, AnswersKeep
  <2> QED BY <1>3, <2>1, <2>2, <2>3, <2>4 DEF RequestEnds
<1>4. ASSUME NEW w \in Workers, FinishJob(w) PROVE CInv'
  BY <1>4, FinishJobKeeps
<1>5. ASSUME NEW w \in Workers, JobFails(w) \/ ProcessEnds(w) PROVE CInv'
  <2>1. /\ JobOver(w) /\ UNCHANGED <<config, jobs, calls, charged, log>>
    BY <1>5 DEF JobFails, ProcessEnds
  <2>2. charged' \in [1..MaxCalls -> Nat] /\ \A n \in 1..MaxCalls : charged'[n] = charged[n]
    BY <2>1, Counts
  <2> QED BY <2>1, <2>2, JobsEnd
<1>6. CASE Configure
  <2>1. /\ config' \in Configs /\ UNCHANGED <<job, jobs, calls, charged, log>>
    BY <1>6 DEF Configure
  <2>2. config'.models \in Sites /\ config'.secrets \subseteq {"openai", "anthropic"}
    BY <2>1, CallsAssumption DEF Sites
  <2> QED BY <2>1, <2>2 DEF CInv
<1>7. CASE UNCHANGED callsVars
  BY <1>7 DEF callsVars, CInv
<1> QED BY <1>1, <1>2, <1>3, <1>4, <1>5, <1>6, <1>7 DEF CallsNext

LEMMA CallsAreSound == CallsSpec => []CInv
BY CallsInitHolds, CallsStep, PTL DEF CallsSpec

(* The row of a call that succeeded costs what the provider delivered for  *)
(* it, at the rate of the model that answered: nothing is charged to a     *)
(* call once its row is written, whatever was repeated before.             *)
THEOREM RowsArePaidFor == CallsSpec => []OkRowsArePaidFor
<1>1. CInv => OkRowsArePaidFor
  BY DEF CInv, SoundLog, OkRowsArePaidFor
<1> QED BY <1>1, CallsAreSound, PTL

(* A job asks one model for each purpose, whatever becomes of the site     *)
(* config while it runs, and a sweep the model it measures.                *)
THEOREM ModelsAreKept == CallsSpec => []JobsKeepTheirModels
<1>1. CInv => JobsKeepTheirModels
  <2> SUFFICES ASSUME CInv PROVE JobsKeepTheirModels
    OBVIOUS
  <2>1. \A row, other \in log :
          row.job = other.job /\ row.purpose = other.purpose
            => Family[row.model] = Family[other.model]
    BY DEF CInv, SoundLog
  <2>2. ASSUME NEW w \in Workers, job[w] # None, NEW row \in job[w].buffer, job[w].asked # None
        PROVE  Family[row.model] = job[w].asked
    <3>1. SoundJob(job[w], jobs, calls, charged)
      BY <2>2, Counts
    <3>2. RowOfJob(row, job[w], calls, charged)
      BY <3>1 DEF SoundJob
    <3>3. /\ job[w].kind = "sweep"
          /\ \A purpose \in Measured : Routed(job[w], purpose) = job[w].asked
      BY <2>2, <3>1 DEF SoundJob
    <3> QED BY <3>2, <3>3 DEF RowOfJob
  <2> QED BY <2>1, <2>2 DEF JobsKeepTheirModels
<1> QED BY <1>1, CallsAreSound, PTL

(* What was said in the turns of a call before the one it is at.           *)
Called == [turn : Nat, i : Nat, name : UNION {ToSet(names) : names \in Uses}]
Spoken == [role : {"call", "output"}, use : Called]

CallsInOrder(said) ==
  \A i, k \in DOMAIN said :
    i < k /\ said[i].role = said[k].role => Before(said[i].use, said[k].use)

CallsHaveOutputs(said) ==
  \A i \in DOMAIN said : \E k \in DOMAIN said :
    i <= k /\ said[k] = Message("output", said[i].use)

Conversation(said) == said \in Seq(Spoken) /\ CallsInOrder(said) /\ CallsHaveOutputs(said)

OpenTalk(c) ==
  /\ c.turn \in Nat
  /\ Conversation(c.transcript)
  /\ \A i \in DOMAIN c.transcript : c.transcript[i].use.turn < c.turn
  /\ c.ran = Runs(Shown(c.transcript, "output"))

TalksAreSound == \A w \in Workers : Calling(w) => OpenTalk(job[w].call)

LEMMA ShownIs ==
  ASSUME NEW said, NEW party, NEW use
  PROVE  use \in Shown(said, party) <=> \E i \in DOMAIN said : said[i].role = party /\ said[i].use = use
BY DEF Shown

LEMMA ShownWithin ==
  ASSUME NEW said, NEW party, NEW uses,
         \A i \in DOMAIN said : said[i].role = party => said[i].use \in uses
  PROVE  Shown(said, party) \subseteq uses
BY DEF Shown

LEMMA ShownWhole ==
  ASSUME NEW said, NEW party, NEW uses,
         \A use \in uses : \E i \in DOMAIN said : said[i].role = party /\ said[i].use = use
  PROVE  uses \subseteq Shown(said, party)
BY DEF Shown

(* A later turn is said after the others.                                  *)
LEMMA AnotherTurn ==
  ASSUME NEW said, NEW more, Conversation(said), Conversation(more), NEW turn \in Nat,
         \A i \in DOMAIN said : said[i].use.turn < turn,
         \A i \in DOMAIN more : more[i].use.turn = turn
  PROVE  /\ Conversation(said \o more)
         /\ \A i \in DOMAIN (said \o more) : (said \o more)[i].use.turn < turn + 1
         /\ Shown(said \o more, "output") = Shown(said, "output") \cup Shown(more, "output")
<1>1. PICK all : all = said \o more
  OBVIOUS
<1>2. PICK n, m : n = Len(said) /\ m = Len(more)
  OBVIOUS
<1>3. said \in Seq(Spoken) /\ more \in Seq(Spoken)
  BY DEF Conversation
<1>4. /\ n \in Nat /\ m \in Nat
      /\ DOMAIN said = 1..n /\ DOMAIN more = 1..m
      /\ \A i \in 1..n : said[i] \in Spoken
  BY <1>3, <1>2
<1>5. all \in Seq(Spoken)
  BY <1>3, <1>1
<1>6. /\ DOMAIN all = 1..(n + m)
      /\ \A i \in 1..n : all[i] = said[i]
      /\ \A i \in (n + 1)..(n + m) : all[i] = more[i - n]
  BY <1>3, <1>1, <1>2
<1>7. \A i \in 1..n : said[i].use.turn \in Nat
  BY <1>4 DEF Spoken, Called
<1>8. \A i \in 1..(n + m) : i \in 1..n \/ (i \in (n + 1)..(n + m) /\ i - n \in 1..m)
  BY <1>4
<1>9. \A i \in 1..m : i + n \in (n + 1)..(n + m) /\ (i + n) - n = i
  BY <1>4
<1>10. \A i \in 1..m : all[i + n] = more[i]
  BY <1>6, <1>9
<1>11. \A i \in DOMAIN all : all[i].use.turn < turn + 1
  <2> SUFFICES ASSUME NEW i \in 1..(n + m) PROVE all[i].use.turn < turn + 1
    BY <1>6
  <2>1. CASE i \in 1..n
    <3>1. all[i].use.turn < turn /\ all[i].use.turn \in Nat
      BY <1>4, <1>6, <1>7, <2>1
    <3> QED BY <3>1
  <2>2. CASE i \in (n + 1)..(n + m) /\ i - n \in 1..m
    BY <1>4, <1>6, <2>2
  <2> QED BY <1>8, <2>1, <2>2
<1>12. CallsInOrder(all)
  <2> SUFFICES ASSUME NEW i \in 1..(n + m), NEW k \in 1..(n + m), i < k, all[i].role = all[k].role
               PROVE  Before(all[i].use, all[k].use)
    BY <1>6 DEF CallsInOrder
  <2>1. CASE k \in 1..n
    <3>1. i \in 1..n
      BY <1>4, <2>1
    <3> QED BY <1>4, <1>6, <2>1, <3>1 DEF Conversation, CallsInOrder
  <2>2. CASE k \in (n + 1)..(n + m) /\ k - n \in 1..m
    <3>1. all[k] = more[k - n]
      BY <1>6, <2>2
    <3>2. CASE i \in 1..n
      <4>1. all[i].use.turn < turn /\ all[k].use.turn = turn
        BY <1>4, <1>6, <2>2, <3>1, <3>2
      <4> QED BY <4>1 DEF Before
    <3>3. CASE i \in (n + 1)..(n + m) /\ i - n \in 1..m
      <4>1. all[i] = more[i - n] /\ i - n < k - n
        BY <1>4, <1>6, <2>2, <3>3
      <4> QED BY <1>4, <2>2, <3>1, <3>3, <4>1 DEF Conversation, CallsInOrder
    <3> QED BY <1>8, <3>2, <3>3
  <2> QED BY <1>8, <2>1, <2>2
<1>13. CallsHaveOutputs(all)
  <2> SUFFICES ASSUME NEW i \in 1..(n + m)
               PROVE  \E k \in 1..(n + m) : i <= k /\ all[k] = Message("output", all[i].use)
    BY <1>6 DEF CallsHaveOutputs
  <2>1. CASE i \in 1..n
    <3> PICK k \in 1..n : i <= k /\ said[k] = Message("output", said[i].use)
      BY <1>4, <2>1 DEF Conversation, CallsHaveOutputs
    <3>1. k \in 1..(n + m)
      BY <1>4
    <3> QED BY <1>6, <2>1, <3>1
  <2>2. CASE i \in (n + 1)..(n + m) /\ i - n \in 1..m
    <3> PICK k \in 1..m : i - n <= k /\ more[k] = Message("output", more[i - n].use)
      BY <1>4, <2>2 DEF Conversation, CallsHaveOutputs
    <3>1. k + n \in 1..(n + m) /\ i <= k + n
      BY <1>4
    <3> QED BY <1>6, <1>10, <2>2, <3>1
  <2> QED BY <1>8, <2>1, <2>2
<1>14. Shown(all, "output") = Shown(said, "output") \cup Shown(more, "output")
  <2> DEFINE both == Shown(said, "output") \cup Shown(more, "output")
  <2>1. \A i \in DOMAIN said : said[i].role = "output" => said[i].use \in Shown(said, "output")
    BY ShownIs
  <2>2. \A i \in DOMAIN more : more[i].role = "output" => more[i].use \in Shown(more, "output")
    BY ShownIs
  <2>3. ASSUME NEW i \in DOMAIN all, all[i].role = "output" PROVE all[i].use \in both
    <3>1. CASE i \in 1..n
      BY <1>4, <1>6, <2>1, <2>3, <3>1
    <3>2. CASE i \in (n + 1)..(n + m) /\ i - n \in 1..m
      BY <1>4, <1>6, <2>2, <2>3, <3>2
    <3> QED BY <1>6, <1>8, <3>1, <3>2
  <2>4. Shown(all, "output") \subseteq both
    <3> HIDE DEF both
    <3> QED BY <2>3, ShownWithin
  <2>5. ASSUME NEW i \in DOMAIN said, said[i].role = "output" PROVE said[i].use \in Shown(all, "output")
    <3>1. i \in DOMAIN all /\ all[i] = said[i]
      BY <1>4, <1>6
    <3> QED BY <2>5, <3>1, ShownIs
  <2>6. ASSUME NEW i \in DOMAIN more, more[i].role = "output" PROVE more[i].use \in Shown(all, "output")
    <3>1. i + n \in DOMAIN all /\ all[i + n] = more[i]
      BY <1>4, <1>6, <1>10
    <3> QED BY <2>6, <3>1, ShownIs
  <2>7. Shown(said, "output") \subseteq Shown(all, "output")
    BY <2>5, ShownWithin
  <2>8. Shown(more, "output") \subseteq Shown(all, "output")
    BY <2>6, ShownWithin
  <2> QED BY <2>4, <2>7, <2>8
<1> QED BY <1>1, <1>11, <1>12, <1>13, <1>14, <1>5 DEF Conversation

(* What a round says, and of what.                                         *)
LEMMA MessageIs ==
  ASSUME NEW party, NEW use
  PROVE  /\ Message(party, use).role = party /\ Message(party, use).use = use
         /\ party \in {"call", "output"} /\ use \in Called => Message(party, use) \in Spoken
BY DEF Message, Spoken

LEMMA ToolCallIs ==
  ASSUME NEW turn \in Nat, NEW i \in Nat, NEW names \in Uses, NEW name \in ToSet(names)
  PROVE  /\ ToolCall(turn, i, name).turn = turn /\ ToolCall(turn, i, name).i = i
         /\ ToolCall(turn, i, name) \in Called
BY DEF ToolCall, Called

(* A round in which each message is of one call, which is the use at its   *)
(* place in of.                                                            *)
UsesOfRound(turn, uses, n) ==
  /\ n \in Nat /\ DOMAIN uses = 1..n
  /\ \A i \in 1..n : uses[i] \in Called /\ uses[i].turn = turn /\ uses[i].i = i

RoundOf(turn, uses, n, more, size, of, party) ==
  /\ UsesOfRound(turn, uses, n) /\ size \in Nat
  /\ \A k \in 1..size : of[k] \in 1..n /\ party[k] \in {"call", "output"}
  /\ more = [k \in 1..size |-> more[k]]
  /\ \A k \in 1..size : more[k] = Message(party[k], uses[of[k]])
  /\ \A i, k \in 1..size : i < k /\ party[i] = party[k] => of[i] < of[k]
  /\ \A i \in 1..size : \E k \in 1..size : i <= k /\ of[k] = of[i] /\ party[k] = "output"
  /\ \A i \in 1..n : \E k \in 1..size : of[k] = i /\ party[k] = "output"

LEMMA RoundIs ==
  ASSUME NEW turn, NEW uses, NEW n, NEW more, NEW size, NEW of, NEW party,
         RoundOf(turn, uses, n, more, size, of, party)
  PROVE  /\ Conversation(more)
         /\ \A i \in DOMAIN more : more[i].use.turn = turn
         /\ Shown(more, "output") = ToSet(uses)
<1>1. \A k \in 1..size : /\ more[k] = Message(party[k], uses[of[k]])
                         /\ of[k] \in 1..n /\ party[k] \in {"call", "output"}
  BY DEF RoundOf
<1>2. DOMAIN more = 1..size /\ DOMAIN uses = 1..n
  BY DEF RoundOf, UsesOfRound
<1>3. \A i \in 1..n : uses[i] \in Called /\ uses[i].turn = turn /\ uses[i].i = i
  BY DEF RoundOf, UsesOfRound
<1>4. ASSUME NEW k \in 1..size
      PROVE  more[k].role = party[k] /\ more[k].use = uses[of[k]] /\ more[k] \in Spoken
  <2>1. /\ more[k] = Message(party[k], uses[of[k]])
        /\ party[k] \in {"call", "output"} /\ uses[of[k]] \in Called
    BY <1>1, <1>3
  <2> QED BY <2>1, MessageIs
<1>5. more \in Seq(Spoken)
  <2>1. more = [k \in 1..size |-> more[k]] /\ size \in Nat
    BY DEF RoundOf
  <2>2. more \in [1..size -> Spoken]
    BY <1>4, <2>1
  <2> QED BY <2>1, <2>2
<1>6. CallsInOrder(more)
  <2> SUFFICES ASSUME NEW i \in 1..size, NEW k \in 1..size, i < k, more[i].role = more[k].role
               PROVE  Before(more[i].use, more[k].use)
    BY <1>2 DEF CallsInOrder
  <2>1. PICK v, u : v = uses[of[i]] /\ u = uses[of[k]]
    OBVIOUS
  <2>2. more[i].use = v /\ more[k].use = u /\ party[i] = party[k]
    BY <1>4, <2>1
  <2>3. of[i] < of[k]
    BY <2>2 DEF RoundOf
  <2>4. v.turn = turn /\ u.turn = turn /\ v.i = of[i] /\ u.i = of[k]
    BY <1>1, <1>3, <2>1
  <2> QED BY <2>2, <2>3, <2>4 DEF Before
<1>7. CallsHaveOutputs(more)
  <2> SUFFICES ASSUME NEW i \in 1..size
               PROVE  \E k \in 1..size : i <= k /\ more[k] = Message("output", more[i].use)
    BY <1>2 DEF CallsHaveOutputs
  <2>1. PICK k \in 1..size : i <= k /\ of[k] = of[i] /\ party[k] = "output"
    BY DEF RoundOf
  <2>2. more[k] = Message("output", uses[of[i]])
    BY <1>1, <2>1
  <2> QED BY <1>4, <2>1, <2>2
<1>8. \A i \in DOMAIN more : more[i].use.turn = turn
  <2> SUFFICES ASSUME NEW i \in 1..size PROVE more[i].use.turn = turn
    BY <1>2
  <2>1. more[i].use = uses[of[i]] /\ uses[of[i]].turn = turn
    BY <1>1, <1>3, <1>4
  <2> QED BY <2>1
<1>9. ToSet(uses) = {uses[i] : i \in 1..n}
  BY <1>2 DEF ToSet
<1>10. Shown(more, "output") \subseteq ToSet(uses)
  <2>1. \A k \in DOMAIN more : more[k].use \in ToSet(uses)
    BY <1>1, <1>2, <1>4, <1>9
  <2> QED BY <2>1, ShownWithin
<1>11. ToSet(uses) \subseteq Shown(more, "output")
  <2>1. ASSUME NEW use \in ToSet(uses)
        PROVE  \E k \in DOMAIN more : more[k].role = "output" /\ more[k].use = use
    <3>1. PICK i \in 1..n : use = uses[i]
      BY <1>9
    <3>2. PICK k \in 1..size : of[k] = i /\ party[k] = "output"
      BY DEF RoundOf
    <3>3. more[k].role = "output" /\ more[k].use = use
      BY <1>4, <3>1, <3>2
    <3> QED BY <1>2, <3>3
  <2> QED BY <2>1, ShownWhole
<1> QED BY <1>5, <1>6, <1>7, <1>8, <1>10, <1>11 DEF Conversation

LEMMA TwoHalves ==
  ASSUME NEW S, NEW f \in Seq(S), NEW g \in Seq(S), NEW n \in Nat, Len(f) = n, Len(g) = n
  PROVE  f \o g = [k \in 1..(n + n) |-> IF k <= n THEN f[k] ELSE g[k - n]]
<1>1. f \o g \in Seq(S) /\ Len(f \o g) = n + n
  OBVIOUS
<1>2. f \o g = [k \in 1..(n + n) |-> (f \o g)[k]]
  <2>1. \A s \in Seq(S) : s \in [1..Len(s) -> S]
    OBVIOUS
  <2>2. f \o g \in [1..(n + n) -> S]
    BY <1>1, <2>1
  <2> QED BY <2>2
<1>3. ASSUME NEW k \in 1..(n + n) PROVE (f \o g)[k] = IF k <= n THEN f[k] ELSE g[k - n]
  OBVIOUS
<1> QED BY <1>2, <1>3

LEMMA CallsThenOutputs ==
  ASSUME NEW n \in Nat, NEW uses, DOMAIN uses = 1..n
  PROVE  AsCalls(uses) \o AsOutputs(uses)
           = [k \in 1..(n + n) |-> IF k <= n THEN Message("call", uses[k])
                                            ELSE Message("output", uses[k - n])]
<1>1. PICK f, g : f = AsCalls(uses) /\ g = AsOutputs(uses)
  OBVIOUS
<1>2. PICK S : S = {Message("call", uses[i]) : i \in 1..n} \cup {Message("output", uses[i]) : i \in 1..n}
  OBVIOUS
<1>3. /\ f = [i \in 1..n |-> Message("call", uses[i])]
      /\ g = [i \in 1..n |-> Message("output", uses[i])]
  BY <1>1 DEF AsCalls, AsOutputs
<1>4. f \in [1..n -> S] /\ g \in [1..n -> S]
  BY <1>2, <1>3
<1>5. f \in Seq(S) /\ g \in Seq(S) /\ Len(f) = n /\ Len(g) = n
  BY <1>4
<1>6. f \o g = [k \in 1..(n + n) |-> IF k <= n THEN f[k] ELSE g[k - n]]
  BY <1>5, TwoHalves
<1>7. ASSUME NEW k \in 1..(n + n)
      PROVE  (IF k <= n THEN f[k] ELSE g[k - n])
               = IF k <= n THEN Message("call", uses[k]) ELSE Message("output", uses[k - n])
  <2>1. k <= n => k \in 1..n
    OBVIOUS
  <2>2. ~(k <= n) => k - n \in 1..n
    OBVIOUS
  <2> QED BY <1>3, <2>1, <2>2
<1> QED BY <1>1, <1>6, <1>7

CallsFirst(more, uses, n, size) ==
  /\ more = [k \in 1..size |-> more[k]]
  /\ \A k \in 1..size :
       more[k] = IF k <= n THEN Message("call", uses[k]) ELSE Message("output", uses[k - n])

LEMMA AnthropicSays ==
  ASSUME NEW n \in Nat, NEW uses, DOMAIN uses = 1..n, NEW provider, Adapter(provider) # "openai",
         NEW more, more = Messages(provider, uses)
  PROVE  CallsFirst(more, uses, n, n + n)
<1>1. more = AsCalls(uses) \o AsOutputs(uses)
  BY DEF Messages
<1>2. PICK said : said = [k \in 1..(n + n) |-> IF k <= n THEN Message("call", uses[k])
                                                      ELSE Message("output", uses[k - n])]
  OBVIOUS
<1>3. AsCalls(uses) \o AsOutputs(uses) = said
  BY <1>2, CallsThenOutputs
<1>4. more = said
  BY <1>1, <1>3
<1> QED BY <1>2, <1>4 DEF CallsFirst

(* The providers other than OpenAI say the calls of a round and then the   *)
(* outputs of all of them.                                                 *)
LEMMA AnthropicRound ==
  ASSUME NEW n, NEW turn, NEW uses, UsesOfRound(turn, uses, n),
         NEW provider, Adapter(provider) # "openai",
         NEW more, more = Messages(provider, uses)
  PROVE  /\ Conversation(more)
         /\ \A i \in DOMAIN more : more[i].use.turn = turn
         /\ Shown(more, "output") = ToSet(uses)
<1>1. n \in Nat /\ DOMAIN uses = 1..n
  BY DEF UsesOfRound
<1>2. PICK size : size = n + n
  OBVIOUS
<1>3. PICK of : of = [k \in 1..size |-> IF k <= n THEN k ELSE k - n]
  OBVIOUS
<1>4. PICK party : party = [k \in 1..size |-> IF k <= n THEN "call" ELSE "output"]
  OBVIOUS
<1>5. /\ more = [k \in 1..size |-> more[k]]
      /\ \A k \in 1..size :
           more[k] = IF k <= n THEN Message("call", uses[k]) ELSE Message("output", uses[k - n])
  <2>1. CallsFirst(more, uses, n, n + n)
    BY <1>1, AnthropicSays
  <2> QED BY <1>2, <2>1 DEF CallsFirst
<1>6. \A k \in 1..size : more[k] = Message(party[k], uses[of[k]])
  BY <1>3, <1>4, <1>5
<1>7. \A k \in 1..size : of[k] \in 1..n /\ party[k] \in {"call", "output"}
  BY <1>1, <1>2, <1>3, <1>4
<1>8. ASSUME NEW i \in 1..size, NEW k \in 1..size, i < k, party[i] = party[k] PROVE of[i] < of[k]
  BY <1>1, <1>2, <1>3, <1>4, <1>8
<1>9. ASSUME NEW i \in 1..n PROVE i + n \in 1..size /\ of[i + n] = i /\ party[i + n] = "output"
  <2>1. i + n \in 1..size /\ ~(i + n <= n) /\ (i + n) - n = i
    BY <1>1, <1>2
  <2> QED BY <1>3, <1>4, <2>1
<1>10. ASSUME NEW i \in 1..size
       PROVE  \E k \in 1..size : i <= k /\ of[k] = of[i] /\ party[k] = "output"
  <2>1. of[i] \in 1..n
    BY <1>7
  <2>2. i <= of[i] + n
    BY <1>1, <1>2, <1>3
  <2> QED BY <1>9, <2>1, <2>2
<1>11. \A i \in 1..n : \E k \in 1..size : of[k] = i /\ party[k] = "output"
  BY <1>9
<1>12. size \in Nat
  BY <1>1, <1>2
<1>13. RoundOf(turn, uses, n, more, size, of, party)
  BY <1>5, <1>6, <1>7, <1>8, <1>10, <1>11, <1>12 DEF RoundOf
<1> QED BY <1>13, RoundIs

(* One round of calls, as either provider has it said.                     *)
LEMMA ARound ==
  ASSUME NEW names \in Uses, NEW turn \in Nat, NEW uses,
         uses = [i \in DOMAIN names |-> ToolCall(turn, i, names[i])],
         NEW provider, NEW more, more = Messages(provider, uses)
  PROVE  /\ Conversation(more)
         /\ \A i \in DOMAIN more : more[i].use.turn = turn
         /\ Shown(more, "output") = ToSet(uses)
<1> PICK n : n = Len(names)
  OBVIOUS
<1>1. n \in Nat /\ DOMAIN names = 1..n
  BY UsesAssumption
<1>2. \A i \in 1..n : names[i] \in ToSet(names)
  BY <1>1 DEF ToSet
<1>3. DOMAIN uses = 1..n /\ \A i \in 1..n : uses[i] = ToolCall(turn, i, names[i])
  BY <1>1
<1>4. \A i \in 1..n : uses[i] \in Called /\ uses[i].turn = turn /\ uses[i].i = i
  <2> SUFFICES ASSUME NEW i \in 1..n
               PROVE  uses[i] \in Called /\ uses[i].turn = turn /\ uses[i].i = i
    OBVIOUS
  <2>1. i \in Nat /\ names[i] \in ToSet(names) /\ uses[i] = ToolCall(turn, i, names[i])
    BY <1>1, <1>2, <1>3
  <2> PICK name : name = names[i]
    OBVIOUS
  <2>2. name \in ToSet(names) /\ uses[i] = ToolCall(turn, i, name)
    BY <2>1
  <2>3. /\ ToolCall(turn, i, name).turn = turn /\ ToolCall(turn, i, name).i = i
        /\ ToolCall(turn, i, name) \in Called
    BY <2>1, <2>2, ToolCallIs
  <2> QED BY <2>2, <2>3
<1>5. Len(uses) = n
  <2>1. uses \in [1..n -> Called]
    <3>1. uses = [i \in 1..n |-> uses[i]]
      BY <1>1
    <3> QED BY <1>4, <3>1
  <2> QED BY <1>1, <2>1
<1>6. UsesOfRound(turn, uses, n)
  BY <1>1, <1>3, <1>4 DEF UsesOfRound
<1>7. CASE Adapter(provider) = "openai"
  <2>a. PICK of : of = [k \in 1..(2 * n) |-> (k + 1) \div 2]
    OBVIOUS
  <2>b. PICK party : party = [k \in 1..(2 * n) |-> IF k % 2 = 1 THEN "call" ELSE "output"]
    OBVIOUS
  <2>c. PICK size : size = 2 * n
    OBVIOUS
  <2>0. size \in Nat
    BY <1>1, <2>c
  <2>1. more = [k \in 1..size |-> Message(IF k % 2 = 1 THEN "call" ELSE "output", uses[(k + 1) \div 2])]
    BY <1>5, <1>7, <2>c DEF Messages
  <2>2. \A k \in 1..size : /\ of[k] = (k + 1) \div 2
                           /\ party[k] = IF k % 2 = 1 THEN "call" ELSE "output"
    BY <2>a, <2>b, <2>c
  <2>3. more = [k \in 1..size |-> Message(party[k], uses[of[k]])] /\ DOMAIN more = 1..size
    BY <2>1, <2>2
  <2>4. \A k \in 1..size : of[k] \in 1..n /\ party[k] \in {"call", "output"}
    BY <1>1, <2>2, <2>c
  <2>5. ASSUME NEW i \in 1..size, NEW k \in 1..size, i < k, party[i] = party[k] PROVE of[i] < of[k]
    <3>1. (i % 2 = 1) <=> (k % 2 = 1)
      BY <2>2, <2>5
    <3>2. i \in Int /\ k \in Int
      BY <2>0
    <3>3. (i + 1) \div 2 < (k + 1) \div 2
      BY <2>5, <3>1, <3>2
    <3> QED BY <2>2, <3>3
  <2>6. ASSUME NEW i \in 1..n PROVE 2 * i \in 1..size /\ of[2 * i] = i /\ party[2 * i] = "output"
    <3>1. 2 * i \in 1..size /\ (2 * i + 1) \div 2 = i /\ (2 * i) % 2 # 1
      BY <1>1, <2>c
    <3> QED BY <2>2, <3>1
  <2>7. ASSUME NEW i \in 1..size
        PROVE  \E k \in 1..size : i <= k /\ of[k] = of[i] /\ party[k] = "output"
    <3>1. of[i] \in 1..n
      BY <2>4
    <3>2. i <= 2 * of[i]
      BY <2>0, <2>2
    <3> QED BY <2>6, <3>1, <3>2
  <2>8. \A i \in 1..n : \E k \in 1..size : of[k] = i /\ party[k] = "output"
    BY <2>6
  <2>9. RoundOf(turn, uses, n, more, size, of, party)
    BY <1>6, <2>0, <2>3, <2>4, <2>5, <2>7, <2>8 DEF RoundOf
  <2> QED BY <2>9, RoundIs
<1>8. CASE Adapter(provider) # "openai"
  BY <1>8, <1>6, AnthropicRound
<1> QED BY <1>7, <1>8

(* What ran is counted together: no tool call of a turn ran in another.    *)
LEMMA RunsAddUp ==
  ASSUME NEW A, NEW B, A \cap B = {}
  PROVE  Runs(A) (+) Runs(B) = Runs(A \cup B)
BY DEF Runs, SetToBag, (+)

LEMMA OpenTalkStarts ==
  ASSUME NEW c, c.turn = 1, c.transcript = <<>>, c.ran = EmptyBag
  PROVE  OpenTalk(c)
<1>1. Conversation(<<>>) /\ DOMAIN <<>> = {}
  BY DEF Conversation, CallsInOrder, CallsHaveOutputs
<1>2. Shown(<<>>, "output") = {}
  BY <1>1 DEF Shown
<1>3. Runs({}) = EmptyBag
  BY DEF Runs, SetToBag, EmptyBag
<1> QED BY <1>1, <1>2, <1>3 DEF OpenTalk

(* A turn is taken.                                                        *)
LEMMA OpenTalkGoesOn ==
  ASSUME NEW c, OpenTalk(c), NEW names \in Uses, NEW provider, NEW uses,
         uses = [i \in DOMAIN names |-> ToolCall(c.turn, i, names[i])],
         NEW next, next.turn = c.turn + 1,
         next.transcript = c.transcript \o Messages(provider, uses),
         next.ran = c.ran (+) Runs(ToSet(uses))
  PROVE  OpenTalk(next)
<1>1. PICK turn, said : turn = c.turn /\ said = c.transcript
  OBVIOUS
<1>2. PICK more : more = Messages(provider, uses)
  OBVIOUS
<1>3. /\ turn \in Nat /\ Conversation(said) /\ \A i \in DOMAIN said : said[i].use.turn < turn
      /\ c.ran = Runs(Shown(said, "output"))
  BY <1>1 DEF OpenTalk
<1>4. /\ Conversation(more) /\ \A i \in DOMAIN more : more[i].use.turn = turn
      /\ Shown(more, "output") = ToSet(uses)
  BY <1>1, <1>2, <1>3, ARound
<1>5. /\ Conversation(said \o more)
      /\ \A i \in DOMAIN (said \o more) : (said \o more)[i].use.turn < turn + 1
      /\ Shown(said \o more, "output") = Shown(said, "output") \cup Shown(more, "output")
  BY <1>3, <1>4, AnotherTurn
<1>6. Shown(said, "output") \cap Shown(more, "output") = {}
  <2> SUFFICES ASSUME NEW use \in Shown(said, "output"), use \in Shown(more, "output") PROVE FALSE
    OBVIOUS
  <2>1. PICK i \in DOMAIN said : said[i].use = use
    BY ShownIs
  <2>2. PICK k \in DOMAIN more : more[k].use = use
    BY ShownIs
  <2>3. use.turn < turn /\ use.turn = turn
    BY <1>3, <1>4, <2>1, <2>2
  <2> QED BY <1>3, <2>3
<1>7. next.ran = Runs(Shown(said \o more, "output"))
  BY <1>3, <1>4, <1>5, <1>6, RunsAddUp
<1>8. next.turn = turn + 1 /\ next.transcript = said \o more
  BY <1>1, <1>2
<1>9. next.turn \in Nat
  BY <1>3, <1>8
<1> QED BY <1>5, <1>7, <1>8, <1>9 DEF OpenTalk

(* Every conversation of an open call is of the turns before, whoever's    *)
(* step it is.                                                             *)
LEMMA TalksOf ==
  ASSUME TalksAreSound, NEW w \in Workers, NEW j2, DOMAIN job = Workers,
         job' = [job EXCEPT ![w] = j2],
         j2 # None /\ j2.call # None => OpenTalk(j2.call)
  PROVE  TalksAreSound'
<1> SUFFICES ASSUME NEW v \in Workers, job'[v] # None, job'[v].call # None
             PROVE  OpenTalk(job'[v].call)
  BY DEF TalksAreSound, Calling
<1>1. CASE v = w
  BY <1>1
<1>2. CASE v # w
  BY <1>2 DEF TalksAreSound, Calling
<1> QED BY <1>1, <1>2

LEMMA TalkOfRequest ==
  ASSUME NEW c, DOMAIN c = CallFields, OpenTalk(c), NEW w, NEW j
  PROVE  OpenTalk(Request(c, w, j))
<1>1. PICK c2 : c2 = Request(c, w, j)
  OBVIOUS
<1>2. c2.turn = c.turn /\ c2.transcript = c.transcript /\ c2.ran = c.ran
  BY <1>1 DEF Request, CallFields
<1> QED BY <1>1, <1>2 DEF OpenTalk

LEMMA TalkStep == CInv /\ TalksAreSound /\ [CallsNext]_callsVars => TalksAreSound'
<1> SUFFICES ASSUME CInv, TalksAreSound, [CallsNext]_callsVars PROVE TalksAreSound'
  OBVIOUS
<1>0. /\ DOMAIN job = Workers
      /\ \A w \in Workers : job[w] # None =>
           /\ DOMAIN job[w] = JobFields
           /\ job[w].call # None => DOMAIN job[w].call = CallFields
  BY Counts DEF SoundJob, CallOfJob
<1>a. ASSUME NEW w \in Workers, JobOver(w) PROVE TalksAreSound'
  BY <1>0, <1>a, TalksOf DEF JobOver
<1>b. ASSUME NEW w \in Workers, job[w] # None, NEW rows, NEW kept,
             job' = [job EXCEPT ![w] = Emit(job[w], rows, kept)]
      PROVE  TalksAreSound'
  <2>1. Emit(job[w], rows, kept).call = None
    BY <1>0, <1>b DEF Emit, JobFields
  <2> QED BY <1>0, <1>b, <2>1, TalksOf
<1>c. ASSUME NEW w \in Workers, job[w] # None, NEW c, Continue(w, c), OpenTalk(c)
      PROVE  TalksAreSound'
  <2>1. PICK j2 : j2 = [job[w] EXCEPT !.call = c]
    OBVIOUS
  <2>2. j2.call = c
    BY <1>0, <1>c, <2>1 DEF JobFields
  <2>3. job' = [job EXCEPT ![w] = j2]
    BY <1>c, <2>1 DEF Continue
  <2> QED BY <1>0, <1>c, <2>2, <2>3, TalksOf
<1>1. ASSUME NEW w \in Workers, StartJob(w) PROVE TalksAreSound'
  <2>1. \E kind, provider, site, asked :
          job' = [job EXCEPT ![w] = NewJob(kind, provider, site, asked)]
    BY <1>1 DEF StartJob
  <2>2. \A kind, provider, site, asked : NewJob(kind, provider, site, asked).call = None
    BY DEF NewJob
  <2>3. PICK kind, provider, site, asked :
          job' = [job EXCEPT ![w] = NewJob(kind, provider, site, asked)]
    BY <2>1
  <2>4. NewJob(kind, provider, site, asked).call = None
    BY <2>2, Zenon
  <2> QED BY <1>0, <2>3, <2>4, TalksOf
<1>2. ASSUME NEW w \in Workers, StartCall(w) PROVE TalksAreSound'
  <2>1. PICK j, purpose, model, c :
          /\ j = job[w] /\ j # None
          /\ c = [no |-> calls + 1, purpose |-> purpose,
                   model |-> model, answeredAs |-> model,
                   params |-> {}, attempt |-> 0, dropped |-> FALSE,
                   turn |-> 1, usage |-> 0, transcript |-> <<>>, ran |-> EmptyBag]
          /\ Continue(w, Request(c, w, j))
    BY <1>2 DEF StartCall
  <2>2. DOMAIN c = CallFields /\ c.turn = 1 /\ c.transcript = <<>> /\ c.ran = EmptyBag
    BY <2>1 DEF CallFields
  <2>3. OpenTalk(Request(c, w, j))
    BY <2>2, OpenTalkStarts, TalkOfRequest
  <2> QED BY <1>c, <2>1, <2>3
<1>3. ASSUME NEW w \in Workers, Retry(w) PROVE TalksAreSound'
  <2>1. Calling(w) /\ Continue(w, Again(job[w].call))
    BY <1>3 DEF Retry
  <2>2. PICK c, c2 : c = job[w].call /\ c2 = Again(c)
    OBVIOUS
  <2>3. DOMAIN c = CallFields /\ OpenTalk(c)
    BY <1>0, <2>1, <2>2 DEF Calling, TalksAreSound
  <2>4. c2.turn = c.turn /\ c2.transcript = c.transcript /\ c2.ran = c.ran
    BY <2>2, <2>3 DEF Again, CallFields
  <2>5. OpenTalk(c2)
    BY <2>3, <2>4 DEF OpenTalk
  <2> QED BY <1>c, <2>1, <2>2, <2>5 DEF Calling
<1>4. ASSUME NEW w \in Workers, DropParameter(w) PROVE TalksAreSound'
  <2>1. PICK name : Calling(w) /\ Continue(w, Without(job[w].call, name))
    BY <1>4 DEF DropParameter
  <2>2. PICK c, c2 : c = job[w].call /\ c2 = Without(c, name)
    OBVIOUS
  <2>3. DOMAIN c = CallFields /\ OpenTalk(c)
    BY <1>0, <2>1, <2>2 DEF Calling, TalksAreSound
  <2>4. c2.turn = c.turn /\ c2.transcript = c.transcript /\ c2.ran = c.ran
    BY <2>2, <2>3 DEF Without, CallFields
  <2>5. OpenTalk(c2)
    BY <2>3, <2>4 DEF OpenTalk
  <2> QED BY <1>c, <2>1, <2>2, <2>5 DEF Calling
<1>5. ASSUME NEW w \in Workers, NEW class, Calling(w), Raise(w, job[w], job[w].call, class)
      PROVE  TalksAreSound'
  <2>1. JobOver(w) \/ \E rows, kept : job' = [job EXCEPT ![w] = Emit(job[w], rows, kept)]
    BY <1>5 DEF Raise
  <2> QED BY <1>5, <1>a, <1>b, <2>1 DEF Calling
<1>6. ASSUME NEW w \in Workers, NEW c, Calling(w), Done(w, job[w], c) PROVE TalksAreSound'
  <2>1. \E rows, kept : job' = [job EXCEPT ![w] = Emit(job[w], rows, kept)]
    BY <1>6 DEF Done
  <2> QED BY <1>6, <1>b, <2>1 DEF Calling
<1>7. ASSUME NEW w \in Workers, ToolsAnswer(w) PROVE TalksAreSound'
  <2>1. PICK call, j : j = job[w] /\ call = job[w].call
    OBVIOUS
  <2>2. PICK id \in Answering[call.model], names \in Uses :
       LET read == Read(call, id)
           uses == [i \in DOMAIN names |-> ToolCall(read.turn, i, names[i])]
           next == [read EXCEPT !.transcript = @ \o Messages(j.provider, uses),
                                !.ran = @ (+) Runs(ToSet(uses)),
                                !.turn = @ + 1]
       IN IF uses = <<>> \/ read.turn = MaxTurns
          THEN Done(w, j, IF uses = <<>> THEN read ELSE next)
          ELSE Continue(w, Request(next, w, j))
    BY <1>7, <2>1 DEF ToolsAnswer
  <2>3. PICK read : read = Read(call, id)
    OBVIOUS
  <2>4. PICK uses : uses = [i \in DOMAIN names |-> ToolCall(read.turn, i, names[i])]
    OBVIOUS
  <2>5. PICK transcript, ran : /\ transcript = read.transcript \o Messages(j.provider, uses)
                               /\ ran = read.ran (+) Runs(ToSet(uses))
    OBVIOUS
  <2>6. PICK next : next = [read EXCEPT !.transcript = transcript, !.ran = ran, !.turn = @ + 1]
    OBVIOUS
  <2>7. IF uses = <<>> \/ read.turn = MaxTurns
        THEN Done(w, j, IF uses = <<>> THEN read ELSE next)
        ELSE Continue(w, Request(next, w, j))
    BY <2>2, <2>3, <2>4, <2>5, <2>6
  <2>8. Calling(w) /\ DOMAIN call = CallFields /\ OpenTalk(call)
    BY <1>0, <1>7, <2>1 DEF ToolsAnswer, Calling, TalksAreSound
  <2>9. /\ DOMAIN read = CallFields /\ read.turn = call.turn
        /\ read.transcript = call.transcript /\ read.ran = call.ran
    BY <2>3, <2>8 DEF Read, CallFields
  <2>10. /\ DOMAIN next = CallFields /\ next.turn = read.turn + 1
         /\ next.transcript = transcript /\ next.ran = ran
    BY <2>6, <2>9 DEF CallFields
  <2>11. OpenTalk(read)
    BY <2>8, <2>9 DEF OpenTalk
  <2>12. OpenTalk(next)
    BY <2>4, <2>5, <2>10, <2>11, OpenTalkGoesOn
  <2>13. OpenTalk(Request(next, w, j))
    BY <2>10, <2>12, TalkOfRequest
  <2>14. job[w] # None
    BY <2>8 DEF Calling
  <2> QED BY <1>6, <1>c, <2>1, <2>7, <2>8, <2>13, <2>14
<1>8. ASSUME NEW w \in Workers, RequestEnds(w) PROVE TalksAreSound'
  <2>1. CASE RequestFails(w)
    BY <1>5, <2>1 DEF RequestFails
  <2>2. CASE BadAnswer(w)
    BY <1>5, <2>2 DEF BadAnswer
  <2>3. CASE StructuredAnswer(w)
    BY <1>6, <2>3 DEF StructuredAnswer
  <2> QED BY <1>3, <1>4, <1>7, <1>8, <2>1, <2>2, <2>3 DEF RequestEnds
<1>9. ASSUME NEW w \in Workers, FinishJob(w) \/ JobFails(w) \/ ProcessEnds(w) PROVE TalksAreSound'
  BY <1>9, <1>a DEF FinishJob, JobFails, ProcessEnds
<1>10. CASE Configure \/ UNCHANGED callsVars
  BY <1>10 DEF Configure, callsVars, TalksAreSound, Calling
<1> QED BY <1>1, <1>2, <1>8, <1>9, <1>10 DEF CallsNext

(* However often a request is repeated, a tool call of the model ran once, *)
(* and the conversation shows it once and its output after it.             *)
THEOREM ToolsNeverRunAgain == CallsSpec => []ToolsRunOnce
<1>1. CallsInit => TalksAreSound
  BY DEF CallsInit, TalksAreSound, Calling
<1>2. TalksAreSound => ToolsRunOnce
  BY DEF TalksAreSound, OpenTalk, Conversation, CallsInOrder, CallsHaveOutputs, ToolsRunOnce
<1> QED BY <1>1, <1>2, TalkStep, CallsAreSound, PTL DEF CallsSpec
================================================================================
