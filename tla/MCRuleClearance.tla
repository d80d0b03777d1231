---------------------------- MODULE MCRuleClearance ----------------------------
(* Small instances of RuleClearance for TLC.                               *)
EXTENDS RuleClearance, TLC

CONSTANTS A, B, acc, own, r1, x, y, p1, p2

(* acc keeps the books of A, own owns A and keeps the books of B.          *)
Roles ==
  [c \in Chats |->
     [company \in Companies |->
        CASE c = own /\ company = A -> "Owner"
          [] c = acc /\ company = B -> "none"
          [] OTHER -> "Accountant"]]

(* p1 is A's, p2 is B's; all from one rule.                                *)
OneEach == [p \in Proposals |-> IF p = p1 THEN A ELSE B]

OneRule == [p \in Proposals |-> r1]

FirstContent == [r \in Rules |-> x]
=============================================================================
