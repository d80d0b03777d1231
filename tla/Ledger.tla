------------------------------- MODULE Ledger -------------------------------
(***************************************************************************)
(* What the bookkeeping promises, without saying how: a journal to which   *)
(* entries are only ever added.  A source document is in the books at most *)
(* once at a time; a mistake is undone by a counter-entry, once, and never *)
(* by editing; a sealed month takes no further entry of either kind.       *)
(*                                                                         *)
(* Books implements this module; nothing here is read from the code.       *)
(***************************************************************************)
EXTENDS Naturals

CONSTANTS Sources,   \* the primary documents an entry can rest on
          Entries,   \* names an entry can be given
          NoEntry,   \* "this entry undoes nothing"; not one of Entries
          Months

VARIABLES journal,   \* the entries made so far, by name
          sealed     \* the months nothing may be added to

vars == <<journal, sealed>>

Entry == [source : Sources, month : Months, undoes : Entries \cup {NoEntry}]

TypeOK ==
  /\ DOMAIN journal \subseteq Entries
  /\ \A e \in DOMAIN journal : journal[e] \in Entry
  /\ sealed \subseteq Months

(* An entry that still counts: not a counter-entry, and not undone by one. *)
Counts(e) ==
  /\ journal[e].undoes = NoEntry
  /\ \A x \in DOMAIN journal : journal[x].undoes # e

Booked(s) == \E e \in DOMAIN journal : Counts(e) /\ journal[e].source = s

Append(e, row) ==
  journal' = [x \in DOMAIN journal \cup {e} |-> IF x = e THEN row ELSE journal[x]]

Init == journal = [e \in {} |-> NoEntry] /\ sealed = {}

Book(e, s, m) ==
  /\ e \notin DOMAIN journal
  /\ ~Booked(s)
  /\ m \notin sealed
  /\ Append(e, [source |-> s, month |-> m, undoes |-> NoEntry])
  /\ UNCHANGED sealed

Undo(e, x, m) ==
  /\ e \notin DOMAIN journal
  /\ x \in DOMAIN journal
  /\ Counts(x)
  /\ m \notin sealed
  /\ Append(e, [source |-> journal[x].source, month |-> m, undoes |-> x])
  /\ UNCHANGED sealed

Seal(m) == sealed' = sealed \cup {m} /\ UNCHANGED journal

Unseal(m) == sealed' = sealed \ {m} /\ UNCHANGED journal

Next ==
  \/ \E e \in Entries, s \in Sources, m \in Months : Book(e, s, m)
  \/ \E e, x \in Entries, m \in Months : Undo(e, x, m)
  \/ \E m \in Months : Seal(m) \/ Unseal(m)

Spec == Init /\ [][Next]_vars
=============================================================================
