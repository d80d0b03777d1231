------------------------------ MODULE StatementRows ------------------------------
(***************************************************************************)
(* Reading the rows of a bank statement through a column mapping, and what *)
(* the file itself says for or against the mapping: its running balance.   *)
(*                                                                         *)
(* A row has a date in its date column or has none, is a summary row or    *)
(* not, and carries money cells: the empty set when blank, else the number *)
(* that stands there.  A mapping says which column each role is read from. *)
(***************************************************************************)
EXTENDS Integers, Sequences, FiniteSets

MoneyRoles == {"debit", "credit", "amount", "balance"}

(* A role that is on no column.                                            *)
Unmapped == 0

(* date: no column, the column of dates, or another one.                   *)
MappingOver(columns) ==
  [date : {"none", "dates", "other"}, description : BOOLEAN,
   column : [MoneyRoles -> columns \cup {Unmapped}]]

(* read_rows: a row of a sheet, workbook or text alike, as far as layouts  *)
(* look at it.                                                             *)
RowOver(columns, amounts) ==
  [dated : BOOLEAN, summary : BOOLEAN, cell : [columns -> {{}} \cup {{n} : n \in amounts}]]

Maps(m, role) == m.column[role] # Unmapped

(* An import can read nothing without a date and some money.               *)
Importable(m) ==
  /\ m.date # "none"
  /\ \E role \in {"amount", "debit", "credit"} : Maps(m, role)

(* What a layout row must say, to be stored and to be applied to a file;   *)
(* its amount style is the sign of the amount column when it has one.      *)
Applicable(m) == Importable(m) /\ m.description

Cell(row, m, role) == IF Maps(m, role) THEN row.cell[m.column[role]] ELSE {}

Number(cell) == IF cell = {} THEN 0 ELSE CHOOSE n \in cell : TRUE

Abs(n) == IF n < 0 THEN -n ELSE n

Signed(m) == Maps(m, "amount")

Dated(row, m) == row.dated /\ m.date = "dates"

HasMoney(row, m) ==
  IF Signed(m) THEN Cell(row, m, "amount") # {}
  ELSE Number(Cell(row, m, "debit")) # 0 \/ Number(Cell(row, m, "credit")) # 0

(* Money in is positive, for either amount style.                          *)
AmountOf(row, m) ==
  IF Signed(m) THEN Number(Cell(row, m, "amount"))
  ELSE Abs(Number(Cell(row, m, "credit"))) - Abs(Number(Cell(row, m, "debit")))

(* A summary row is a line only when it carries money; for the signed      *)
(* style a line may be of 0, which is what _no_amount counts as none.      *)
IsLine(row, m) ==
  /\ Dated(row, m)
  /\ HasMoney(row, m)
  /\ row.summary => \E role \in {"amount", "debit", "credit"} :
                      /\ Signed(m) <=> role = "amount"
                      /\ Number(Cell(row, m, role)) # 0

LinesOf(rows, m) == {i \in DOMAIN rows : IsLine(rows[i], m)}

(* The line before line i.                                                 *)
IsBefore(rows, m, h, i) ==
  h \in LinesOf(rows, m) /\ h < i /\ \A j \in LinesOf(rows, m) : j < i => j <= h

(* The lines whose balance can be compared with the line before.           *)
Compared(rows, m) ==
  {i \in LinesOf(rows, m) :
     /\ Cell(rows[i], m, "balance") # {}
     /\ \E h \in LinesOf(rows, m) :
          IsBefore(rows, m, h, i) /\ Cell(rows[h], m, "balance") # {}}

Agreed(rows, m) ==
  {i \in Compared(rows, m) :
     \E h \in LinesOf(rows, m) :
       /\ IsBefore(rows, m, h, i)
       /\ Number(Cell(rows[i], m, "balance")) =
            Number(Cell(rows[h], m, "balance")) + AmountOf(rows[i], m)}

(* BALANCE_AGREEMENT: four in five.                                        *)
BalanceHolds(rows, m) ==
  10 * Cardinality(Agreed(rows, m)) >= 8 * Cardinality(Compared(rows, m))

(* LINE_SHARE: every other dated row is a line.                            *)
EnoughLines(rows, m) ==
  2 * Cardinality(LinesOf(rows, m)) >= Cardinality({i \in DOMAIN rows : Dated(rows[i], m)})

(* Mutant: the balance is printed on the card and asked nothing.           *)
BearsOut_NoBalance(rows, m) ==
  Applicable(m) /\ LinesOf(rows, m) # {} /\ EnoughLines(rows, m)

(* check_layout: whether the file bears the mapping out.                   *)
BearsOut(rows, m) ==
  /\ Applicable(m)
  /\ LinesOf(rows, m) # {}
  /\ BalanceHolds(rows, m)
  /\ EnoughLines(rows, m)
=============================================================================
