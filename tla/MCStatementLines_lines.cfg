SPECIFICATION Spec
CONSTANTS
  bankA = bankA  bankB = bankB
  out = out  in = in  pay = pay  fee = fee
  t1 = t1  t2 = t2  t3 = t3
  v1 = v1  v2 = v2  v3 = v3  v4 = v4
  p1 = p1  p2 = p2  i1 = i1
  None = None
  Lines = {out, in, pay, fee}
  Banks = {bankA, bankB}
  Attr <- Said
  Statements <- Files
  Rows = {t1, t2, t3}
  Vouchers = {v1, v2, v3}
  Proposals = {p1, p2}
  Invoices = {i1}
  Due <- AnInvoiceOf4
  DeskMoves <- MovesOfA
  Tolerance = 1
SYMMETRY Names
INVARIANTS
  AllocationsFit
  OneRowOneProposal
