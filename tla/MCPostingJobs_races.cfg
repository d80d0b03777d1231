SPECIFICATION Spec
CONSTANTS
  d1 = d1  p1 = p1
  v1 = v1  v2 = v2  v3 = v3
  acc = acc  r1 = r1  c1 = c1  a1 = a1  a2 = a2  w1 = w1  w2 = w2
  NoVoucher = NoVoucher
  Idle = Idle
  FirstCommitterWins = {TRUE, FALSE}
  Workers = {w1, w2}
  Sites = {1, 2}
  Accountants = {acc}
  Owners = {}
  Documents = {d1}
  Proposals = {p1}
  Vouchers = {v1, v2, v3}
  Rules = {r1}
  Contents = {c1}
  Accounts = {a1, a2}
  OwnerAccounts = {a1}
  OverCap = {}
  LastMonth = 1
SYMMETRY Names
INVARIANTS
  RowsAgree
  OverlapsPostOncePerWorker
PROPERTIES
  VerdictsAreFinal
  ImplementsBooks
