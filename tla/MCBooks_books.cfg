SPECIFICATION Spec
CONSTANTS
  d1 = d1  d2 = d2
  p1 = p1  p2 = p2  p3 = p3
  v1 = v1  v2 = v2  v3 = v3  v4 = v4
  acc = acc  own = own
  r1 = r1  r2 = r2  c1 = c1  c2 = c2  a1 = a1  a2 = a2
  NoVoucher = NoVoucher
  Accountants = {acc}
  Owners = {own}
  Documents = {d1}
  Proposals = {p1, p2, p3}
  Vouchers = {v1, v2, v3, v4}
  Rules = {r1}
  Contents = {c1, c2}
  Accounts = {a1, a2}
  OwnerAccounts = {a1}
  OverCap = {}
  LastMonth = 2
SYMMETRY Names
INVARIANTS
  OneEntryOneDecision
  RowsTellTheBooks
  ReversalsBalance
  OwnersPostOnlySimpleEntries
PROPERTIES
  DecisionsAreFinal
  LockedMonthIsSealed
  LockFreezesClearedEntriesOnly
  ImplementsLedger
