SPECIFICATION NotesSpec
CONSTANTS
  a = a
  b = b
  cash = cash
  bank = bank
  fuel = fuel
  rent = rent
  sales = sales
  gain = gain
  outvat = outvat
  invat = invat
  payable = payable
  shop = shop
  lord = lord
  atm = atm
  grain = grain
  rule = rule
  Companies = {a, b}
  Accounts <- Accounts9
  Suppliers = {shop, lord}
  Names = {shop, lord}
  Register <- Matched
  Chart <- Chart2
  RootType <- Roots
  OutputVat = outvat
  InputVat = invat
  Payable = payable
  VatPayers = {a}
  Digits <- FiguresOfNames
  ListLimit = 9
  EntryLimit = 9
  TopLimit = 2
  TrendMonths = 3
  Typo = Typo
  None = None
  CodeRoles <- Codes
  Configured <- Schemes
  Alias <- NoAlias
  CashTyped = {cash}
  Banks <- BanksOf
  LedgerOf <- LedgerOfBank
  Regimes <- History
  Cleared <- ClearedMonths
  Threshold = 100
  SpikeMin = 20
  VoucherLimit = 2
  PendingLimit = 2
  StockLimit = 2
  BooksFound <- Found1
  VouchersToCome <- Later
  Dates <- Days2
  Order <- Rows
  Chats = {a, b}
  Drafts <- Written
  MaxPasses = 2
  MaxFaults = 1
  MaxViews = 1
  MaxChanges = 2
INVARIANT ReportsAgree
PROPERTIES NotesTellTheDay EveryoneHearsOnce
CHECK_DEADLOCK FALSE
