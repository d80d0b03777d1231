SPECIFICATION Spec
CONSTANTS
  a = a
  b = b
  fuel = fuel
  sales = sales
  outvat = outvat
  invat = invat
  payable = payable
  shop = shop
  ghost = ghost
  Companies = {a, b}
  Accounts = {fuel, sales, outvat, invat, payable}
  Suppliers = {shop}
  Names = {shop, ghost}
  Register <- Matched
  Chart <- Chart2
  RootType <- Roots
  OutputVat = outvat
  InputVat = invat
  Payable = payable
  VatPayers = {a}
  Digits <- FiguresOfNames
  ListLimit = 3
  EntryLimit = 3
  TopLimit = 1
  TrendMonths = 2
  Typo = Typo
  None = None
  Workers = {w1}
  Opening <- Books1
  Vouchers <- Later
  Proposals <- Proposed
  Requests <- Turns
  Texts <- Said
  FaqFigures = {777}
  LongNames = {}
  Poisoned = {}
  Start <- August
  TicksPerMonth = 1
  Ttl = 0
  MaxTurns = 2
  MaxRetries = 2
  MaxTicks = 1
  MaxUpdates = 2
  Previous = Previous
PROPERTIES FiguresAreTheBooks ContextNeverGoesBack QuestionsEnd
CHECK_DEADLOCK FALSE
