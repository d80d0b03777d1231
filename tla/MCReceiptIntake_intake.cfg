SPECIFICATION Spec
CONSTANTS
  f1 = f1
  s = s
  t = t
  id = id
  Files = {f1, f2}
  Sellers = {s, t}
  Ids = {id}
  NoId = NoId
  Unknown = Unknown
  Nameless = Nameless
  NoPattern = NoPattern
  None = None
  Today = 3
  MaxTries = 1
  MaxCorrections = 3
  Codes <- Chart
  TypeOf <- Types
  RoleCode <- Roles
  AliasOf <- Aliases
  Preferred = "v03"
  DefaultCode = "6910"
  Patterns <- SeedPatterns
  Regimes <- History
  Rates <- VatRates
  Registry <- Truth
  RegistryName <- Printed
  ModelSays <- Sayings
  SeedRules <- Written
  Editable = {"6910"}
  Offered = {"6910", "1510"}
INVARIANTS DraftsAreSound NewSuppliersAreFlagged
PROPERTIES QueuedPhotosAreRead
CHECK_DEADLOCK FALSE
