SPECIFICATION FilesSpec
CONSTANTS
  f1 = f1  f2 = f2  x = x  A = A  B = B  u1 = u1  u2 = u2
  Nothing = Nothing
  Files = {f1, f2}
  Chats = {u1, u2}
  Companies = {A, B}
  Formats = {x}
  Mappings <- MCMappings
  TrueMapping <- MCTrueMapping
  CompanyOf <- TwoCompanies
  SenderOf <- MCSenderOf
  FormatOf <- MCFormatOf
  RowsOf <- MCRowsOf
  Keeps <- MCKeeps
  Linked <- MCLinked
  Breaks = TRUE
INVARIANTS
  SwapsAreCaught
PROPERTIES
  RewritesAreAskedAbout
  AcceptanceFindsAFile
