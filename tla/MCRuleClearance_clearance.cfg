SPECIFICATION Spec
CONSTANTS
  A = A  B = B
  acc = acc  own = own
  r1 = r1  x = x  y = y  p1 = p1  p2 = p2
  NoCompany = NoCompany
  Chats = {acc, own}
  Companies = {A, B}
  Rules = {r1}
  Contents = {x, y}
  Drafted <- FirstContent
  Proposals = {p1, p2}
  CompanyOf <- OneEach
  RuleOf <- OneRule
  NeedsAccountant = {}
  OwnerSimple = {p1}
  Role <- Roles
  SiteAdmins = {own}
INVARIANTS
  EventsTellOnce
PROPERTIES
  AcceptedAsAsked
  PostsOnlyTheCleared
