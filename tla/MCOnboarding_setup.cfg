SPECIFICATION Spec
CONSTANTS
  n1 = n1
  n2 = n2
  khan = khan
  Chats = {p}
  Companies = {c1}
  Banks = {khan}
  Currencies = {MNT, usd}
  MNT = MNT
  Numbers = {}
  NoNumber = NoNumber
  Suffix <- LastFour
  SubCodes = 1
  Orders <- Starts
  Sizes <- TwoLists
  MaxCodes = 1
  None = None
INVARIANTS QuestionsCanBeAnswered SummaryTellsTheLedger CompanyFollowsItsAnswers
 
CHECK_DEADLOCK FALSE
