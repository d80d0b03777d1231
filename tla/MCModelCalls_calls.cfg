SPECIFICATION CallsSpec
CONSTANTS
  astra = astra
  terra = terra
  sonnet = sonnet
  astra_dated = astra_dated
  Reads = Reads
  Ghost = Ghost
  Workers = {w1, w2}
  Models = {astra, terra, sonnet}
  Configs <- Configs2
  Founders <- Choice
  DefaultOpenAi = terra
  DefaultAnthropic = sonnet
  SweepModel = terra
  Answering <- Names
  Family <- Begins
  Price <- Rates
  Refuses <- Rejects
  Jobs = {"receipt", "question", "line", "sweep"}
  Uses <- Called
  Tools = {Reads}
  MaxRetries = 1
  MaxTurns = 2
  MaxJobs = 2
  MaxCalls = 3
  MaxConfigs = 1
  None = None
INVARIANTS ToolsRunOnce OkRowsArePaidFor JobsKeepTheirModels
PROPERTIES CallsEnd
CHECK_DEADLOCK FALSE
