\* Finding: the windows of a source do not reach the present.
SPECIFICATION Spec
CONSTANTS
  x1 = x1  x2 = x2  x3 = x3  x4 = x4  r1 = r1  r2 = r2
  b1 = "b1"  c1 = c1  c2 = c2  w1 = w1  w2 = w2
  BookAccounts <- MCAccounts
  NaturalKeys <- MCKeys
  References <- MCReferences
  Conversions <- MCConversions
  NoReference = NoReference  NoSource = NoSource  NoAccount = NoAccount  NoDay = NoDay
  Batches = {"b1", "b2"}
  Statements <- MCStatements
  Callers = {c1, c2}
  MaxCalls = 3
  Records <- MCRecords
  RecordIds <- MCRecordIds
  Terms <- MCTerms
  Pairs <- MCPairs
  Overlap = 1
  History = 4
  PageLimit = 2
  ConvertWindow = 2
  FiatWindow = 3
  MaxWindows = 3
  MaxPairs = 2
  Runners = {w1}
  StartDay = 10
  EndDay = 13
  EarliestMark = 5
  MaxConnections = 1
  Modes = {"binance"}
INVARIANT RecentAsked
SYMMETRY MCSymmetry
CHECK_DEADLOCK FALSE
