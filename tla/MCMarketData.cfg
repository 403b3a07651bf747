SPECIFICATION Spec
CONSTANTS
  p1 = p1
  p2 = p2
  cron = cron
  manual = manual
  request = request
  None = None
  Processes <- MCProcesses
  Tasks <- MCTasks
  Home <- MCHome
  MaxCharge = 1
  CreditsPerMinute = 1
  CreditsPerDay = 2
  MinutesPerDay = 2
  MaxMinute = 2
  MaxCrashes = 1
  Instruments = {i1}
  Crons = {cron}
  Manuals = {manual}
  Requests = {request}
  AskDates = {0, 2}
  FirstDay = 4
  WINDOW = 1
  OPPORTUNISTIC_BACKFILL_THRESHOLD = 1
  StoredBars <- MCStoredBars
  MaxJobs = 3
INVARIANTS
  DayQuotaKept
  MinuteOvershootBounded
  ChainServes
  RequestServed
  PriceCurrent
CHECK_DEADLOCK FALSE
