\* One behaviour exercises one of the services, or a session.
SPECIFICATION ServicesSpec
CONSTANTS
  Tasks = {t1, t2, t3, t4, t5}
  Concurrency = 3
  None = None  rent = rent  cron = cron  mutation = mutation  user = user
  Templates = {rent}  Runners = {cron, mutation}  Editors = {user}
  NewRows <- MCNewRows  Changes <- MCChanges  MonthStart <- MCMonthStart
  Days = {27, 60}  MaxEdits = 1  MaxFaults = 1
  Commands <- MCCommands  ConnectTimeout = 3  CommandTimeout = 4  PingInterval = 2  IdleClose = 6
  Clients = {u1, u2}  Scopes = {"ALL", "EXPENSES"}  AccessOps <- MCAccessOps
  MaxTokens = 3  MaxPassword = 1  MaxSaves = 3
  r1 = r1  j1 = j1  o1 = o1  o2 = o2  u1 = u1  u2 = u2  Off = Off
  Readers = {r1}  Jobs = {j1}  Operations = {o1, o2}  Ahead = {o2}  Bases = {"COP", "USD"}
  MaxWrites = 2  MaxCloses = 1  MaxFailures = 1  Nothing = Nothing
INVARIANTS ServicesTypesOK RunningBounded WorkConserving NoLostWakeUp ScheduleKept SessionContained RevocationHolds SecondFactorUsable
PROPERTIES FirstInFirstOut QueueEnds DueIsCharged SeriesCatchesUp
CHECK_DEADLOCK FALSE
