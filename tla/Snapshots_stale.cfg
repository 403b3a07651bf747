\* Finding: the flag of a series that is behind its book says it is not.
SPECIFICATION SnapshotSpec
CONSTANTS
  Readers = {r1}
  Jobs = {j1}
  Operations = {o1, o2}
  Ahead = {o2}
  Bases = {cop, usd}
  MaxWrites = 2
  MaxCloses = 1
  MaxFailures = 1
  Nothing = Nothing
INVARIANT FlagTellsTruth
CHECK_DEADLOCK FALSE
