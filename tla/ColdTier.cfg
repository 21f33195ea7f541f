CONSTANTS
  Script <- Versions
  FirstRelease = 2
  Assembler = {1}
  Command = {2}
  MaxDeaths = 1
  Table = "spans"
  Partition = {1}
  Row = {1, 2}
  MaxErrors = 1
  MaxLosses = 1
  MaxRestores = 1
  MaxIncidents = 1
SPECIFICATION FairSpec
INVARIANTS
  DroppedIsExported
  RestoreReads
  RecordedIsDone
PROPERTY OldDaysLeave
CHECK_DEADLOCK FALSE
