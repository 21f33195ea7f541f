CONSTANTS
  Token <- Tokens
  Line <- Lines
  Numeric = {"7"}
  Wildcard = "<*>"
  LeadingLevels = 1
  Similar = 2
  OutOf = 3
  MaxChildren = 2
  MaxTemplates = 2
  MaxClustersPerLeaf = 2
  MaxBatch = 2
  MaxLines = 5
  MaxFailures = 1
  MaxRestarts = 1
SPECIFICATION Spec
INVARIANTS
  IndexAndLeavesAgree
  DictionaryCoversLogs
PROPERTY LeafIsStable
CHECK_DEADLOCK FALSE
