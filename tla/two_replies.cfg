SPECIFICATION Spec
CONSTANTS
  c1 = c1
  Jobs = {j1, j2}
  NoJob = NoJob
  Cases = {c1}
  NumMessages = 1
  CaseOf <- OneCase
  PageSize = 1
  MaxOverruns = 1
  MaxFaults = 0
INVARIANTS
  OneReply
