SPECIFICATION FairSpec
CONSTANTS
  c1 = c1
  Jobs = {j1, j2}
  NoJob = NoJob
  Cases = {c1}
  NumMessages = 3
  CaseOf <- OneCase
  PageSize = 2
  MaxOverruns = 1
  MaxFaults = 1
INVARIANTS
  TypeOK
  OneReplyInLock
  SentIsProven
PROPERTIES
  AmbiguousStays
  MailIsAnswered
