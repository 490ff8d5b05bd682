SPECIFICATION Spec
CONSTANTS
  w1 = w1
  w2 = w2
  m1 = m1
  m2 = m2
  m3 = m3
  case1 = case1
  case2 = case2
  thread1 = thread1
  thread2 = thread2
  Workers = {w1, w2}
  NoMessage = NoMessage
  Cases = {case1, case2}
  NoCase = NoCase
  Messages <- MailboxOfReply
  CaseOf <- CaseOfReply
  ThreadOf <- ThreadOfReply
  Complaints <- MailboxOfReply
  MaxAttempts = 3
  MaxFaults = 2
SYMMETRY WorkerSymmetry
INVARIANTS
  TypeOK
  ExclusiveRuns
  SettledStateIsBacked
  LedgerAgrees
  OneComplaintPerCase
PROPERTY
  SourcePromise
