SPECIFICATION FairSpec
CONSTANTS
  w1 = w1
  w2 = w2
  m1 = m1
  m2 = m2
  m3 = m3
  case1 = case1
  case2 = case2
  thread1 = thread1
  thread2 = thread2
  NoMessage = NoMessage
  Cases = {case1, case2}
  NoCase = NoCase
  Workers = {w1}
  Messages <- MailboxOfThread
  CaseOf <- CaseOfThread
  ThreadOf <- ThreadOfThread
  Complaints <- ComplaintsOfThread
  MaxAttempts = 3
  MaxFaults = 2
INVARIANTS
  CaseIdDecides
  FollowUpIsQuoted
PROPERTIES
  RowsPromise
  IdentifiedMailSettles
