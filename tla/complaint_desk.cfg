SPECIFICATION FairSpec
CONSTANTS
  Requests = {r1}
  Job = job
  MaxComplaints = 1
  MaxOps = 2
  MaxFaults = 1
INVARIANTS
  TypeOK
  RowsAgree
  EventBacksRow
  EscalationIsBacked
  AlertedOnce
PROPERTIES
  LifecycleHolds
  LateIsFlagged
