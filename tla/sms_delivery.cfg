SPECIFICATION FairSpec
CONSTANTS
  NoHandled = NoHandled
  Requests = {r1}
  Handlers = {h1}
  Alerts = {a1}
  Tests = {t1}
  Permitted = {a1}
  MaxSms = 1
  MaxSwitches = 1
  MaxMoves = 1
  MaxFaults = 1
INVARIANTS
  TypeOK
  FinalStatusIsTrue
PROPERTIES
  KillSwitchHolds
  SentIsSettled
