SPECIFICATION Spec
CONSTANTS
  NoHandled = NoHandled
  Requests = {r1}
  Handlers = {}
  Alerts = {a1}
  Tests = {}
  Permitted = {a1}
  MaxSms = 2
  MaxSwitches = 0
  MaxMoves = 0
  MaxFaults = 1
INVARIANTS
  SentOnce
