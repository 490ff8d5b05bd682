SPECIFICATION Spec
CONSTANTS
  NoHandled = NoHandled
  Requests = {r1}
  Handlers = {h1, h2}
  Alerts = {}
  Tests = {t1}
  Permitted = {}
  MaxSms = 1
  MaxSwitches = 0
  MaxMoves = 0
  MaxFaults = 0
SYMMETRY Interchangeable
PROPERTIES
  TerminalStays
