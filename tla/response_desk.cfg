SPECIFICATION Spec
CONSTANTS
  People = {p1, p2}
  Actions = {a1, a2}
  Items = {i1}
  Complaints = {c1}
  Kinds <- CodeKinds
  AdmittedStates <- CodeStates
  AdmittedKinds <- CodeKinds
  AdmittedContents <- CodeContents
  None = None
  MaxOps = 6
  MaxFaults = 1
CHECK_DEADLOCK FALSE
INVARIANTS
  TypeOK
  AnswerIsFinal
  ResolutionStands
PROPERTIES
  DecisionStands
