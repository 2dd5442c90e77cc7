SPECIFICATION Spec
CONSTANTS
  c1 = c1
  c2 = c2
  Conn <- MCConn
  Requests <- MCRequests
  MaxRequests <- MCMaxRequests
  MaxStart = 2
INVARIANTS
  TypeOK
  AnswersInPlace
  DecidedUnderPolicyNamed
PROPERTIES
  ComesUpUnlessTaken
  NobodyElseHoldsUp
  ShutdownEnds
