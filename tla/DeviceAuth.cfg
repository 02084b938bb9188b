SPECIFICATION Spec
CONSTANTS
  Flow = {f1}
  Request = {r1, r2, r3, r4}
INVARIANTS
  DeliveredOnce
  AnswerIsFinal
  TokenIsReachable
SYMMETRY Symmetry
CHECK_DEADLOCK FALSE
