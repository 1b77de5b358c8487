CONSTANTS
  Queries = {q1, q2, q3}
  NoQuery = NoQuery
SPECIFICATION Spec
CHECK_DEADLOCK FALSE
INVARIANTS TypeOK ObjectsExclusive HandlerGetsOwnResult NoQueryLost
PROPERTY QueryAnswered
