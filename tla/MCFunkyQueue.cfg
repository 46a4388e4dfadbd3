SPECIFICATION Spec
CONSTANTS
  m_capacity = 2
  Producer = {p1, p2}
  MaxElements = 5
INVARIANTS
  TypeOK
  NoLostWakeup
  InOrder
  Accounted
PROPERTY ElementsLeave
