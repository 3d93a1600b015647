CONSTANTS
  Client = {w1, w2, w3}
  Broadcast = {b1, b2}
SPECIFICATION Spec
INVARIANTS
  AtMostOnce
  LiveClientsStay
  NothingLeaks
  ServedWhileNobodyLeaves
SYMMETRY Symmetry
\* clients and broadcasts are used up
CHECK_DEADLOCK FALSE
