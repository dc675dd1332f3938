\* Two tickets, two requests at a time and one auto_no_show worker.
CONSTANTS
  t1 = t1  t2 = t2  c1 = c1  c2 = c2  l1 = l1  l2 = l2  s1 = s1  s2 = s2  v1 = v1
  Ticket <- MCTicket
  Session <- MCSession
  Worker = {w1}
  Location <- MCLocation
  Service = {v1}
  Counter <- MCCounter
  None = None
  CounterLocation <- MCCounterLocation
  Origin <- MCOrigin
  Priority <- MCPriority
  CreatedAt <- MCCreatedAt
  Pk <- MCPk
  MaxEvents <- MCMaxEvents
SPECIFICATION Spec
SYMMETRY MCSymmetry
CHECK_DEADLOCK FALSE
INVARIANT OnlyCalledTicketsExpire
