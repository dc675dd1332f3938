\* Two tickets, one request at a time and two auto_no_show workers.
CONSTANTS
  t1 = t1  t2 = t2  c1 = c1  c2 = c2  l1 = l1  l2 = l2  s1 = s1  s2 = s2  v1 = v1
  Ticket <- MCTicket
  Session = {s1}
  Worker = {w1, w2}
  Location = {l1}
  Service = {v1}
  Counter <- MCOneCounter
  None = None
  CounterLocation <- MCOneLocation
  Origin <- MCOrigin
  Priority <- MCPriority
  CreatedAt <- MCCreatedAt
  Pk <- MCPk
  MaxEvents <- MCFewEvents
SPECIFICATION FairSpec
CHECK_DEADLOCK FALSE
INVARIANT NoLockDeadlock
PROPERTIES
  RequestsEnd
  CalledTicketsExpire
