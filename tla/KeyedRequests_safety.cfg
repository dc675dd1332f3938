CONSTANTS
  t1 = t1  t2 = t2  t3 = t3  l1 = l1  l2 = l2  v1 = v1  n1 = n1  n2 = n2  k1 = k1
  None = None
  Request <- MCRequest
  Ticket = {t1, t2, t3}
  Location = {l1, l2}
  Service = {v1}
  Tenant = {n1, n2}
  Key = {k1}
SPECIFICATION Spec
CHECK_DEADLOCK FALSE
INVARIANTS
  TypeOK
  AtMostOnceAfterAnAnswer
  RefusedOnlyBesideARival
  DuplicateNumbersHaveACause
PROPERTIES
  ExpiredKeysAreDeleted
  KeepsThePromise
