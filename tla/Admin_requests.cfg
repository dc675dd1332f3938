\* Two administrators, three requests.
CONSTANTS
  a1 = a1  a2 = a2  l = l  c = c  u = u  v = v  r = r  s1 = s1  s2 = s2
  n1 = n1  n2 = n2  n3 = n3  n4 = n4
  Object = {a1, a2, l, c, u, v, r}
  Session = {s1, s2}
  Name = {n1, n2, n3, n4}
  Kind <- MCKind
  Stored <- MCStored
  Patch <- MCPatch
  NewName = {n3}
  None = None
  MaxRequests = 3
SPECIFICATION Spec
CHECK_DEADLOCK FALSE
INVARIANTS
  TypeOK
  AuditTellsWhatHappened
  BeforeWasHeld
  DeadlocksAreOfRenames
PROPERTIES
  PatchesChangeWhatTheyName
  EveryRequestEnds
