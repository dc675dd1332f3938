\* Two tickets and one display that may lose its connection once.
CONSTANTS
  d1 = d1  l1 = l1  l2 = l2
  Ticket = {t1, t2}
  Location = {l1, l2}
  Display = {d1}
  Shows <- MCShows
  None = None
  MaxChanges = 4
  MaxDrops = 1
SPECIFICATION Spec
CHECK_DEADLOCK FALSE
INVARIANTS
  TypeOK
  QuietDisplayIsCurrent
PROPERTIES
  DisplaysCatchUp
