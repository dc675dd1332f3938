\* One ticket that is served, transferred and called again while a snapshot is read.
CONSTANTS
  d1 = d1  l1 = l1  l2 = l2
  Ticket = {t1}
  Location = {l1, l2}
  Display = {d1}
  Shows <- MCShows
  None = None
  MaxChanges = 5
  MaxDrops = 0
SPECIFICATION Spec
CHECK_DEADLOCK FALSE
INVARIANT
  ShownOnce
