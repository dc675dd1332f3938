\* One ticket, two lists and one click in flight.
CONSTANTS
  t1 = t1  t2 = t2  a = a  l1 = l1  l2 = l2  c1 = c1
  Ticket = {t1}
  Service = {a}
  ListRequest = {l1, l2}
  ClickRequest = {c1}
  StatusFilter <- MCStatusFilter
  None = None
  MaxEvents = 3
SPECIFICATION Spec
INVARIANT TypeOK
PROPERTIES
  ClicksActOnWhatTheyShow
  ScreenCatchesUp
