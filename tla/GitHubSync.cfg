\* Two operations overlap while GitHub changes twice.
CONSTANTS
  s1 = s1
  s2 = s2
  k1 = k1
  k2 = k2
  i1 = i1
  i2 = i2
  i3 = i3
  c1 = c1
  c2 = c2
  Sprints = {s1, s2}
  Issues = {k1, k2}
  Ids = {i1, i2, i3}
  SprintOf <- MCSprintOf
  SequenceNo <- MCSequenceNo
  SprintNo <- MCSprintNo
  FirstId <- MCFirstId
  Known = {s1}
  BlockedBy <- MCBlockedBy
  Callers = {c1, c2}
  Asked = {k2}
  Worked = {i2}
  Changing = {s1, k1, k2, i2}
  None = None
  MaxEdits = 2
  MaxCalls = 2
SPECIFICATION Spec
SYMMETRY Symmetry
CHECK_DEADLOCK FALSE
INVARIANTS TypeOK TablesAgree
PROPERTIES WebhookNeverGoesBack DeliveryTakesEffect QuietSyncIsExact
