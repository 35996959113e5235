\* Three faults and two edits of the plan; issue number 4 reads like status 422.
CONSTANTS
  s1 = s1
  t1 = t1
  t2 = t2
  SprintOrder <- MCSprintOrder
  TaskOrder <- MCTaskOrder
  BlockedBy <- MCBlockedBy
  PageSize = 4
  Misread = {4}
  Revisions = {0, 1}
  MaxEdits = 2
  MaxFaults = 3
  MaxTries = 3
  Torn = Torn
  Unplanned = Unplanned
SPECIFICATION Spec
INVARIANTS TypeOK OneIssuePerItem SyncedMeansUpToDate SyncedMeansLinked
PROPERTY GetsThrough
