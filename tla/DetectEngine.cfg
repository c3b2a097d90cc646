SPECIFICATION FairSpec
CONSTANTS
  r1 = r1
  r2 = r2
  r3 = r3
  plain = plain
  bad = bad
  junk = junk
  isBad = isBad
  isAny = isAny
  isMore = isMore
  Instance = {i1, i2}
  Partition = {p1}
  Payload = {plain, bad, junk}
  Malformed = {junk}
  Rule = {r1, r2, r3}
  Enabled = {r1, r3}
  Condition = {isBad, isAny, isMore}
  Selection <- MCSelection
  Supported = {isBad, isAny}
  Holds <- MCHolds
  None = none
  MaxEvents = 2
  MaxFaults = 2
INVARIANTS
  TypeOK
  LossNeedsFaults
  RepeatsNeedFaults
  InOrder
  AlertsComplete
PROPERTIES
  CommitsAdvance
  EventuallyHandled
