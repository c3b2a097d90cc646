SPECIFICATION Spec
CONSTANTS
  etc = etc
  file = file
  passwd = passwd
  tmp = tmp
  sub = sub
  Entry = {etc, file}
  File = {passwd, tmp, sub}
  Direct <- MCDirect
  Below <- MCBelow
  Recursive = {etc}
  Excluded = {tmp}
  Content = {h1, h2}
  Absent = absent
  NoPath = NoPath
  MaxChanges = 2
INVARIANTS
  TypeOK
  StaleOnlyIfMissed
PROPERTIES
  ReportsChain
  ReportsCatchUp
CHECK_DEADLOCK FALSE
