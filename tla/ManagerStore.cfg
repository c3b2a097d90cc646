SPECIFICATION Spec
CONSTANTS
  Agent = {g1}
  Rule = {r1}
  Alert = {l1}
  Case = {k1}
  Critical = {l1}
  User = {u1}
  Stranger = Stranger
  Client = {c1}
  Dashboard = Dashboard
  None = None
  MaxWrites = 4
  MaxFaults = 1
INVARIANTS TypeOK NoDangling StatsAgree CreatedIsTold
