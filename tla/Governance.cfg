CONSTANTS
  Scans = {s1, s2}
  Confirms = {c1, c2}
  Polls = {p1, p2}
  None = None
  Confirmed = Confirmed
  e1 = e1
  e2 = e2
  Events = {e1, e2}
  Critical = {e1}
  Decisions = {d1, d2}
  Layers = {"all", "platform"}
  Periods = {"1h", "6h"}
  MaxReads = 2
  MaxChanges = 1
SPECIFICATION GovernanceSpec
INVARIANTS GovernanceTypeOK ConfirmedOnce ShownIsCurrent
SYMMETRY Symmetry
