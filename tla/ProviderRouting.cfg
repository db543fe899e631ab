SPECIFICATION MCSpec
CONSTANTS
  p1 = p1
  p2 = p2
  Calls = {c1, c2}
  Policies = {p1, p2}
  Settings <- TwoPolicies
  Tokens = 2
  MaxCalls = 3
  MaxFaults = 1
  MaxChanges = 1
  Segments = {"s1", "s2"}
  Terms = {"plain", "other"}
  Languages = {"ru", "de"}
  Reports = {r1, r2}
  Editors = {e1}
  TermLanguage <- TermLanguages
  Places <- BothInFirst
  MaxEvents = 4
SYMMETRY MCSymmetry
INVARIANTS
  LimitsHold
  CountersExpire
  CleanReportsAreEarned
PROPERTIES
  CooldownHolds
  AuditsAreExact
CHECK_DEADLOCK FALSE
