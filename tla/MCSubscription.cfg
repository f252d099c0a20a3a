SPECIFICATION Spec
CONSTANTS
  k1 = k1
  k2 = k2
  s1 = s1
  s2 = s2
  c1 = c1
  Keys = {k1, k2}
  Sids = {s1, s2}
  Chats = {c1}
  Calls = {a}
  Asks <- MCAsks
  MaxChanges = 2
  None = None
  Plain = Plain
  Unreadable = Unreadable
INVARIANTS WakesTheOneMeant ReportMatchesRow
