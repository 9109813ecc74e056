CONSTANTS
  py = py
  xml = xml
  policy = policy
  a = a
  b = b
  n = n
  Path = {py, xml, policy}
  Content = {a, b, n}
  Absent = Absent
  Kind <- MCKind
  Similar <- MCSimilar
  Language <- MCLanguage
  Base <- MCBase
  Request <- MCRequest
  MaxUserSteps = 4
  PolicyPath = policy
  Rules <- MCRules
  Dialects = {d1, d2}
  NoScope = NoScope
SYMMETRY Symmetry
SPECIFICATION Spec
CHECK_DEADLOCK FALSE
INVARIANTS
  PolicyChangeIsShown
