CONSTANTS
  Periods = {p1}
  Entries = {e1, e2, e3}
  Calls = {c1, c2}
  Inputs <- MCLines
  NoEntry = NoEntry
  NoPeriod = NoPeriod
SPECIFICATION Spec
SYMMETRY Symmetry
INVARIANTS
  ReversedOnce
