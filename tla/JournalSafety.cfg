CONSTANTS
  Periods = {p1}
  Entries = {e1, e2, e3, e4}
  Calls = {c1, c2, c3}
  Inputs <- MCLines
  NoEntry = NoEntry
  NoPeriod = NoPeriod
SPECIFICATION Spec
SYMMETRY Symmetry
INVARIANTS
  TypeOK
  ReversalsMirror
  ReversedIsBacked
  HalfWrittenOnlyByInventory
  RoundingDoesNotCompound
