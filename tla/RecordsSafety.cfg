CONSTANTS
  Ids = {r1, r2}
  Calls = {c1, c2}
  Tables <- AllTables
  Machines <- AllMachines
  Room <- Rooms
  Faulty = TRUE
SPECIFICATION Spec
CHECK_DEADLOCK FALSE
SYMMETRY Symmetry
INVARIANTS
  PromisesKept
  OneWhenSerial
PROPERTIES
  FinalWhenSerial
