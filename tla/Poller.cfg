SPECIFICATION PollerSpec
CONSTANTS
  Chan = {a, b, c}
  Fd = {f1, f2}
  None = none
  InitSlots = 1
INVARIANTS
  Agreement
  NoDangling
