SPECIFICATION Spec
CONSTANTS
  a = a
  b = b
  c = c
  j1 = j1
  j2 = j2
  Handles = {a, b, c}
  Jobs = {j1, j2}
  Size <- PayloadSize
  MaxBytes = 10
  Envelope = 2
  Ttl = 1
  MaxClock = 2
  Memfd = Memfd
SYMMETRY SecretSymmetry
CHECK_DEADLOCK FALSE
INVARIANTS TypeOK ConsumedOnce WholeInputOnly RefusedConsumesNothing NoDescriptorLeft
