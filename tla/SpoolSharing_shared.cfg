SPECIFICATION Spec
CONSTANTS
  Records = {r1, r2}
  MaxSpoolFrames = 2
  Process = {service, command}
  MaxStart = 2
INVARIANTS
  OwnedOnceAcked
CHECK_DEADLOCK FALSE
