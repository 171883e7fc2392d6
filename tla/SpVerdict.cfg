SPECIFICATION Spec
CONSTANTS
  Limits <- SmallLimits
  MIN_SPEED = 2
  MAX_SPEED = 100
  BYTE = 8
  KILO = 2
  U16 = 32
  U32 = 48
  LongMax = 7
  Bursts = {0, 4}
  Start = 30
  MaxNow = 32
  MaxRx = 8
  MaxReloads = 1
  MaxSets = 1
INVARIANT TypeOK
 
