SPECIFICATION Spec
CONSTANTS
  Kind = "voltage"
  STABLE_VALUE = 10
  RangeMax = 65
  RangeMin = 55
  Readings <- PowerReadings
  U8 = 256
  U16 = 65536
  U32 = 16777216
INVARIANT TypeOK
INVARIANT ExcursionLogged
INVARIANT NoFalseAlarm
