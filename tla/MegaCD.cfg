SPECIFICATION LiveSpec
CONSTANTS
  LIMIT = 2
  Bank = {b0, b1}
  Bank0 = b0
  NoWrite = NoWrite
INVARIANTS
  TypeOK
  MapFollowsRegister
  NoLostWakeup
PROPERTIES
  OwnerHandsOver
  NeitherWaitsForever
