SPECIFICATION MCSpec
CONSTANTS
  Pma = Pma
  Vs2 = Vs2
  NoCall = NoCall
  Ok = Ok
  Err = Err
  Devs <- MCDevs
  Bits <- MCBits
  Requests <- MCRequests
  Volatile <- MCVolatile
  Sticky = {0}
  LateErr = TRUE
INVARIANTS
  TypeOK
  WindowFollowsCall
PROPERTIES
  AtomicAccess
  RmwKeepsOtherBits
