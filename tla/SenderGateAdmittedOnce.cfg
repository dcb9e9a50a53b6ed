CONSTANTS
  Messages = {m1,m2,m3}
  Odd = {}
  Nonces = {n1,n2}
  Stamps = {0,3}
  Window = 2
  Second = 2
  MaxEntries = 1
  LastTick = 4
  HookSays = {"accept"}
  Hosts = {"typescript"}
  Reusing = {"typescript"}
SPECIFICATION GateSpec
INVARIANTS AdmittedOnce
CHECK_DEADLOCK FALSE
