CONSTANTS
  Messages = {m1, m2}
  Odd = {}
  Nonces = {n1}
  Stamps = {0}
  Window = 2
  Second = 2
  MaxEntries = 1
  LastTick = 2
  HookSays = {"accept"}
  Hosts = {"typescript"}
  Reusing = {}
SPECIFICATION GateSpec
INVARIANTS ServedOncePerHeader
CHECK_DEADLOCK FALSE
