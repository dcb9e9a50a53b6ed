CONSTANTS
  a = a
  b = b
  Instances = {a, b}
  Interval <- Intervals
  MaxLost <- Losses
  Delay <- Delays
  None = None
  KeepAlive = TRUE
  Abandons = FALSE
  Lossy = FALSE
  KeepAliveTicks <- DefaultKeepAlive
  InactivityTicks <- DefaultInactivity
  MaxNext = 2
  MaxChunks = 2
  MaxQuestions = 2
  MaxAcks = 1
  Messages = {m1, m2, m3}
  Odd = {m3}
  Nonces = {n1, n2}
  Stamps = {0, 3}
  Window = 2
  Second = 2
  MaxEntries = 1
  LastTick = 3
  HookSays = {"accept"}
  Hosts = {"typescript", "python"}
  Reusing = {"python"}
  Registered = {i1, i2}
  IdOf <- SharedId
  Callers = {c1, c2}
  Ttl = 2
  GatherTime = 1
  LastTime = 4
  Drops = 1
SYMMETRY Alike
SPECIFICATION ServiceSpec
INVARIANTS VerdictsAreRight ReplyStreamSound ReplaysAreRefused SharedLookupSound
PROPERTIES SlowHandlerNeverStalls
CHECK_DEADLOCK FALSE
