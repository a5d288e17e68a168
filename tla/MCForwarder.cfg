CONSTANTS
  CsLimit = 2
  CsPolicy = "lru"
  NameOrder <- MCNameOrder
  LocalFields = {"app"}
  NoFace = "none"
  Faces = {"app", "net", "lan"}
  LocalFaces = {"app"}
  P2pFaces = {"app", "net"}
  fib <- MCFib
  UpFace = "net"
  DownFace = "lan"
  RspFace = "app"
  LltcPrefix <- MCLltcPrefix
  Modes = {"plain", "lltc"}
  PitDuration = 2
  DnlLifetime = 2
  Arrivals <- MCArrivals
  MaxArrivals = 5
SPECIFICATION Spec
INVARIANTS FlowBalance InterestsKeepScope
PROPERTIES NobodyForgotten  
CHECK_DEADLOCK FALSE
