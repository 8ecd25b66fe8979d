SPECIFICATION Spec
CONSTANTS
  s1 = s1  s2 = s2  p1 = p1  p2 = p2  p3 = p3  h1 = h1  h2 = h2
  m1 = m1  m2 = m2  m3 = m3  r1 = r1  r2 = r2
  SessionIDs = {s1}
  Processes = {p1, p2, p3}
  PidOf <- ReusedPids
  StartOf <- ReusedStarts
  Contained = {}
  Hidden = {}
  Claims <- ReusedClaims
  Events = {"working", "session_end"}
  CodexSessions = {}
  Subagents = {}
  Handlers = {h1, h2}
  Monitors = {m1, m2}
  Readers = {}
  Pruner = Pruner
  None = None
  Timeout = 1
  ChannelCap = 1
  MaxMessages = 2
  MaxClock = 1
  MaxTime = 1
  MaxReplies = 0
SYMMETRY Symmetry
INVARIANTS TypeOK MonitorOwnership
PROPERTY LiveSessionKept
