SPECIFICATION PipelineSpec
CONSTANTS
  s1 = s1  s2 = s2  p1 = p1  h1 = h1  h2 = h2  m1 = m1  m2 = m2  r1 = r1  r2 = r2
  SessionIDs = {s1, s2}
  Processes = {}
  PidOf <- NoPids
  StartOf <- NoPids
  Contained = {}
  Hidden = {}
  Claims <- NoClaim
  Events = {"idle", "session_end"}
  CodexSessions = {s2}
  Subagents = {s2}
  Handlers = {h1, h2}
  Monitors = {}
  Readers = {r1}
  Pruner = Pruner
  None = None
  Timeout = 9
  ChannelCap = 2
  MaxMessages = 3
  MaxClock = 2
  MaxTime = 2
  MaxReplies = 1
SYMMETRY PipelineSymmetry
INVARIANTS StoreListsOnce StoreShowsLastEvent
