SPECIFICATION FairSpec
CONSTANTS
  a = a  b = b  d1 = d1  d2 = d2  d3 = d3
  IDs = {a}
  CodexBash = {a}
  WithTTY = {a}
  Detectors = {d1, d2}
  None = None
  Interval = 2
  CacheTTL = 1
  UpdatesCap = 1
  DetectedCap = 1
  MaxUpdates = 2
PROPERTIES SuppressedIsActive
