SPECIFICATION Spec
CONSTANTS
  a = a  b = b
  Sessions = {a, b}
  Payloads <- SmallPayloads
  None = None
  DetailRetries = 1
  MaxIdles = 2
CHECK_DEADLOCK FALSE
INVARIANTS TypeOK DetailIsListed BackdropBehindPanel UncrossedSettles RequestWaits
PROPERTY CallbacksDrain
