\* Three streams whose model would generate for ever.
CONSTANTS
  Request = {r1, r2, r3}
  NoRequest = NoRequest
  Alias = {a}
  Default = a
  NoAlias = NoAlias
  InterruptRequests = TRUE
  ChanCap = 1
  Endpoint = {"stream"}
SPECIFICATION EndlessGenerationsSpec
INVARIANT NoChunkLost OuterLockedIffPending
PROPERTY EveryRequestServed ImplementsFifo
