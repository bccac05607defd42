CONSTANTS
  Request = {r1, r2}
  NoRequest = NoRequest
  Alias = {a, b}
  Default = a
  NoAlias = NoAlias
  InterruptRequests = FALSE
  ChanCap = 1
  Endpoint = {"stream", "plain", "embed", "models"}
SPECIFICATION FairSpec
INVARIANT MutualExclusion UsesOpenModel
PROPERTY EveryRequestEnds
