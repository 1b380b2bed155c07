CONSTANTS
  Exts <- MCExts
  Ext <- MCExt
  Depth <- MCDepth
  Stores = {s1, s2}
  Keys = {k1, k2}
  Values = {v1}
  MaxBatch = 2
  MaxAcked = 3
  Requests <- MCRequests
  MaxStarts = 2
  Workers = {w1, w2, w3}
  MaxRuns = 2
  Types <- MCTypes
  Scalars = {x, nan}
  Zero = x
  Equal <- MCEqual
  TextOf <- MCTextOf
  Documents <- MCDocuments
  Paths <- MCPaths
  Docs = {d1, d2}
  Sources <- MCSources
  MaxHandles = 3
SPECIFICATION FixturesSpec
INVARIANTS ImportIsComplete DispatchIsExact OperatorsAreCpp ResultIsHeld OverrideReached
INVARIANTS StoreIsFaithful PathsReachTheirNodes HandlesReadTheirDoc JsonIsTheObject SerdeRoundTrips
PROPERTIES EveryCallIsServed EveryRunIsComplete
CHECK_DEADLOCK FALSE
