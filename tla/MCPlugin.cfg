SPECIFICATION MCSpec
CONSTANTS
  Layers = {l1, l2}
  MaxListed = 1
  MaxChanges = 2
  MaxRevision = 4
  Ops = {o1, o2}
  MaxWrites = 2
  Ids = {i1, i2, i3, i4}
  MaxHandles = 3
  MaxItems = 3
  MaxSize = 2
  MaxTotal = 4
  MaxCached = 4
  MaxPage = 3
  Requested = {r1, r2}
  Native = {n1, n2}
  MaxWindows = 3
  NoName = NoName
INVARIANTS
  PluginTypeOK
  GuardedCallsMeetTheirContent
  DeltaKeepsUp
  OutcomesAreTrue
  StoredIsThere
  NamesLeadToOwnView
PROPERTY
  ReadOnlyMeansReadOnly
CHECK_DEADLOCK FALSE
