CONSTANTS
  t1 = t1
  t2 = t2
  t3 = t3
  Anything = Anything
  unknown = unknown
  Threads <- MCPair
  Initializers <- MCPair
  Plugins <- MCPlugins
  Describe <- MCDescribe
  Permitted <- MCOnePermitted
  OtherNames <- MCOther
  ResetAllowed = TRUE
  LoadsFail = TRUE
  StartupFirst = FALSE
SPECIFICATION FairSpec
INVARIANT UnloadedHasLoader
INVARIANT InfoIsExact
PROPERTY EveryCallReturns
