CONSTANTS
  t1 = t1
  t2 = t2
  t3 = t3
  Anything = Anything
  unknown = unknown
  Threads <- MCPair
  Initializers <- MCOne
  Plugins <- MCPlugins
  Describe <- MCDescribe
  Permitted <- MCPermitted
  OtherNames <- MCOther
  ResetAllowed = TRUE
  LoadsFail = FALSE
  StartupFirst = TRUE
SPECIFICATION Spec
INVARIANT NoAssertionError
