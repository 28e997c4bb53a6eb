CONSTANTS
  t1 = t1
  t2 = t2
  t3 = t3
  Anything = Anything
  unknown = unknown
  Threads <- MCThreads
  Initializers <- MCOne
  Plugins <- MCPlugins
  Describe <- MCDescribe
  Permitted <- MCPermitted
  OtherNames <- MCOther
  ResetAllowed = FALSE
  LoadsFail = FALSE
  StartupFirst = TRUE
SPECIFICATION Spec
SYMMETRY StartupSymmetry
INVARIANT TypeOK
INVARIANT NoAssertionError
INVARIANT InitializedMeansLoaded
