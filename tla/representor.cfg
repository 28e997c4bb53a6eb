SPECIFICATION Spec
CONSTANTS
  Pfs <- MCPfs
  Card <- MCCard
  Func <- MCFunc
  Netdevs <- MCNetdevs
  Vfs <- MCVfs
  Linked = {"A"}
  PlainNames = {"B"}
  MaxEvents = 2
INVARIANT TypeOK
INVARIANT FoundIsRepresentor
INVARIANT FoundIfThere
CHECK_DEADLOCK FALSE
