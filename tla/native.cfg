CONSTANTS
  vPlain = vPlain
  vUser = vUser
  r1 = r1
  r2 = r2
  r3 = r3
  r4 = r4
  NoRow = NoRow
  Vifs <- MCVifs
  Plain <- MCPlain
  Rows <- MCRows
  Depth = 2
  MaxFaults = 3
SPECIFICATION Spec
SYMMETRY RowNames
INVARIANT TypeOK
INVARIANT UnpluggedIsGone
INVARIANT PluggedIsThere
