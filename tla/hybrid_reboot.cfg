CONSTANTS
  vPort = vPort
  vTap = vTap
  vPb = vPb
  vPbTap = vPbTap
  vLib = vLib
  vTrunk = vTrunk
  vBad = vBad
  vRep = vRep
  vRepTap = vRepTap
  vDpdk = vDpdk
  vUser = vUser
  vUserUnset = vUserUnset
  vHyb = vHyb
  vHyb2 = vHyb2
  vHybOvs = vHybOvs
  vHybTrunk = vHybTrunk
  brInt = brInt
  brDpdk = brDpdk
  tbr = tbr
  tbr2 = tbr2
  NoBridge = NoBridge
  Groups <- MCRebootGroups
  Vifs <- MCVifs
  Bridges <- MCBridges
  Trunks <- MCTrunks
  Kind <- MCKind
  UnpluggedAs <- MCUnpluggedAs
  Bridge <- MCBridge
  Datapath <- MCDatapath
  CreatePort <- MCCreatePort
  CreateTap <- MCCreateTap
  BadProfile <- MCBadProfile
  IsolateVif = TRUE
  PerPortBridge <- MCPerPortBridge
  FaultKinds = {"reboot"}
  MaxFaults = 2
SPECIFICATION Spec
CONSTRAINT OneGroup
INVARIANT PluggedIsWired
PROPERTY ImplementsWiring
