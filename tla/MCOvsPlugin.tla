---------------------------- MODULE MCOvsPlugin ----------------------------
(***************************************************************************)
(* Small instances of OvsPlugin.  A .cfg chooses Groups: in a behaviour,   *)
(* calls are only made for the VIFs of one group.  A group of one VIF      *)
(* shows everything a call, its failures and its retries do, a group of    *)
(* two what calls for different VIFs do to each other.                     *)
(***************************************************************************)
EXTENDS OvsWiring, TLC

CONSTANTS
  Groups,
  vPort,      \* VIFOpenVSwitch with create_port
  vTap,       \* VIFOpenVSwitch with create_port and create_tap
  vPb,        \* VIFOpenVSwitch with a port bridge of its own
  vPbTap,     \* the same with create_tap
  vLib,       \* VIFOpenVSwitch whose port libvirt alone creates
  vTrunk,     \* VIFOpenVSwitch with create_port on a trunk bridge
  vBad,       \* VIFOpenVSwitch with the port profile of another plugin
  vRep,       \* VIFHostDevice with a kernel representor
  vRepTap,    \* the same, whose profile asks for a tap
  vDpdk,      \* VIFHostDevice with a DPDK representor
  vUser,      \* VIFVHostUser with datapath_type netdev
  vUserUnset, \* VIFVHostUser without a datapath_type
  vHyb, vHyb2,  \* VIFBridge
  vHybOvs,    \* VIFBridge whose binding has become VIFOpenVSwitch
  vHybTrunk   \* VIFBridge on a trunk bridge
CONSTANTS brInt, brDpdk, tbr, tbr2

MCVifs    == UNION Groups
MCBridges == {brInt, brDpdk, tbr, tbr2}
MCTrunks  == {tbr, tbr2}
Hybrids   == {vHyb, vHyb2, vHybOvs, vHybTrunk}

MCKind ==
  [v \in Vifs |-> CASE v \in Hybrids               -> "bridge"
                    [] v \in {vUser, vUserUnset}   -> "vhostuser"
                    [] v \in {vRep, vRepTap, vDpdk} -> "hostdev"
                    [] OTHER                       -> "ovs"]
MCUnpluggedAs ==
  [v \in Vifs |-> IF v = vHybOvs THEN "ovs" ELSE MCKind[v]]
MCBridge ==
  [v \in Vifs |-> CASE v = vTrunk                      -> tbr
                    [] v = vHybTrunk                   -> tbr2
                    [] v \in {vUser, vUserUnset, vDpdk} -> brDpdk
                    [] OTHER                           -> brInt]
MCDatapath ==
  [v \in Vifs |-> CASE v \in {vUser, vDpdk}  -> "netdev"
                    [] v \in {vUserUnset, vLib} -> "unset"
                    [] OTHER                 -> "system"]
MCCreatePort == Vifs \cap {vPort, vTap, vTrunk}
MCCreateTap  == Vifs \cap {vTap, vPbTap, vRepTap}
MCBadProfile == Vifs \cap {vBad}
MCPerPortBridge == Vifs \cap {vPb, vPbTap, vBad}

MCPortGroups   == {{vPort, vRep}, {vTap}, {vLib},
                   {vTrunk}, {vPbTap}, {vUser, vDpdk}}
MCHybridGroups == {{vHyb, vHyb2}, {vHybTrunk}, {vPb}, {vRepTap}, {vBad}}
MCRebootGroups == {{vHyb, vPort}, {vHybOvs}, {vHybTrunk, vTrunk}}
MCLostGroups   == {{vPort, vHybOvs}}
MCUserUnset    == {{vUserUnset}}
MCOneHybrid    == {{vHyb}}

\* No call is ever made for VIFs of two groups.
OneGroup ==
  \E g \in Groups :
    \A v \in Vifs \ g : pc[v] = "idle" /\ last[v] = "none"
=============================================================================
