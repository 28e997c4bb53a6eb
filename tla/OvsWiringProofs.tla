-------------------------- MODULE OvsWiringProofs --------------------------
(***************************************************************************)
(* OvsPlugin implements VifWiring, for any number of VIFs of every class,  *)
(* whichever of the failures assumed below strike and however often.       *)
(***************************************************************************)
EXTENDS OvsWiring, OvsPluginProofs

USE PluginAssumption

\* No failure that is swallowed and no VM that starts or stops while a call
\* for its VIF is in progress; no vhost-user VIF whose two defaults for its
\* datapath type disagree (see the run v_vhost_qos); no VIF whose binding has
\* changed on a host with port bridges, where unplug() does not look whether
\* it was hybrid; VIFs on one bridge agree on its datapath type, and a trunk
\* bridge belongs to one VIF.
Sound ==
  /\ "lost" \notin FaultKinds /\ "blind" \notin FaultKinds
  /\ "vm" \notin FaultKinds
  /\ \A v \in Vifs : Kind[v] = "vhostuser" => Datapath[v] = "netdev"
  /\ \A v \in Vifs : Rebound(v) => v \notin PerPortBridge
  /\ \A v, w \in Vifs : Bridge[v] = Bridge[w] =>
       /\ WantedDatapath(v) = WantedDatapath(w)
       /\ IsTrunk(Bridge[v]) => v = w

\* A retry of plug() finishes what failed: not so for hybrid VIFs if a call
\* can be cut off short of a reboot (see the run v_hybrid_retry), nor for a
\* tap that was added and not set up.
Sure(v) ==
  /\ Kind[v] = "bridge" => FaultKinds \subseteq {"reboot"}
  /\ v \in CreateTap => "partial" \notin FaultKinds

OwnBridge(v) == UsesPortBridge(v, Kind[v])

-----------------------------------------------------------------------------
(* What can be there of a VIF at any time                                  *)

HybridLinks(v) == Veth(v) \cup {<<"qbr", v>>}

LinkScope(v) ==
  /\ Kind[v] # "bridge" => HybridLinks(v) \cap devs = {}
  /\ <<"qvb", v>> \in devs <=> <<"qvo", v>> \in devs
  /\ <<"tap", v>> \in devs =>
       Kind[v] = "ovs" /\ (<<"tap", v>> \in up \/ "partial" \in FaultKinds)
  /\ <<"rep", v>> \in up => Kind[v] = "hostdev" /\ SupportsQos(v)

PortScope(v) ==
  /\ \A p \in PortsOf(v) :
       \/ portBr[p] = NoBridge
       \/ p = MainPort(v) /\ portBr[p] = PlugBridge(v)
       \/ OwnBridge(v) /\ p = <<"ibp", v>> /\ portBr[p] = Bridge[v]
       \/ OwnBridge(v) /\ p = <<"pbp", v>> /\ portBr[p] = PortBridge(v)
  /\ brType[PortBridge(v)] # "absent" => OwnBridge(v)

QosScope(v) ==
  \A p \in PortsOf(v) :
    /\ qosRows[p] # 0 => p = MainPort(v) /\ SupportsQos(v)
    /\ p \in portQos => /\ p = MainPort(v) /\ SupportsQos(v)
                        /\ portBr[p] # NoBridge

\* The transaction that makes a port makes all of it.
PortWhole(v) ==
  portBr[MainPort(v)] = PlugBridge(v) =>
    /\ ~OwnBridge(v) => MainPort(v) \in ids
    /\ SupportsQos(v) /\ v \notin byLibvirt => MainPort(v) \in portQos

LibvirtScope(v) ==
  v \in byLibvirt =>
    /\ Kind[v] = "ovs" /\ v \notin PerPortBridge /\ v \notin CreateTap
    /\ portBr[MainPort(v)] = PlugBridge(v)

Scope(v) ==
  /\ LinkScope(v) /\ PortScope(v) /\ QosScope(v)
  /\ PortWhole(v) /\ LibvirtScope(v)

-----------------------------------------------------------------------------
(* What a call has established when it comes to its next step              *)

HybridPcs == {"ensure_bridge", "exists_veth", "create_veth_pair",
              "add_bridge_port", "update_veth_pair", "delete_bridge"}
QosMakingPcs == {"delete_qos", "create_qos", "get_qos"}
PortPcs == {"isolate_vif", "exists_port", "create_ovs_vif_port"}
             \cup QosMakingPcs
PatchPcs == {"isolate_patch", "create_patch_port_pair"}
PortMadePcs == {"create_tap"} \cup PatchPcs

CallStage(v) ==
  /\ pc[v] \in HybridPcs => Kind[v] = "bridge"
  /\ pc[v] # "idle" => last[v] = "none"
  /\ pc[v] = "idle" => op[v] = "none"
  /\ pc[v] \in PlugPcs => op[v] = "plug"
  /\ pc[v] \in UnplugPcs => op[v] = "unplug"
  /\ pc[v] \in UnplugWork =>
       port[v] \in {MainPort(v), PortName(v, UnpluggedAs[v])}
  /\ v \in qosing => SupportsQos(v)

\* The links of a hybrid VIF as plug() is to leave them.
VethUp(v) == LinksUp(HybridLinks(v))
Bridged(v) == VethUp(v) /\ <<"qvb", v>> \in enslaved

BridgedPcs == {"ensure_int_bridge"} \cup PortPcs \cup PortMadePcs

LinksStage(v) ==
  /\ pc[v] \in {"exists_veth", "create_veth_pair"} => LinksUp({<<"qbr", v>>})
  /\ pc[v] = "create_veth_pair" => <<"qvo", v>> \notin devs
  /\ pc[v] = "update_veth_pair" => <<"qvo", v>> \in devs
  /\ pc[v] = "add_bridge_port" => VethUp(v)
  /\ pc[v] \in BridgedPcs /\ Kind[v] = "bridge" => Bridged(v)

PlugStage(v) ==
  /\ /\ pc[v] \in {"ensure_port_bridge", "set_representor_up"}
                    \cup PortPcs \cup PortMadePcs
     /\ Kind[v] # "vhostuser"
     => brType[Bridge[v]] = DatapathOf(v)
  /\ pc[v] = "ensure_port_bridge" => OwnBridge(v)
  /\ pc[v] = "set_representor_up" => Kind[v] = "hostdev"
  /\ pc[v] \in PortPcs \cup PortMadePcs =>
       /\ OwnBridge(v) => brType[PortBridge(v)] = DatapathOf(v)
       /\ Kind[v] = "hostdev" /\ SupportsQos(v) => LinksUp({<<"rep", v>>})
  /\ pc[v] \in QosMakingPcs => v \in qosing
  /\ pc[v] = "get_qos" => qosRows[MainPort(v)] # 0
  /\ pc[v] = "create_ovs_vif_port" /\ SupportsQos(v) /\ v \notin qosing =>
       portBr[MainPort(v)] = PlugBridge(v)
  /\ pc[v] \in PortMadePcs => PortInPlace(v)
  /\ pc[v] = "create_tap" => v \in CreateTap
  /\ pc[v] \in PatchPcs => OwnBridge(v) /\ (Sure(v) => TapInPlace(v))

LeavePcs  == {"delete_net_dev", "delete_port_bridge",
              "set_representor_down", "delete_trunk"}
PortGonePcs  == {"clean_qos"} \cup LeavePcs
PatchGonePcs == {"delete_port"} \cup PortGonePcs
BridgeGonePcs == {"find_representor", "delete_tap", "delete_int_patch",
                  "delete_port_patch"} \cup PatchGonePcs

\* Unplug() handles v as what it was plugged as.
Known(v) == port[v] = MainPort(v)

BridgeGone(v) ==
  /\ pc[v] = "delete_bridge" => Known(v)
  /\ pc[v] \in BridgeGonePcs => <<"qbr", v>> \notin devs
  /\ pc[v] \in BridgeGonePcs /\ Sure(v) =>
       Known(v) \/ <<"qvo", v>> \notin devs

UnplugStage(v) ==
  /\ pc[v] \in {"delete_port_patch"} \cup PatchGonePcs =>
       portBr[<<"ibp", v>>] = NoBridge
  /\ pc[v] \in PatchGonePcs => portBr[<<"pbp", v>>] = NoBridge
  /\ pc[v] \in PortGonePcs /\ Known(v) => portBr[MainPort(v)] = NoBridge
  /\ pc[v] \in LeavePcs /\ Known(v) => qosRows[MainPort(v)] = 0
  /\ pc[v] \in LeavePcs \ {"delete_net_dev"} => <<"tap", v>> \notin devs
  /\ BridgeGone(v)
  /\ pc[v] \in LeavePcs \ {"delete_net_dev"} /\ Known(v) =>
       <<"qvo", v>> \notin devs
  /\ pc[v] \in {"delete_int_patch", "delete_port_patch",
                "delete_port_bridge"} => OwnBridge(v)
  /\ pc[v] \in {"set_representor_down", "find_representor"} =>
       Kind[v] = "hostdev" /\ SupportsQos(v)
  /\ pc[v] = "delete_net_dev" => Kind[v] # "hostdev"
  /\ pc[v] = "delete_trunk" =>
       <<"rep", v>> \notin up /\ ~BrExists(PortBridge(v))

\* While no call is half way, a hybrid VIF that has its veth pair, which is
\* all that a retry of plug() looks at, has everything.
IntactPcs == {"idle", "plug", "ensure_bridge", "exists_veth",
              "update_veth_pair", "unplug", "exists_qbr", "delete_bridge"}

Whole(v) ==
  Kind[v] = "bridge" /\ Sure(v) /\ <<"qvo", v>> \in devs => Wired(v)

Intact(v) == pc[v] \in IntactPcs => Whole(v)

Outcome(v) ==
  /\ last[v] = "plugged" /\ Sure(v) => Wired(v)
  /\ last[v] = "unplugged" /\ ~Rebound(v) => Clean(v)

VifInv(v) ==
  /\ Scope(v) /\ CallStage(v) /\ LinksStage(v) /\ PlugStage(v)
  /\ UnplugStage(v) /\ Intact(v) /\ Outcome(v)

WiringInv == \A v \in Vifs : VifInv(v)

-----------------------------------------------------------------------------
(* The same definitions in the forms the proofs use                        *)

LEMMA KindIs ==
  ASSUME Sound, NEW v \in Vifs
  PROVE  /\ Kind[v] \in {"bridge", "ovs", "vhostuser", "hostdev"}
         /\ UnpluggedAs[v] = "hostdev" <=> Kind[v] = "hostdev"
         /\ UnpluggedAs[v] = "vhostuser" <=> Kind[v] = "vhostuser"
         /\ UnpluggedAs[v] = "bridge" => Kind[v] = "bridge"
         /\ UsesPortBridge(v, UnpluggedAs[v]) <=> OwnBridge(v)
         /\ UnplugBridge(v) = PlugBridge(v)
<1>1. /\ Kind[v] \in Kinds /\ UnpluggedAs[v] \in Kinds
      /\ \/ UnpluggedAs[v] = Kind[v]
         \/ Kind[v] = "bridge" /\ UnpluggedAs[v] = "ovs"
  OBVIOUS
<1>2. UnpluggedAs[v] # Kind[v] => v \notin PerPortBridge
  BY DEF Sound, Rebound
<1>3. UsesPortBridge(v, UnpluggedAs[v]) <=> UsesPortBridge(v, Kind[v])
  BY <1>1, <1>2 DEF UsesPortBridge
<1> QED
  BY <1>1, <1>3 DEF Kinds, UnplugBridge, PlugBridge, OwnBridge

LEMMA MainPortIs ==
  ASSUME NEW v \in Vifs
  PROVE  /\ Kind[v] = "bridge" => MainPort(v) = <<"qvo", v>>
         /\ Kind[v] = "ovs" => MainPort(v) = <<"tap", v>>
         /\ Kind[v] = "vhostuser" => MainPort(v) = <<"vhu", v>>
         /\ Kind[v] = "hostdev" /\ SupportsQos(v) => MainPort(v) = <<"rep", v>>
         /\ Kind[v] = "hostdev" /\ ~SupportsQos(v) => MainPort(v) = <<"vfr", v>>
<1>1. Kind[v] = "bridge" => MainPort(v) = <<"qvo", v>>
  BY DEF MainPort, PortName
<1>2. Kind[v] = "ovs" => MainPort(v) = <<"tap", v>>
  BY DEF MainPort, PortName
<1>3. Kind[v] = "vhostuser" => MainPort(v) = <<"vhu", v>>
  BY DEF MainPort, PortName
<1>4. Kind[v] = "hostdev" =>
        MainPort(v) = <<IF SupportsQos(v) THEN "rep" ELSE "vfr", v>>
  BY DEF MainPort, PortName, SupportsQos
<1> QED
  BY <1>1, <1>2, <1>3, <1>4

\* The port that unplug() sets out to delete.
LEMMA UnpluggedPortIs ==
  ASSUME Sound, NEW v \in Vifs
  PROVE  /\ ~Rebound(v) => PortName(v, UnpluggedAs[v]) = MainPort(v)
         /\ PortName(v, UnpluggedAs[v]) # MainPort(v) =>
              /\ Kind[v] = "bridge"
              /\ PortName(v, UnpluggedAs[v]) = <<"tap", v>>
              /\ MainPort(v) = <<"qvo", v>>
         /\ PortName(v, "bridge") = <<"qvo", v>>
<1>1. UnpluggedAs[v] = Kind[v] =>
        PortName(v, UnpluggedAs[v]) = MainPort(v)
  BY DEF MainPort
<1>2. UnpluggedAs[v] # Kind[v] =>
        Kind[v] = "bridge" /\ UnpluggedAs[v] = "ovs"
  OBVIOUS
<1>3. UnpluggedAs[v] = "ovs" => PortName(v, UnpluggedAs[v]) = <<"tap", v>>
  BY DEF PortName
<1>4. PortName(v, "bridge") = <<"qvo", v>>
  BY DEF PortName
<1> QED
  BY <1>1, <1>2, <1>3, <1>4, MainPortIs DEF Rebound

WiredForm(v) ==
  IF OwnBridge(v)
  THEN PortInPlace(v) /\ PatchInPlace(v) /\ TapInPlace(v)
  ELSE IF Kind[v] = "ovs" /\ v \notin CreatePort
  THEN brType[Bridge[v]] = DatapathOf(v)
  ELSE /\ PortInPlace(v)
       /\ Kind[v] = "ovs" => TapInPlace(v)
       /\ Kind[v] = "hostdev" /\ SupportsQos(v) => LinksUp({<<"rep", v>>})
       /\ Kind[v] = "bridge" => Bridged(v)

LEMMA WiredIs ==
  ASSUME Sound, NEW v \in Vifs
  PROVE  (Wired(v) <=> WiredForm(v)) /\ (Wired(v)' <=> WiredForm(v)')
<1> USE DEF WiredForm
<1>1. CASE OwnBridge(v)
  BY <1>1, KindIs DEF Wired, OwnBridge, UsesPortBridge
<1>2. CASE Kind[v] = "ovs" /\ ~OwnBridge(v)
  BY <1>2 DEF Wired, OwnBridge, UsesPortBridge
<1>3. CASE Kind[v] = "vhostuser"
  BY <1>3 DEF Wired, OwnBridge, UsesPortBridge
<1>4. CASE Kind[v] = "hostdev"
  BY <1>4 DEF Wired, OwnBridge, UsesPortBridge, SupportsQos
<1>5. CASE Kind[v] = "bridge"
  BY <1>5 DEF Wired, OwnBridge, UsesPortBridge, Bridged, VethUp, HybridLinks
<1> QED
  BY <1>1, <1>2, <1>3, <1>4, <1>5, KindIs

-----------------------------------------------------------------------------
(* What is done for one VIF leaves the others as they are, but for the     *)
(* datapath type of the bridge they share.                                 *)

BridgeKept(w) ==
  \/ brType'[Bridge[w]] = brType[Bridge[w]]
  \/ ~IsTrunk(Bridge[w]) /\ brType'[Bridge[w]] = WantedDatapath(w)

LinksKept(w) ==
  \A d \in LinksOf(w) : /\ d \in devs' <=> d \in devs
                        /\ d \in up' <=> d \in up
                        /\ d \in enslaved' <=> d \in enslaved

PortsKept(w) ==
  /\ \A p \in PortsOf(w) : /\ portBr'[p] = portBr[p]
                           /\ qosRows'[p] = qosRows[p]
                           /\ p \in ids' <=> p \in ids
                           /\ p \in portQos' <=> p \in portQos
  /\ brType'[PortBridge(w)] = brType[PortBridge(w)]
  /\ BridgeKept(w)

StoresKept(w) == LinksKept(w) /\ PortsKept(w)

CallKept(w) ==
  /\ pc'[w] = pc[w] /\ op'[w] = op[w] /\ last'[w] = last[w]
  /\ port'[w] = port[w]
  /\ w \in qosing' <=> w \in qosing

LibvirtStays(w) ==
  /\ w \in byLibvirt' <=> w \in byLibvirt
  /\ w \in raced => w \in raced'

Kept(w) == StoresKept(w) /\ CallKept(w) /\ LibvirtStays(w)

LEMMA OwnNames ==
  ASSUME NEW w \in Vifs
  PROVE  /\ <<"tap", w>> \in LinksOf(w) /\ <<"rep", w>> \in LinksOf(w)
         /\ <<"ibp", w>> \in PortsOf(w) /\ <<"pbp", w>> \in PortsOf(w)
         /\ <<"tap", w>> \in PortsOf(w)
         /\ MainPort(w) \in PortsOf(w)
BY Places DEF LinksOf, LinkKinds, PortsOf, PortKinds

LEMMA HybridNames ==
  ASSUME NEW w \in Vifs
  PROVE  /\ <<"qbr", w>> \in LinksOf(w) /\ <<"qvb", w>> \in LinksOf(w)
         /\ <<"qvo", w>> \in LinksOf(w)
         /\ HybridLinks(w) = {<<"qbr", w>>, <<"qvb", w>>, <<"qvo", w>>}
         /\ LinksOf(w) = HybridLinks(w) \cup {<<"tap", w>>, <<"rep", w>>}
<1>1. HybridLinks(w) = {<<"qbr", w>>, <<"qvb", w>>, <<"qvo", w>>}
  BY DEF HybridLinks, Veth
<1>2. LinksOf(w) = {<<"qbr", w>>, <<"qvb", w>>, <<"qvo", w>>, <<"tap", w>>,
                    <<"rep", w>>}
  BY DEF LinksOf, LinkKinds
<1> QED
  BY <1>1, <1>2

LEMMA DatapathNames ==
  ASSUME NEW w \in Vifs
  PROVE  /\ WantedDatapath(w) \in {"system", "netdev"}
         /\ DatapathOf(w) \in {"system", "netdev"}
         /\ Kind[w] # "vhostuser" => WantedDatapath(w) = DatapathOf(w)
BY DEF WantedDatapath, VhostDatapath, DatapathOf

LEMMA ScopeFrame ==
  ASSUME NEW w \in Vifs, Scope(w), StoresKept(w), LibvirtStays(w)
  PROVE  Scope(w)'
<1>1. LinkScope(w)'
  BY OwnNames, HybridNames
     DEF Scope, LinkScope, StoresKept, LinksKept, PortsKept, HybridLinks, Veth
<1>2. PortScope(w)'
  BY DEF Scope, PortScope, StoresKept, LinksKept, PortsKept, MainPort,
         PlugBridge, OwnBridge
<1>3. QosScope(w)'
  BY DEF Scope, QosScope, StoresKept, LinksKept, PortsKept, MainPort,
         SupportsQos
<1>4. PortWhole(w)'
  BY OwnNames
     DEF Scope, PortWhole, StoresKept, LinksKept, PortsKept, LibvirtStays,
         MainPort, PlugBridge, OwnBridge, SupportsQos
<1>5. LibvirtScope(w)'
  BY OwnNames
     DEF Scope, LibvirtScope, StoresKept, LinksKept, PortsKept, LibvirtStays,
         MainPort, PlugBridge
<1> QED
  BY <1>1, <1>2, <1>3, <1>4, <1>5 DEF Scope

LEMMA PortInPlaceFrame ==
  ASSUME NEW w \in Vifs, PortInPlace(w), StoresKept(w), LibvirtStays(w)
  PROVE  PortInPlace(w)'
<1>1. brType'[PlugBridge(w)] = WantedDatapath(w)
  BY DEF PlugBridge, PortInPlace, StoresKept, LinksKept, PortsKept, BridgeKept
<1> QED
  BY <1>1, OwnNames
     DEF PortInPlace, StoresKept, LinksKept, PortsKept, LibvirtStays, MainPort,
         PlugBridge, UsesPortBridge, SupportsQos, WantedDatapath

LEMMA LinksFrame ==
  ASSUME NEW w \in Vifs, StoresKept(w)
  PROVE  /\ TapInPlace(w) => TapInPlace(w)'
         /\ LinksUp({<<"rep", w>>}) => LinksUp({<<"rep", w>>})'
         /\ LinksUp({<<"qbr", w>>}) => LinksUp({<<"qbr", w>>})'
         /\ VethUp(w) => VethUp(w)'
         /\ Bridged(w) => Bridged(w)'
<1>1. \A d \in LinksOf(w) : /\ d \in devs \cap up => d \in devs' \cap up'
                            /\ d \in enslaved => d \in enslaved'
  BY DEF StoresKept, LinksKept
<1>2. /\ TapInPlace(w) => TapInPlace(w)'
      /\ LinksUp({<<"rep", w>>}) => LinksUp({<<"rep", w>>})'
      /\ LinksUp({<<"qbr", w>>}) => LinksUp({<<"qbr", w>>})'
  BY <1>1, OwnNames, HybridNames DEF TapInPlace, LinksUp
<1>3. VethUp(w) => VethUp(w)'
  BY <1>1, HybridNames DEF VethUp, LinksUp, HybridLinks, Veth
<1>4. Bridged(w) => Bridged(w)'
  BY <1>1, <1>3, HybridNames DEF Bridged
<1> QED
  BY <1>2, <1>3, <1>4

LEMMA WiredFrame ==
  ASSUME Sound, NEW w \in Vifs, Wired(w), StoresKept(w), LibvirtStays(w)
  PROVE  Wired(w)'
<1>1. PatchInPlace(w) /\ Kind[w] # "vhostuser" => PatchInPlace(w)'
  BY OwnNames, DatapathNames
     DEF PatchInPlace, StoresKept, LinksKept, PortsKept, BridgeKept
<1>2. /\ TapInPlace(w) => TapInPlace(w)'
      /\ LinksUp({<<"rep", w>>}) => LinksUp({<<"rep", w>>})'
      /\ Bridged(w) => Bridged(w)'
  BY LinksFrame
<1>4. PortInPlace(w) => PortInPlace(w)'
  BY PortInPlaceFrame
<1>5. /\ brType[Bridge[w]] = DatapathOf(w) /\ Kind[w] # "vhostuser"
      => brType'[Bridge[w]] = DatapathOf(w)
  BY DatapathNames DEF StoresKept, LinksKept, PortsKept, BridgeKept
<1>6. OwnBridge(w) => Kind[w] # "vhostuser"
  BY DEF OwnBridge, UsesPortBridge
<1> QED
  BY <1>1, <1>2, <1>4, <1>5, <1>6, WiredIs
     DEF WiredForm, OwnBridge, UsesPortBridge, SupportsQos

LEMMA CleanFrame ==
  ASSUME NEW w \in Vifs, Clean(w), StoresKept(w)
  PROVE  Clean(w)'
<1>1. /\ (LinksOf(w) \cap devs \subseteq {<<"rep", w>>})'
      /\ (LinksOf(w) \cap up = {})'
  BY DEF Clean, StoresKept, LinksKept, PortsKept
<1>2. (\A p \in PortsOf(w) : portBr[p] = NoBridge /\ qosRows[p] = 0)'
  BY DEF Clean, StoresKept, LinksKept, PortsKept
<1>3. ~BrExists(PortBridge(w))' /\ (IsTrunk(Bridge[w]) => ~BrExists(Bridge[w]))'
  BY DEF Clean, StoresKept, LinksKept, PortsKept, BridgeKept, BrExists, IsTrunk
<1> QED
  BY <1>1, <1>2, <1>3 DEF Clean

LEMMA KeptFrame ==
  ASSUME Sound, NEW w \in Vifs, VifInv(w), Kept(w)
  PROVE  VifInv(w)'
<1> USE DEF VifInv, Kept
<1>1. Scope(w)'
  BY ScopeFrame
<1>2. CallStage(w)'
  BY DEF CallStage, CallKept, MainPort, SupportsQos, PortName, DatapathOf
<1>3. PlugStage(w)'
  <2>1. /\ LinksUp({<<"rep", w>>}) => LinksUp({<<"rep", w>>})'
        /\ TapInPlace(w) => TapInPlace(w)'
    BY LinksFrame
  <2>3. PortInPlace(w) => PortInPlace(w)'
    BY PortInPlaceFrame
  <2>4. /\ brType[Bridge[w]] = DatapathOf(w) /\ Kind[w] # "vhostuser"
        => brType'[Bridge[w]] = DatapathOf(w)
    BY DatapathNames DEF StoresKept, LinksKept, PortsKept, BridgeKept
  <2>5. /\ portBr'[MainPort(w)] = portBr[MainPort(w)]
        /\ qosRows'[MainPort(w)] = qosRows[MainPort(w)]
        /\ brType'[PortBridge(w)] = brType[PortBridge(w)]
    BY OwnNames DEF StoresKept, PortsKept
  <2>6. /\ MainPort(w)' = MainPort(w) /\ (OwnBridge(w)' <=> OwnBridge(w))
        /\ Sure(w)' <=> Sure(w)
    BY DEF MainPort, OwnBridge, UsesPortBridge, Sure
  <2> QED
    BY <2>1, <2>3, <2>4, <2>5, <2>6
       DEF PlugStage, CallKept, PlugBridge, SupportsQos, OwnBridge
<1>4. LinksStage(w)'
  <2>1. <<"qvo", w>> \in devs' <=> <<"qvo", w>> \in devs
    BY HybridNames DEF StoresKept, LinksKept
  <2> QED
    BY <2>1, LinksFrame DEF LinksStage, CallKept
<1>5. UnplugStage(w)'
  <2>1. /\ <<"qvo", w>> \notin devs => <<"qvo", w>> \notin devs'
        /\ <<"qbr", w>> \notin devs => <<"qbr", w>> \notin devs'
    BY HybridNames DEF StoresKept, LinksKept
  <2>2. BridgeGone(w)'
    BY <2>1 DEF UnplugStage, BridgeGone, CallKept, MainPort, Known, Sure
  <2> QED
    BY <2>1, <2>2, OwnNames
       DEF UnplugStage, CallKept, StoresKept, LinksKept, PortsKept, BrExists,
           MainPort, OwnBridge, SupportsQos, Known
<1>6. Intact(w)'
  BY WiredFrame, HybridNames
     DEF Intact, Whole, CallKept, StoresKept, LinksKept, Sure
<1>7. Outcome(w)'
  BY WiredFrame, CleanFrame DEF Outcome, CallKept, Sure, Rebound
<1> QED
  BY <1>1, <1>2, <1>3, <1>4, <1>5, <1>6, <1>7

-----------------------------------------------------------------------------
(* What a step for v may do to the two stores and to the calls             *)

LinkEffect(v) ==
  \/ UNCHANGED kernelVars
  \/ \E d \in LinksOf(v) : DeleteNetDev(d) \/ AddUp(d) \/ AddDown(d)
                                           \/ SetDown(d)
  \/ CreateVethPair(v) \/ CreateVethPairPartly(v) \/ Enslave(v)
  \/ DeleteBridge(v) \/ DeleteBridgePartly(v)

PortEffect(v) ==
  \/ UNCHANGED ovsdbVars
  \/ /\ \/ AddBr(Bridge[v], WantedDatapath(v))
        \/ AddBr(PortBridge(v), DatapathOf(v))
     /\ UNCHANGED <<portVars, qosRows>>
  \/ \E p \in PortsOf(v) : \E b : DelPort(p, b)
  \/ DelBr(PortBridge(v))
  \/ DelBr(Bridge[v]) /\ IsTrunk(Bridge[v])
  \/ /\ port[v] \in PortsOf(v)
     /\ \/ /\ DeleteQos(port[v]) \/ CreateQos(port[v])
           /\ UNCHANGED <<brType, portVars>>
        \/ PortTransaction(v) /\ UNCHANGED qosRows
  \/ PatchTransaction(v)

CallEffect(v) ==
  \/ \E l \in Labels : /\ Goto(v, l)
                       /\ \E p : port' = [port EXCEPT ![v] = p]
                       /\ \E S \in SUBSET {v} : qosing' = (qosing \ {v}) \cup S
  \/ Succeed(v) \/ Fail(v)

LEMMA OtherLinks ==
  ASSUME NEW v \in Vifs, NEW w \in Vifs, v # w, LinkEffect(v)
  PROVE  LinksKept(w)
<1> SUFFICES ASSUME NEW d \in LinksOf(w)
             PROVE  /\ d \in devs' <=> d \in devs
                    /\ d \in up' <=> d \in up
                    /\ d \in enslaved' <=> d \in enslaved
  BY DEF LinksKept
<1>1. CASE UNCHANGED kernelVars
  BY <1>1 DEF kernelVars
<1>2. ASSUME NEW e \in LinksOf(v),
             DeleteNetDev(e) \/ AddUp(e) \/ AddDown(e) \/ SetDown(e)
      PROVE  /\ d \in devs' <=> d \in devs
             /\ d \in up' <=> d \in up
             /\ d \in enslaved' <=> d \in enslaved
  <2>1. d # e /\ d \notin Gone(e)
    BY DEF LinksOf, Gone, Veth
  <2> QED
    BY <1>2, <2>1 DEF DeleteNetDev, AddUp, AddDown, SetDown
<1>3. d \notin Veth(v) /\ d # <<"qbr", v>> /\ d # <<"qvb", v>>
  BY DEF LinksOf, Veth
<1>4. CASE CreateVethPair(v) \/ CreateVethPairPartly(v) \/ Enslave(v)
  BY <1>3, <1>4 DEF CreateVethPair, CreateVethPairPartly, Enslave
<1>5. CASE DeleteBridge(v) \/ DeleteBridgePartly(v)
  BY <1>1, <1>3, <1>5 DEF DeleteBridge, DeleteBridgePartly
<1> QED
  BY <1>1, <1>2, <1>4, <1>5 DEF LinkEffect

LEMMA OtherPlaces ==
  ASSUME Sound, NEW v \in Vifs, NEW w \in Vifs, v # w
  PROVE  /\ PortBridge(v) # PortBridge(w)
         /\ PortBridge(v) # Bridge[w] /\ PortBridge(w) # Bridge[v]
         /\ IsTrunk(Bridge[v]) => Bridge[v] # Bridge[w]
         /\ PlugBridge(w) \in {Bridge[w], PortBridge(w)}
         /\ NoBridge \notin {Bridge[v], PortBridge(v)}
<1>1. PortBridge(v) # PortBridge(w)
  BY DEF PortBridge
<1>2. /\ PortBridge(v) \notin Bridges /\ PortBridge(w) \notin Bridges
      /\ Bridge[v] \in Bridges /\ Bridge[w] \in Bridges
  BY NetAssumption
<1>3. NoBridge \notin {Bridge[v], PortBridge(v)}
  BY <1>2, NetAssumption DEF AllBridges
<1>4. PlugBridge(w) \in {Bridge[w], PortBridge(w)}
  BY DEF PlugBridge
<1>5. IsTrunk(Bridge[v]) => Bridge[v] # Bridge[w]
  BY DEF Sound
<1> QED
  BY <1>1, <1>2, <1>3, <1>4, <1>5

LEMMA OtherPorts ==
  ASSUME Sound, Typed, NEW v \in Vifs, NEW w \in Vifs, v # w,
         VifInv(w), PortEffect(v)
  PROVE  PortsKept(w)
<1>0. /\ portBr \in [Ports -> AllBridges \cup {NoBridge}]
      /\ brType \in [AllBridges -> {"absent", "system", "netdev"}]
      /\ qosRows \in [Ports -> Nat]
      /\ PortsOf(w) \subseteq Ports /\ PortsOf(v) \subseteq Ports
      /\ Bridge[v] \in AllBridges /\ Bridge[w] \in AllBridges
      /\ PortBridge(v) \in AllBridges /\ PortBridge(w) \in AllBridges
  BY Places DEF Typed, TypeOK, NetTypeOK
<1>a. \A p \in PortsOf(w) : p \notin PortsOf(v)
  BY OwnPorts
<1>b. \A p \in PortsOf(w) :
        /\ portBr[p] # PortBridge(v)
        /\ IsTrunk(Bridge[v]) => portBr[p] # Bridge[v]
  BY OtherPlaces DEF VifInv, Scope, PortScope
<1>1. CASE UNCHANGED ovsdbVars
  BY <1>1 DEF ovsdbVars, portVars, BridgeKept, PortsKept
<1>2. CASE /\ AddBr(Bridge[v], WantedDatapath(v))
           /\ UNCHANGED <<portVars, qosRows>>
  <2>1. BridgeKept(w)
    BY <1>0, <1>2 DEF AddBr, BridgeKept, Sound
  <2> QED
    BY <1>0, <1>2, <2>1, OtherPlaces DEF AddBr, portVars, PortsKept
<1>3. CASE /\ AddBr(PortBridge(v), DatapathOf(v))
           /\ UNCHANGED <<portVars, qosRows>>
  <2>1. /\ brType'[PortBridge(w)] = brType[PortBridge(w)]
        /\ brType'[Bridge[w]] = brType[Bridge[w]]
    BY <1>0, <1>3, OtherPlaces DEF AddBr
  <2> QED
    BY <1>3, <2>1 DEF portVars, BridgeKept, PortsKept
<1>4. ASSUME NEW p \in PortsOf(v), NEW b, DelPort(p, b)
      PROVE  PortsKept(w)
  <2>1. PICK S \in SUBSET PortsOf(v) : RemovePorts(S)
    BY <1>4 DEF DelPort
  <2>2. \A q \in PortsOf(w) : q \notin S
    BY <1>a
  <2> QED
    BY <1>0, <1>4, <2>1, <2>2 DEF DelPort, RemovePorts, BridgeKept, PortsKept
<1>5. CASE DelBr(PortBridge(v))
  BY <1>0, <1>b, <1>5, OtherPlaces
     DEF DelBr, RemovePorts, BridgeKept, PortsKept
<1>6. CASE DelBr(Bridge[v]) /\ IsTrunk(Bridge[v])
  BY <1>0, <1>b, <1>6, OtherPlaces
     DEF DelBr, RemovePorts, BridgeKept, PortsKept
<1>7. CASE /\ port[v] \in PortsOf(v)
           /\ DeleteQos(port[v]) \/ CreateQos(port[v])
           /\ UNCHANGED <<brType, portVars>>
  BY <1>0, <1>a, <1>7 DEF DeleteQos, CreateQos, portVars, BridgeKept, PortsKept
<1>8. CASE /\ port[v] \in PortsOf(v)
           /\ PortTransaction(v) /\ UNCHANGED qosRows
  <2>1. CASE UNCHANGED <<brType, portVars>>
    BY <1>8, <2>1 DEF portVars, BridgeKept, PortsKept
  <2>2. CASE ~UNCHANGED <<brType, portVars>>
    <3>1. PutPort(port[v], PlugBridge(v), v \in isolating,
                  ~UsesPortBridge(v, Kind[v]), v \in qosing)
      BY <1>8, <2>2 DEF PortTransaction
    <3>2. \/ UNCHANGED brType
          \/ AddBr(Bridge[v], WantedDatapath(v))
      BY <1>8, <2>2 DEF PortTransaction, PlugBridge, UsesPortBridge,
                        WantedDatapath
    <3>3. BridgeKept(w) /\ brType'[PortBridge(w)] = brType[PortBridge(w)]
      BY <1>0, <3>2, OtherPlaces DEF AddBr, BridgeKept, Sound
    <3> QED
      BY <1>0, <1>a, <1>8, <3>1, <3>3 DEF PutPort, PortsKept
  <2> QED
    BY <2>1, <2>2
<1>9. CASE PatchTransaction(v)
  <2>1. CASE PutPatchPair(v, Bridge[v], v \in isolating)
    <3>1. \A p \in PortsOf(w) : p # <<"ibp", v>> /\ p # <<"pbp", v>>
      BY <1>a, OwnNames
    <3> QED
      BY <1>0, <2>1, <3>1 DEF PutPatchPair, BridgeKept, PortsKept
  <2> QED
    BY <1>1, <1>9, <2>1 DEF PatchTransaction
<1> QED
  BY <1>1, <1>2, <1>3, <1>4, <1>5, <1>6, <1>7, <1>8, <1>9 DEF PortEffect

LEMMA OtherCalls ==
  ASSUME Typed, NEW v \in Vifs, NEW w \in Vifs, v # w, CallEffect(v)
  PROVE  CallKept(w)
<1>1. /\ pc \in [Vifs -> Labels] /\ port \in [Vifs -> Ports \cup {NoPort}]
      /\ op \in [Vifs -> {"none", "plug", "unplug"}]
      /\ last \in [Vifs -> Results]
  BY DEF Typed, TypeOK, CallTypeOK
<1>2. CASE Succeed(v) \/ Fail(v)
  BY <1>1, <1>2 DEF Succeed, Fail, Return, CallKept
<1>3. CASE ~(Succeed(v) \/ Fail(v))
  <2>1. PICK l \in Labels : /\ Goto(v, l)
                            /\ \E p : port' = [port EXCEPT ![v] = p]
                            /\ \E S \in SUBSET {v} :
                                 qosing' = (qosing \ {v}) \cup S
    BY <1>3 DEF CallEffect
  <2> QED
    BY <1>1, <2>1 DEF Goto, CallKept
<1> QED
  BY <1>2, <1>3

LEMMA Unfailing ==
  ASSUME Sound, NEW v \in Vifs
  PROVE  ~Lost /\ ~Blind(v) /\ ~Untimely(v)
BY DEF Sound, Lost, Blind, Untimely, Fault

LEMMA WantedIs ==
  ASSUME Sound, NEW v \in Vifs
  PROVE  WantedDatapath(v) = DatapathOf(v)
BY DEF Sound, WantedDatapath, VhostDatapath, DatapathOf

LEMMA ToNext ==
  ASSUME Typed, NEW v \in Vifs, NEW l \in Labels, Proceed(v, l)
  PROVE  CallEffect(v)
<1>1. /\ Goto(v, l) /\ port' = [port EXCEPT ![v] = port[v]]
      /\ qosing' = (qosing \ {v}) \cup (qosing \cap {v})
  BY DEF Proceed, localVars, Typed, TypeOK, CallTypeOK
<1> QED
  BY <1>1 DEF CallEffect

LEMMA ToNextPort ==
  ASSUME Typed, NEW v \in Vifs, NEW l \in Labels, Goto(v, l), NEW p,
         port' = port \/ port' = [port EXCEPT ![v] = p],
         qosing' \in {qosing, qosing \cup {v}, qosing \ {v}}
  PROVE  CallEffect(v)
<1>1. port = [port EXCEPT ![v] = port[v]]
  BY DEF Typed, TypeOK, CallTypeOK
<1>2. \E S \in SUBSET {v} : qosing' = (qosing \ {v}) \cup S
  <2>1. qosing = (qosing \ {v}) \cup (qosing \cap {v})
    OBVIOUS
  <2>2. /\ qosing \cup {v} = (qosing \ {v}) \cup {v}
        /\ qosing \ {v} = (qosing \ {v}) \cup {}
    OBVIOUS
  <2> QED
    BY <2>1, <2>2
<1> QED
  BY <1>1, <1>2 DEF CallEffect

Effects(v) == LinkEffect(v) /\ PortEffect(v) /\ CallEffect(v)

LEMMA PlugEffects ==
  ASSUME Sound, Typed, NEW v \in Vifs, VifInv(v), PlugStep(v)
  PROVE  Effects(v) /\ LibvirtStays(v) /\ UNCHANGED <<byLibvirt, raced>>
<1> USE DEF Effects
<1>0. /\ ~Lost
      /\ UNCHANGED <<byLibvirt, raced>>
      /\ LibvirtStays(v)
  BY PlugLibvirt DEF Sound, Lost, Blind, Fault, LibvirtStays
<1>1. CASE Plug(v)
  <2>1. CASE v \in BadProfile
    BY <1>0, <1>1, <2>1
       DEF Plug, LinkEffect, PortEffect, CallEffect, netVars
  <2>2. CASE v \notin BadProfile
    <3>1. \E l \in Labels : Goto(v, l)
      BY <1>1, <2>2 DEF Plug, Labels, PlugPcs
    <3> QED
      BY <1>0, <1>1, <2>2, <3>1, ToNextPort
         DEF Plug, LinkEffect, PortEffect, netVars
  <2> QED
    BY <2>1, <2>2
<1>2. CASE \/ EnsureBridge(v) \/ ExistsVeth(v) \/ CreateVeth(v)
           \/ AddBridgePort(v) \/ UpdateVeth(v)
  <2>1. Fail(v) \/ Succeed(v) \/ \E l \in Labels : Proceed(v, l)
    BY <1>2 DEF EnsureBridge, ExistsVeth, CreateVeth, AddBridgePort,
                UpdateVeth, Labels, PlugPcs
  <2>2. /\ UNCHANGED ovsdbVars
        /\ \/ UNCHANGED kernelVars \/ AddUp(<<"qbr", v>>)
           \/ AddDown(<<"qbr", v>>) \/ CreateVethPair(v)
           \/ CreateVethPairPartly(v) \/ Enslave(v)
    BY <1>2 DEF EnsureBridge, ExistsVeth, CreateVeth, AddBridgePort,
                UpdateVeth, Partial, netVars
  <2> QED
    BY <1>0, <2>1, <2>2, ToNext, HybridNames
       DEF LinkEffect, PortEffect, CallEffect
<1>3. CASE EnsureIntBridge(v)
  <2>1. Succeed(v) \/ \E l \in Labels : Proceed(v, l)
    BY <1>3 DEF EnsureIntBridge, Labels, PlugPcs
  <2>2. /\ UNCHANGED <<kernelVars, portVars, qosRows>>
        /\ AddBr(Bridge[v], WantedDatapath(v))
    BY <1>0, <1>3, WantedIs DEF EnsureIntBridge
  <2> QED
    BY <1>0, <2>1, <2>2, ToNext DEF LinkEffect, PortEffect, CallEffect
<1>4. CASE EnsurePortBridge(v)
  <2>1. \E l \in Labels : Proceed(v, l)
    BY <1>4 DEF EnsurePortBridge, Labels, PlugPcs
  <2> QED
    BY <1>0, <1>4, <2>1, ToNext DEF EnsurePortBridge, LinkEffect, PortEffect
<1>5. CASE SetRepresentorUp(v)
  <2>1. \E l \in Labels : Proceed(v, l)
    BY <1>5 DEF SetRepresentorUp, Labels, PlugPcs
  <2> QED
    BY <1>0, <1>5, <2>1, ToNext, OwnNames
       DEF SetRepresentorUp, LinkEffect, PortEffect
<1>6. CASE Isolate(v) \/ IsolatePatch(v)
  <2>1. UNCHANGED netVars /\ UNCHANGED <<port, qosing>>
        /\ \E l \in Labels : Goto(v, l)
    BY <1>0, <1>6 DEF Isolate, IsolatePatch, Labels, PlugPcs
  <2> QED
    BY <1>0, <2>1, ToNextPort DEF LinkEffect, PortEffect, netVars
<1>7. CASE ExistsPort(v)
  <2>1. /\ UNCHANGED netVars /\ UNCHANGED port
        /\ qosing' \in {qosing \cup {v}, qosing \ {v}}
        /\ \E l \in Labels : Goto(v, l)
    BY <1>0, <1>7 DEF ExistsPort, Labels, PlugPcs
  <2> QED
    BY <1>0, <2>1, ToNextPort DEF LinkEffect, PortEffect, netVars
<1>8. CASE DeleteOldQos(v) \/ CreateNewQos(v) \/ GetQos(v)
  <2>1. Fail(v) \/ \E l \in Labels : Proceed(v, l)
    BY <1>8 DEF DeleteOldQos, CreateNewQos, GetQos, Labels, PlugPcs
  <2>2. /\ UNCHANGED kernelVars
        /\ \/ UNCHANGED ovsdbVars
           \/ /\ DeleteQos(port[v]) \/ CreateQos(port[v])
              /\ UNCHANGED <<brType, portVars>>
    BY <1>0, <1>8 DEF DeleteOldQos, CreateNewQos, GetQos, netVars
  <2>3. port[v] \in PortsOf(v)
    BY <1>8, WorkPort
       DEF DeleteOldQos, CreateNewQos, GetQos, At, PlugWork, PlugPcs
  <2> QED
    BY <1>0, <2>1, <2>2, <2>3, ToNext DEF LinkEffect, PortEffect, CallEffect
<1>9. CASE CreateOvsVifPort(v)
  <2>1. Fail(v) \/ Succeed(v) \/ \E l \in Labels : Proceed(v, l)
    BY <1>9 DEF CreateOvsVifPort, PortDone, Labels, PlugPcs
  <2>2. UNCHANGED kernelVars /\ PortTransaction(v) /\ UNCHANGED qosRows
    BY <1>0, <1>9 DEF CreateOvsVifPort
  <2>3. port[v] \in PortsOf(v)
    BY <1>9, WorkPort
       DEF CreateOvsVifPort, At, PlugWork, PlugPcs
  <2> QED
    BY <1>0, <2>1, <2>2, <2>3, ToNext DEF LinkEffect, PortEffect, CallEffect
<1>10. CASE CreateTapDevice(v)
  <2>1. Fail(v) \/ Succeed(v) \/ \E l \in Labels : Proceed(v, l)
    BY <1>10 DEF CreateTapDevice, PortDone, Labels, PlugPcs
  <2>2. /\ UNCHANGED ovsdbVars
        /\ \/ UNCHANGED kernelVars \/ AddUp(<<"tap", v>>)
           \/ AddDown(<<"tap", v>>)
    BY <1>10 DEF CreateTapDevice, Partial, netVars
  <2> QED
    BY <1>0, <2>1, <2>2, ToNext, OwnNames
       DEF LinkEffect, PortEffect, CallEffect
<1>11. CASE CreatePatchPortPair(v)
  <2>1. Fail(v) \/ Succeed(v)
    BY <1>11 DEF CreatePatchPortPair
  <2>2. UNCHANGED kernelVars /\ PatchTransaction(v)
    BY <1>0, <1>11 DEF CreatePatchPortPair
  <2> QED
    BY <1>0, <2>1, <2>2 DEF LinkEffect, PortEffect, CallEffect
<1> QED
  BY <1>1, <1>2, <1>3, <1>4, <1>5, <1>6, <1>7, <1>8, <1>9, <1>10, <1>11
     DEF PlugStep

\* Where unplug() handles a VF, and how it goes on about a port.
LEMMA RepresentorPort ==
  ASSUME Sound, NEW v \in Vifs, VifInv(v), SetRepresentorDown(v)
  PROVE  Kind[v] = "hostdev" /\ SupportsQos(v) /\ port[v] = <<"rep", v>>
<1>1. pc[v] = "set_representor_down" /\ pc[v] \in UnplugWork
  BY DEF SetRepresentorDown, At, UnplugWork, UnplugPcs
<1>2. Kind[v] = "hostdev" /\ SupportsQos(v)
  BY <1>1 DEF VifInv, UnplugStage
<1>3. port[v] = MainPort(v)
  BY <1>1, <1>2, UnpluggedPortIs DEF VifInv, CallStage
<1> QED
  BY <1>2, <1>3, MainPortIs

LEMMA UnplugEffects ==
  ASSUME Sound, Typed, NEW v \in Vifs, VifInv(v), UnplugStep(v)
  PROVE  Effects(v) /\ (ForgetPorts \/ UNCHANGED <<byLibvirt, raced>>)
<1> USE DEF Effects, NoFault
<1>0. ~Lost /\ ~Blind(v)
  BY DEF Sound, Lost, Blind, Fault
<1>1. CASE Unplug(v)
  <2>1. CASE v \in BadProfile
    BY <1>1, <2>1 DEF Unplug, LinkEffect, PortEffect, CallEffect, netVars
  <2>2. CASE v \notin BadProfile
    <3>1. \E l \in Labels : Goto(v, l)
      BY <1>1, <2>2 DEF Unplug, Labels, UnplugPcs
    <3> QED
      BY <1>1, <2>2, <3>1, ToNextPort
         DEF Unplug, LinkEffect, PortEffect, netVars
  <2> QED
    BY <2>1, <2>2
<1>2. CASE ExistsQbr(v)
  <2>1. \E l \in Labels : Goto(v, l)
    BY <1>2 DEF ExistsQbr, Labels, UnplugPcs
  <2> QED
    BY <1>0, <1>2, <2>1, ToNextPort
       DEF ExistsQbr, LinkEffect, PortEffect, netVars
<1>3. CASE DeleteLinuxBridge(v)
  <2>1. Fail(v) \/ \E l \in Labels : Proceed(v, l)
    BY <1>3 DEF DeleteLinuxBridge, Labels, UnplugPcs
  <2>2. /\ UNCHANGED ovsdbVars /\ UNCHANGED <<byLibvirt, raced>>
        /\ DeleteBridge(v) \/ DeleteBridgePartly(v)
    BY <1>0, <1>3 DEF DeleteLinuxBridge, Partial
  <2> QED
    BY <2>1, <2>2, ToNext DEF LinkEffect, PortEffect, CallEffect
<1>4. CASE FindRepresentor(v)
  <2>1. \E l \in Labels : Proceed(v, l)
    BY <1>4 DEF FindRepresentor, Labels, UnplugPcs
  <2> QED
    BY <1>4, <2>1, ToNext DEF FindRepresentor, LinkEffect, PortEffect, netVars
<1>5. CASE DeleteTap(v)
  <2>1. \E l \in Labels : Proceed(v, l)
    BY <1>5 DEF DeleteTap, Labels, UnplugPcs
  <2> QED
    BY <1>0, <1>5, <2>1, ToNext, OwnNames DEF DeleteTap, LinkEffect, PortEffect
<1>6. CASE DeleteIntPatch(v) \/ DeletePortPatch(v)
  <2>1. Fail(v) \/ \E l \in Labels : Proceed(v, l)
    BY <1>6 DEF DeleteIntPatch, DeletePortPatch, DeletePatch, Labels, UnplugPcs
  <2> QED
    BY <1>0, <1>6, <2>1, ToNext, OwnNames
       DEF DeleteIntPatch, DeletePortPatch, DeletePatch, LinkEffect,
           PortEffect, CallEffect
<1>7. CASE DeleteOvsVifPort(v)
  <2>1. \E l \in Labels : Proceed(v, l)
    BY <1>7 DEF DeleteOvsVifPort, AfterQos, Labels, UnplugPcs
  <2>2. port[v] \in PortsOf(v)
    BY <1>7, WorkPort DEF DeleteOvsVifPort, At, UnplugWork, UnplugPcs
  <2> QED
    BY <1>0, <1>7, <2>1, <2>2, ToNext
       DEF DeleteOvsVifPort, LinkEffect, PortEffect
<1>8. CASE CleanQos(v)
  <2>1. \E l \in Labels : Proceed(v, l)
    BY <1>8 DEF CleanQos, AfterQos, Labels, UnplugPcs
  <2>2. port[v] \in PortsOf(v)
    BY <1>8, WorkPort DEF CleanQos, At, UnplugWork, UnplugPcs
  <2> QED
    BY <1>0, <1>8, <2>1, <2>2, ToNext DEF CleanQos, LinkEffect, PortEffect
<1>9. CASE DeletePortDevice(v)
  <2>1. \E l \in Labels : Proceed(v, l)
    BY <1>9 DEF DeletePortDevice, Labels, UnplugPcs
  <2>2. port[v] \in devs => port[v] \in LinksOf(v)
    <3>1. port[v] \in PortsOf(v) /\ devs \subseteq Links
      BY <1>9, WorkPort
         DEF DeletePortDevice, At, UnplugWork, UnplugPcs, Typed, TypeOK,
             NetTypeOK
    <3> QED
      BY <3>1 DEF PortsOf, Links, LinksOf
  <2> QED
    BY <1>0, <1>9, <2>1, <2>2, ToNext
       DEF DeletePortDevice, LinkEffect, PortEffect
<1>10. CASE DeletePortBridge(v)
  <2>1. \E l \in Labels : Proceed(v, l)
    BY <1>10 DEF DeletePortBridge, Labels, UnplugPcs
  <2> QED
    BY <1>0, <1>10, <2>1, ToNext DEF DeletePortBridge, LinkEffect, PortEffect
<1>11. CASE SetRepresentorDown(v)
  <2>1. \E l \in Labels : Proceed(v, l)
    BY <1>11 DEF SetRepresentorDown, Labels, UnplugPcs
  <2>2. port[v] = <<"rep", v>>
    BY <1>11, RepresentorPort
  <2> QED
    BY <1>11, <2>1, <2>2, ToNext, OwnNames
       DEF SetRepresentorDown, LinkEffect, PortEffect
<1>12. CASE DeleteTrunk(v)
  BY <1>0, <1>12
     DEF DeleteTrunk, LinkEffect, PortEffect, CallEffect, netVars
<1> QED
  BY <1>1, <1>2, <1>3, <1>4, <1>5, <1>6, <1>7, <1>8, <1>9, <1>10, <1>11,
     <1>12 DEF UnplugStep

-----------------------------------------------------------------------------
(* What is done for one VIF leaves all others as they are.                 *)

LEMMA OtherLibvirt ==
  ASSUME Sound, NEW w \in Vifs, VifInv(w), PortsKept(w),
         ForgetPorts \/ UNCHANGED <<byLibvirt, raced>>
  PROVE  LibvirtStays(w)
<1>1. CASE ForgetPorts
  <2>1. w \in byLibvirt => portBr'[<<"tap", w>>] # NoBridge
    <3> SUFFICES ASSUME w \in byLibvirt
                 PROVE  portBr'[<<"tap", w>>] # NoBridge
      OBVIOUS
    <3>1. /\ MainPort(w) = <<"tap", w>>
          /\ portBr[<<"tap", w>>] = PlugBridge(w)
      BY MainPortIs DEF VifInv, Scope, LibvirtScope
    <3>2. portBr'[<<"tap", w>>] = PlugBridge(w)
      BY <3>1, OwnNames DEF PortsKept
    <3> QED
      BY <3>2, Places, NetAssumption
  <2> QED
    BY <1>1, <2>1 DEF ForgetPorts, LibvirtStays
<1>2. CASE UNCHANGED <<byLibvirt, raced>>
  BY <1>2 DEF LibvirtStays
<1> QED
  BY <1>1, <1>2

LEMMA OthersKept ==
  ASSUME Sound, Typed, WiringInv, NEW v \in Vifs, Effects(v),
         ForgetPorts \/ UNCHANGED <<byLibvirt, raced>>
  PROVE  \A w \in Vifs \ {v} : Kept(w)
<1> SUFFICES ASSUME NEW w \in Vifs, w # v PROVE Kept(w)
  OBVIOUS
<1>1. VifInv(w)
  BY DEF WiringInv
<1>2. LinksKept(w) /\ PortsKept(w) /\ CallKept(w)
  BY <1>1, OtherLinks, OtherPorts, OtherCalls DEF Effects
<1>3. LibvirtStays(w)
  BY <1>1, <1>2, OtherLibvirt
<1> QED
  BY <1>2, <1>3 DEF Kept, StoresKept

\* A step for v has to be looked at for v only.
LEMMA OneVif ==
  ASSUME Sound, Typed, WiringInv, NEW v \in Vifs,
         \A w \in Vifs \ {v} : Kept(w),
         VifInv(v)'
  PROVE  WiringInv'
<1>1. \A w \in Vifs \ {v} : VifInv(w)'
  BY KeptFrame DEF WiringInv
<1> QED
  BY <1>1 DEF WiringInv

-----------------------------------------------------------------------------
(* A call that goes on, and one that returns                               *)

LEMMA PcSets ==
  /\ PlugPcs \cap UnplugPcs = {} /\ "idle" \notin PlugPcs \cup UnplugPcs
  /\ {"ensure_port_bridge", "set_representor_up"} \cup BridgedPcs
       \subseteq PlugPcs
  /\ PortPcs \cup PortMadePcs \subseteq BridgedPcs
  /\ BridgedPcs \cap (HybridPcs \cup IntactPcs) = {}
  /\ HybridPcs \ {"delete_bridge"} \subseteq PlugPcs
  /\ "delete_bridge" \in UnplugPcs
  /\ BridgeGonePcs \subseteq UnplugPcs \ (HybridPcs \cup IntactPcs)
  /\ UnplugPcs = BridgeGonePcs \cup {"unplug", "exists_qbr", "delete_bridge"}
  /\ PatchGonePcs \subseteq BridgeGonePcs
BY DEF PlugPcs, UnplugPcs, BridgedPcs, PortPcs, PortMadePcs, PatchPcs,
       QosMakingPcs, BridgeGonePcs, PatchGonePcs, PortGonePcs, LeavePcs,
       HybridPcs, IntactPcs

LEMMA PlugGoesOn ==
  ASSUME Typed, NEW v \in Vifs, VifInv(v), pc[v] \in PlugPcs,
         NEW l \in PlugPcs, Goto(v, l),
         l \in HybridPcs => Kind[v] = "bridge",
         v \in qosing' => SupportsQos(v),
         Scope(v)', LinksStage(v)', PlugStage(v)',
         l \in IntactPcs => Whole(v)'
  PROVE  VifInv(v)'
<1>1. /\ pc'[v] = l /\ op'[v] = op[v] /\ last'[v] = last[v]
  BY DEF Goto, Typed, TypeOK, CallTypeOK
<1>2. op[v] = "plug" /\ last[v] = "none"
  BY PcSets DEF VifInv, CallStage
<1>3. CallStage(v)'
  BY <1>1, <1>2, PcSets DEF CallStage, SupportsQos, UnplugWork
<1>4. UnplugStage(v)'
  BY <1>1, PcSets
     DEF UnplugStage, BridgeGone, BridgeGonePcs, PatchGonePcs, PortGonePcs,
         LeavePcs
<1>5. Outcome(v)' /\ Intact(v)'
  BY <1>1, <1>2 DEF Outcome, Intact
<1> QED
  BY <1>3, <1>4, <1>5 DEF VifInv

\* From one of the steps that all VIFs share to the next.
LEMMA SharedGoesOn ==
  ASSUME Typed, NEW v \in Vifs, VifInv(v), pc[v] \in PlugPcs,
         NEW l \in PlugPcs \ (HybridPcs \cup {"plug"}), Goto(v, l),
         pc[v] \in BridgedPcs \/ Kind[v] # "bridge",
         Kind[v] = "bridge" /\ Bridged(v) => Bridged(v)',
         v \in qosing' => SupportsQos(v),
         Scope(v)', PlugStage(v)'
  PROVE  VifInv(v)'
<1>1. pc'[v] = l
  BY DEF Goto, Typed, TypeOK, CallTypeOK
<1>2. LinksStage(v)'
  BY <1>1 DEF VifInv, LinksStage, HybridPcs
<1>3. l \notin IntactPcs
  BY DEF IntactPcs, HybridPcs, PlugPcs
<1> QED
  BY <1>2, <1>3, PlugGoesOn

LEMMA UnplugGoesOn ==
  ASSUME Typed, NEW v \in Vifs, VifInv(v), pc[v] \in UnplugPcs,
         NEW l \in UnplugPcs, Goto(v, l),
         l \in HybridPcs => Kind[v] = "bridge",
         UNCHANGED qosing,
         port'[v] \in {MainPort(v), PortName(v, UnpluggedAs[v])},
         Scope(v)', UnplugStage(v)',
         l \in IntactPcs => Whole(v)'
  PROVE  VifInv(v)'
<1>1. /\ pc'[v] = l /\ op'[v] = op[v] /\ last'[v] = last[v]
  BY DEF Goto, Typed, TypeOK, CallTypeOK
<1>2. op[v] = "unplug" /\ last[v] = "none" /\ (v \in qosing => SupportsQos(v))
  BY PcSets DEF VifInv, CallStage
<1>3. CallStage(v)'
  BY <1>1, <1>2, PcSets
     DEF CallStage, SupportsQos, MainPort, PortName, DatapathOf
<1>4. PlugStage(v)' /\ LinksStage(v)'
  <2>1. l \notin PlugPcs
    BY PcSets
  <2>2. PlugStage(v)'
    BY <1>1, <2>1, PcSets
       DEF PlugStage, PortPcs, PortMadePcs, PatchPcs, QosMakingPcs
  <2>3. LinksStage(v)'
    BY <1>1, <2>1, PcSets DEF LinksStage, HybridPcs
  <2> QED
    BY <2>2, <2>3
<1>5. Outcome(v)' /\ Intact(v)'
  BY <1>1, <1>2 DEF Outcome, Intact
<1> QED
  BY <1>3, <1>4, <1>5 DEF VifInv

LEMMA IdleStage ==
  ASSUME NEW v \in Vifs, pc'[v] = "idle", op'[v] = "none",
         v \in qosing' => SupportsQos(v)
  PROVE  CallStage(v)' /\ PlugStage(v)' /\ UnplugStage(v)' /\ LinksStage(v)'
<1>1. CallStage(v)'
  BY PcSets DEF CallStage, HybridPcs, UnplugWork, SupportsQos
<1>2. PlugStage(v)'
  BY PcSets DEF PlugStage, PortPcs, PortMadePcs, PatchPcs, QosMakingPcs
<1>3. UnplugStage(v)'
  BY PcSets
     DEF UnplugStage, BridgeGone, BridgeGonePcs, PatchGonePcs, PortGonePcs,
         LeavePcs
<1>4. LinksStage(v)'
  BY PcSets DEF LinksStage, HybridPcs
<1> QED
  BY <1>1, <1>2, <1>3, <1>4

LEMMA CallEnds ==
  ASSUME Typed, NEW v \in Vifs, VifInv(v),
         \/ Fail(v)
         \/ Succeed(v) /\ op[v] = "plug" /\ (Sure(v) => Wired(v)')
         \/ Succeed(v) /\ op[v] # "plug" /\ (~Rebound(v) => Clean(v)'),
         Scope(v)', Whole(v)'
  PROVE  VifInv(v)'
<1>1. pc'[v] = "idle" /\ op'[v] = "none" /\ v \notin qosing'
  BY DEF Succeed, Fail, Return, Typed, TypeOK, CallTypeOK
<1>2. Outcome(v)'
  BY DEF Succeed, Fail, Return, Outcome, Typed, TypeOK, CallTypeOK, Sure,
         Rebound
<1> QED
  BY <1>1, <1>2, IdleStage DEF VifInv, Intact

LEMMA WholeIf ==
  ASSUME NEW v \in Vifs,
         \/ Kind[v] # "bridge"
         \/ Sure(v) => Wired(v)'
         \/ <<"qvo", v>> \notin devs'
         \/ \E k \in {"raise", "partial", "crash"} : Fault(k)
  PROVE  Whole(v)'
BY DEF Whole, Sure, Fault

\* Steps that leave the stores alone.
LEMMA QuietScope ==
  ASSUME NEW v \in Vifs, Scope(v),
         UNCHANGED netVars, UNCHANGED <<byLibvirt, raced>>
  PROVE  Scope(v)'
<1>1. StoresKept(v) /\ LibvirtStays(v)
  BY DEF netVars, kernelVars, ovsdbVars, portVars, StoresKept, LinksKept,
         PortsKept, BridgeKept, LibvirtStays
<1> QED
  BY <1>1, ScopeFrame

-----------------------------------------------------------------------------
(* The steps of plug()                                                     *)

\* What is to be shown of each: the invariant, and that a VIF that is wired
\* stays so.
PlugKeeps(v) == VifInv(v)' /\ (Wired(v) => Wired(v)')

LEMMA QuietLinks ==
  ASSUME NEW v \in Vifs, UNCHANGED kernelVars
  PROVE  /\ TapInPlace(v)' <=> TapInPlace(v)
         /\ LinksUp({<<"rep", v>>})' <=> LinksUp({<<"rep", v>>})
         /\ LinksUp({<<"qbr", v>>})' <=> LinksUp({<<"qbr", v>>})
         /\ VethUp(v)' <=> VethUp(v)
         /\ Bridged(v)' <=> Bridged(v)
BY DEF kernelVars, TapInPlace, LinksUp, VethUp, Bridged, HybridLinks, Veth

LEMMA QuietWired ==
  ASSUME Sound, NEW v \in Vifs,
         UNCHANGED <<kernelVars, brType, portVars>>,
         UNCHANGED <<byLibvirt, raced>>
  PROVE  /\ Wired(v) => Wired(v)'
         /\ Whole(v) => Whole(v)'
<1>1. Wired(v) => Wired(v)'
  BY WiredIs, QuietLinks
     DEF portVars, WiredForm, PortInPlace, PatchInPlace, OwnBridge,
         UsesPortBridge, SupportsQos, PlugBridge, MainPort, WantedDatapath,
         DatapathOf, VhostDatapath
<1> QED
  BY <1>1 DEF Whole, Sure, kernelVars

LEMMA SameStores ==
  ASSUME NEW v \in Vifs, UNCHANGED netVars, UNCHANGED <<byLibvirt, raced>>
  PROVE  /\ PortInPlace(v)' <=> PortInPlace(v)
         /\ TapInPlace(v)' <=> TapInPlace(v)
         /\ LinksUp({<<"rep", v>>})' <=> LinksUp({<<"rep", v>>})
         /\ brType' = brType /\ portBr' = portBr /\ qosRows' = qosRows
BY DEF netVars, kernelVars, ovsdbVars, portVars, PortInPlace, TapInPlace,
       LinksUp, UsesPortBridge, SupportsQos, PlugBridge, MainPort,
       WantedDatapath, DatapathOf, VhostDatapath

LEMMA LookSteps ==
  ASSUME Sound, Typed, NEW v \in Vifs, VifInv(v),
         Plug(v) \/ Isolate(v) \/ ExistsPort(v) \/ GetQos(v) \/ IsolatePatch(v)
  PROVE  PlugKeeps(v)
<1>0. /\ ~Lost /\ UNCHANGED netVars /\ UNCHANGED <<byLibvirt, raced>>
      /\ pc[v] \in PlugPcs \ HybridPcs
      /\ pc \in [Vifs -> Labels] /\ qosRows \in [Ports -> Nat]
  BY DEF Sound, Lost, Blind, Fault, NoFault, Plug, Isolate, HybridPcs,
         ExistsPort, GetQos, IsolatePatch, At, PlugPcs, Typed, TypeOK,
         CallTypeOK, NetTypeOK
<1>1. Scope(v)'
  BY <1>0, QuietScope DEF VifInv
<1>2. /\ Wired(v) => Wired(v)'
      /\ Whole(v) => Whole(v)'
      /\ Bridged(v) => Bridged(v)'
  BY <1>0, QuietWired, QuietLinks DEF netVars, ovsdbVars
<1>w. pc[v] \in PlugWork => port[v] = MainPort(v)
  BY DEF Typed, PortChosen
<1>3. CASE Plug(v)
  <2>0. pc[v] = "plug" /\ Whole(v)'
    BY <1>2, <1>3 DEF Plug, At, VifInv, Intact, IntactPcs
  <2>1. CASE Fail(v)
    BY <1>1, <1>2, <2>0, <2>1, CallEnds DEF PlugKeeps
  <2>2. CASE ~Fail(v)
    <3>1. PICK l \in PlugPcs :
            /\ Goto(v, l) /\ qosing' = qosing
            /\ \/ l = "ensure_bridge" /\ Kind[v] = "bridge"
               \/ l = "ensure_int_bridge" /\ Kind[v] # "bridge"
               \/ l = "isolate_vif" /\ Kind[v] = "vhostuser"
      BY <1>3, <2>2, KindIs DEF Plug, PlugPcs
    <3>2. pc'[v] = l
      BY <1>0, <3>1 DEF Goto
    <3>3. PlugStage(v)'
      BY <3>1, <3>2
         DEF PlugStage, PortPcs, PortMadePcs, PatchPcs, QosMakingPcs,
             OwnBridge, UsesPortBridge
    <3>4. LinksStage(v)'
      BY <3>1, <3>2
         DEF LinksStage, BridgedPcs, PortPcs, PortMadePcs, PatchPcs,
             QosMakingPcs
    <3>5. /\ l \in HybridPcs => Kind[v] = "bridge"
          /\ v \in qosing' => SupportsQos(v)
      BY <3>1 DEF HybridPcs, VifInv, CallStage
    <3> QED
      BY <1>0, <1>1, <1>2, <2>0, <3>1, <3>3, <3>4, <3>5, PlugGoesOn
         DEF PlugKeeps
  <2> QED
    BY <2>1, <2>2
<1>4. CASE ~Plug(v)
  <2>1. PICK l \in PlugPcs \ (HybridPcs \cup {"plug"}) :
          /\ Goto(v, l)
          /\ v \in qosing' => SupportsQos(v)
    <3>2. CASE Isolate(v) \/ IsolatePatch(v)
      BY <1>0, <3>2
         DEF Isolate, IsolatePatch, PlugPcs, HybridPcs, VifInv, CallStage
    <3>3. CASE ExistsPort(v)
      BY <1>0, <3>3 DEF ExistsPort, PlugPcs, HybridPcs, VifInv, CallStage
    <3>4. CASE GetQos(v)
      <4>1. pc[v] = "get_qos" /\ port[v] = MainPort(v)
        BY <1>w, <3>4 DEF GetQos, At, PlugWork, PlugPcs
      <4>2. qosRows[port[v]] > 0
        <5>1. qosRows[MainPort(v)] # 0
          BY <4>1 DEF VifInv, PlugStage
        <5>2. qosRows[MainPort(v)] \in Nat
          BY <1>0, Places
        <5> QED
          BY <4>1, <5>1, <5>2
      <4> QED
        BY <1>0, <3>4, <4>2
           DEF GetQos, PlugPcs, HybridPcs, VifInv, CallStage, Proceed,
               localVars
    <3> QED
      BY <1>4, <3>2, <3>3, <3>4
  <2>2. pc'[v] = l
    BY <1>0, <2>1 DEF Goto
  <2>b. pc[v] \in BridgedPcs
    BY <1>4
       DEF Isolate, IsolatePatch, ExistsPort, GetQos, At, BridgedPcs, PortPcs,
           PortMadePcs, PatchPcs, QosMakingPcs
  <2>3. PlugStage(v)'
    <3> USE DEF PortPcs, PortMadePcs, PatchPcs, QosMakingPcs
    <3>0. PlugStage(v)
      BY DEF VifInv
    <3>a. /\ PortInPlace(v)' <=> PortInPlace(v)
          /\ TapInPlace(v)' <=> TapInPlace(v)
          /\ LinksUp({<<"rep", v>>})' <=> LinksUp({<<"rep", v>>})
          /\ brType' = brType /\ portBr' = portBr
      BY <1>0, SameStores
    <3>2. CASE Isolate(v)
      <4>1. pc[v] = "isolate_vif" /\ pc'[v] = "exists_port"
        BY <1>0, <3>2 DEF Isolate, At, Goto
      <4> QED
        BY <3>0, <3>a, <4>1
           DEF PlugStage, OwnBridge, UsesPortBridge, SupportsQos
    <3>3. CASE IsolatePatch(v)
      <4>1. pc[v] = "isolate_patch" /\ pc'[v] = "create_patch_port_pair"
        BY <1>0, <3>3 DEF IsolatePatch, At, Goto
      <4> QED
        BY <3>0, <3>a, <4>1
           DEF PlugStage, OwnBridge, UsesPortBridge, SupportsQos, Sure
    <3>4. CASE ExistsPort(v)
      <4>1. /\ pc[v] = "exists_port"
            /\ \/ pc'[v] = "delete_qos" /\ v \in qosing'
               \/ /\ pc'[v] = "create_ovs_vif_port"
                  /\ \/ ~SupportsQos(v)
                     \/ portBr[port[v]] = PlugBridge(v)
        BY <1>0, <3>4 DEF ExistsPort, At, Goto, PortExists
      <4>2. port[v] = MainPort(v)
        BY <1>w, <4>1 DEF PlugWork, PlugPcs
      <4> QED
        BY <3>0, <3>a, <4>1, <4>2
           DEF PlugStage, OwnBridge, UsesPortBridge, SupportsQos, MainPort,
               PlugBridge
    <3>5. CASE GetQos(v)
      <4>1. /\ pc[v] = "get_qos" /\ pc'[v] = "create_ovs_vif_port"
            /\ v \in qosing /\ qosing' = qosing
        <5>1. pc[v] = "get_qos" /\ v \in qosing
          BY <3>0, <3>5 DEF GetQos, At, PlugStage
        <5>2. Proceed(v, "create_ovs_vif_port")
          BY <1>0, <2>1, <2>2, <3>5
             DEF GetQos, Fail, Return, PlugPcs
        <5> QED
          BY <1>0, <5>1, <5>2 DEF Proceed, Goto, localVars
      <4> QED
        BY <3>0, <3>a, <4>1
           DEF PlugStage, OwnBridge, UsesPortBridge, SupportsQos
    <3> QED
      BY <1>4, <3>2, <3>3, <3>4, <3>5
  <2> QED
    BY <1>0, <1>1, <1>2, <2>1, <2>b, <2>3, SharedGoesOn DEF PlugKeeps
<1> QED
  BY <1>3, <1>4

LEMMA QosSteps ==
  ASSUME Sound, Typed, NEW v \in Vifs, VifInv(v),
         DeleteOldQos(v) \/ CreateNewQos(v)
  PROVE  PlugKeeps(v)
<1>0. /\ ~Lost /\ UNCHANGED <<kernelVars, brType, portVars>>
      /\ UNCHANGED <<byLibvirt, raced>>
      /\ pc[v] \in {"delete_qos", "create_qos"}
      /\ pc \in [Vifs -> Labels] /\ qosRows \in [Ports -> Nat]
      /\ DeleteQos(port[v]) \/ CreateQos(port[v])
      /\ \/ Fail(v) /\ Fault("raise")
         \/ pc[v] = "delete_qos" /\ Proceed(v, "create_qos")
         \/ /\ pc[v] = "create_qos" /\ Proceed(v, "get_qos")
            /\ CreateQos(port[v])
  BY DEF Sound, Lost, Blind, Fault, NoFault, DeleteOldQos, CreateNewQos, At,
         Typed, TypeOK, CallTypeOK, NetTypeOK
<1>1. port[v] = MainPort(v) /\ v \in qosing /\ SupportsQos(v)
  BY <1>0 DEF VifInv, CallStage, PlugStage, QosMakingPcs, Typed, PortChosen,
              PlugWork, PlugPcs
<1>2. /\ Wired(v) => Wired(v)'
      /\ Bridged(v) => Bridged(v)'
  BY <1>0, QuietWired, QuietLinks
<1>3. Scope(v)'
  <2> USE <1>0 DEF kernelVars, portVars, VifInv, Scope
  <2>1. LinkScope(v)'
    BY DEF LinkScope, SupportsQos
  <2>2. PortScope(v)'
    BY DEF PortScope, MainPort, PlugBridge, OwnBridge
  <2>3. \A p \in Ports \ {MainPort(v)} : qosRows'[p] = qosRows[p]
    BY <1>1 DEF DeleteQos, CreateQos
  <2>4. QosScope(v)'
    BY <1>1, <2>3, Places DEF QosScope, MainPort, SupportsQos
  <2>5. PortWhole(v)' /\ LibvirtScope(v)'
    BY DEF PortWhole, LibvirtScope, MainPort, PlugBridge, OwnBridge,
           SupportsQos
  <2> QED
    BY <2>1, <2>2, <2>4, <2>5
<1>4. CASE Fail(v)
  <2>1. Whole(v)'
    BY <1>0, <1>4, WholeIf DEF Fail, Return, Proceed, Goto
  <2> QED
    BY <1>2, <1>3, <1>4, <2>1, CallEnds DEF PlugKeeps
<1>5. ASSUME NEW l \in {"create_qos", "get_qos"}, Proceed(v, l),
             l = "get_qos" => CreateQos(port[v])
      PROVE  PlugKeeps(v)
  <2>1. /\ Goto(v, l) /\ qosing' = qosing /\ pc'[v] = l
        /\ l \in PlugPcs \ (HybridPcs \cup {"plug"})
        /\ pc[v] \in PlugPcs /\ pc[v] \in BridgedPcs
    BY <1>0, <1>5
       DEF Proceed, localVars, Goto, PlugPcs, HybridPcs, BridgedPcs, PortPcs,
           QosMakingPcs
  <2>2. LinksUp({<<"rep", v>>})' <=> LinksUp({<<"rep", v>>})
    BY <1>0 DEF LinksUp, kernelVars
  <2>4. l = "get_qos" => qosRows'[MainPort(v)] # 0
    BY <1>0, <1>1, <1>5, OwnNames, Places DEF CreateQos
  <2>5. MainPort(v)' = MainPort(v)
    BY DEF MainPort
  <2>3. PlugStage(v)'
    BY <1>0, <1>1, <2>1, <2>2, <2>4, <2>5
       DEF VifInv, PlugStage, PortPcs, PortMadePcs, PatchPcs, QosMakingPcs,
           OwnBridge, UsesPortBridge, SupportsQos
  <2> QED
    BY <1>1, <1>2, <1>3, <2>1, <2>3, SharedGoesOn DEF PlugKeeps
<1> QED
  BY <1>0, <1>4, <1>5

LEMMA BridgeSteps ==
  ASSUME Sound, Typed, NEW v \in Vifs, VifInv(v),
         EnsureIntBridge(v) \/ EnsurePortBridge(v)
  PROVE  PlugKeeps(v)
<1> DEFINE b == IF pc[v] = "ensure_int_bridge" THEN Bridge[v]
                                               ELSE PortBridge(v)
<1>0. /\ ~Lost /\ UNCHANGED <<kernelVars, portVars, qosRows>>
      /\ UNCHANGED <<byLibvirt, raced>>
      /\ pc[v] \in {"ensure_int_bridge", "ensure_port_bridge"}
      /\ pc \in [Vifs -> Labels]
      /\ brType' = [brType EXCEPT ![b] = DatapathOf(v)]
      /\ brType \in [AllBridges -> {"absent", "system", "netdev"}]
  BY DEF Sound, Lost, Blind, Fault, NoFault, EnsureIntBridge, EnsurePortBridge,
         At, AddBr, Typed, TypeOK, CallTypeOK, NetTypeOK
<1>1. /\ Bridge[v] \in AllBridges /\ PortBridge(v) \in AllBridges
      /\ Bridge[v] # PortBridge(v)
      /\ op[v] = "plug"
      /\ pc[v] = "ensure_port_bridge" => OwnBridge(v)
  BY <1>0, Places, NetAssumption
     DEF VifInv, CallStage, PlugStage, PlugPcs
<1>2. /\ brType'[b] = DatapathOf(v)
      /\ \A c \in AllBridges \ {b} : brType'[c] = brType[c]
  BY <1>0, <1>1
<1> HIDE DEF b
<1>3. Scope(v)'
  <2> USE <1>0 DEF kernelVars, portVars, VifInv, Scope
  <2>1. LinkScope(v)'
    BY DEF LinkScope, SupportsQos
  <2>2. PortScope(v)'
    BY <1>1, <1>2 DEF b, PortScope, MainPort, PlugBridge, OwnBridge
  <2>3. QosScope(v)'
    BY DEF QosScope, MainPort, SupportsQos
  <2>4. PortWhole(v)' /\ LibvirtScope(v)'
    BY DEF PortWhole, LibvirtScope, MainPort, PlugBridge, OwnBridge,
           SupportsQos
  <2> QED
    BY <2>1, <2>2, <2>3, <2>4
<1>4. Wired(v) => Wired(v)'
  <2>1. PortInPlace(v) => PortInPlace(v)'
    BY <1>0, <1>1, <1>2, WantedIs
       DEF b, PortInPlace, portVars, PlugBridge, MainPort, UsesPortBridge,
           SupportsQos, WantedDatapath, DatapathOf, VhostDatapath
  <2>2. PatchInPlace(v) => PatchInPlace(v)'
    BY <1>0, <1>1, <1>2 DEF b, PatchInPlace, portVars, DatapathOf
  <2>3. /\ TapInPlace(v)' <=> TapInPlace(v)
        /\ LinksUp({<<"rep", v>>})' <=> LinksUp({<<"rep", v>>})
        /\ Bridged(v)' <=> Bridged(v)
    BY <1>0, QuietLinks
  <2>4. brType[Bridge[v]] = DatapathOf(v) => brType'[Bridge[v]] = DatapathOf(v)
    BY <1>1, <1>2 DEF b
  <2> QED
    BY <2>1, <2>2, <2>3, <2>4, WiredIs
       DEF WiredForm, OwnBridge, UsesPortBridge, SupportsQos
<1>5. CASE Succeed(v)
  <2>0. pc'[v] = "idle"
    BY <1>0, <1>5 DEF Succeed, Return
  <2>1. /\ Kind[v] = "ovs" /\ v \notin PerPortBridge /\ v \notin CreatePort
        /\ pc[v] = "ensure_int_bridge"
    BY <1>0, <2>0
       DEF EnsureIntBridge, EnsurePortBridge, Proceed, Goto, At
  <2>2. Wired(v)'
    BY <1>2, <2>1, WiredIs
       DEF b, WiredForm, OwnBridge, UsesPortBridge, DatapathOf
  <2>3. Whole(v)'
    BY <2>1, WholeIf
  <2> QED
    BY <1>1, <1>3, <1>4, <1>5, <2>2, <2>3, CallEnds DEF PlugKeeps
<1>6. CASE ~Succeed(v)
  <2>1. PICK l : Proceed(v, l)
          /\ \/ l = "ensure_port_bridge" /\ OwnBridge(v)
                /\ pc[v] = "ensure_int_bridge"
             \/ l = "set_representor_up" /\ Kind[v] = "hostdev"
                /\ pc[v] = "ensure_int_bridge"
             \/ l = "isolate_vif" /\ ~OwnBridge(v) /\ Kind[v] # "hostdev"
             \/ l = "isolate_vif" /\ pc[v] = "ensure_port_bridge"
    BY <1>0, <1>6
       DEF EnsureIntBridge, EnsurePortBridge, At, OwnBridge
  <2>2. /\ Goto(v, l) /\ qosing' = qosing /\ pc'[v] = l
        /\ l \in PlugPcs \ (HybridPcs \cup {"plug"}) /\ pc[v] \in PlugPcs
    BY <1>0, <2>1 DEF Proceed, localVars, Goto, PlugPcs, HybridPcs
  <2>3. PlugStage(v)'
    BY <1>0, <1>1, <1>2, <2>1, <2>2
       DEF b, VifInv, PlugStage, PortPcs, PortMadePcs, PatchPcs, QosMakingPcs,
           OwnBridge, UsesPortBridge, SupportsQos, DatapathOf
  <2>4. pc[v] \in BridgedPcs \/ Kind[v] # "bridge"
    BY <1>0, <1>1 DEF BridgedPcs, OwnBridge, UsesPortBridge
  <2>5. Bridged(v) => Bridged(v)'
    BY <1>0, QuietLinks
  <2> QED
    BY <1>3, <1>4, <2>2, <2>3, <2>4, <2>5, SharedGoesOn
       DEF PlugKeeps, VifInv, CallStage
<1> QED
  BY <1>5, <1>6

LEMMA RepresentorStep ==
  ASSUME Sound, Typed, NEW v \in Vifs, VifInv(v), SetRepresentorUp(v)
  PROVE  PlugKeeps(v)
<1>0. /\ UNCHANGED ovsdbVars /\ UNCHANGED <<byLibvirt, raced>>
      /\ pc[v] = "set_representor_up" /\ pc \in [Vifs -> Labels]
      /\ Goto(v, "isolate_vif") /\ qosing' = qosing
      /\ pc'[v] = "isolate_vif"
      /\ \/ SupportsQos(v) /\ AddUp(<<"rep", v>>)
         \/ ~SupportsQos(v) /\ UNCHANGED kernelVars
  BY DEF SetRepresentorUp, NoFault, At, Proceed, Goto, localVars, SupportsQos,
         Typed, TypeOK, CallTypeOK
<1>1. Kind[v] = "hostdev" /\ ~OwnBridge(v)
  BY <1>0 DEF VifInv, PlugStage, OwnBridge, UsesPortBridge
<1>2. Scope(v)'
  <2> USE <1>0 DEF ovsdbVars, portVars, VifInv, Scope
  <2>1. LinkScope(v)'
    BY <1>1, HybridNames
       DEF LinkScope, SupportsQos, AddUp, kernelVars, HybridLinks, Veth
  <2>2. PortScope(v)'
    BY DEF PortScope, MainPort, PlugBridge, OwnBridge
  <2>3. QosScope(v)'
    BY DEF QosScope, MainPort, SupportsQos
  <2>4. PortWhole(v)' /\ LibvirtScope(v)'
    BY DEF PortWhole, LibvirtScope, MainPort, PlugBridge, OwnBridge,
           SupportsQos
  <2> QED
    BY <2>1, <2>2, <2>3, <2>4
<1>3. /\ SupportsQos(v) => LinksUp({<<"rep", v>>})'
      /\ PortInPlace(v)' <=> PortInPlace(v)
  BY <1>0 DEF AddUp, LinksUp, ovsdbVars, portVars, PortInPlace,
              UsesPortBridge, SupportsQos, PlugBridge, MainPort,
              WantedDatapath, DatapathOf, VhostDatapath
<1>4. Wired(v) => Wired(v)'
  BY <1>1, <1>3, WiredIs DEF WiredForm, OwnBridge, UsesPortBridge, SupportsQos
<1>5. PlugStage(v)'
  BY <1>0, <1>1, <1>3
     DEF VifInv, PlugStage, PortPcs, PortMadePcs, PatchPcs, QosMakingPcs,
         OwnBridge, UsesPortBridge, SupportsQos, DatapathOf, ovsdbVars
<1> QED
  BY <1>0, <1>1, <1>2, <1>4, <1>5, SharedGoesOn
     DEF PlugKeeps, PlugPcs, HybridPcs, VifInv, CallStage

\* What follows the step that leaves the port in place.
LEMMA PortDoneKeeps ==
  ASSUME Sound, Typed, NEW v \in Vifs, VifInv(v), PortDone(v),
         pc[v] \in {"create_ovs_vif_port", "create_tap"},
         Scope(v)', PortInPlace(v)', Sure(v) => TapInPlace(v)',
         brType'[Bridge[v]] = brType[Bridge[v]] \/ Kind[v] = "vhostuser",
         brType'[PortBridge(v)] = brType[PortBridge(v)],
         LinksUp({<<"rep", v>>}) => LinksUp({<<"rep", v>>})',
         Bridged(v) => Bridged(v)'
  PROVE  VifInv(v)'
<1>0. /\ pc[v] \in PortPcs \cup PortMadePcs /\ op[v] = "plug"
      /\ pc \in [Vifs -> Labels]
      /\ pc[v] \in PlugPcs /\ pc[v] \in BridgedPcs
  BY DEF PortPcs, PortMadePcs, BridgedPcs, PlugPcs, VifInv, CallStage, Typed,
         TypeOK, CallTypeOK
<1>1. /\ OwnBridge(v) => brType[PortBridge(v)] = DatapathOf(v)
      /\ Kind[v] = "hostdev" /\ SupportsQos(v) => LinksUp({<<"rep", v>>})
      /\ Kind[v] # "vhostuser" => brType[Bridge[v]] = DatapathOf(v)
      /\ Kind[v] = "bridge" => Bridged(v)'
  BY <1>0 DEF VifInv, PlugStage, LinksStage
<1>2. CASE OwnBridge(v)
  <2>1. /\ Goto(v, "isolate_patch") /\ pc'[v] = "isolate_patch"
        /\ qosing' = qosing
        /\ Kind[v] = "ovs"
    BY <1>0, <1>2 DEF PortDone, OwnBridge, Proceed, Goto, localVars,
                      UsesPortBridge
  <2>2. PlugStage(v)'
    BY <1>1, <1>2, <2>1
       DEF PlugStage, PortPcs, PortMadePcs, PatchPcs, QosMakingPcs,
           OwnBridge, UsesPortBridge, SupportsQos, DatapathOf, Sure
  <2> QED
    BY <1>0, <2>1, <2>2, SharedGoesOn
       DEF PlugPcs, HybridPcs, VifInv, CallStage
<1>3. CASE ~OwnBridge(v)
  <2>1. Succeed(v)
    BY <1>3 DEF PortDone, OwnBridge
  <2>2. Sure(v) => Wired(v)'
    <3>1. CASE Kind[v] = "ovs" /\ v \notin CreatePort
      BY <1>1, <1>3, <3>1, WiredIs
         DEF WiredForm, OwnBridge, UsesPortBridge, DatapathOf
    <3>2. CASE ~(Kind[v] = "ovs" /\ v \notin CreatePort)
      BY <1>1, <1>3, <3>2, WiredIs
         DEF WiredForm, OwnBridge, UsesPortBridge, SupportsQos, DatapathOf
    <3> QED
      BY <3>1, <3>2
  <2>3. Whole(v)'
    BY <2>2, WholeIf
  <2> QED
    BY <1>0, <2>1, <2>2, <2>3, CallEnds
<1> QED
  BY <1>2, <1>3

\* The transaction is never rejected: the bridge is there, and the port is
\* on it if it is on any.
LEMMA TransactionDone ==
  ASSUME Sound, Typed, NEW v \in Vifs, VifInv(v), PortTransaction(v),
         pc[v] = "create_ovs_vif_port",
         UNCHANGED <<kernelVars, qosRows, byLibvirt>>
  PROVE  /\ Scope(v)' /\ PortInPlace(v)'
         /\ brType'[Bridge[v]] = brType[Bridge[v]] \/ Kind[v] = "vhostuser"
         /\ brType'[PortBridge(v)] = brType[PortBridge(v)]
         /\ LinksUp({<<"rep", v>>}) => LinksUp({<<"rep", v>>})'
         /\ TapInPlace(v) => TapInPlace(v)'
         /\ Bridged(v) => Bridged(v)'
         /\ PatchInPlace(v) /\ OwnBridge(v) => PatchInPlace(v)'
<1>0. /\ brType \in [AllBridges -> {"absent", "system", "netdev"}]
      /\ portBr \in [Ports -> AllBridges \cup {NoBridge}]
      /\ port[v] = MainPort(v)
      /\ Bridge[v] \in AllBridges /\ PortBridge(v) \in AllBridges
      /\ Bridge[v] # PortBridge(v)
      /\ MainPort(v) \in PortsOf(v) /\ PortsOf(v) \subseteq Ports
      /\ PlugBridge(v) \in AllBridges /\ PlugBridge(v) # NoBridge
  BY Places, OwnNames, NetAssumption
     DEF Typed, TypeOK, NetTypeOK, PortChosen, PlugWork, PlugPcs, PlugBridge
<1>1. /\ Kind[v] # "vhostuser" => brType[PlugBridge(v)] = DatapathOf(v)
      /\ SupportsQos(v) /\ v \notin qosing =>
           portBr[MainPort(v)] = PlugBridge(v)
      /\ v \in qosing => SupportsQos(v)
  BY DEF VifInv, PlugStage, CallStage, PortPcs, PlugBridge, OwnBridge
<1>2. portBr[MainPort(v)] \in {PlugBridge(v), NoBridge}
  BY <1>0, MainPortIs, KindIs
     DEF VifInv, Scope, PortScope, OwnBridge, UsesPortBridge
<1>3. /\ PutPort(MainPort(v), PlugBridge(v), v \in isolating,
                 ~UsesPortBridge(v, Kind[v]), v \in qosing)
      /\ \/ Kind[v] = "vhostuser" /\ AddBr(PlugBridge(v), WantedDatapath(v))
         \/ Kind[v] # "vhostuser" /\ brType' = brType
  <2>1. Kind[v] # "vhostuser" => BrExists(PlugBridge(v))
    BY <1>1, DatapathNames DEF BrExists
  <2> QED
    BY <1>0, <1>2, <2>1 DEF PortTransaction, CanAddPort, WantedDatapath
<1>4. /\ portBr'[MainPort(v)] = PlugBridge(v)
      /\ \A p \in Ports \ {MainPort(v)} : portBr'[p] = portBr[p]
      /\ ids \subseteq ids' /\ ids' \subseteq ids \cup {MainPort(v)}
      /\ ~OwnBridge(v) => MainPort(v) \in ids'
      /\ portQos' = IF v \in qosing THEN portQos \cup {MainPort(v)}
                                    ELSE portQos
  BY <1>0, <1>3 DEF PutPort, OwnBridge
<1>5. /\ brType'[PlugBridge(v)] = WantedDatapath(v)
      /\ brType'[Bridge[v]] = brType[Bridge[v]] \/ Kind[v] = "vhostuser"
      /\ brType'[PortBridge(v)] = brType[PortBridge(v)]
  <2>1. CASE Kind[v] = "vhostuser"
    <3>1. PlugBridge(v) = Bridge[v]
      BY <2>1 DEF PlugBridge, UsesPortBridge
    <3> QED
      BY <1>0, <1>3, <2>1, <3>1 DEF AddBr
  <2>2. CASE Kind[v] # "vhostuser"
    BY <1>1, <1>3, <2>2, DatapathNames
  <2> QED
    BY <2>1, <2>2
<1>6. SupportsQos(v) /\ v \notin byLibvirt => MainPort(v) \in portQos'
  BY <1>1, <1>4 DEF VifInv, Scope, PortWhole
<1>7. PortInPlace(v)'
  BY <1>4, <1>5, <1>6
     DEF PortInPlace, OwnBridge, MainPort, PlugBridge, WantedDatapath,
         UsesPortBridge, SupportsQos, DatapathOf, VhostDatapath
<1>8. Scope(v)'
  <2> USE DEF VifInv, Scope
  <2>1. LinkScope(v)'
    BY DEF LinkScope, kernelVars, SupportsQos, HybridLinks, Veth
  <2>2. PortScope(v)'
    BY <1>0, <1>4, <1>5 DEF PortScope, MainPort, PlugBridge, OwnBridge
  <2>3. QosScope(v)'
    BY <1>0, <1>1, <1>4 DEF QosScope, MainPort, SupportsQos
  <2>4. PortWhole(v)'
    BY <1>4, <1>6
       DEF PortWhole, MainPort, PlugBridge, OwnBridge, SupportsQos
  <2>5. LibvirtScope(v)'
    BY <1>4 DEF LibvirtScope, MainPort, PlugBridge
  <2> QED
    BY <2>1, <2>2, <2>3, <2>4, <2>5
<1>9. /\ LinksUp({<<"rep", v>>}) => LinksUp({<<"rep", v>>})'
      /\ TapInPlace(v) => TapInPlace(v)'
      /\ Bridged(v) => Bridged(v)'
  BY QuietLinks
<1>10. PatchInPlace(v) /\ OwnBridge(v) => PatchInPlace(v)'
  <2> SUFFICES ASSUME PatchInPlace(v), OwnBridge(v) PROVE PatchInPlace(v)'
    OBVIOUS
  <2>1. /\ Kind[v] = "ovs" /\ MainPort(v) = <<"tap", v>>
        /\ <<"ibp", v>> \in Ports /\ <<"pbp", v>> \in Ports
    BY <1>0, OwnNames, MainPortIs DEF OwnBridge, UsesPortBridge
  <2> QED
    BY <1>4, <1>5, <2>1 DEF PatchInPlace, DatapathOf
<1> QED
  BY <1>5, <1>7, <1>8, <1>9, <1>10

LEMMA CreatePortStep ==
  ASSUME Sound, Typed, NEW v \in Vifs, VifInv(v), CreateOvsVifPort(v)
  PROVE  PlugKeeps(v)
<1>0. /\ PortTransaction(v)
      /\ UNCHANGED <<kernelVars, qosRows, byLibvirt>>
      /\ pc[v] = "create_ovs_vif_port" /\ pc \in [Vifs -> Labels]
      /\ \/ v \in CreateTap /\ Proceed(v, "create_tap")
         \/ v \notin CreateTap /\ PortDone(v)
         \/ Fail(v) /\ Fault("raise")
  BY DEF CreateOvsVifPort, Sound, Lost, Blind, Fault, NoFault, At, Typed,
         TypeOK, CallTypeOK
<1>1. /\ Scope(v)' /\ PortInPlace(v)'
      /\ brType'[Bridge[v]] = brType[Bridge[v]] \/ Kind[v] = "vhostuser"
      /\ brType'[PortBridge(v)] = brType[PortBridge(v)]
      /\ LinksUp({<<"rep", v>>}) => LinksUp({<<"rep", v>>})'
      /\ TapInPlace(v) => TapInPlace(v)'
      /\ Bridged(v) => Bridged(v)'
      /\ PatchInPlace(v) /\ OwnBridge(v) => PatchInPlace(v)'
  BY <1>0, TransactionDone
<1>2. Wired(v) => Wired(v)'
  BY <1>1, WiredIs
     DEF WiredForm, OwnBridge, UsesPortBridge, SupportsQos, DatapathOf
<1>3. CASE Fail(v) /\ Fault("raise")
  <2>1. Whole(v)'
    BY <1>3, WholeIf
  <2> QED
    BY <1>1, <1>2, <1>3, <2>1, CallEnds DEF PlugKeeps
<1>4. CASE v \notin CreateTap /\ PortDone(v)
  <2>1. TapInPlace(v)'
    BY <1>4 DEF TapInPlace
  <2> QED
    BY <1>0, <1>1, <1>2, <1>4, <2>1, PortDoneKeeps DEF PlugKeeps
<1>5. CASE v \in CreateTap /\ Proceed(v, "create_tap")
  <2>1. /\ Goto(v, "create_tap") /\ pc'[v] = "create_tap"
        /\ qosing' = qosing
    BY <1>0, <1>5 DEF Proceed, Goto, localVars
  <2>2. PlugStage(v)'
    BY <1>0, <1>1, <1>5, <2>1
       DEF VifInv, PlugStage, PortPcs, PortMadePcs, PatchPcs, QosMakingPcs,
           OwnBridge, UsesPortBridge, SupportsQos, DatapathOf
  <2> QED
    BY <1>0, <1>1, <1>2, <2>1, <2>2, SharedGoesOn
       DEF PlugKeeps, PlugPcs, HybridPcs, BridgedPcs, PortPcs, VifInv,
           CallStage
<1> QED
  BY <1>0, <1>3, <1>4, <1>5

LEMMA TapStep ==
  ASSUME Sound, Typed, NEW v \in Vifs, VifInv(v), CreateTapDevice(v)
  PROVE  PlugKeeps(v)
<1>0. /\ UNCHANGED ovsdbVars /\ UNCHANGED <<byLibvirt, raced>>
      /\ pc[v] = "create_tap" /\ pc \in [Vifs -> Labels]
      /\ v \in CreateTap /\ PortInPlace(v)
  <2>1. UNCHANGED ovsdbVars /\ UNCHANGED <<byLibvirt, raced>>
    BY Unfailing DEF CreateTapDevice, NoFault, Partial, netVars
  <2>2. pc[v] = "create_tap" /\ pc \in [Vifs -> Labels]
    BY DEF CreateTapDevice, At, Typed, TypeOK, CallTypeOK
  <2> QED
    BY <2>1, <2>2 DEF VifInv, PlugStage, PortMadePcs
<1>1. \/ Fail(v) /\ UNCHANGED kernelVars /\ Kind[v] # "ovs"
      \/ /\ Kind[v] = "ovs" /\ PortDone(v)
         /\ IF <<"tap", v>> \in devs THEN UNCHANGED kernelVars
                                     ELSE AddUp(<<"tap", v>>)
      \/ /\ Kind[v] = "ovs" /\ Fail(v)
         /\ "partial" \in FaultKinds /\ AddDown(<<"tap", v>>)
  BY <1>0, Unfailing DEF CreateTapDevice, Partial, Fault, netVars
<1>2. /\ devs \subseteq devs' /\ devs' \subseteq devs \cup {<<"tap", v>>}
      /\ up \subseteq up' /\ up' \subseteq up \cup {<<"tap", v>>}
      /\ enslaved' = enslaved
      /\ devs' # devs \/ up' # up =>
           /\ Kind[v] = "ovs" /\ <<"tap", v>> \in devs'
           /\ <<"tap", v>> \in up' \/ "partial" \in FaultKinds
  BY <1>1 DEF AddUp, AddDown, kernelVars
<1>b. Bridged(v) => Bridged(v)'
  BY <1>2 DEF Bridged, VethUp, LinksUp, HybridLinks, Veth
<1>3. PortInPlace(v)'
  BY <1>0 DEF ovsdbVars, portVars, PortInPlace, UsesPortBridge, SupportsQos,
              PlugBridge, MainPort, WantedDatapath, DatapathOf, VhostDatapath
<1>4. Scope(v)'
  <2> USE <1>0 DEF ovsdbVars, portVars, VifInv, Scope
  <2>1. LinkScope(v)'
    <3>1. \A d \in {<<"qbr", v>>, <<"qvb", v>>, <<"qvo", v>>} :
            d \in devs' <=> d \in devs
      BY <1>2
    <3>2. <<"rep", v>> \in up' <=> <<"rep", v>> \in up
      BY <1>2
    <3>3. <<"tap", v>> \in devs' =>
            /\ Kind[v] = "ovs"
            /\ <<"tap", v>> \in up' \/ "partial" \in FaultKinds
      BY <1>2 DEF LinkScope
    <3>4. HybridLinks(v)' = HybridLinks(v)
      BY DEF HybridLinks, Veth
    <3> QED
      BY <3>1, <3>2, <3>3, <3>4, HybridNames DEF LinkScope, SupportsQos
  <2>2. PortScope(v)'
    BY DEF PortScope, MainPort, PlugBridge, OwnBridge
  <2>3. QosScope(v)'
    BY DEF QosScope, MainPort, SupportsQos
  <2>4. PortWhole(v)' /\ LibvirtScope(v)'
    BY DEF PortWhole, LibvirtScope, MainPort, PlugBridge, OwnBridge,
           SupportsQos
  <2> QED
    BY <2>1, <2>2, <2>3, <2>4
<1>5. /\ LinksUp({<<"rep", v>>}) => LinksUp({<<"rep", v>>})'
      /\ TapInPlace(v) => TapInPlace(v)'
      /\ PatchInPlace(v) => PatchInPlace(v)'
  BY <1>0, <1>2
     DEF LinksUp, TapInPlace, ovsdbVars, portVars, PatchInPlace, DatapathOf
<1>6. Wired(v) => Wired(v)'
  BY <1>0, <1>3, <1>5, <1>b, WiredIs
     DEF WiredForm, OwnBridge, UsesPortBridge, SupportsQos, DatapathOf,
         ovsdbVars
<1>7. CASE Fail(v)
  <2>1. Kind[v] = "bridge" => Wired(v)'
    <3>1. pc[v] \in BridgedPcs
      BY <1>0 DEF BridgedPcs, PortMadePcs
    <3>2. Kind[v] = "bridge" => Bridged(v)'
      BY <1>b, <3>1 DEF VifInv, LinksStage
    <3> QED
      BY <1>3, <3>2, WiredIs DEF WiredForm, OwnBridge, UsesPortBridge
  <2>2. Whole(v)'
    BY <2>1, WholeIf
  <2> QED
    BY <1>4, <1>6, <1>7, <2>2, CallEnds DEF PlugKeeps
<1>8. CASE PortDone(v) /\ ~Fail(v)
  <2>1. Sure(v) => TapInPlace(v)'
    <3>1. /\ <<"tap", v>> \in devs'
          /\ <<"tap", v>> \in up' \/ "partial" \in FaultKinds
      BY <1>1, <1>4, <1>8 DEF AddUp, kernelVars, Scope, LinkScope
    <3> QED
      BY <1>0, <3>1 DEF TapInPlace, LinksUp, Sure
  <2> QED
    BY <1>0, <1>3, <1>4, <1>5, <1>6, <1>8, <1>b, <2>1, PortDoneKeeps
       DEF PlugKeeps, ovsdbVars
<1> QED
  BY <1>1, <1>7, <1>8

LEMMA PatchStep ==
  ASSUME Sound, Typed, NEW v \in Vifs, VifInv(v), CreatePatchPortPair(v)
  PROVE  PlugKeeps(v)
<1>0. /\ PatchTransaction(v)
      /\ UNCHANGED kernelVars /\ UNCHANGED <<byLibvirt, raced>>
      /\ pc[v] = "create_patch_port_pair"
      /\ Succeed(v) \/ Fail(v)
  BY DEF CreatePatchPortPair, NoFault, Sound, Lost, Blind, Fault, At
<1>1. /\ brType[Bridge[v]] = DatapathOf(v)
      /\ brType[PortBridge(v)] = DatapathOf(v)
      /\ PortInPlace(v) /\ (Sure(v) => TapInPlace(v)) /\ OwnBridge(v)
      /\ Kind[v] = "ovs" /\ MainPort(v) = <<"tap", v>>
      /\ op[v] = "plug"
  <2>1. /\ OwnBridge(v) /\ PortInPlace(v) /\ op[v] = "plug"
        /\ Sure(v) => TapInPlace(v)
    BY <1>0 DEF VifInv, PlugStage, CallStage, PortMadePcs, PatchPcs, PlugPcs
  <2>2. Kind[v] = "ovs"
    BY <2>1 DEF OwnBridge, UsesPortBridge
  <2>3. /\ brType[Bridge[v]] = DatapathOf(v)
        /\ brType[PortBridge(v)] = DatapathOf(v)
    BY <1>0, <2>1, <2>2 DEF VifInv, PlugStage, PortMadePcs, PatchPcs
  <2> QED
    BY <2>1, <2>2, <2>3, MainPortIs
<1>2. /\ portBr \in [Ports -> AllBridges \cup {NoBridge}]
      /\ <<"ibp", v>> \in Ports /\ <<"pbp", v>> \in Ports
      /\ <<"tap", v>> \in Ports
      /\ portBr[<<"ibp", v>>] \in {Bridge[v], NoBridge}
      /\ portBr[<<"pbp", v>>] \in {PortBridge(v), NoBridge}
  <2>1. /\ <<"ibp", v>> \in PortsOf(v) /\ <<"pbp", v>> \in PortsOf(v)
        /\ <<"tap", v>> \in PortsOf(v) /\ PortsOf(v) \subseteq Ports
    BY OwnNames, Places
  <2>2. /\ portBr[<<"ibp", v>>] \in {Bridge[v], NoBridge}
        /\ portBr[<<"pbp", v>>] \in {PortBridge(v), NoBridge}
    BY <1>1, <2>1 DEF VifInv, Scope, PortScope
  <2> QED
    BY <2>1, <2>2 DEF Typed, TypeOK, NetTypeOK
<1>3. PutPatchPair(v, Bridge[v], v \in isolating)
  BY <1>0, <1>1, <1>2, DatapathNames
     DEF PatchTransaction, BrExists, CanAddPort
<1>4. /\ portBr'[<<"ibp", v>>] = Bridge[v]
      /\ portBr'[<<"pbp", v>>] = PortBridge(v)
      /\ \A p \in Ports \ {<<"ibp", v>>, <<"pbp", v>>} : portBr'[p] = portBr[p]
      /\ ids' = ids \cup {<<"ibp", v>>}
      /\ UNCHANGED <<brType, portQos, qosRows>>
  BY <1>2, <1>3 DEF PutPatchPair
<1>5. PatchInPlace(v)'
  BY <1>1, <1>4 DEF PatchInPlace, DatapathOf
<1>6. PortInPlace(v)'
  BY <1>0, <1>1, <1>2, <1>4
     DEF PortInPlace, UsesPortBridge, SupportsQos, PlugBridge, MainPort,
         WantedDatapath, DatapathOf, VhostDatapath
<1>7. TapInPlace(v)' <=> TapInPlace(v)
  BY <1>0, QuietLinks
<1>8. Scope(v)'
  <2> USE <1>0, <1>1, <1>4 DEF VifInv, Scope
  <2>1. LinkScope(v)'
    BY DEF LinkScope, kernelVars, SupportsQos, HybridLinks, Veth
  <2>2. PortScope(v)'
    BY <1>2, Places DEF PortScope, MainPort, PlugBridge, OwnBridge
  <2>3. QosScope(v)'
    BY <1>2, Places DEF QosScope, MainPort, SupportsQos
  <2>4. PortWhole(v)' /\ LibvirtScope(v)'
    BY <1>2 DEF PortWhole, LibvirtScope, MainPort, PlugBridge, OwnBridge,
                SupportsQos
  <2> QED
    BY <2>1, <2>2, <2>3, <2>4
<1>9. /\ Sure(v) => Wired(v)'
      /\ Wired(v) => Wired(v)'
  BY <1>1, <1>5, <1>6, <1>7, WiredIs
     DEF WiredForm, OwnBridge, UsesPortBridge
<1>10. Whole(v)'
  BY <1>1, WholeIf
<1> QED
  BY <1>0, <1>1, <1>8, <1>9, <1>10, CallEnds DEF PlugKeeps

\* The links of a hybrid VIF and the bridge they are on.
LEMMA HybridScope ==
  ASSUME NEW v \in Vifs, Scope(v), Kind[v] = "bridge",
         UNCHANGED ovsdbVars, UNCHANGED <<byLibvirt, raced>>,
         <<"qvb", v>> \in devs' <=> <<"qvo", v>> \in devs',
         <<"tap", v>> \in devs' => <<"tap", v>> \in devs,
         <<"rep", v>> \in up' => <<"rep", v>> \in up
  PROVE  Scope(v)' /\ (PortInPlace(v)' <=> PortInPlace(v))
<1> USE DEF ovsdbVars, portVars, Scope
<1>1. LinkScope(v)'
  BY DEF LinkScope, SupportsQos
<1>2. PortScope(v)' /\ QosScope(v)'
  BY DEF PortScope, QosScope, MainPort, PlugBridge, OwnBridge, SupportsQos
<1>3. PortWhole(v)' /\ LibvirtScope(v)'
  BY DEF PortWhole, LibvirtScope, MainPort, PlugBridge, OwnBridge, SupportsQos
<1>4. PortInPlace(v)' <=> PortInPlace(v)
  BY DEF PortInPlace, UsesPortBridge, SupportsQos, PlugBridge, MainPort,
         WantedDatapath, DatapathOf, VhostDatapath
<1> QED
  BY <1>1, <1>2, <1>3, <1>4

LEMMA HybridWired ==
  ASSUME Sound, NEW v \in Vifs, Kind[v] = "bridge"
  PROVE  /\ Wired(v) <=> PortInPlace(v) /\ Bridged(v)
         /\ Wired(v)' <=> PortInPlace(v)' /\ Bridged(v)'
BY WiredIs DEF WiredForm, OwnBridge, UsesPortBridge

LEMMA HybridGoesOn ==
  ASSUME Typed, NEW v \in Vifs, VifInv(v), Kind[v] = "bridge",
         pc[v] \in PlugPcs,
         NEW l \in {"exists_veth", "update_veth_pair", "create_veth_pair",
                    "add_bridge_port", "ensure_int_bridge"}, Proceed(v, l),
         Scope(v)', LinksStage(v)', l \in IntactPcs => Whole(v)'
  PROVE  VifInv(v)'
<1>1. /\ pc'[v] = l /\ Goto(v, l) /\ l \in PlugPcs
      /\ v \in qosing' => SupportsQos(v)
  BY DEF Proceed, Goto, localVars, PlugPcs, Typed, TypeOK, CallTypeOK, VifInv,
         CallStage
<1>2. PlugStage(v)'
  BY <1>1 DEF PlugStage, PortPcs, PortMadePcs, PatchPcs, QosMakingPcs
<1> QED
  BY <1>1, <1>2, PlugGoesOn

LEMMA EnsureBridgeStep ==
  ASSUME Sound, Typed, NEW v \in Vifs, VifInv(v), EnsureBridge(v)
  PROVE  PlugKeeps(v)
<1>0. /\ pc[v] = "ensure_bridge" /\ pc \in [Vifs -> Labels]
      /\ UNCHANGED ovsdbVars /\ UNCHANGED <<byLibvirt, raced>>
      /\ devs' = devs \cup {<<"qbr", v>>} /\ enslaved' = enslaved
      /\ \/ /\ up' = up \cup {<<"qbr", v>>} /\ Proceed(v, "exists_veth")
         \/ /\ up' = up /\ <<"qbr", v>> \notin devs
            /\ Fail(v) /\ Fault("partial")
  BY Unfailing
     DEF EnsureBridge, At, AddUp, AddDown, Partial, NoFault, Typed, TypeOK,
         CallTypeOK
<1>1. /\ Kind[v] = "bridge" /\ pc[v] \in PlugPcs /\ op[v] = "plug"
      /\ Whole(v) /\ Scope(v)
      /\ <<"qvb", v>> \in devs <=> <<"qvo", v>> \in devs
  BY <1>0 DEF VifInv, CallStage, HybridPcs, PlugPcs, Intact, IntactPcs, Scope,
              LinkScope
<1>2. /\ devs \subseteq devs' /\ up \subseteq up'
      /\ \A d \in {<<"qvb", v>>, <<"qvo", v>>, <<"tap", v>>} :
           d \in devs' <=> d \in devs
      /\ <<"rep", v>> \in up' => <<"rep", v>> \in up
  BY <1>0
<1>3. Scope(v)' /\ (PortInPlace(v)' <=> PortInPlace(v))
  BY <1>0, <1>1, <1>2, HybridScope
<1>4. Bridged(v) => Bridged(v)'
  BY <1>0, <1>2 DEF Bridged, VethUp, LinksUp, HybridLinks, Veth
<1>5. Wired(v) => Wired(v)'
  BY <1>1, <1>3, <1>4, HybridWired
<1>6. CASE Proceed(v, "exists_veth") /\ up' = up \cup {<<"qbr", v>>}
  <2>1. pc'[v] = "exists_veth"
    BY <1>0, <1>6 DEF Proceed, Goto
  <2>2. LinksStage(v)'
    BY <1>0, <1>6, <2>1
       DEF LinksStage, LinksUp, BridgedPcs, PortPcs, PortMadePcs, PatchPcs,
           QosMakingPcs
  <2>3. Whole(v)'
    BY <1>1, <1>2, <1>5 DEF Whole, Sure
  <2> QED
    BY <1>1, <1>3, <1>5, <1>6, <2>2, <2>3, HybridGoesOn DEF PlugKeeps
<1>7. CASE Fail(v) /\ Fault("partial")
  <2>1. Whole(v)'
    BY <1>7, WholeIf
  <2> QED
    BY <1>3, <1>5, <1>7, <2>1, CallEnds DEF PlugKeeps
<1> QED
  BY <1>0, <1>6, <1>7

LEMMA ExistsVethStep ==
  ASSUME Sound, Typed, NEW v \in Vifs, VifInv(v), ExistsVeth(v)
  PROVE  PlugKeeps(v)
<1>0. /\ pc[v] = "exists_veth" /\ pc \in [Vifs -> Labels]
      /\ UNCHANGED netVars /\ UNCHANGED <<byLibvirt, raced>>
  BY Unfailing DEF ExistsVeth, At, NoFault, Typed, TypeOK, CallTypeOK
<1>1. /\ Kind[v] = "bridge" /\ pc[v] \in PlugPcs /\ Whole(v) /\ Scope(v)
      /\ LinksUp({<<"qbr", v>>})
  BY <1>0 DEF VifInv, CallStage, HybridPcs, PlugPcs, Intact, IntactPcs,
              LinksStage
<1>2. /\ Scope(v)' /\ (Wired(v) => Wired(v)') /\ Whole(v)'
      /\ LinksUp({<<"qbr", v>>})' /\ devs' = devs
  BY <1>0, <1>1, QuietScope, QuietWired, QuietLinks
     DEF netVars, ovsdbVars, kernelVars
<1>3. PICK l \in {"update_veth_pair", "create_veth_pair"} :
        /\ Proceed(v, l)
        /\ l = "update_veth_pair" <=> <<"qvo", v>> \in devs
  BY Unfailing DEF ExistsVeth
<1>4. pc'[v] = l
  BY <1>0, <1>3 DEF Proceed, Goto
<1>5. LinksStage(v)'
  BY <1>2, <1>3, <1>4
     DEF LinksStage, BridgedPcs, PortPcs, PortMadePcs, PatchPcs, QosMakingPcs
<1> QED
  BY <1>1, <1>2, <1>3, <1>5, HybridGoesOn DEF PlugKeeps

LEMMA CreateVethStep ==
  ASSUME Sound, Typed, NEW v \in Vifs, VifInv(v), CreateVeth(v)
  PROVE  PlugKeeps(v)
<1>0. /\ pc[v] = "create_veth_pair" /\ pc \in [Vifs -> Labels]
      /\ UNCHANGED ovsdbVars /\ UNCHANGED <<byLibvirt, raced>>
      /\ \/ CreateVethPair(v) /\ Proceed(v, "add_bridge_port")
         \/ CreateVethPairPartly(v) /\ Fail(v) /\ Fault("partial")
  BY Unfailing
     DEF CreateVeth, At, NoFault, Partial, Typed, TypeOK, CallTypeOK
<1>1. /\ Kind[v] = "bridge" /\ pc[v] \in PlugPcs /\ Scope(v)
      /\ LinksUp({<<"qbr", v>>}) /\ <<"qvo", v>> \notin devs
  BY <1>0 DEF VifInv, CallStage, HybridPcs, PlugPcs, LinksStage
<1>2. /\ <<"qvb", v>> \in devs' <=> <<"qvo", v>> \in devs'
      /\ <<"tap", v>> \in devs' => <<"tap", v>> \in devs
      /\ <<"rep", v>> \in up' => <<"rep", v>> \in up
  BY <1>0 DEF CreateVethPair, CreateVethPairPartly, Veth
<1>3. Scope(v)'
  BY <1>0, <1>1, <1>2, HybridScope
<1>4. ~Wired(v)
  BY <1>1, HybridWired DEF Bridged, VethUp, LinksUp, HybridLinks, Veth
<1>5. CASE CreateVethPair(v) /\ Proceed(v, "add_bridge_port")
  <2>1. pc'[v] = "add_bridge_port"
    BY <1>0, <1>5 DEF Proceed, Goto
  <2>2. VethUp(v)'
    BY <1>1, <1>5 DEF VethUp, LinksUp, HybridLinks, Veth, CreateVethPair
  <2>3. LinksStage(v)'
    BY <2>1, <2>2
       DEF LinksStage, BridgedPcs, PortPcs, PortMadePcs, PatchPcs,
           QosMakingPcs
  <2> QED
    BY <1>1, <1>3, <1>4, <1>5, <2>3, HybridGoesOn DEF PlugKeeps, IntactPcs
<1>6. CASE Fail(v) /\ Fault("partial")
  <2>1. Whole(v)'
    BY <1>6, WholeIf
  <2> QED
    BY <1>3, <1>4, <1>6, <2>1, CallEnds DEF PlugKeeps
<1> QED
  BY <1>0, <1>5, <1>6

LEMMA AddBridgePortStep ==
  ASSUME Sound, Typed, NEW v \in Vifs, VifInv(v), AddBridgePort(v)
  PROVE  PlugKeeps(v)
<1>0. /\ pc[v] = "add_bridge_port" /\ pc \in [Vifs -> Labels]
      /\ UNCHANGED ovsdbVars /\ UNCHANGED <<byLibvirt, raced>>
  BY DEF AddBridgePort, At, NoFault, Typed, TypeOK, CallTypeOK
<1>1. /\ Kind[v] = "bridge" /\ pc[v] \in PlugPcs /\ Scope(v) /\ VethUp(v)
      /\ <<"qvb", v>> \in devs <=> <<"qvo", v>> \in devs
  BY <1>0 DEF VifInv, CallStage, HybridPcs, PlugPcs, LinksStage, Scope,
              LinkScope
<1>2. Enslave(v) /\ Proceed(v, "ensure_int_bridge")
  <2>1. {<<"qbr", v>>, <<"qvb", v>>} \subseteq devs
    BY <1>1 DEF VethUp, LinksUp, HybridLinks, Veth
  <2> QED
    BY <2>1 DEF AddBridgePort
<1>3. Bridged(v)'
  BY <1>1, <1>2 DEF Enslave, Bridged, VethUp, LinksUp, HybridLinks, Veth
<1>4. Scope(v)' /\ (PortInPlace(v)' <=> PortInPlace(v))
  BY <1>0, <1>1, <1>2, HybridScope DEF Enslave
<1>5. Wired(v) => Wired(v)'
  BY <1>1, <1>3, <1>4, HybridWired
<1>6. pc'[v] = "ensure_int_bridge"
  BY <1>0, <1>2 DEF Proceed, Goto
<1>7. LinksStage(v)'
  BY <1>3, <1>6 DEF LinksStage
<1> QED
  BY <1>1, <1>2, <1>4, <1>5, <1>7, HybridGoesOn DEF PlugKeeps, IntactPcs

LEMMA UpdateVethStep ==
  ASSUME Sound, Typed, NEW v \in Vifs, VifInv(v), UpdateVeth(v)
  PROVE  PlugKeeps(v)
<1>0. /\ pc[v] = "update_veth_pair" /\ Succeed(v)
      /\ UNCHANGED netVars /\ UNCHANGED <<byLibvirt, raced>>
  BY DEF UpdateVeth, At, NoFault
<1>1. /\ Kind[v] = "bridge" /\ op[v] = "plug" /\ Whole(v) /\ Scope(v)
      /\ <<"qvo", v>> \in devs
  BY <1>0 DEF VifInv, CallStage, HybridPcs, PlugPcs, Intact, IntactPcs,
              LinksStage
<1>2. /\ Scope(v)' /\ (Wired(v) => Wired(v)') /\ Whole(v)'
  BY <1>0, <1>1, QuietScope, QuietWired DEF netVars, ovsdbVars
<1>3. Sure(v) => Wired(v)'
  BY <1>1, <1>2 DEF Whole
<1> QED
  BY <1>0, <1>1, <1>2, <1>3, CallEnds DEF PlugKeeps

LEMMA PlugKept ==
  ASSUME Sound, Typed, NEW v \in Vifs, VifInv(v), PlugStep(v)
  PROVE  PlugKeeps(v)
BY LookSteps, EnsureBridgeStep, ExistsVethStep, CreateVethStep,
   AddBridgePortStep, UpdateVethStep, QosSteps, BridgeSteps, RepresentorStep,
   CreatePortStep, TapStep, PatchStep DEF PlugStep
-----------------------------------------------------------------------------
(* The steps of unplug(), and others that only take away                   *)

LinksRemoved(v) ==
  /\ LinksOf(v) \cap devs' \subseteq devs \cup {<<"rep", v>>}
  /\ LinksOf(v) \cap up' \subseteq up
  /\ <<"qvb", v>> \in devs' <=> <<"qvo", v>> \in devs'
  /\ <<"tap", v>> \in devs' /\ <<"tap", v>> \in up => <<"tap", v>> \in up'

PortsRemoved(v) ==
  /\ \A p \in PortsOf(v) :
       /\ \/ /\ portBr'[p] = portBr[p]
             /\ p \in ids' <=> p \in ids
             /\ p \in portQos' <=> p \in portQos
          \/ portBr'[p] = NoBridge /\ p \notin portQos'
       /\ qosRows'[p] \in {qosRows[p], 0}
  /\ brType'[PortBridge(v)] \in {brType[PortBridge(v)], "absent"}
  /\ brType'[Bridge[v]] \in {brType[Bridge[v]], "absent"}

LibvirtLosesPort(v) ==
  v \in byLibvirt' <=> v \in byLibvirt /\ portBr'[MainPort(v)] # NoBridge

Removes(v) == LinksRemoved(v) /\ PortsRemoved(v) /\ LibvirtLosesPort(v)

LEMMA NotRepresentor ==
  ASSUME NEW v \in Vifs
  PROVE  \A d \in HybridLinks(v) \cup {<<"tap", v>>} :
           d \in LinksOf(v) /\ d # <<"rep", v>>
<1>1. LinksOf(v) = HybridLinks(v) \cup {<<"tap", v>>, <<"rep", v>>}
  BY HybridNames
<1>2. <<"rep", v>> \notin HybridLinks(v) /\ <<"tap", v>> # <<"rep", v>>
  BY DEF HybridLinks, Veth
<1> QED
  BY <1>1, <1>2

LEMMA RemovalScope ==
  ASSUME Sound, NEW v \in Vifs, Scope(v), Removes(v)
  PROVE  Scope(v)'
<1> USE DEF Scope, Removes
<1>0. PlugBridge(v) # NoBridge
  BY Places, NetAssumption
<1>1. LinkScope(v)'
  <2>1. \A d \in LinksOf(v) \ {<<"rep", v>>} : d \in devs' => d \in devs
    BY DEF LinksRemoved
  <2>2. Kind[v] # "bridge" => HybridLinks(v) \cap devs' = {}
    BY <2>1, NotRepresentor DEF LinkScope
  <2>3. /\ <<"tap", v>> \in devs' => <<"tap", v>> \in devs
        /\ <<"rep", v>> \in up' => <<"rep", v>> \in up
    <3>1. <<"tap", v>> # <<"rep", v>>
      OBVIOUS
    <3> QED
      BY <2>1, <3>1, OwnNames DEF LinksRemoved
  <2>4. <<"tap", v>> \in devs' =>
          /\ Kind[v] = "ovs"
          /\ <<"tap", v>> \in up' \/ "partial" \in FaultKinds
    BY <2>3 DEF LinkScope, LinksRemoved
  <2>5. HybridLinks(v)' = HybridLinks(v)
    BY DEF HybridLinks, Veth
  <2> QED
    BY <2>2, <2>3, <2>4, <2>5 DEF LinkScope, LinksRemoved, SupportsQos
<1>2. PortScope(v)'
  BY DEF PortScope, PortsRemoved, MainPort, PlugBridge, OwnBridge
<1>3. QosScope(v)'
  BY DEF QosScope, PortsRemoved, MainPort, SupportsQos
<1>4. PortWhole(v)'
  BY <1>0, OwnNames
     DEF PortWhole, PortsRemoved, LibvirtLosesPort, MainPort, PlugBridge,
         OwnBridge, SupportsQos
<1>5. LibvirtScope(v)'
  BY OwnNames
     DEF LibvirtScope, PortsRemoved, LibvirtLosesPort, MainPort, PlugBridge
<1> QED
  BY <1>1, <1>2, <1>3, <1>4, <1>5

LEMMA RemovalClean ==
  ASSUME NEW v \in Vifs, Clean(v), Removes(v)
  PROVE  Clean(v)'
<1>1. /\ (LinksOf(v) \cap devs \subseteq {<<"rep", v>>})'
      /\ (LinksOf(v) \cap up = {})'
  BY DEF Clean, Removes, LinksRemoved
<1>2. (\A p \in PortsOf(v) : portBr[p] = NoBridge /\ qosRows[p] = 0)'
  BY DEF Clean, Removes, PortsRemoved
<1>3. ~BrExists(PortBridge(v))' /\ (IsTrunk(Bridge[v]) => ~BrExists(Bridge[v]))'
  BY DEF Clean, Removes, PortsRemoved, BrExists, IsTrunk
<1> QED
  BY <1>1, <1>2, <1>3 DEF Clean

\* The links that the steps of unplug() remove.
LEMMA LinkRemoval ==
  ASSUME NEW v \in Vifs, Scope(v),
         \/ UNCHANGED kernelVars
         \/ \E d \in LinksOf(v) : DeleteNetDev(d)
         \/ SetDown(<<"rep", v>>)
         \/ DeleteBridge(v) \/ DeleteBridgePartly(v)
  PROVE  LinksRemoved(v)
<1>0. <<"qvb", v>> \in devs <=> <<"qvo", v>> \in devs
  BY DEF Scope, LinkScope
<1>1. CASE UNCHANGED kernelVars \/ SetDown(<<"rep", v>>)
  BY <1>0, <1>1 DEF LinksRemoved, kernelVars, SetDown
<1>2. ASSUME NEW d \in LinksOf(v), DeleteNetDev(d)
      PROVE  LinksRemoved(v)
  <2>1. <<"qvb", v>> \in Gone(d) <=> <<"qvo", v>> \in Gone(d)
    BY HybridNames DEF Gone, Veth
  <2>2. <<"qvb", v>> \in devs' <=> <<"qvo", v>> \in devs'
    BY <1>0, <1>2, <2>1 DEF DeleteNetDev
  <2> QED
    BY <1>2, <2>2 DEF LinksRemoved, DeleteNetDev
<1>3. CASE DeleteBridge(v) \/ DeleteBridgePartly(v)
  <2>1. /\ devs' \in {devs, devs \ {<<"qbr", v>>}}
        /\ up' \subseteq up
        /\ <<"tap", v>> \in up => <<"tap", v>> \in up'
    BY <1>3 DEF DeleteBridge, DeleteBridgePartly, kernelVars
  <2>2. <<"qvb", v>> \in devs' <=> <<"qvo", v>> \in devs'
    BY <1>0, <2>1
  <2> QED
    BY <2>1, <2>2 DEF LinksRemoved
<1> QED
  BY <1>1, <1>2, <1>3

LEMMA PortRemoval ==
  ASSUME Typed, NEW v \in Vifs, VifInv(v),
         \/ UNCHANGED ovsdbVars
         \/ \E p \in PortsOf(v) : \E b \in AllBridges : DelPort(p, b)
         \/ DelBr(PortBridge(v)) \/ DelBr(Bridge[v])
         \/ \E p \in PortsOf(v) \ portQos :
              DeleteQos(p) /\ UNCHANGED <<brType, portVars>>
  PROVE  PortsRemoved(v)
<1> USE DEF PortsRemoved
<1>0. /\ qosRows \in [Ports -> Nat] /\ PortsOf(v) \subseteq Ports
      /\ brType \in [AllBridges -> {"absent", "system", "netdev"}]
      /\ portBr \in [Ports -> AllBridges \cup {NoBridge}]
      /\ Bridge[v] \in AllBridges /\ PortBridge(v) \in AllBridges
  BY Places DEF Typed, TypeOK, NetTypeOK
<1>1. CASE UNCHANGED ovsdbVars
  BY <1>1 DEF ovsdbVars, portVars
<1>2. ASSUME NEW p \in PortsOf(v), NEW b \in AllBridges, DelPort(p, b)
      PROVE  PortsRemoved(v)
  BY <1>0, <1>2 DEF DelPort, RemovePorts
<1>3. ASSUME NEW b \in AllBridges, DelBr(b)
      PROVE  PortsRemoved(v)
  BY <1>0, <1>3 DEF DelBr, RemovePorts
<1>4. ASSUME NEW p \in PortsOf(v) \ portQos, DeleteQos(p),
             UNCHANGED <<brType, portVars>>
      PROVE  PortsRemoved(v)
  BY <1>0, <1>4 DEF DeleteQos, portVars
<1> QED
  BY <1>0, <1>1, <1>2, <1>3, <1>4

LEMMA LibvirtRemoval ==
  ASSUME Sound, NEW v \in Vifs, Scope(v),
         \/ ForgetPorts
         \/ /\ UNCHANGED <<byLibvirt, raced>>
            /\ portBr'[MainPort(v)] = portBr[MainPort(v)]
         \/ UNCHANGED <<byLibvirt, raced>> /\ v \in PerPortBridge
  PROVE  LibvirtLosesPort(v)
<1>1. v \in byLibvirt => /\ MainPort(v) = <<"tap", v>>
                         /\ portBr[MainPort(v)] # NoBridge
                         /\ v \notin PerPortBridge
  BY MainPortIs, Places, NetAssumption DEF Scope, LibvirtScope
<1> QED
  BY <1>1 DEF LibvirtLosesPort, ForgetPorts

LEMMA GoneStaysGone ==
  ASSUME NEW v \in Vifs, Removes(v)
  PROVE  /\ \A p \in PortsOf(v) :
              /\ portBr[p] = NoBridge => portBr'[p] = NoBridge
              /\ qosRows[p] = 0 => qosRows'[p] = 0
         /\ \A d \in {<<"tap", v>>, <<"qbr", v>>, <<"qvo", v>>} :
              d \notin devs => d \notin devs'
         /\ <<"rep", v>> \notin up => <<"rep", v>> \notin up'
         /\ ~BrExists(PortBridge(v)) => ~BrExists(PortBridge(v))'
<1>1. /\ \A d \in {<<"tap", v>>, <<"qbr", v>>, <<"qvo", v>>} :
           d \notin devs => d \notin devs'
      /\ <<"rep", v>> \notin up => <<"rep", v>> \notin up'
  <2>1. \A d \in HybridLinks(v) \cup {<<"tap", v>>} :
          d \notin devs => d \notin devs'
    BY NotRepresentor DEF Removes, LinksRemoved
  <2>2. /\ <<"qbr", v>> \in HybridLinks(v)
        /\ <<"qvo", v>> \in HybridLinks(v)
    BY DEF HybridLinks, Veth
  <2> QED
    BY <2>1, <2>2, OwnNames DEF Removes, LinksRemoved
<1>2. ~BrExists(PortBridge(v)) => ~BrExists(PortBridge(v))'
  BY DEF Removes, PortsRemoved, BrExists
<1> QED
  BY <1>1, <1>2 DEF Removes, PortsRemoved

LEMMA UnplugRemoves ==
  ASSUME Sound, Typed, NEW v \in Vifs, VifInv(v), UnplugStep(v)
  PROVE  Removes(v)
<1> USE DEF Removes
<1>0. /\ ~Lost /\ ~Blind(v) /\ Scope(v)
      /\ pc[v] \in UnplugWork =>
           port[v] \in {MainPort(v), PortName(v, UnpluggedAs[v])}
      /\ Bridge[v] \in AllBridges /\ PortBridge(v) \in AllBridges
      /\ UnplugBridge(v) \in AllBridges
      /\ <<"ibp", v>> \in PortsOf(v) /\ <<"pbp", v>> \in PortsOf(v)
      /\ MainPort(v) \in PortsOf(v) /\ PortsOf(v) \subseteq Ports
  BY Places, OwnNames DEF Sound, Lost, Blind, Fault, VifInv, CallStage
<1>1. CASE UNCHANGED netVars /\ NoFault
  BY <1>0, <1>1, LinkRemoval, PortRemoval, LibvirtRemoval
     DEF netVars, ovsdbVars, portVars, NoFault
<1>2. CASE Unplug(v) \/ ExistsQbr(v) \/ FindRepresentor(v)
  BY <1>0, <1>1, <1>2 DEF Unplug, ExistsQbr, FindRepresentor
<1>3. CASE DeleteLinuxBridge(v)
  <2>1. /\ DeleteBridge(v) \/ DeleteBridgePartly(v)
        /\ UNCHANGED ovsdbVars /\ UNCHANGED <<byLibvirt, raced>>
    BY <1>0, <1>3 DEF DeleteLinuxBridge, Partial, NoFault
  <2> QED
    BY <1>0, <2>1, LinkRemoval, PortRemoval, LibvirtRemoval
       DEF ovsdbVars, portVars
<1>4. CASE DeleteTap(v)
  BY <1>0, <1>4, LinkRemoval, PortRemoval, LibvirtRemoval, OwnNames
     DEF DeleteTap, ovsdbVars, portVars, NoFault
<1>5. CASE DeleteIntPatch(v) \/ DeletePortPatch(v)
  <2>1. MainPort(v) # <<"ibp", v>> /\ MainPort(v) # <<"pbp", v>>
    BY MainPortIs, KindIs
  <2>2. /\ UNCHANGED <<byLibvirt, raced>> /\ UNCHANGED kernelVars
        /\ \/ DelPort(<<"ibp", v>>, Bridge[v])
           \/ DelPort(<<"pbp", v>>, PortBridge(v))
    BY <1>0, <1>5 DEF DeleteIntPatch, DeletePortPatch, DeletePatch, NoFault
  <2>3. portBr'[MainPort(v)] = portBr[MainPort(v)]
    BY <1>0, <2>1, <2>2 DEF DelPort, RemovePorts
  <2> QED
    BY <1>0, <2>2, <2>3, LinkRemoval, PortRemoval, LibvirtRemoval
<1>6. CASE DeleteOvsVifPort(v)
  <2>1. port[v] \in PortsOf(v)
    BY <1>6, WorkPort DEF DeleteOvsVifPort, At, UnplugWork, UnplugPcs
  <2> QED
    BY <1>0, <1>6, <2>1, LinkRemoval, PortRemoval, LibvirtRemoval
       DEF DeleteOvsVifPort
<1>7. CASE CleanQos(v)
  <2>1. pc[v] = "clean_qos" /\ port[v] \in PortsOf(v)
    BY <1>7, WorkPort DEF CleanQos, At, UnplugWork, UnplugPcs
  <2>2. port[v] = MainPort(v) => portBr[MainPort(v)] = NoBridge
    BY <2>1 DEF VifInv, UnplugStage, PortGonePcs, Known
  <2>3. port[v] \notin portQos
    BY <1>0, <2>1, <2>2 DEF Scope, QosScope
  <2> QED
    BY <1>0, <1>7, <2>1, <2>3, LinkRemoval, PortRemoval, LibvirtRemoval
       DEF CleanQos, NoFault, portVars
<1>8. CASE DeletePortDevice(v)
  <2>1. port[v] \in PortsOf(v)
    BY <1>8, WorkPort DEF DeletePortDevice, At, UnplugWork, UnplugPcs
  <2>2. port[v] \in devs => port[v] \in LinksOf(v)
    BY <2>1 DEF PortsOf, Links, LinksOf, Typed, TypeOK, NetTypeOK
  <2> QED
    BY <1>0, <1>8, <2>1, <2>2, LinkRemoval, PortRemoval, LibvirtRemoval
       DEF DeletePortDevice, ovsdbVars, portVars, NoFault
<1>9. CASE DeletePortBridge(v)
  <2>1. v \in PerPortBridge
    BY <1>9 DEF DeletePortBridge, At, VifInv, UnplugStage, OwnBridge,
                UsesPortBridge
  <2> QED
    BY <1>0, <1>9, <2>1, LinkRemoval, PortRemoval, LibvirtRemoval
       DEF DeletePortBridge, NoFault
<1>10. CASE SetRepresentorDown(v)
  <2>1. port[v] = <<"rep", v>>
    BY <1>10, RepresentorPort
  <2> QED
    BY <1>0, <1>10, <2>1, LinkRemoval, PortRemoval, LibvirtRemoval
       DEF SetRepresentorDown, ovsdbVars, portVars, NoFault
<1>11. CASE DeleteTrunk(v)
  <2>1. CASE IsTrunk(Bridge[v])
    BY <1>0, <1>11, <2>1, LinkRemoval, PortRemoval, LibvirtRemoval
       DEF DeleteTrunk
  <2> QED
    BY <1>1, <1>11, <2>1 DEF DeleteTrunk
<1> QED
  BY <1>2, <1>3, <1>4, <1>5, <1>6, <1>7, <1>8, <1>9, <1>10, <1>11
     DEF UnplugStep

\* What is to be shown of each step of unplug().
UnplugKeeps(v) == VifInv(v)' /\ (Clean(v) => Clean(v)')

LEMMA UnplugAdvances ==
  ASSUME Sound, Typed, NEW v \in Vifs, VifInv(v), Removes(v),
         pc[v] \in UnplugPcs, NEW l \in UnplugPcs, Goto(v, l),
         l \in HybridPcs => Kind[v] = "bridge",
         UNCHANGED qosing,
         port'[v] \in {MainPort(v), PortName(v, UnpluggedAs[v])},
         UnplugStage(v)', l \in IntactPcs => Whole(v)'
  PROVE  UnplugKeeps(v)
BY RemovalScope, RemovalClean, UnplugGoesOn DEF UnplugKeeps, VifInv

\* Where a step of unplug() ends, and what it has established by then.
LEMMA UnplugBegins ==
  ASSUME Sound, Typed, NEW v \in Vifs, VifInv(v), Removes(v), Unplug(v)
  PROVE  UnplugKeeps(v)
<1>0. /\ pc[v] = "unplug" /\ pc[v] \in UnplugPcs
      /\ UNCHANGED netVars /\ UNCHANGED <<byLibvirt, raced>>
      /\ pc \in [Vifs -> Labels] /\ port \in [Vifs -> Ports \cup {NoPort}]
      /\ Whole(v)
  BY DEF Unplug, At, NoFault, UnplugPcs, Typed, TypeOK, CallTypeOK, VifInv,
         Intact, IntactPcs
<1>1. Whole(v)'
  BY <1>0, QuietWired DEF netVars, ovsdbVars
<1>2. CASE v \in BadProfile
  <2>1. Fail(v)
    BY <1>2 DEF Unplug
  <2> QED
    BY <1>1, <2>1, RemovalScope, RemovalClean, CallEnds
       DEF UnplugKeeps, VifInv
<1>3. CASE v \notin BadProfile
  <2>1. port'[v] = PortName(v, UnpluggedAs[v]) /\ UNCHANGED qosing
    BY <1>0, <1>3 DEF Unplug
  <2>2. PICK l \in UnplugPcs :
          /\ Goto(v, l)
          /\ \/ l = "delete_bridge" /\ UnpluggedAs[v] = "bridge"
             \/ /\ l = "delete_port" /\ ~OwnBridge(v)
                /\ Kind[v] \in {"vhostuser", "hostdev"}
             \/ l = "find_representor" /\ Kind[v] = "hostdev" /\ SupportsQos(v)
             \/ l = "delete_tap" /\ OwnBridge(v)
             \/ l = "exists_qbr"
    <3>1. CASE UnpluggedAs[v] = "bridge"
      BY <1>3, <3>1 DEF Unplug, UsesPortBridge, UnplugPcs
    <3>2. CASE UnpluggedAs[v] = "vhostuser"
      BY <1>3, <3>2, KindIs
         DEF Unplug, OwnBridge, UsesPortBridge, UnplugPcs
    <3>3. CASE UnpluggedAs[v] = "hostdev"
      BY <1>3, <3>3, KindIs
         DEF Unplug, OwnBridge, UsesPortBridge, SupportsQos, UnplugPcs
    <3>4. CASE UnpluggedAs[v] = "ovs"
      BY <1>3, <3>4, KindIs DEF Unplug, UnplugPcs
    <3> QED
      BY <3>1, <3>2, <3>3, <3>4 DEF Kinds
  <2>3. pc'[v] = l /\ (l \in HybridPcs => Kind[v] = "bridge")
    BY <1>0, <2>2, KindIs DEF Goto, HybridPcs
  <2>4. /\ <<"ibp", v>> \in PortsOf(v) /\ <<"pbp", v>> \in PortsOf(v)
        /\ MainPort(v) # <<"ibp", v>> /\ MainPort(v) # <<"pbp", v>>
        /\ ~OwnBridge(v) =>
             portBr[<<"ibp", v>>] = NoBridge /\ portBr[<<"pbp", v>>] = NoBridge
    <3>1. MainPort(v) # <<"ibp", v>> /\ MainPort(v) # <<"pbp", v>>
      BY MainPortIs, KindIs
    <3> QED
      BY <3>1, OwnNames DEF VifInv, Scope, PortScope
  <2>5. Kind[v] # "bridge" => <<"qbr", v>> \notin devs'
    BY <1>0, NotRepresentor
       DEF VifInv, Scope, LinkScope, netVars, kernelVars, HybridLinks
  <2>6. /\ UnpluggedAs[v] = "bridge" \/ Kind[v] # "bridge" => Known(v)'
        /\ OwnBridge(v) => Kind[v] # "bridge"
    BY <2>1, UnpluggedPortIs
       DEF Known, MainPort, Rebound, OwnBridge, UsesPortBridge
  <2>7. BridgeGone(v)'
    BY <2>2, <2>3, <2>5, <2>6 DEF BridgeGone, BridgeGonePcs, PatchGonePcs,
                                  PortGonePcs, LeavePcs
  <2>8. UnplugStage(v)'
    BY <1>0, <2>2, <2>3, <2>4, <2>7
       DEF UnplugStage, PatchGonePcs, PortGonePcs, LeavePcs, netVars,
           ovsdbVars, portVars, OwnBridge, SupportsQos
  <2> QED
    BY <1>0, <1>1, <2>1, <2>2, <2>3, <2>8, UnplugAdvances
<1> QED
  BY <1>2, <1>3

LEMMA UnplugLooks ==
  ASSUME Sound, Typed, NEW v \in Vifs, VifInv(v), Removes(v), ExistsQbr(v)
  PROVE  UnplugKeeps(v)
<1>0. /\ pc[v] = "exists_qbr" /\ pc[v] \in UnplugPcs
      /\ UNCHANGED netVars /\ UNCHANGED <<byLibvirt, raced>>
      /\ UNCHANGED qosing
      /\ pc \in [Vifs -> Labels] /\ port \in [Vifs -> Ports \cup {NoPort}]
      /\ Whole(v)
      /\ port[v] \in {MainPort(v), PortName(v, UnpluggedAs[v])}
  <2>1. pc[v] = "exists_qbr" /\ pc[v] \in UnplugPcs /\ pc[v] \in UnplugWork
    BY DEF ExistsQbr, At, UnplugPcs, UnplugWork
  <2> QED
    BY <2>1, Unfailing
       DEF ExistsQbr, NoFault, Typed, TypeOK, CallTypeOK, VifInv, Intact,
                IntactPcs, CallStage
<1>1. Whole(v)' /\ devs' = devs
  BY <1>0, QuietWired DEF netVars, ovsdbVars, kernelVars
<1>2. <<"qbr", v>> \in devs => Kind[v] = "bridge"
  BY HybridNames DEF VifInv, Scope, LinkScope
<1>3. CASE <<"qbr", v>> \in devs
  <2>1. /\ Goto(v, "delete_bridge") /\ pc'[v] = "delete_bridge"
        /\ port'[v] = MainPort(v)
    <3>1. ~ Blind(v)
      BY Unfailing
    <3>2. Goto(v, "delete_bridge")
          /\ port' = [port EXCEPT ![v] = PortName(v, "bridge")]
      BY <1>3, <3>1 DEF ExistsQbr
    <3>3. Kind[v] = "bridge"
      BY <1>2, <1>3
    <3>4. MainPort(v) = PortName(v, "bridge")
      BY <3>3 DEF MainPort
    <3> QED
      BY <1>0, <3>2, <3>4 DEF Goto
  <2>2. BridgeGone(v)'
    BY <2>1 DEF BridgeGone, Known, MainPort, BridgeGonePcs, PatchGonePcs,
                PortGonePcs, LeavePcs
  <2>3. UnplugStage(v)'
    BY <2>1, <2>2 DEF UnplugStage, PatchGonePcs, PortGonePcs, LeavePcs
  <2>4. "delete_bridge" \in UnplugPcs
    BY DEF UnplugPcs
  <2> QED
    BY <1>0, <1>1, <1>2, <1>3, <2>1, <2>3, <2>4, UnplugAdvances
<1>4. CASE <<"qbr", v>> \notin devs
  <2>1. /\ Goto(v, "delete_tap") /\ pc'[v] = "delete_tap"
        /\ port'[v] = port[v]
    BY <1>0, <1>4 DEF ExistsQbr, Goto
  <2>2. Sure(v) => Known(v) \/ <<"qvo", v>> \notin devs
    <3>1. Kind[v] # "bridge" => Known(v)
      BY <1>0, UnpluggedPortIs DEF Known
    <3>2. Kind[v] = "bridge" /\ Wired(v) => <<"qbr", v>> \in devs
      BY HybridWired
         DEF Bridged, VethUp, LinksUp, HybridLinks
    <3> QED
      BY <1>0, <1>4, <3>1, <3>2 DEF Whole
  <2>3. BridgeGone(v)'
    BY <1>1, <1>4, <2>1, <2>2 DEF BridgeGone, Known, MainPort, Sure
  <2>4. UnplugStage(v)'
    BY <2>1, <2>3 DEF UnplugStage, PatchGonePcs, PortGonePcs, LeavePcs
  <2>5. /\ "delete_tap" \in UnplugPcs \ (HybridPcs \cup IntactPcs)
    BY DEF UnplugPcs, HybridPcs, IntactPcs
  <2> QED
    BY <1>0, <2>1, <2>4, <2>5, UnplugAdvances
<1> QED
  BY <1>3, <1>4

LEMMA KnownStays ==
  ASSUME NEW v \in Vifs, NEW l, Proceed(v, l)
  PROVE  Known(v)' <=> Known(v)
BY DEF Known, Proceed, localVars, MainPort

\* The steps after the bridge of a hybrid VIF is gone, or was never there.
LEMMA UnplugProceeds ==
  ASSUME Sound, Typed, NEW v \in Vifs, VifInv(v), Removes(v),
         pc[v] \in BridgeGonePcs, NEW l \in BridgeGonePcs,
         Proceed(v, l), pc'[v] = l /\ BridgeGone(v)' => UnplugStage(v)'
  PROVE  UnplugKeeps(v)
<1>1. /\ Goto(v, l) /\ UNCHANGED qosing /\ port' = port /\ pc'[v] = l
      /\ pc[v] \in UnplugPcs /\ pc[v] \in UnplugWork
      /\ l \in UnplugPcs \ (HybridPcs \cup IntactPcs)
  BY PcSets
     DEF Proceed, localVars, Goto, Typed, TypeOK, CallTypeOK, UnplugWork,
         IntactPcs
<1>2. port'[v] \in {MainPort(v), PortName(v, UnpluggedAs[v])}
  BY <1>1 DEF VifInv, CallStage
<1>3. BridgeGone(v)'
  <2>1. BridgeGone(v)
    BY DEF VifInv, UnplugStage
  <2> QED
    BY <1>1, <2>1, PcSets, KnownStays, GoneStaysGone
       DEF BridgeGone, Sure, HybridPcs
<1> QED
  BY <1>1, <1>2, <1>3, UnplugAdvances

LEMMA UnplugBridgeStep ==
  ASSUME Sound, Typed, NEW v \in Vifs, VifInv(v), Removes(v),
         DeleteLinuxBridge(v)
  PROVE  UnplugKeeps(v)
<1>0. /\ pc[v] = "delete_bridge" /\ pc[v] \in UnplugPcs
      /\ pc[v] \in UnplugWork /\ pc[v] \in HybridPcs
      /\ pc \in [Vifs -> Labels] /\ port \in [Vifs -> Ports \cup {NoPort}]
      /\ UNCHANGED ovsdbVars
      /\ \/ DeleteBridge(v) /\ Proceed(v, "delete_port")
         \/ Fail(v) /\ Fault("partial")
  BY Unfailing
     DEF DeleteLinuxBridge, At, Partial, UnplugPcs, UnplugWork, HybridPcs,
         Typed, TypeOK, CallTypeOK
<1>1. Kind[v] = "bridge" /\ Known(v)
  BY <1>0 DEF VifInv, CallStage, UnplugStage, BridgeGone
<1>2. CASE Fail(v) /\ Fault("partial")
  <2>1. Whole(v)'
    BY <1>2, WholeIf
  <2> QED
    BY <1>2, <2>1, RemovalScope, RemovalClean, CallEnds
       DEF UnplugKeeps, VifInv
<1>3. CASE DeleteBridge(v) /\ Proceed(v, "delete_port")
  <2>1. /\ Goto(v, "delete_port") /\ pc'[v] = "delete_port"
        /\ UNCHANGED qosing /\ port' = port
    BY <1>0, <1>3 DEF Proceed, Goto, localVars
  <2>2. <<"qbr", v>> \notin devs'
    BY <1>3 DEF DeleteBridge, kernelVars
  <2>3. BridgeGone(v)'
    BY <1>1, <1>3, <2>1, <2>2, KnownStays DEF BridgeGone
  <2>4. portBr'[<<"ibp", v>>] = NoBridge /\ portBr'[<<"pbp", v>>] = NoBridge
    <3>1. /\ ~OwnBridge(v)
          /\ MainPort(v) # <<"ibp", v>> /\ MainPort(v) # <<"pbp", v>>
      BY <1>1, MainPortIs DEF OwnBridge, UsesPortBridge
    <3> QED
      BY <1>0, <3>1, OwnNames
         DEF VifInv, Scope, PortScope, ovsdbVars, portVars
  <2>5. UnplugStage(v)'
    BY <2>1, <2>3, <2>4 DEF UnplugStage, PatchGonePcs, PortGonePcs, LeavePcs
  <2>6. /\ "delete_port" \in UnplugPcs \ (HybridPcs \cup IntactPcs)
        /\ port'[v] \in {MainPort(v), PortName(v, UnpluggedAs[v])}
    BY <1>1, <2>1 DEF UnplugPcs, HybridPcs, IntactPcs, Known
  <2> QED
    BY <1>0, <2>1, <2>5, <2>6, UnplugAdvances
<1> QED
  BY <1>0, <1>2, <1>3

LEMMA UnplugFinds ==
  ASSUME Sound, Typed, NEW v \in Vifs, VifInv(v), Removes(v),
         FindRepresentor(v)
  PROVE  UnplugKeeps(v)
<1>1. /\ pc[v] = "find_representor" /\ UNCHANGED netVars
      /\ Proceed(v, "delete_port")
      /\ pc[v] \in BridgeGonePcs /\ "delete_port" \in BridgeGonePcs
  BY DEF FindRepresentor, At, BridgeGonePcs, PatchGonePcs
<1>2. Kind[v] = "hostdev" /\ ~OwnBridge(v)
  BY <1>1 DEF VifInv, UnplugStage, OwnBridge, UsesPortBridge
<1>3. portBr'[<<"ibp", v>>] = NoBridge /\ portBr'[<<"pbp", v>>] = NoBridge
  <2>1. MainPort(v) # <<"ibp", v>> /\ MainPort(v) # <<"pbp", v>>
    BY MainPortIs, KindIs
  <2> QED
    BY <1>1, <1>2, <2>1, OwnNames
       DEF VifInv, Scope, PortScope, netVars, ovsdbVars, portVars
<1>4. pc'[v] = "delete_port" /\ BridgeGone(v)' => UnplugStage(v)'
  BY <1>3 DEF UnplugStage, PatchGonePcs, PortGonePcs, LeavePcs
<1> QED
  BY <1>1, <1>4, UnplugProceeds

\* The port and its patch ports.
LEMMA UnplugPorts ==
  ASSUME Sound, Typed, NEW v \in Vifs, VifInv(v), Removes(v),
         DeleteTap(v) \/ DeleteIntPatch(v) \/ DeletePortPatch(v)
  PROVE  UnplugKeeps(v)
<1> USE DEF UnplugStage, PatchGonePcs, PortGonePcs, LeavePcs
<1>0. /\ ~Lost /\ UnplugStage(v)
      /\ UsesPortBridge(v, UnpluggedAs[v]) <=> OwnBridge(v)
      /\ <<"ibp", v>> \in PortsOf(v) /\ <<"pbp", v>> \in PortsOf(v)
      /\ PortsOf(v) \subseteq Ports
  BY OwnNames, Places, KindIs DEF Sound, Lost, Blind, Fault, VifInv
<1>1. /\ portBr[<<"ibp", v>>] # NoBridge =>
           OwnBridge(v) /\ portBr[<<"ibp", v>>] = Bridge[v]
      /\ portBr[<<"pbp", v>>] # NoBridge =>
           OwnBridge(v) /\ portBr[<<"pbp", v>>] = PortBridge(v)
  <2>1. MainPort(v) # <<"ibp", v>> /\ MainPort(v) # <<"pbp", v>>
    BY MainPortIs, KindIs
  <2> QED
    BY <1>0, <2>1 DEF VifInv, Scope, PortScope
<1>2. CASE DeleteTap(v)
  <2>1. /\ UNCHANGED portBr /\ pc[v] \in BridgeGonePcs
        /\ Proceed(v, IF OwnBridge(v) THEN "delete_int_patch"
                                      ELSE "delete_port")
    BY <1>0, <1>2
       DEF DeleteTap, At, BridgeGonePcs, ovsdbVars, portVars
  <2>2. CASE OwnBridge(v)
    <3>1. pc'[v] = "delete_int_patch" /\ BridgeGone(v)' => UnplugStage(v)'
      BY <2>2 DEF OwnBridge
    <3> QED
      BY <2>1, <2>2, <3>1, UnplugProceeds DEF BridgeGonePcs
  <2>3. CASE ~OwnBridge(v)
    <3>1. pc'[v] = "delete_port" /\ BridgeGone(v)' => UnplugStage(v)'
      BY <1>1, <2>1, <2>3
    <3> QED
      BY <2>1, <2>3, <3>1, UnplugProceeds DEF BridgeGonePcs
  <2> QED
    BY <2>2, <2>3
<1>3. CASE DeleteIntPatch(v) /\ ~Fail(v)
  <2>1. /\ DelPort(<<"ibp", v>>, Bridge[v])
        /\ pc[v] = "delete_int_patch" /\ pc[v] \in BridgeGonePcs
        /\ Proceed(v, "delete_port_patch")
    BY <1>0, <1>3 DEF DeleteIntPatch, DeletePatch, At, BridgeGonePcs
  <2>2. portBr'[<<"ibp", v>>] = NoBridge
    BY <1>0, <1>1, <2>1 DEF DelPort, RemovePorts
  <2>3. pc'[v] = "delete_port_patch" /\ BridgeGone(v)' => UnplugStage(v)'
    BY <1>0, <2>1, <2>2 DEF OwnBridge
  <2> QED
    BY <2>1, <2>3, UnplugProceeds DEF BridgeGonePcs
<1>4. CASE DeletePortPatch(v) /\ ~Fail(v)
  <2>1. /\ DelPort(<<"pbp", v>>, PortBridge(v))
        /\ pc[v] = "delete_port_patch" /\ pc[v] \in BridgeGonePcs
        /\ Proceed(v, "delete_port")
    BY <1>0, <1>4 DEF DeletePortPatch, DeletePatch, At, BridgeGonePcs
  <2>2. portBr'[<<"pbp", v>>] = NoBridge
    BY <1>0, <1>1, <2>1 DEF DelPort, RemovePorts
  <2>3. portBr'[<<"ibp", v>>] = NoBridge
    BY <1>0, <2>1, GoneStaysGone
  <2>4. pc'[v] = "delete_port" /\ BridgeGone(v)' => UnplugStage(v)'
    BY <2>2, <2>3
  <2> QED
    BY <2>1, <2>4, UnplugProceeds DEF BridgeGonePcs
<1>5. CASE (DeleteIntPatch(v) \/ DeletePortPatch(v)) /\ Fail(v)
  <2>1. Kind[v] # "bridge"
    BY <1>0, <1>5 DEF DeleteIntPatch, DeletePortPatch, At, OwnBridge,
                      UsesPortBridge
  <2>2. Whole(v)'
    BY <2>1, WholeIf
  <2> QED
    BY <1>5, <2>2, RemovalScope, RemovalClean, CallEnds
       DEF UnplugKeeps, VifInv
<1> QED
  BY <1>2, <1>3, <1>4, <1>5

\* What AfterQos() leads to.
LEMMA UnplugLeaves ==
  ASSUME Sound, Typed, NEW v \in Vifs, VifInv(v), Removes(v), AfterQos(v),
         pc[v] \in {"delete_port", "clean_qos"},
         portBr'[<<"ibp", v>>] = NoBridge, portBr'[<<"pbp", v>>] = NoBridge,
         Known(v) => /\ portBr'[MainPort(v)] = NoBridge
                     /\ qosRows'[MainPort(v)] = 0
  PROVE  UnplugKeeps(v)
<1> USE DEF UnplugStage, PatchGonePcs, PortGonePcs, LeavePcs
<1>0. /\ pc[v] \in BridgeGonePcs /\ Scope(v)'
      /\ UnpluggedAs[v] = "hostdev" <=> Kind[v] = "hostdev"
      /\ BridgeGonePcs \subseteq UnplugPcs
  BY RemovalScope, KindIs, PcSets DEF BridgeGonePcs, VifInv
<1>k. /\ Known(v)' <=> Known(v)
      /\ MainPort(v)' = MainPort(v)
  BY KnownStays DEF AfterQos, MainPort
<1>l. Kind[v] # "bridge" => <<"qvo", v>> \notin devs'
  BY <1>0, NotRepresentor DEF Scope, LinkScope, HybridLinks, Veth
<1>1. CASE Kind[v] # "hostdev"
  <2>1. pc'[v] = "delete_net_dev" /\ BridgeGone(v)' => UnplugStage(v)'
    BY <1>1, <1>k
  <2> QED
    BY <1>0, <1>1, <2>1, UnplugProceeds
       DEF AfterQos, BridgeGonePcs
<1>2. CASE Kind[v] = "hostdev" /\ SupportsQos(v)
  <2>1. <<"tap", v>> \notin devs'
    BY <1>0, <1>2 DEF Scope, LinkScope
  <2>2. pc'[v] = "set_representor_down" /\ BridgeGone(v)' => UnplugStage(v)'
    BY <1>2, <2>1, <1>k, <1>l DEF SupportsQos
  <2> QED
    BY <1>0, <1>2, <2>2, UnplugProceeds
       DEF AfterQos, BridgeGonePcs, SupportsQos
<1>3. CASE Kind[v] = "hostdev" /\ ~SupportsQos(v)
  <2>1. <<"tap", v>> \notin devs' /\ <<"rep", v>> \notin up'
    BY <1>0, <1>3 DEF Scope, LinkScope, SupportsQos
  <2>2. ~BrExists(PortBridge(v))'
    BY <1>0, <1>3 DEF Scope, PortScope, BrExists, OwnBridge, UsesPortBridge
  <2>3. pc'[v] = "delete_trunk" /\ BridgeGone(v)' => UnplugStage(v)'
    BY <2>1, <2>2, <1>3, <1>k, <1>l
  <2> QED
    BY <1>0, <1>3, <2>3, UnplugProceeds
       DEF AfterQos, BridgeGonePcs, SupportsQos
<1> QED
  BY <1>1, <1>2, <1>3

LEMMA UnplugPort ==
  ASSUME Sound, Typed, NEW v \in Vifs, VifInv(v), Removes(v),
         DeleteOvsVifPort(v) \/ CleanQos(v)
  PROVE  UnplugKeeps(v)
<1>0. /\ ~Lost
      /\ UnpluggedAs[v] = "vhostuser" <=> Kind[v] = "vhostuser"
      /\ pc[v] \in {"delete_port", "clean_qos"} /\ pc[v] \in BridgeGonePcs
      /\ "clean_qos" \in BridgeGonePcs
      /\ UnplugStage(v) /\ Scope(v) /\ Scope(v)'
      /\ MainPort(v) \in PortsOf(v) /\ PortsOf(v) \subseteq Ports
      /\ <<"ibp", v>> \in PortsOf(v) /\ <<"pbp", v>> \in PortsOf(v)
  <2>1. /\ pc[v] \in {"delete_port", "clean_qos"} /\ pc[v] \in BridgeGonePcs
        /\ "clean_qos" \in BridgeGonePcs
    BY DEF DeleteOvsVifPort, CleanQos, At, BridgeGonePcs, PatchGonePcs,
           PortGonePcs
  <2> QED
    BY <2>1, OwnNames, Places, KindIs, RemovalScope
       DEF Sound, Lost, Blind, Fault, VifInv, CallStage
<1>1. portBr'[<<"ibp", v>>] = NoBridge /\ portBr'[<<"pbp", v>>] = NoBridge
  BY <1>0, GoneStaysGone DEF UnplugStage, PatchGonePcs, PortGonePcs
<1>2. CASE DeleteOvsVifPort(v)
  <2>1. DelPort(port[v], PlugBridge(v))
    BY <1>0, <1>2, KindIs DEF DeleteOvsVifPort
  <2>2. portBr[MainPort(v)] \in {PlugBridge(v), NoBridge}
    BY <1>0, MainPortIs, KindIs DEF Scope, PortScope
  <2>3. Known(v) => portBr'[MainPort(v)] = NoBridge
    BY <1>0, <2>1, <2>2 DEF DelPort, RemovePorts, Known
  <2>4. CASE Proceed(v, "clean_qos")
    <3>1. pc'[v] = "clean_qos" /\ BridgeGone(v)' => UnplugStage(v)'
      BY <1>1, <2>3, <2>4, KnownStays
         DEF UnplugStage, PatchGonePcs, PortGonePcs, LeavePcs, MainPort
    <3> QED
      BY <1>0, <2>4, <3>1, UnplugProceeds
  <2>5. CASE AfterQos(v) /\ ~(SupportsQos(v) /\ Kind[v] # "vhostuser")
    <3>1. ~SupportsQos(v)
      BY <2>5 DEF Sound, SupportsQos, DatapathOf
    <3>2. qosRows'[MainPort(v)] = 0
      BY <1>0, <2>1, <3>1 DEF Scope, QosScope, DelPort
    <3> QED
      BY <1>0, <1>1, <2>3, <2>5, <3>2, UnplugLeaves
  <2> QED
    BY <1>0, <1>2, <2>4, <2>5 DEF DeleteOvsVifPort
<1>3. CASE CleanQos(v)
  <2>1. /\ AfterQos(v) /\ pc[v] = "clean_qos" /\ DeleteQos(port[v])
        /\ qosRows \in [Ports -> Nat]
    BY <1>0, <1>3 DEF CleanQos, At, Typed, TypeOK, NetTypeOK
  <2>2. Known(v) => portBr[MainPort(v)] = NoBridge
    BY <1>0, <2>1 DEF UnplugStage, PortGonePcs
  <2>3. Known(v) => MainPort(v) \notin portQos
    BY <1>0, <2>2 DEF Scope, QosScope
  <2>4. Known(v) => qosRows'[MainPort(v)] = 0
    BY <1>0, <2>1, <2>3 DEF DeleteQos, Known
  <2>5. Known(v) => portBr'[MainPort(v)] = NoBridge
    BY <1>0, <2>2, GoneStaysGone
  <2> QED
    BY <1>0, <1>1, <2>1, <2>4, <2>5, UnplugLeaves
<1> QED
  BY <1>2, <1>3

\* The device, the representor and the bridges.
LEMMA UnplugDevices ==
  ASSUME Sound, Typed, NEW v \in Vifs, VifInv(v), Removes(v),
         DeletePortDevice(v) \/ DeletePortBridge(v) \/ SetRepresentorDown(v)
  PROVE  UnplugKeeps(v)
<1> USE DEF UnplugStage, PatchGonePcs, PortGonePcs, LeavePcs
<1>0. /\ ~Lost /\ ~Blind(v)
      /\ UsesPortBridge(v, UnpluggedAs[v]) <=> OwnBridge(v)
      /\ pc[v] \in {"delete_net_dev", "delete_port_bridge",
                    "set_representor_down"}
      /\ pc[v] \in BridgeGonePcs
      /\ {"delete_port_bridge", "delete_trunk"} \subseteq BridgeGonePcs
      /\ port[v] = MainPort(v) \/ Kind[v] = "bridge"
      /\ UnplugStage(v) /\ Scope(v) /\ Scope(v)'
      /\ MainPort(v) \in PortsOf(v)
      /\ <<"ibp", v>> \in PortsOf(v) /\ <<"pbp", v>> \in PortsOf(v)
      /\ up \subseteq devs
  <2>1. /\ pc[v] \in {"delete_net_dev", "delete_port_bridge",
                      "set_representor_down"}
        /\ pc[v] \in BridgeGonePcs /\ pc[v] \in UnplugWork
        /\ {"delete_port_bridge", "delete_trunk"} \subseteq BridgeGonePcs
    BY DEF DeletePortDevice, DeletePortBridge, SetRepresentorDown, At,
           UnplugWork, UnplugPcs, BridgeGonePcs, PatchGonePcs, PortGonePcs,
           LeavePcs
  <2> QED
    BY <2>1, OwnNames, Places, KindIs, RemovalScope, UnpluggedPortIs
       DEF Sound, Lost, Blind, Fault, VifInv, CallStage, Typed, TypeOK,
           NetTypeOK
<1>1. /\ portBr'[<<"ibp", v>>] = NoBridge /\ portBr'[<<"pbp", v>>] = NoBridge
      /\ Known(v) => /\ portBr'[MainPort(v)] = NoBridge
                     /\ qosRows'[MainPort(v)] = 0
      /\ MainPort(v)' = MainPort(v) /\ (Known(v)' <=> Known(v))
  BY <1>0, GoneStaysGone, KnownStays
     DEF MainPort, DeletePortDevice, DeletePortBridge, SetRepresentorDown
<1>l. Kind[v] # "bridge" => <<"qvo", v>> \notin devs'
  BY <1>0, NotRepresentor DEF Scope, LinkScope, HybridLinks, Veth
<1>2. ~OwnBridge(v) => ~BrExists(PortBridge(v))'
  BY <1>0 DEF Scope, PortScope, BrExists, OwnBridge
<1>3. Kind[v] # "hostdev" => <<"rep", v>> \notin up'
  BY <1>0 DEF Scope, LinkScope
<1>4. CASE DeletePortDevice(v)
  <2>1. /\ pc[v] = "delete_net_dev"
        /\ Proceed(v, IF OwnBridge(v) THEN "delete_port_bridge"
                                      ELSE "delete_trunk")
        /\ Kind[v] # "hostdev"
    <3>1. pc[v] = "delete_net_dev"
      BY <1>4 DEF DeletePortDevice, At
    <3>2. Proceed(v, IF OwnBridge(v) THEN "delete_port_bridge"
                                     ELSE "delete_trunk")
      BY <1>0, <1>4 DEF DeletePortDevice, OwnBridge
    <3> QED
      BY <1>0, <3>1, <3>2
  <2>2. <<"tap", v>> \notin devs'
    <3>1. CASE Kind[v] = "ovs"
      <4>1. port[v] = <<"tap", v>> /\ Gone(<<"tap", v>>) = {<<"tap", v>>}
        BY <1>0, <3>1, MainPortIs DEF Gone
      <4> QED
        BY <1>0, <1>4, <4>1 DEF DeletePortDevice, DeleteNetDev, kernelVars
    <3> QED
      BY <1>0, <3>1 DEF Scope, LinkScope
  <2>q. Known(v) => <<"qvo", v>> \notin devs'
    <3>1. CASE Kind[v] = "bridge"
      <4>1. /\ MainPort(v) = <<"qvo", v>>
            /\ <<"qvo", v>> \in Gone(<<"qvo", v>>)
        BY <3>1, MainPortIs DEF Gone, Veth
      <4> QED
        BY <1>0, <1>4, <4>1
           DEF DeletePortDevice, DeleteNetDev, kernelVars, Known
    <3> QED
      BY <1>l, <3>1
  <2>3. CASE OwnBridge(v)
    <3>1. pc'[v] = "delete_port_bridge" /\ BridgeGone(v)' => UnplugStage(v)'
      BY <1>1, <2>2, <2>3, <2>q DEF OwnBridge
    <3> QED
      BY <1>0, <2>1, <2>3, <3>1, UnplugProceeds
         DEF BridgeGonePcs
  <2>4. CASE ~OwnBridge(v)
    <3>1. pc'[v] = "delete_trunk" /\ BridgeGone(v)' => UnplugStage(v)'
      BY <1>1, <1>2, <1>3, <2>1, <2>2, <2>4, <2>q
    <3> QED
      BY <1>0, <2>1, <2>4, <3>1, UnplugProceeds
         DEF BridgeGonePcs
  <2> QED
    BY <2>3, <2>4
<1>5. CASE DeletePortBridge(v)
  <2>1. /\ pc[v] = "delete_port_bridge" /\ DelBr(PortBridge(v))
        /\ Proceed(v, "delete_trunk")
    BY <1>0, <1>5 DEF DeletePortBridge, At
  <2>2. OwnBridge(v) /\ Kind[v] = "ovs"
    BY <1>0, <2>1 DEF OwnBridge, UsesPortBridge
  <2>3. ~BrExists(PortBridge(v))'
    BY <2>1, Places DEF DelBr, BrExists, Typed, TypeOK, NetTypeOK
  <2>4. <<"tap", v>> \notin devs'
    BY <1>0, <2>1, GoneStaysGone
  <2>5. pc'[v] = "delete_trunk" /\ BridgeGone(v)' => UnplugStage(v)'
    BY <1>1, <1>3, <1>l, <2>2, <2>3, <2>4
  <2> QED
    BY <1>0, <2>1, <2>5, UnplugProceeds DEF BridgeGonePcs
<1>6. CASE SetRepresentorDown(v)
  <2>1. /\ pc[v] = "set_representor_down" /\ SetDown(port[v])
        /\ Proceed(v, "delete_trunk")
    BY <1>6 DEF SetRepresentorDown, At
  <2>2. Kind[v] = "hostdev" /\ port[v] = <<"rep", v>>
    BY <1>0, <2>1, MainPortIs
  <2>3. <<"rep", v>> \notin up' /\ ~OwnBridge(v)
    BY <2>1, <2>2 DEF SetDown, OwnBridge, UsesPortBridge
  <2>4. <<"tap", v>> \notin devs'
    BY <1>0, <2>1, GoneStaysGone
  <2>5. pc'[v] = "delete_trunk" /\ BridgeGone(v)' => UnplugStage(v)'
    BY <1>1, <1>2, <1>l, <2>2, <2>3, <2>4
  <2> QED
    BY <1>0, <2>1, <2>5, UnplugProceeds DEF BridgeGonePcs
<1> QED
  BY <1>4, <1>5, <1>6

LEMMA UnplugEnds ==
  ASSUME Sound, Typed, NEW v \in Vifs, VifInv(v), Removes(v), DeleteTrunk(v)
  PROVE  UnplugKeeps(v)
<1>0. /\ ~Lost /\ pc[v] = "delete_trunk" /\ Succeed(v)
      /\ IsTrunk(Bridge[v]) => DelBr(Bridge[v])
      /\ UNCHANGED kernelVars
      /\ up \subseteq devs
      /\ op[v] = "unplug" /\ UnplugStage(v) /\ Scope(v)
      /\ Bridge[v] \in AllBridges
  BY Places DEF Sound, Lost, Blind, Fault, DeleteTrunk, At, VifInv, CallStage,
                UnplugPcs, netVars, Typed, TypeOK, NetTypeOK
<1>1. /\ portBr[<<"ibp", v>>] = NoBridge /\ portBr[<<"pbp", v>>] = NoBridge
      /\ Known(v) => portBr[MainPort(v)] = NoBridge /\ qosRows[MainPort(v)] = 0
      /\ Known(v) => <<"qvo", v>> \notin devs
      /\ <<"tap", v>> \notin devs /\ <<"rep", v>> \notin up
      /\ ~BrExists(PortBridge(v))
  BY <1>0 DEF UnplugStage, PatchGonePcs, PortGonePcs, LeavePcs
<1>2. /\ <<"qbr", v>> \notin devs
      /\ Sure(v) => <<"qvo", v>> \notin devs
  BY <1>0, <1>1 DEF UnplugStage, BridgeGone, BridgeGonePcs, PatchGonePcs,
                    PortGonePcs, LeavePcs
<1>3. ~Rebound(v) => Known(v)
  <2>1. pc[v] \in UnplugWork
    BY <1>0 DEF UnplugWork, UnplugPcs
  <2> QED
    BY <2>1, UnpluggedPortIs DEF VifInv, CallStage, Known
<1>4. ~Rebound(v) => Clean(v)'
  <2> SUFFICES ASSUME Known(v) PROVE Clean(v)'
    BY <1>3
  <2>1. /\ (LinksOf(v) \cap devs \subseteq {<<"rep", v>>})'
        /\ (LinksOf(v) \cap up = {})'
    <3>1. LinksOf(v) = {<<"qbr", v>>, <<"qvb", v>>, <<"qvo", v>>,
                        <<"tap", v>>, <<"rep", v>>}
      BY DEF LinksOf, LinkKinds
    <3>2. <<"qvb", v>> \notin devs
      BY <1>0, <1>1 DEF Scope, LinkScope
    <3>3. LinksOf(v) \cap devs \subseteq {<<"rep", v>>}
      BY <1>1, <1>2, <3>1, <3>2
    <3>4. LinksOf(v) \cap up = {}
      BY <1>0, <1>1, <3>3
    <3> QED
      BY <1>0, <3>3, <3>4 DEF kernelVars
  <2>2. \A p \in PortsOf(v) : portBr[p] = NoBridge /\ qosRows[p] = 0
    BY <1>0, <1>1 DEF Scope, PortScope, QosScope
  <2>3. (\A p \in PortsOf(v) : portBr[p] = NoBridge /\ qosRows[p] = 0)'
    BY <2>2, GoneStaysGone
  <2>4. ~BrExists(PortBridge(v))'
    BY <1>1, GoneStaysGone
  <2>5. (IsTrunk(Bridge[v]) => ~BrExists(Bridge[v]))'
    BY <1>0 DEF DelBr, BrExists, IsTrunk, Typed, TypeOK, NetTypeOK
  <2> QED
    BY <2>1, <2>3, <2>4, <2>5 DEF Clean
<1>5. Whole(v)'
  BY <1>0, <1>2 DEF Whole, Sure, kernelVars
<1>6. VifInv(v)'
  BY <1>0, <1>4, <1>5, RemovalScope, CallEnds
<1> QED
  BY <1>6, RemovalClean DEF UnplugKeeps

LEMMA UnplugKept ==
  ASSUME Sound, Typed, NEW v \in Vifs, VifInv(v), UnplugStep(v)
  PROVE  UnplugKeeps(v)
<1>1. Removes(v)
  BY UnplugRemoves
<1> QED
  BY <1>1, UnplugBegins, UnplugLooks, UnplugBridgeStep, UnplugFinds,
     UnplugPorts, UnplugPort, UnplugDevices, UnplugEnds DEF UnplugStep

-----------------------------------------------------------------------------
(* The steps around the calls                                              *)

LEMMA QuietStores ==
  ASSUME NEW w \in Vifs, UNCHANGED netVars, UNCHANGED <<byLibvirt, raced>>
  PROVE  StoresKept(w) /\ LibvirtStays(w)
BY DEF netVars, kernelVars, ovsdbVars, portVars, StoresKept, LinksKept,
       PortsKept, BridgeKept, LibvirtStays

LEMMA BeginKept ==
  ASSUME Sound, Typed, NEW v \in Vifs, VifInv(v),
         BeginPlug(v) \/ BeginUnplug(v)
  PROVE  VifInv(v)' /\ \A w \in Vifs \ {v} : Kept(w)
<1>0. /\ pc \in [Vifs -> Labels] /\ op \in [Vifs -> {"none","plug","unplug"}]
      /\ last \in [Vifs -> Results]
  BY DEF Typed, TypeOK, CallTypeOK
<1>1. /\ UNCHANGED netVars /\ UNCHANGED <<byLibvirt, raced>>
      /\ last'[v] = "none" /\ qosing' = qosing
      /\ \/ pc'[v] = "plug" /\ op'[v] = "plug"
         \/ pc'[v] = "unplug" /\ op'[v] = "unplug"
  BY <1>0 DEF BeginPlug, BeginUnplug, NoFault, localVars
<1>2. Scope(v)'
  BY <1>1, QuietScope DEF VifInv
<1>3. /\ CallStage(v)' /\ PlugStage(v)' /\ UnplugStage(v)' /\ Outcome(v)'
      /\ LinksStage(v)' /\ Intact(v)'
  <2>1. CallStage(v)'
    BY <1>1 DEF VifInv, CallStage, HybridPcs, UnplugWork, PlugPcs, UnplugPcs,
                SupportsQos
  <2>2. PlugStage(v)'
    BY <1>1 DEF PlugStage, PortPcs, PortMadePcs, PatchPcs, QosMakingPcs
  <2>3. UnplugStage(v)'
    BY <1>1
       DEF UnplugStage, BridgeGone, BridgeGonePcs, PatchGonePcs, PortGonePcs,
           LeavePcs
  <2>4. Outcome(v)'
    BY <1>1 DEF Outcome
  <2>5. LinksStage(v)'
    BY <1>1, PcSets DEF LinksStage, PlugPcs, UnplugPcs, IntactPcs
  <2>6. Intact(v)'
    <3>1. Whole(v)
      BY DEF VifInv, Intact, IntactPcs, BeginPlug, BeginUnplug, At
    <3> QED
      BY <1>1, <3>1, QuietWired DEF Intact, netVars, ovsdbVars
  <2> QED
    BY <2>1, <2>2, <2>3, <2>4, <2>5, <2>6
<1>4. ASSUME NEW w \in Vifs \ {v} PROVE Kept(w)
  <2>1. CallKept(w)
    BY <1>0 DEF BeginPlug, BeginUnplug, CallKept, localVars
  <2> QED
    BY <1>1, <2>1, QuietStores DEF Kept
<1> QED
  BY <1>2, <1>3, <1>4 DEF VifInv

LEMMA RaisesKept ==
  ASSUME Sound, Typed, WiringInv, NEW v \in Vifs, StepRaises(v)
  PROVE  VifInv(v)' /\ \A w \in Vifs \ {v} : Kept(w)
<1>1. /\ VifInv(v) /\ Fail(v)
      /\ UNCHANGED netVars /\ UNCHANGED <<byLibvirt, raced>>
  BY DEF WiringInv, StepRaises
<1>2. VifInv(v)'
  <2>1. Whole(v)'
    BY WholeIf DEF StepRaises
  <2> QED
    BY <1>1, <2>1, QuietScope, CallEnds DEF VifInv
<1>3. Effects(v)
  BY <1>1 DEF Effects, LinkEffect, PortEffect, CallEffect, netVars
<1> QED
  BY <1>1, <1>2, <1>3, OthersKept

LEMMA AgentKept ==
  ASSUME NEW v \in Vifs, AgentWires(v), NEW w \in Vifs
  PROVE  Kept(w)
BY DEF AgentWires, NoFault, kernelVars, localVars, Kept, StoresKept,
       LinksKept, PortsKept, BridgeKept, CallKept, LibvirtStays

LEMMA LibvirtPlugsKept ==
  ASSUME Sound, Typed, WiringInv, NEW v \in Vifs, LibvirtPlugs(v)
  PROVE  /\ VifInv(v)' /\ Wired(v)'
         /\ \A w \in Vifs \ {v} : Kept(w)
<1> DEFINE p == <<"tap", v>>
<1>0. /\ VifInv(v) /\ last[v] = "plugged" /\ pc[v] = "idle" /\ Wired(v)
      /\ Kind[v] = "ovs" /\ v \notin PerPortBridge /\ v \notin CreateTap
      /\ MainPort(v) = p /\ PlugBridge(v) = Bridge[v] /\ ~OwnBridge(v)
      /\ last' = last /\ pc' = pc /\ op' = op /\ qosing' = qosing
      /\ enslaved' = enslaved /\ brType' = brType
      /\ qosRows' = qosRows /\ port' = port /\ raced' = raced
  <2>1. VifInv(v) /\ last[v] = "plugged" /\ pc[v] = "idle"
    BY Unfailing DEF LibvirtPlugs, WiringInv, At
  <2>2. Kind[v] = "ovs" /\ v \notin PerPortBridge /\ v \notin CreateTap
    BY DEF LibvirtPlugs
  <2>3. /\ MainPort(v) = p /\ PlugBridge(v) = Bridge[v] /\ ~OwnBridge(v)
    BY <2>2, MainPortIs DEF PlugBridge, OwnBridge, UsesPortBridge
  <2>4. Wired(v)
    BY <2>1, <2>2 DEF VifInv, Outcome, Sure
  <2> QED
    BY <2>1, <2>2, <2>3, <2>4, Unfailing DEF LibvirtPlugs, localVars, AddUp
<1>1. /\ devs' = devs \cup {p} /\ up' = up \cup {p}
      /\ portBr'[p] = Bridge[v]
      /\ \A q \in Ports \ {p} : portBr'[q] = portBr[q]
      /\ ids' = ids \cup {p} /\ portQos' = portQos \ {p}
      /\ byLibvirt' = byLibvirt \cup {v}
      /\ p \in PortsOf(v) /\ PortsOf(v) \subseteq Ports
      /\ p \in LinksOf(v)
  BY OwnNames, Places
     DEF LibvirtPlugs, AddUp, Typed, TypeOK, NetTypeOK
<1>2. p \notin HybridLinks(v)
  BY DEF HybridLinks, Veth
<1> HIDE DEF p
<1>3. Scope(v)'
  <2> USE <1>0, <1>1 DEF VifInv, Scope
  <2>1. LinkScope(v)'
    <3>1. p = <<"tap", v>> /\ p \notin HybridLinks(v)
      BY <1>2 DEF p
    <3>2. /\ \A d \in HybridLinks(v) : d \in devs' <=> d \in devs
          /\ p \in up'
          /\ <<"rep", v>> \in up' => <<"rep", v>> \in up
      BY <3>1, NotRepresentor
    <3> QED
      BY <3>1, <3>2, HybridNames DEF LinkScope, HybridLinks, Veth, SupportsQos
  <2>2. PortScope(v)'
    BY DEF PortScope, MainPort, PlugBridge, OwnBridge
  <2>3. QosScope(v)'
    BY DEF QosScope, MainPort, SupportsQos
  <2>4. PortWhole(v)'
    BY DEF PortWhole, MainPort, PlugBridge, OwnBridge, SupportsQos
  <2>5. LibvirtScope(v)'
    BY DEF LibvirtScope, MainPort, PlugBridge
  <2> QED
    BY <2>1, <2>2, <2>3, <2>4, <2>5
<1>4. Wired(v)'
  <2>1. CASE v \notin CreatePort
    BY <1>0, <2>1, WiredIs
       DEF WiredForm, OwnBridge, UsesPortBridge, DatapathOf
  <2>2. CASE v \in CreatePort
    <3>1. brType[PlugBridge(v)] = WantedDatapath(v)
      BY <1>0, <2>2, WiredIs DEF WiredForm, PortInPlace
    <3>2. PortInPlace(v)'
      BY <1>0, <1>1, <3>1
         DEF PortInPlace, MainPort, PlugBridge, WantedDatapath, DatapathOf,
             VhostDatapath, UsesPortBridge, SupportsQos
    <3> QED
      BY <1>0, <2>2, <3>2, WiredIs
         DEF WiredForm, TapInPlace, OwnBridge, UsesPortBridge
  <2> QED
    BY <2>1, <2>2
<1>5. VifInv(v)'
  <2>1. op'[v] = "none" /\ (v \in qosing' => SupportsQos(v))
    BY <1>0 DEF VifInv, CallStage
  <2>2. CallStage(v)' /\ PlugStage(v)' /\ UnplugStage(v)' /\ LinksStage(v)'
    BY <1>0, <2>1, IdleStage DEF SupportsQos
  <2>5. Intact(v)'
    BY <1>0, WholeIf DEF Intact
  <2>6. Outcome(v)'
    BY <1>0, <1>4 DEF Outcome
  <2> QED
    BY <1>3, <2>2, <2>5, <2>6 DEF VifInv
<1>6. ASSUME NEW w \in Vifs \ {v} PROVE Kept(w)
  <2>1. /\ \A q \in PortsOf(w) : q # p /\ q \in Ports
        /\ \A d \in LinksOf(w) : d # p
    BY Places DEF p, PortsOf, LinksOf
  <2> QED
    BY <1>0, <1>1, <2>1
       DEF Kept, StoresKept, LinksKept, PortsKept, BridgeKept, CallKept,
           LibvirtStays
<1> QED
  BY <1>4, <1>5, <1>6

LEMMA LibvirtUnplugsKept ==
  ASSUME Sound, Typed, WiringInv, NEW v \in Vifs, LibvirtUnplugs(v)
  PROVE  /\ VifInv(v)'
         /\ \A w \in Vifs \ {v} : Kept(w)
<1>0. /\ VifInv(v) /\ pc[v] = "idle" /\ v \in byLibvirt
      /\ DelPort(<<"tap", v>>, Bridge[v]) /\ DeleteNetDev(<<"tap", v>>)
      /\ byLibvirt' = byLibvirt \ {v} /\ raced' = raced
      /\ last' = [last EXCEPT ![v] = "vm_stopped"]
      /\ pc' = pc /\ op' = op /\ qosing' = qosing /\ port' = port
      /\ last \in [Vifs -> Results]
  BY Unfailing
     DEF LibvirtUnplugs, WiringInv, At, localVars, Typed, TypeOK, CallTypeOK
<1>1. /\ Kind[v] = "ovs" /\ v \notin PerPortBridge
      /\ MainPort(v) = <<"tap", v>> /\ PlugBridge(v) = Bridge[v]
      /\ portBr[MainPort(v)] = Bridge[v]
  BY <1>0, MainPortIs
     DEF VifInv, Scope, LibvirtScope, PlugBridge, UsesPortBridge
<1>2. /\ LinkEffect(v) /\ PortEffect(v)
  BY <1>0, OwnNames DEF LinkEffect, PortEffect
<1>3. Removes(v)
  <2>1. LinksRemoved(v)
    BY <1>0, LinkRemoval, OwnNames DEF VifInv
  <2>2. PortsRemoved(v)
    BY <1>0, PortRemoval, OwnNames, Places
  <2>3. portBr'[MainPort(v)] = NoBridge
    BY <1>0, <1>1, OwnNames, Places DEF DelPort, RemovePorts
  <2> QED
    BY <1>0, <2>1, <2>2, <2>3 DEF Removes, LibvirtLosesPort
<1>4. Scope(v)'
  BY <1>0, <1>3, RemovalScope DEF VifInv
<1>5. VifInv(v)'
  <2>1. op'[v] = "none" /\ (v \in qosing' => SupportsQos(v))
    BY <1>0 DEF VifInv, CallStage
  <2>2. CallStage(v)' /\ PlugStage(v)' /\ UnplugStage(v)' /\ LinksStage(v)'
    BY <1>0, <2>1, IdleStage DEF SupportsQos
  <2>5. Intact(v)'
    BY <1>1, WholeIf DEF Intact
  <2>6. Outcome(v)'
    BY <1>0 DEF Outcome
  <2> QED
    BY <1>4, <2>2, <2>5, <2>6 DEF VifInv
<1>6. ASSUME NEW w \in Vifs \ {v} PROVE Kept(w)
  <2>1. VifInv(w)
    BY DEF WiringInv
  <2>2. StoresKept(w)
    BY <1>2, <2>1, OtherLinks, OtherPorts DEF StoresKept
  <2>3. CallKept(w) /\ LibvirtStays(w)
    BY <1>0 DEF CallKept, LibvirtStays
  <2> QED
    BY <2>2, <2>3 DEF Kept
<1> QED
  BY <1>5, <1>6

LEMMA CrashKept ==
  ASSUME Sound, Typed, NEW v \in Vifs, VifInv(v), Crash
  PROVE  VifInv(v)' /\ StoresKept(v) /\ LibvirtStays(v)
<1>0. /\ UNCHANGED netVars /\ UNCHANGED <<byLibvirt, raced>>
      /\ pc'[v] = "idle" /\ op'[v] = "none" /\ v \notin qosing'
      /\ last'[v] \in {last[v], "interrupted"}
  BY DEF Crash, AbandonCalls
<1>1. StoresKept(v) /\ LibvirtStays(v)
  BY <1>0, QuietStores
<1>2. Outcome(v)'
  BY <1>0, <1>1, WiredFrame, CleanFrame DEF VifInv, Outcome, Sure, Rebound
<1>3. Intact(v)'
  BY WholeIf DEF Crash, Intact
<1> QED
  BY <1>0, <1>1, <1>2, <1>3, IdleStage, ScopeFrame DEF VifInv

LEMMA RebootKept ==
  ASSUME Sound, Typed, NEW v \in Vifs, VifInv(v), Reboot
  PROVE  /\ VifInv(v)'
         /\ Wired(v)' => Wired(v)
         /\ Clean(v) => Clean(v)'
<1>0. /\ UNCHANGED ovsdbVars /\ UNCHANGED <<byLibvirt, raced>>
      /\ pc'[v] = "idle" /\ op'[v] = "none" /\ v \notin qosing'
      /\ devs' = {"rep"} \X Vifs /\ up' = {}
      /\ last'[v] \in {"none", "unplugged", "interrupted"}
      /\ last'[v] # "interrupted" => last'[v] = last[v]
  BY DEF Reboot, AbandonCalls
<1>1. Removes(v)
  <2>1. LinksRemoved(v)
    <3>1. \A d \in LinksOf(v) \ {<<"rep", v>>} : d \notin devs'
      BY <1>0 DEF LinksOf
    <3>2. <<"qvb", v>> \notin devs' /\ <<"qvo", v>> \notin devs'
      BY <1>0
    <3>3. <<"tap", v>> \notin devs'
      BY <1>0
    <3> QED
      BY <1>0, <3>1, <3>2, <3>3 DEF LinksRemoved
  <2>2. PortsRemoved(v)
    BY <1>0, PortRemoval
  <2>3. LibvirtLosesPort(v)
    BY <1>0, LibvirtRemoval DEF VifInv, ovsdbVars, portVars
  <2> QED
    BY <2>1, <2>2, <2>3 DEF Removes
<1>2. Scope(v)' /\ (Clean(v) => Clean(v)')
  BY <1>1, RemovalScope, RemovalClean DEF VifInv
<1>3. Outcome(v)' /\ Intact(v)'
  <2>1. <<"qvo", v>> \notin devs'
    BY <1>0
  <2> QED
    BY <1>0, <1>2, <2>1, WholeIf DEF VifInv, Outcome, Intact, Rebound
<1>4. Wired(v)' => Wired(v)
  <2>1. /\ PortInPlace(v)' <=> PortInPlace(v)
        /\ PatchInPlace(v)' <=> PatchInPlace(v)
        /\ brType' = brType
    BY <1>0 DEF ovsdbVars, portVars, PortInPlace, PatchInPlace,
                UsesPortBridge, SupportsQos, PlugBridge, MainPort,
                WantedDatapath, DatapathOf, VhostDatapath
  <2>2. /\ TapInPlace(v)' => TapInPlace(v)
        /\ ~LinksUp({<<"rep", v>>})' /\ ~Bridged(v)'
    BY <1>0 DEF TapInPlace, LinksUp, Bridged, VethUp, HybridLinks
  <2> QED
    BY <2>1, <2>2, WiredIs
       DEF WiredForm, OwnBridge, UsesPortBridge, SupportsQos, DatapathOf
<1> QED
  BY <1>0, <1>2, <1>3, <1>4, IdleStage DEF VifInv

-----------------------------------------------------------------------------
(* The invariant                                                           *)

LEMMA InitWiring ==
  ASSUME Sound, Init
  PROVE  WiringInv
<1> SUFFICES ASSUME NEW v \in Vifs PROVE VifInv(v)
  BY DEF WiringInv
<1>0. /\ devs = {"rep"} \X Vifs /\ up = {}
      /\ brType = [b \in AllBridges |-> "absent"]
      /\ portBr = [p \in Ports |-> NoBridge] /\ portQos = {}
      /\ qosRows = [p \in Ports |-> 0] /\ byLibvirt = {}
      /\ pc[v] = "idle" /\ op[v] = "none" /\ last[v] = "none"
      /\ qosing = {}
      /\ PortsOf(v) \subseteq Ports /\ MainPort(v) \in Ports
      /\ PortBridge(v) \in AllBridges /\ PlugBridge(v) # NoBridge
  BY Places, NetAssumption DEF Init, NetInit
<1>1. Scope(v)
  <2>1. LinkScope(v)
    <3>1. HybridLinks(v) \cap devs = {}
      BY <1>0 DEF HybridLinks, Veth
    <3>2. \A k \in {"qvb", "qvo", "tap"} : <<k, v>> \notin devs
      BY <1>0
    <3> QED
      BY <1>0, <3>1, <3>2 DEF LinkScope
  <2>2. PortScope(v) /\ QosScope(v)
    BY <1>0 DEF PortScope, QosScope
  <2>3. PortWhole(v) /\ LibvirtScope(v)
    BY <1>0 DEF PortWhole, LibvirtScope
  <2> QED
    BY <2>1, <2>2, <2>3 DEF Scope
<1>2. /\ CallStage(v) /\ PlugStage(v) /\ UnplugStage(v) /\ Outcome(v)
      /\ LinksStage(v) /\ Intact(v)
  <2>1. CallStage(v)
    BY <1>0, PcSets DEF CallStage, HybridPcs, UnplugWork
  <2>2. PlugStage(v)
    BY <1>0, PcSets DEF PlugStage, PortPcs, PortMadePcs, PatchPcs, QosMakingPcs
  <2>3. UnplugStage(v)
    BY <1>0, PcSets
       DEF UnplugStage, BridgeGone, BridgeGonePcs, PatchGonePcs, PortGonePcs,
           LeavePcs
  <2>4. Outcome(v)
    BY <1>0 DEF Outcome
  <2>5. LinksStage(v)
    BY <1>0, PcSets DEF LinksStage, HybridPcs
  <2>6. Intact(v)
    BY <1>0 DEF Intact, Whole
  <2> QED
    BY <2>1, <2>2, <2>3, <2>4, <2>5, <2>6
<1> QED
  BY <1>1, <1>2 DEF VifInv

LEMMA StutterKept ==
  ASSUME NEW w \in Vifs, UNCHANGED vars
  PROVE  Kept(w)
BY QuietStores DEF vars, localVars, Kept, CallKept

LEMMA WiringStep ==
  ASSUME Sound, Typed, WiringInv, [Next]_vars
  PROVE  WiringInv'
<1>1. CASE UNCHANGED vars
  BY <1>1, StutterKept, KeptFrame DEF WiringInv
<1>2. ASSUME NEW v \in Vifs, PlugStep(v)
      PROVE  WiringInv'
  <2>1. VifInv(v)
    BY DEF WiringInv
  <2>2. VifInv(v)' /\ Effects(v) /\ UNCHANGED <<byLibvirt, raced>>
    BY <1>2, <2>1, PlugKept, PlugEffects DEF PlugKeeps
  <2> QED
    BY <2>2, OthersKept, OneVif
<1>3. ASSUME NEW v \in Vifs, UnplugStep(v)
      PROVE  WiringInv'
  <2>1. VifInv(v)
    BY DEF WiringInv
  <2>2. /\ VifInv(v)' /\ Effects(v)
        /\ ForgetPorts \/ UNCHANGED <<byLibvirt, raced>>
    BY <1>3, <2>1, UnplugKept, UnplugEffects DEF UnplugKeeps
  <2> QED
    BY <2>2, OthersKept, OneVif
<1>4. ASSUME NEW v \in Vifs, BeginPlug(v) \/ BeginUnplug(v)
      PROVE  WiringInv'
  BY <1>4, BeginKept, OneVif DEF WiringInv
<1>5. ASSUME NEW v \in Vifs, StepRaises(v)
      PROVE  WiringInv'
  BY <1>5, RaisesKept, OneVif
<1>6. ASSUME NEW v \in Vifs, AgentWires(v)
      PROVE  WiringInv'
  BY <1>6, AgentKept, KeptFrame DEF WiringInv
<1>7. ASSUME NEW v \in Vifs, LibvirtPlugs(v)
      PROVE  WiringInv'
  BY <1>7, LibvirtPlugsKept, OneVif
<1>8. ASSUME NEW v \in Vifs, LibvirtUnplugs(v)
      PROVE  WiringInv'
  BY <1>8, LibvirtUnplugsKept, OneVif
<1>9. CASE Crash \/ Reboot
  BY <1>9, CrashKept, RebootKept DEF WiringInv
<1> QED
  BY <1>1, <1>2, <1>3, <1>4, <1>5, <1>6, <1>7, <1>8, <1>9 DEF Next

LEMMA WiringInvariant ==
  ASSUME Sound
  PROVE  Spec => []WiringInv
<1>1. Init => WiringInv
  BY InitWiring
<1>2. Typed /\ WiringInv /\ [Next]_vars => WiringInv'
  BY WiringStep
<1> QED
  BY <1>1, <1>2, TypedInvariant, PTL DEF Spec

\* Whatever calls fail and however often the process dies or the host
\* restarts in whichever calls, a plug() that returns has wired its VIF, and
\* the VIF stays wired until the next call for it, a restart of the host, or
\* its VM stops: each VIF of any class, unless its earlier calls can have
\* been cut off where a retry does not finish them.
THEOREM PluggedVifIsWired ==
  ASSUME Sound, NEW v \in Vifs, Sure(v)
  PROVE  Spec => [](last[v] = "plugged" => Wired(v))
<1>1. WiringInv => (last[v] = "plugged" => Wired(v))
  BY DEF WiringInv, VifInv, Outcome
<1> QED
  BY <1>1, WiringInvariant, PTL

\* And an unplug() that returns has left nothing of its VIF: no link, no
\* port, no QoS row, no bridge of its own.  Here a cut-off call never harms,
\* hybrid VIFs included; only the class that unplug() is called with counts.
THEOREM UnpluggedVifIsClean ==
  ASSUME Sound, NEW v \in Vifs, ~Rebound(v)
  PROVE  Spec => [](last[v] = "unplugged" => Clean(v))
<1>1. WiringInv => (last[v] = "unplugged" => Clean(v))
  BY DEF WiringInv, VifInv, Outcome
<1> QED
  BY <1>1, WiringInvariant, PTL

\* Where that holds of every VIF, a caller that was told "plugged" has the
\* VIF wired.
THEOREM PluggedCorrect ==
  ASSUME Sound, \A v \in Vifs : Sure(v)
  PROVE  Spec => []PluggedIsWired
<1>1. WiringInv => PluggedIsWired
  BY DEF WiringInv, VifInv, Outcome, PluggedIsWired
<1> QED
  BY <1>1, WiringInvariant, PTL

\* Where no binding has changed, a caller that was told "unplugged" can
\* forget the VIF.
THEOREM UnpluggedCorrect ==
  ASSUME Sound, \A v \in Vifs : ~Rebound(v)
  PROVE  Spec => []UnpluggedIsClean
<1>1. WiringInv => UnpluggedIsClean
  BY DEF WiringInv, VifInv, Outcome, UnpluggedIsClean
<1> QED
  BY <1>1, WiringInvariant, PTL
-----------------------------------------------------------------------------
(* The refinement                                                          *)

LEMMA SameWiring ==
  ASSUME Sound, NEW v \in Vifs,
         UNCHANGED <<kernelVars, brType, portBr, ids, portQos, qosRows,
                     byLibvirt, raced>>
  PROVE  /\ Wired(v)' <=> Wired(v)
         /\ Clean(v)' <=> Clean(v)
<1>1. Clean(v)' <=> Clean(v)
  BY DEF kernelVars, Clean, BrExists, IsTrunk
<1>2. /\ PortInPlace(v)' <=> PortInPlace(v)
      /\ PatchInPlace(v)' <=> PatchInPlace(v)
      /\ TapInPlace(v)' <=> TapInPlace(v)
      /\ brType' = brType /\ devs' = devs /\ up' = up /\ enslaved' = enslaved
  BY DEF kernelVars, PortInPlace, PatchInPlace, TapInPlace, LinksUp,
         UsesPortBridge, SupportsQos, PlugBridge, MainPort, WantedDatapath,
         DatapathOf, VhostDatapath
<1>3. Wired(v)' <=> Wired(v)
  BY <1>2, QuietLinks, WiredIs
     DEF WiredForm, OwnBridge, UsesPortBridge, SupportsQos, DatapathOf, LinksUp
<1> QED
  BY <1>1, <1>3

\* Nothing moves in the sets that the abstract specification sees.
Unmoved ==
  /\ {v \in Vifs : Wired(v)}' = {v \in Vifs : Wired(v)}
  /\ {v \in Vifs : Clean(v) \/ Rebound(v)}'
       = {v \in Vifs : Clean(v) \/ Rebound(v)}

LEMMA SetsUnmoved ==
  ASSUME Sound,
         UNCHANGED <<kernelVars, brType, portBr, ids, portQos, qosRows,
                     byLibvirt, raced>>
  PROVE  Unmoved
BY SameWiring DEF Unmoved, Rebound

LEMMA OthersSpared ==
  ASSUME Sound, WiringInv, NEW v \in Vifs, \A w \in Vifs \ {v} : Kept(w)
  PROVE  W!SparesOthers(v)
<1>1. ASSUME NEW w \in Vifs \ {v}
      PROVE  (Wired(w) => Wired(w)') /\ (Clean(w) => Clean(w)')
             /\ (Rebound(w)' <=> Rebound(w))
  BY WiredFrame, CleanFrame DEF Kept, Rebound
<1> QED
  BY <1>1 DEF W!SparesOthers

LEMMA CallOf ==
  ASSUME Typed, NEW v \in Vifs, VifInv(v)
  PROVE  /\ pc[v] = "idle" <=> op[v] = "none"
         /\ pc[v] \in PlugPcs => op[v] = "plug"
         /\ pc[v] \in UnplugPcs => op[v] = "unplug"
BY PcSets DEF VifInv, CallStage, Typed, TypeOK, CallTypeOK, Labels

\* A step within a call is Work, or Return if the call ends with it.
LEMMA CallRefines ==
  ASSUME Sound, Typed, WiringInv, WiringInv', NEW v \in Vifs, Sure(v),
         op[v] \in {"plug", "unplug"},
         Goto(v, pc'[v]) \/ Succeed(v) \/ Fail(v),
         op[v] = "plug" /\ Wired(v) => Wired(v)',
         op[v] = "unplug" /\ Clean(v) => Clean(v)',
         \A w \in Vifs \ {v} : Kept(w)
  PROVE  W!Work(v) \/ W!Return(v)
<1>1. W!Effect(v)
  BY OthersSpared DEF W!Effect, Rebound
<1>2. CASE Goto(v, pc'[v])
  BY <1>1, <1>2 DEF Goto, W!Work
<1>3. CASE Succeed(v) \/ Fail(v)
  <2>1. /\ op' = [op EXCEPT ![v] = "none"]
        /\ last' = [last EXCEPT ![v] = last'[v]]
        /\ \/ last'[v] = "plugged" /\ op[v] = "plug"
           \/ last'[v] = "unplugged" /\ op[v] = "unplug"
           \/ last'[v] = "plug_error" /\ op[v] = "plug"
           \/ last'[v] = "unplug_error" /\ op[v] = "unplug"
    BY <1>3 DEF Succeed, Fail, Return, Typed, TypeOK, CallTypeOK
  <2>2. /\ last'[v] = "plugged" => Wired(v)'
        /\ last'[v] = "unplugged" => Clean(v)' \/ Rebound(v)'
    BY DEF WiringInv, VifInv, Outcome, Sure, Rebound
  <2>3. W!Succeed(v) \/ W!Fail(v)
    BY <2>1, <2>2 DEF W!Succeed, W!Fail
  <2> QED
    BY <1>1, <2>1, <2>3 DEF W!Return
<1> QED
  BY <1>2, <1>3

LEMMA StepRefines ==
  ASSUME Sound, Typed, WiringInv, WiringInv', NEW v \in Vifs, Sure(v),
         PlugStep(v) \/ UnplugStep(v) \/ StepRaises(v)
  PROVE  W!Work(v) \/ W!Return(v)
<1>0. /\ VifInv(v) /\ pc \in [Vifs -> Labels]
      /\ pc[v] \in PlugPcs => op[v] = "plug"
      /\ pc[v] \in UnplugPcs => op[v] = "unplug"
  BY CallOf DEF WiringInv, Typed, TypeOK, CallTypeOK
<1>1. ASSUME CallEffect(v)
      PROVE  Goto(v, pc'[v]) \/ Succeed(v) \/ Fail(v)
  BY <1>0, <1>1 DEF CallEffect, Goto
<1>2. CASE PlugStep(v)
  <2>1. op[v] = "plug"
    BY <1>0, <1>2
       DEF PlugStep, PlugPcs, At, Plug, EnsureBridge, ExistsVeth, CreateVeth,
           AddBridgePort, UpdateVeth, EnsureIntBridge, EnsurePortBridge,
           SetRepresentorUp, Isolate, ExistsPort, DeleteOldQos, CreateNewQos,
           GetQos, CreateOvsVifPort, CreateTapDevice, IsolatePatch,
           CreatePatchPortPair
  <2>2. Effects(v) /\ UNCHANGED <<byLibvirt, raced>> /\ (Wired(v) => Wired(v)')
    BY <1>0, <1>2, PlugEffects, PlugKept DEF PlugKeeps
  <2>3. \A w \in Vifs \ {v} : Kept(w)
    BY <2>2, OthersKept
  <2> QED
    BY <1>1, <2>1, <2>2, <2>3, CallRefines DEF Effects
<1>3. CASE UnplugStep(v)
  <2>1. op[v] = "unplug"
    BY <1>0, <1>3
       DEF UnplugStep, UnplugPcs, At, Unplug, ExistsQbr, DeleteLinuxBridge,
           FindRepresentor, DeleteTap, DeleteIntPatch, DeletePortPatch,
           DeletePatch, DeleteOvsVifPort, CleanQos, DeletePortDevice,
           DeletePortBridge, SetRepresentorDown, DeleteTrunk
  <2>2. /\ Effects(v) /\ (ForgetPorts \/ UNCHANGED <<byLibvirt, raced>>)
        /\ Clean(v) => Clean(v)'
    BY <1>0, <1>3, UnplugEffects, UnplugKept DEF UnplugKeeps
  <2>3. \A w \in Vifs \ {v} : Kept(w)
    BY <2>2, OthersKept
  <2> QED
    BY <1>1, <2>1, <2>2, <2>3, CallRefines DEF Effects
<1>4. CASE StepRaises(v)
  <2>1. pc[v] \in PlugPcs \cup UnplugPcs
    BY <1>4 DEF StepRaises, RaisingPcs, PlugPcs, UnplugPcs
  <2>2. (Wired(v) => Wired(v)') /\ (Clean(v) => Clean(v)')
    BY <1>4, SameWiring
       DEF StepRaises, netVars, ovsdbVars, portVars
  <2>3. Fail(v) /\ \A w \in Vifs \ {v} : Kept(w)
    BY <1>4, RaisesKept DEF StepRaises
  <2> QED
    BY <1>0, <2>1, <2>2, <2>3, CallRefines
<1> QED
  BY <1>2, <1>3, <1>4

LEMMA AroundRefines ==
  ASSUME Sound, Typed, WiringInv, NEW v \in Vifs,
         \/ BeginPlug(v) \/ BeginUnplug(v) \/ AgentWires(v)
         \/ LibvirtPlugs(v) \/ LibvirtUnplugs(v)
  PROVE  \/ \E c \in {"plug", "unplug"} : W!Begin(v, c)
         \/ W!VmStarts(v) \/ W!VmStops(v)
         \/ UNCHANGED W!vars
<1>0. VifInv(v) /\ (pc[v] = "idle" <=> op[v] = "none")
  BY CallOf DEF WiringInv
<1>1. CASE BeginPlug(v) \/ BeginUnplug(v)
  <2>1. Unmoved
    BY <1>1, SetsUnmoved
       DEF BeginPlug, BeginUnplug, NoFault, netVars, ovsdbVars, portVars
  <2> QED
    BY <1>0, <1>1, <2>1 DEF BeginPlug, BeginUnplug, At, W!Begin, Unmoved
<1>2. CASE AgentWires(v)
  <2>1. Unmoved
    BY <1>2, SetsUnmoved DEF AgentWires, NoFault
  <2> QED
    BY <1>2, <2>1 DEF AgentWires, W!vars, Unmoved
<1>3. CASE LibvirtPlugs(v)
  <2>1. Wired(v)' /\ W!SparesOthers(v)
    BY <1>3, LibvirtPlugsKept, OthersSpared
  <2>2. Wired(v)
    BY <1>0, <1>3, Unfailing DEF LibvirtPlugs, VifInv, Outcome, Sure
  <2> QED
    BY <1>0, <1>3, <2>1, <2>2, Unfailing DEF LibvirtPlugs, At, W!VmStarts
<1>4. CASE LibvirtUnplugs(v)
  <2>1. W!SparesOthers(v)
    BY <1>4, LibvirtUnplugsKept, OthersSpared
  <2> QED
    BY <1>0, <1>4, <2>1, Unfailing DEF LibvirtUnplugs, At, W!VmStops
<1> QED
  BY <1>1, <1>2, <1>3, <1>4

LEMMA DeathRefines ==
  ASSUME Sound, Typed, WiringInv, Crash \/ Reboot
  PROVE  W!Interrupt \/ W!Restart
<1>0. \A v \in Vifs : VifInv(v) /\ (pc[v] = "idle" <=> op[v] = "none")
  BY CallOf DEF WiringInv
<1>1. CASE Crash
  <2>1. Unmoved
    BY <1>1, SetsUnmoved DEF Crash, netVars, ovsdbVars, portVars
  <2>2. last' = [v \in Vifs |-> IF op[v] = "none" THEN last[v]
                                                  ELSE "interrupted"]
    BY <1>0, <1>1 DEF Crash, AbandonCalls, Busy
  <2> QED
    BY <1>1, <2>1, <2>2 DEF Crash, AbandonCalls, W!Interrupt, Unmoved
<1>2. CASE Reboot
  <2>1. \A v \in Vifs : /\ Wired(v)' => Wired(v)
                        /\ Clean(v) => Clean(v)'
    BY <1>0, <1>2, RebootKept
  <2>2. last' = [v \in Vifs |-> IF /\ op[v] = "none"
                                   /\ last[v] \in {"none", "unplugged"}
                                THEN last[v]
                                ELSE "interrupted"]
    BY <1>0, <1>2 DEF Reboot, AbandonCalls, Busy
  <2> QED
    BY <1>2, <2>1, <2>2 DEF Reboot, AbandonCalls, W!Restart, Rebound
<1> QED
  BY <1>1, <1>2

\* The plugin implements what the docstrings of plug() and unplug() promise,
\* for any number of VIFs of all classes: each of its steps is a step of
\* VifWiring or changes nothing that shows there, so no step of a call, even
\* of one that is to fail, breaks another VIF, a wired VIF plugged again or a
\* clean one unplugged again, and calls report nothing that is not true.
THEOREM WiringImplemented ==
  ASSUME Sound, \A v \in Vifs : Sure(v)
  PROVE  Spec => ImplementsWiring
<1>1. Init => W!Init
  BY DEF Init, W!Init
<1>2. ASSUME Typed, WiringInv, WiringInv', [Next]_vars
      PROVE  [W!Next]_(W!vars)
  <2>1. CASE UNCHANGED vars
    <3>1. Unmoved
      BY <2>1, SetsUnmoved DEF vars, netVars, ovsdbVars, portVars
    <3> QED
      BY <2>1, <3>1 DEF vars, W!vars, Unmoved
  <2>2. ASSUME NEW v \in Vifs,
               PlugStep(v) \/ UnplugStep(v) \/ StepRaises(v)
        PROVE  W!Next
    BY <1>2, <2>2, StepRefines DEF W!Next
  <2>3. ASSUME NEW v \in Vifs,
               \/ BeginPlug(v) \/ BeginUnplug(v) \/ AgentWires(v)
               \/ LibvirtPlugs(v) \/ LibvirtUnplugs(v)
        PROVE  W!Next \/ UNCHANGED W!vars
    BY <1>2, <2>3, AroundRefines DEF W!Next
  <2>4. CASE Crash \/ Reboot
    BY <1>2, <2>4, DeathRefines DEF W!Next
  <2> QED
    BY <1>2, <2>1, <2>2, <2>3, <2>4 DEF Next
<1> QED
  BY <1>1, <1>2, TypedInvariant, WiringInvariant, PTL
     DEF Spec, ImplementsWiring, W!Spec
=============================================================================
