-------------------------- MODULE OvsReplugProofs --------------------------
(***************************************************************************)
(* What OvsPlugin does to a VIF that carries traffic: plug() called again  *)
(* changes nothing of it, and the VLAN Neutron gave its port stays.  Both  *)
(* hold of VIFs of every class, and of every failure but an OVSDB command  *)
(* that fails unnoticed, for a call that no look at a link has misled and  *)
(* under which the VM has not stopped or started.                          *)
(***************************************************************************)
EXTENDS OvsPluginProofs

USE PluginAssumption

-----------------------------------------------------------------------------
(* The classes of VIFs that come to each step of plug()                    *)

HybridPlugPcs == {"ensure_bridge", "exists_veth", "create_veth_pair",
                  "add_bridge_port"}
PatchPlugPcs  == {"ensure_port_bridge", "isolate_patch",
                  "create_patch_port_pair"}
PortPlugPcs   == {"isolate_vif", "create_tap"} \cup CreatePcs

PlugPlace(v) ==
  /\ op[v] = "plug" => pc[v] \in PlugPcs
  /\ pc[v] \in HybridPlugPcs => Kind[v] = "bridge"
  /\ pc[v] = "ensure_int_bridge" => Kind[v] # "vhostuser"
  /\ pc[v] \in PatchPlugPcs => UsesPortBridge(v, Kind[v])
  /\ pc[v] = "set_representor_up" => Kind[v] = "hostdev"
  /\ pc[v] = "create_tap" => v \in CreateTap
  /\ pc[v] \in PortPlugPcs /\ Kind[v] = "ovs" =>
       v \in PerPortBridge \cup CreatePort

-----------------------------------------------------------------------------
(* What plug() decides to do to a port or link it has not found stays      *)
(* right until it is done: nobody else makes that port or link, but for    *)
(* libvirt, whose doing so is part of the history misled.                  *)

RowPcs == {"delete_qos", "create_qos", "get_qos"}

Decision(v) ==
  v \notin misled =>
    /\ pc[v] \in CreatePcs /\ v \in isolating =>
         portBr[MainPort(v)] # PlugBridge(v)
    /\ pc[v] \in RowPcs => v \in qosing
    /\ pc[v] \in RowPcs \cup {"create_ovs_vif_port"} /\ v \in qosing =>
         portBr[MainPort(v)] # PlugBridge(v)
    /\ pc[v] = "create_patch_port_pair" /\ v \in isolating =>
         portBr[<<"ibp", v>>] # Bridge[v]
    /\ pc[v] = "create_veth_pair" => <<"qvo", v>> \notin devs

\* The tag of a port goes with the port.
NoStaleTag == \A p \in Ports : portBr[p] = NoBridge => tag[p] = "none"

ReplugInv ==
  /\ NoStaleTag
  /\ \A v \in Vifs : PlugPlace(v) /\ Decision(v)

-----------------------------------------------------------------------------
(* What a step for one VIF leaves to the others                            *)

\* Nothing w has decided on has changed under it.
Undisturbed(w) ==
  /\ pc'[w] = pc[w] /\ op'[w] = op[w]
  /\ w \in isolating' <=> w \in isolating
  /\ w \in qosing' <=> w \in qosing
  /\ \A p \in PortsOf(w) : portBr'[p] \in {portBr[p], NoBridge}
  /\ <<"qvo", w>> \in devs' => <<"qvo", w>> \in devs
  /\ w \in misled => w \in misled'

OwnCall(v) ==
  \A w \in Vifs \ {v} : /\ pc'[w] = pc[w] /\ op'[w] = op[w]
                        /\ w \in isolating' <=> w \in isolating
                        /\ w \in qosing' <=> w \in qosing

OwnStores(v) ==
  /\ \A p \in Ports \ PortsOf(v) : portBr'[p] \in {portBr[p], NoBridge}
  /\ devs' \subseteq devs \cup LinksOf(v)
  /\ misled \ {v} \subseteq misled'

LEMMA PlaceNames ==
  ASSUME NEW v \in Vifs
  PROVE  /\ MainPort(v) \in PortsOf(v) /\ MainPort(v) \in Ports
         /\ <<"ibp", v>> \in PortsOf(v) /\ <<"ibp", v>> \in Ports
         /\ <<"pbp", v>> \in PortsOf(v) /\ <<"pbp", v>> \in Ports
         /\ PlugBridge(v) # NoBridge /\ Bridge[v] # NoBridge
         /\ PortBridge(v) # NoBridge
<1>1. <<"ibp", v>> \in PortsOf(v) /\ <<"pbp", v>> \in PortsOf(v)
  BY DEF PortsOf, PortKinds
<1> QED
  BY <1>1, Places, NetAssumption

LEMMA UndisturbedKept ==
  ASSUME NEW w \in Vifs, PlugPlace(w), Decision(w), Undisturbed(w)
  PROVE  PlugPlace(w)' /\ Decision(w)'
<1>1. PlugPlace(w)'
  BY DEF Undisturbed, PlugPlace, UsesPortBridge
<1>2. Decision(w)'
  BY PlaceNames DEF Undisturbed, Decision, MainPort, PlugBridge
<1> QED
  BY <1>1, <1>2

LEMMA OthersUndisturbed ==
  ASSUME NEW v \in Vifs, OwnCall(v), OwnStores(v), NEW w \in Vifs \ {v}
  PROVE  Undisturbed(w)
<1>1. \A p \in PortsOf(w) : p \in Ports \ PortsOf(v)
  BY OwnPorts, Places
<1>2. <<"qvo", w>> \notin LinksOf(v)
  BY DEF LinksOf
<1> QED
  BY <1>1, <1>2 DEF OwnCall, OwnStores, Undisturbed

LEMMA CallAlone ==
  ASSUME TypeOK, NEW v \in Vifs,
         \/ Succeed(v) \/ Fail(v)
         \/ \E l : /\ Goto(v, l)
                   /\ isolating' \in {isolating, isolating \cup {v},
                                      isolating \ {v}}
                   /\ qosing' \in {qosing, qosing \cup {v}, qosing \ {v}}
         \/ \E l : Proceed(v, l)
  PROVE  OwnCall(v)
<1>1. /\ pc \in [Vifs -> Labels]
      /\ op \in [Vifs -> {"none", "plug", "unplug"}]
  BY DEF TypeOK, CallTypeOK
<1>2. CASE Succeed(v) \/ Fail(v)
  BY <1>1, <1>2 DEF OwnCall, Succeed, Fail, Return
<1>3. ASSUME NEW l, Goto(v, l),
             isolating' \in {isolating, isolating \cup {v}, isolating \ {v}},
             qosing' \in {qosing, qosing \cup {v}, qosing \ {v}}
      PROVE  OwnCall(v)
  BY <1>1, <1>3 DEF OwnCall, Goto
<1>4. ASSUME NEW l, Proceed(v, l)
      PROVE  OwnCall(v)
  BY <1>1, <1>4 DEF OwnCall, Proceed, Goto, localVars
<1> QED
  BY <1>2, <1>3, <1>4

LEMMA PlugCalls ==
  ASSUME TypeOK, NEW v \in Vifs, PlugStep(v)
  PROVE  OwnCall(v)
<1> USE CallAlone
<1>1. CASE Plug(v) \/ EnsureBridge(v) \/ ExistsVeth(v) \/ CreateVeth(v)
  BY <1>1 DEF Plug, EnsureBridge, ExistsVeth, CreateVeth
<1>2. CASE AddBridgePort(v) \/ UpdateVeth(v) \/ EnsureIntBridge(v)
  BY <1>2 DEF AddBridgePort, UpdateVeth, EnsureIntBridge
<1>3. CASE EnsurePortBridge(v) \/ SetRepresentorUp(v)
  BY <1>3 DEF EnsurePortBridge, SetRepresentorUp
<1>4. CASE Isolate(v) \/ IsolatePatch(v)
  BY <1>4 DEF Isolate, IsolatePatch
<1>5. CASE ExistsPort(v)
  BY <1>5 DEF ExistsPort
<1>6. CASE DeleteOldQos(v) \/ CreateNewQos(v) \/ GetQos(v)
  BY <1>6 DEF DeleteOldQos, CreateNewQos, GetQos
<1>7. CASE CreateOvsVifPort(v) \/ CreateTapDevice(v)
  BY <1>7 DEF CreateOvsVifPort, CreateTapDevice, PortDone
<1>8. CASE CreatePatchPortPair(v)
  BY <1>8 DEF CreatePatchPortPair
<1> QED
  BY <1>1, <1>2, <1>3, <1>4, <1>5, <1>6, <1>7, <1>8 DEF PlugStep

LEMMA PlugLinks ==
  ASSUME NEW v \in Vifs, PlugStep(v)
  PROVE  devs' \subseteq devs \cup LinksOf(v)
<1>1. /\ Veth(v) \subseteq LinksOf(v) /\ <<"qbr", v>> \in LinksOf(v)
      /\ <<"rep", v>> \in LinksOf(v) /\ <<"tap", v>> \in LinksOf(v)
  BY DEF Veth, LinksOf, LinkKinds
<1>2. CASE EnsureBridge(v) \/ SetRepresentorUp(v) \/ CreateTapDevice(v)
  BY <1>1, <1>2 DEF EnsureBridge, SetRepresentorUp, CreateTapDevice, AddUp,
                    AddDown, kernelVars, netVars
<1>3. CASE CreateVeth(v) \/ AddBridgePort(v)
  BY <1>1, <1>3 DEF CreateVeth, AddBridgePort, CreateVethPair,
                    CreateVethPairPartly, Enslave, kernelVars, netVars
<1>4. CASE ~(\/ EnsureBridge(v) \/ SetRepresentorUp(v) \/ CreateTapDevice(v)
             \/ CreateVeth(v) \/ AddBridgePort(v))
  <2> USE DEF Lost, netVars, kernelVars
  <2>1. CASE Plug(v) \/ ExistsVeth(v) \/ UpdateVeth(v)
    BY <2>1 DEF Plug, ExistsVeth, UpdateVeth
  <2>2. CASE EnsureIntBridge(v) \/ EnsurePortBridge(v)
    BY <2>2 DEF EnsureIntBridge, EnsurePortBridge
  <2>3. CASE Isolate(v) \/ ExistsPort(v) \/ IsolatePatch(v) \/ GetQos(v)
    BY <2>3 DEF Isolate, ExistsPort, IsolatePatch, GetQos
  <2>4. CASE DeleteOldQos(v) \/ CreateNewQos(v)
    BY <2>4 DEF DeleteOldQos, CreateNewQos
  <2>5. CASE CreateOvsVifPort(v) \/ CreatePatchPortPair(v)
    BY <2>5 DEF CreateOvsVifPort, CreatePatchPortPair
  <2> QED
    BY <1>4, <2>1, <2>2, <2>3, <2>4, <2>5 DEF PlugStep
<1> QED
  BY <1>2, <1>3, <1>4

LEMMA PlugMisled ==
  ASSUME NEW v \in Vifs, PlugStep(v)
  PROVE  misled \subseteq misled'
<1> USE DEF NoFault, Lost, Partial, Blind
<1>1. CASE Plug(v) \/ EnsureBridge(v) \/ ExistsVeth(v) \/ CreateVeth(v)
  BY <1>1 DEF Plug, EnsureBridge, ExistsVeth, CreateVeth
<1>2. CASE AddBridgePort(v) \/ UpdateVeth(v) \/ EnsureIntBridge(v)
  BY <1>2 DEF AddBridgePort, UpdateVeth, EnsureIntBridge
<1>3. CASE EnsurePortBridge(v) \/ SetRepresentorUp(v) \/ Isolate(v)
  BY <1>3 DEF EnsurePortBridge, SetRepresentorUp, Isolate
<1>4. CASE GetQos(v) \/ CreateTapDevice(v) \/ IsolatePatch(v)
  BY <1>4 DEF GetQos, CreateTapDevice, IsolatePatch
<1>5. CASE ExistsPort(v) \/ DeleteOldQos(v) \/ CreateNewQos(v)
  BY <1>5 DEF ExistsPort, DeleteOldQos, CreateNewQos
<1>6. CASE CreateOvsVifPort(v) \/ CreatePatchPortPair(v)
  BY <1>6 DEF CreateOvsVifPort, CreatePatchPortPair
<1> QED
  BY <1>1, <1>2, <1>3, <1>4, <1>5, <1>6 DEF PlugStep

LEMMA UnplugMisled ==
  ASSUME NEW v \in Vifs, UnplugStep(v)
  PROVE  misled \subseteq misled'
<1> USE DEF NoFault, Lost, Partial, Blind, ForgetPorts
<1>1. CASE Unplug(v) \/ ExistsQbr(v) \/ DeleteLinuxBridge(v)
  BY <1>1 DEF Unplug, ExistsQbr, DeleteLinuxBridge
<1>2. CASE FindRepresentor(v) \/ DeleteTap(v) \/ DeletePortDevice(v)
  BY <1>2 DEF FindRepresentor, DeleteTap, DeletePortDevice
<1>3. CASE DeleteIntPatch(v) \/ DeletePortPatch(v) \/ DeleteOvsVifPort(v)
  BY <1>3 DEF DeleteIntPatch, DeletePortPatch, DeletePatch, DeleteOvsVifPort
<1>4. CASE CleanQos(v) \/ SetRepresentorDown(v)
  BY <1>4 DEF CleanQos, SetRepresentorDown
<1>5. CASE DeletePortBridge(v) \/ DeleteTrunk(v)
  BY <1>5 DEF DeletePortBridge, DeleteTrunk
<1> QED
  BY <1>1, <1>2, <1>3, <1>4, <1>5 DEF UnplugStep

-----------------------------------------------------------------------------
(* A step of plug() makes ports of its own VIF only, gives the dead VLAN   *)
(* to none that has a tag, and comes to its decisions by what it sees.     *)

PortsAlone(v) ==
  \A p \in Ports \ PortsOf(v) : portBr'[p] \in {portBr[p], NoBridge}

TagsStay ==
  \A v \in Vifs \ misled : \A p \in PortsOf(v) :
    tag[p] = "local" => tag'[p] # "dead"

LEMMA SamePorts ==
  ASSUME NoStaleTag, portBr' = portBr, tag' = tag, NEW v \in Vifs
  PROVE  PortsAlone(v) /\ NoStaleTag' /\ TagsStay
BY Places DEF NoStaleTag, PortsAlone, TagsStay

LEMMA PlugPorts ==
  ASSUME Typed, ReplugInv, NEW v \in Vifs, PlugStep(v)
  PROVE  PortsAlone(v) /\ NoStaleTag' /\ TagsStay
<1>0. /\ NoStaleTag /\ Decision(v)
      /\ portBr \in [Ports -> AllBridges \cup {NoBridge}]
      /\ tag \in [Ports -> {"none", "dead", "local"}]
  BY DEF ReplugInv, Typed, TypeOK, NetTypeOK
<1>1. CASE portBr' = portBr /\ tag' = tag
  BY <1>0, <1>1, SamePorts
<1>2. CASE CreateOvsVifPort(v) /\ ~(portBr' = portBr /\ tag' = tag)
  <2>1. port[v] = MainPort(v) /\ pc[v] = "create_ovs_vif_port"
    BY <1>2 DEF CreateOvsVifPort, At, Typed, PortChosen, PlugWork, PlugPcs
  <2>2. /\ CanAddPort(MainPort(v), PlugBridge(v))
        /\ \E i, q : PutPort(MainPort(v), PlugBridge(v), v \in isolating, i, q)
    BY <1>2, <2>1 DEF CreateOvsVifPort, PortTransaction, Lost, netVars,
                      ovsdbVars, portVars
  <2>3. v \in isolating \ misled => portBr[MainPort(v)] = NoBridge
    BY <1>0, <2>1, <2>2 DEF Decision, CreatePcs, CanAddPort
  <2>4. v \in isolating \ misled => tag[MainPort(v)] = "none"
    BY <1>0, <2>3, PlaceNames DEF NoStaleTag
  <2>5. /\ portBr' = [portBr EXCEPT ![MainPort(v)] = PlugBridge(v)]
        /\ \A p \in Ports : tag'[p] # tag[p] =>
             p = MainPort(v) /\ v \in isolating
    BY <1>0, <2>2 DEF PutPort
  <2>6. PortsAlone(v) /\ NoStaleTag'
    BY <1>0, <2>5, PlaceNames DEF NoStaleTag, PortsAlone
  <2>7. ASSUME NEW w \in Vifs \ misled, NEW p \in PortsOf(w), tag[p] = "local"
        PROVE  tag'[p] # "dead"
    <3>1. p \in Ports /\ (p = MainPort(v) => w = v)
      BY PlaceNames, OwnPorts, Places
    <3> QED
      BY <2>4, <2>5, <2>7, <3>1
  <2> QED
    BY <2>6, <2>7 DEF TagsStay
<1>3. CASE CreatePatchPortPair(v) /\ ~(portBr' = portBr /\ tag' = tag)
  <2>1. /\ pc[v] = "create_patch_port_pair"
        /\ CanAddPort(<<"ibp", v>>, Bridge[v])
        /\ PutPatchPair(v, Bridge[v], v \in isolating)
    BY <1>3 DEF CreatePatchPortPair, PatchTransaction, At, Lost, netVars,
                ovsdbVars, portVars
  <2>2. v \in isolating \ misled => portBr[<<"ibp", v>>] = NoBridge
    BY <1>0, <2>1 DEF Decision, CanAddPort
  <2>3. v \in isolating \ misled => tag[<<"ibp", v>>] = "none"
    BY <1>0, <2>2, PlaceNames DEF NoStaleTag
  <2>4. /\ portBr' = [portBr EXCEPT ![<<"ibp", v>>] = Bridge[v],
                                    ![<<"pbp", v>>] = PortBridge(v)]
        /\ \A p \in Ports : tag'[p] # tag[p] =>
             p = <<"ibp", v>> /\ v \in isolating
    BY <1>0, <2>1 DEF PutPatchPair
  <2>5. \A p \in Ports : portBr'[p] \in {portBr[p], Bridge[v], PortBridge(v)}
    BY <1>0, <2>4, PlaceNames
  <2>6. \A p \in Ports \ PortsOf(v) : portBr'[p] = portBr[p]
    BY <1>0, <2>4, PlaceNames
  <2>7. PortsAlone(v)
    BY <2>6 DEF PortsAlone
  <2>8. TagsStay
    <3> SUFFICES ASSUME NEW w \in Vifs \ misled, NEW p \in PortsOf(w),
                        tag[p] = "local"
                 PROVE  tag'[p] # "dead"
      BY DEF TagsStay
    <3>1. p \in Ports
      BY Places
    <3>4. p \in PortsOf(v) => w = v
      BY OwnPorts
    <3>5. p = <<"ibp", v>> => w = v
      BY <3>4, PlaceNames
    <3>2. tag'[p] = tag[p] \/ (p = <<"ibp", v>> /\ v \in isolating)
      BY <2>4, <3>1
    <3>3. p = <<"ibp", v>> => v \notin isolating
      BY <2>3, <3>5
    <3> QED
      BY <3>2, <3>3
  <2>9. portBr'[<<"ibp", v>>] # NoBridge
    BY <1>0, <2>4, PlaceNames
  <2>10. ASSUME NEW p \in Ports, portBr'[p] = NoBridge
         PROVE  tag'[p] = "none"
    <3>1. portBr[p] = NoBridge /\ p # <<"ibp", v>>
      BY <2>5, <2>9, <2>10, PlaceNames
    <3> QED
      BY <1>0, <2>4, <3>1 DEF NoStaleTag
  <2>11. NoStaleTag'
    BY <2>10 DEF NoStaleTag
  <2> QED
    BY <2>7, <2>8, <2>11
<1>4. CASE QuietPlugStep(v)
  BY <1>1, <1>4, QuietPlugNet DEF portVars
<1>5. CASE ExistsPort(v) \/ DeleteOldQos(v) \/ CreateNewQos(v)
  BY <1>1, <1>5 DEF ExistsPort, DeleteOldQos, CreateNewQos, Lost, netVars,
                    ovsdbVars, portVars
<1> QED
  BY <1>1, <1>2, <1>3, <1>4, <1>5 DEF PlugStep, QuietPlugStep

\* How far a step of plug() gets, as far as its place and its decisions go.
LEMMA AtRest ==
  ASSUME NEW v \in Vifs, pc'[v] = "idle", op'[v] = "none"
  PROVE  PlugPlace(v)' /\ Decision(v)'
BY DEF PlugPlace, Decision, PlugPcs, HybridPlugPcs, PatchPlugPcs,
       PortPlugPcs, CreatePcs, RowPcs

LEMMA Returned ==
  ASSUME TypeOK, NEW v \in Vifs, Succeed(v) \/ Fail(v)
  PROVE  pc'[v] = "idle" /\ op'[v] = "none"
BY DEF TypeOK, CallTypeOK, Succeed, Fail, Return

LEMMA Went ==
  ASSUME TypeOK, NEW v \in Vifs, NEW l, Goto(v, l)
  PROVE  pc'[v] = l /\ op'[v] = op[v]
BY DEF TypeOK, CallTypeOK, Goto

LEMMA Proceeded ==
  ASSUME TypeOK, NEW v \in Vifs, NEW l, Proceed(v, l)
  PROVE  /\ pc'[v] = l /\ op'[v] = op[v]
         /\ v \in isolating' <=> v \in isolating
         /\ v \in qosing' <=> v \in qosing
BY Went DEF Proceed, localVars

LEMMA PlugDecides ==
  ASSUME Typed, ReplugInv, NEW v \in Vifs, PlugStep(v),
         "lost" \notin FaultKinds
  PROVE  PlugPlace(v)' /\ Decision(v)'
<1>0. TypeOK /\ PlugPlace(v) /\ Decision(v) /\ Kind[v] \in Kinds
  BY DEF Typed, ReplugInv
<1>a. ~Lost
  BY DEF Lost, Fault
<1>b. pc[v] \in PlugWork => port[v] = MainPort(v)
  BY DEF Typed, PortChosen
<1>d. v \notin misled' => v \notin misled /\ ~Blind(v)
  BY PlugMisled DEF Blind
<1>c. CASE Succeed(v) \/ Fail(v)
  BY <1>0, <1>c, AtRest, Returned
<1> USE DEF PlugPlace, Decision, At, PlugPcs, HybridPlugPcs, PatchPlugPcs,
            PortPlugPcs, CreatePcs, RowPcs, Kinds, UsesPortBridge,
            MainPort, PlugBridge
<1>1. CASE Plug(v) \/ EnsureBridge(v)
  BY <1>0, <1>d, <1>1, <1>c, Went, Proceeded DEF Plug, EnsureBridge
<1>2. CASE ExistsVeth(v)
  BY <1>0, <1>d, <1>2, <1>c, Proceeded
     DEF ExistsVeth, netVars, kernelVars
<1>3. CASE CreateVeth(v) \/ AddBridgePort(v) \/ UpdateVeth(v)
  BY <1>0, <1>d, <1>3, <1>c, Proceeded
     DEF CreateVeth, AddBridgePort, UpdateVeth
<1>4. CASE EnsureIntBridge(v)
  BY <1>0, <1>d, <1>4, <1>c, Proceeded DEF EnsureIntBridge
<1>5. CASE EnsurePortBridge(v) \/ SetRepresentorUp(v)
  BY <1>0, <1>d, <1>5, <1>c, Proceeded DEF EnsurePortBridge, SetRepresentorUp
<1>6. CASE Isolate(v)
  <2>1. /\ pc'[v] = "exists_port" /\ op'[v] = op[v] /\ pc[v] = "isolate_vif"
        /\ UNCHANGED netVars
        /\ v \in isolating' => portBr[port[v]] # PlugBridge(v)
    BY <1>0, <1>d, <1>a, <1>6, Went DEF Isolate, PortExists
  <2> QED
    BY <1>0, <1>d, <1>b, <2>1 DEF PlugWork, netVars, ovsdbVars, portVars
<1>7. CASE ExistsPort(v)
  <2>1. /\ op'[v] = op[v] /\ pc[v] = "exists_port"
        /\ pc'[v] = IF v \in qosing' THEN "delete_qos"
                                    ELSE "create_ovs_vif_port"
        /\ UNCHANGED netVars
        /\ v \in isolating' <=> v \in isolating
        /\ v \in qosing' => portBr[port[v]] # PlugBridge(v)
    BY <1>0, <1>d, <1>a, <1>7, Went DEF ExistsPort, PortExists
  <2> QED
    BY <1>0, <1>d, <1>b, <2>1 DEF PlugWork, netVars, ovsdbVars, portVars
<1>8. CASE DeleteOldQos(v) \/ CreateNewQos(v) \/ GetQos(v)
  BY <1>0, <1>d, <1>8, <1>c, Proceeded
     DEF DeleteOldQos, CreateNewQos, GetQos, Lost, netVars, ovsdbVars,
         portVars
<1>9. CASE CreateOvsVifPort(v) \/ CreateTapDevice(v)
  BY <1>0, <1>d, <1>9, <1>c, Proceeded
     DEF CreateOvsVifPort, CreateTapDevice, PortDone
<1>10. CASE IsolatePatch(v)
  <2>1. /\ pc'[v] = "create_patch_port_pair" /\ op'[v] = op[v]
        /\ pc[v] = "isolate_patch"
        /\ UNCHANGED netVars
        /\ v \in isolating' => portBr[<<"ibp", v>>] # Bridge[v]
    BY <1>0, <1>d, <1>a, <1>10, Went DEF IsolatePatch, PortExists
  <2> QED
    BY <1>0, <1>d, <2>1 DEF netVars, ovsdbVars, portVars
<1>11. CASE CreatePatchPortPair(v)
  BY <1>c, <1>11 DEF CreatePatchPortPair
<1> QED
  BY <1>1, <1>2, <1>3, <1>4, <1>5, <1>6, <1>7, <1>8, <1>9, <1>10, <1>11
     DEF PlugStep
-----------------------------------------------------------------------------
(* A step of plug() writes to a VIF that is wired what is there already.   *)

LEMMA WiredPort ==
  ASSUME NEW v \in Vifs, PlugPlace(v), Wired(v), pc[v] \in PortPlugPcs
  PROVE  PortInPlace(v)
BY DEF Wired, PlugPlace, Kinds, UsesPortBridge

LEMMA WiredBridge ==
  ASSUME NEW v \in Vifs, Wired(v), Kind[v] # "vhostuser"
  PROVE  brType[Bridge[v]] = DatapathOf(v)
BY DEF Wired, PortInPlace, PatchInPlace, PlugBridge, WantedDatapath, Kinds,
       UsesPortBridge

LEMMA WiredPatch ==
  ASSUME NEW v \in Vifs, Wired(v), UsesPortBridge(v, Kind[v])
  PROVE  PatchInPlace(v) /\ TapInPlace(v)
         /\ brType[PortBridge(v)] = DatapathOf(v)
BY DEF Wired, PortInPlace, PlugBridge, WantedDatapath, UsesPortBridge

LEMMA Rewritten ==
  ASSUME TypeOK, NEW b \in AllBridges, NEW t, brType[b] = t, AddBr(b, t)
  PROVE  brType' = brType
BY DEF TypeOK, NetTypeOK, AddBr

LEMMA LinksRewritten ==
  ASSUME TypeOK, NEW v \in Vifs,
         \/ \E d \in devs \cap up : AddUp(d)
         \/ <<"qvb", v>> \in enslaved /\ Enslave(v)
  PROVE  UNCHANGED kernelVars
BY DEF TypeOK, NetTypeOK, AddUp, Enslave, kernelVars

\* The links of a hybrid VIF that is wired.
LEMMA WiredLinks ==
  ASSUME NEW v \in Vifs, Wired(v), Kind[v] = "bridge"
  PROVE  /\ <<"qbr", v>> \in devs \cap up /\ <<"qvo", v>> \in devs
         /\ <<"qvb", v>> \in enslaved
<1>1. LinksUp(Veth(v) \cup {<<"qbr", v>>}) /\ <<"qvb", v>> \in enslaved
  BY DEF Wired, UsesPortBridge
<1> QED
  BY <1>1 DEF LinksUp, Veth

LEMMA QuietLinks ==
  ASSUME Typed, ReplugInv, NEW v \in Vifs \ misled, Wired(v),
         \/ EnsureBridge(v) \/ ExistsVeth(v) \/ CreateVeth(v)
         \/ AddBridgePort(v) \/ UpdateVeth(v) \/ SetRepresentorUp(v)
         \/ CreateTapDevice(v)
  PROVE  UNCHANGED netVars
<1>0. PlugPlace(v) /\ Decision(v) /\ TypeOK
  BY DEF ReplugInv, Typed
<1>1. CASE pc[v] \in HybridPlugPcs
  <2>1. /\ <<"qbr", v>> \in devs \cap up /\ <<"qvo", v>> \in devs
        /\ <<"qvb", v>> \in enslaved
    BY <1>0, <1>1, WiredLinks DEF PlugPlace
  <2>2. CASE EnsureBridge(v)
    BY <1>0, <2>1, <2>2, LinksRewritten DEF EnsureBridge, netVars
  <2>3. ~CreateVeth(v)
    BY <1>0, <2>1 DEF CreateVeth, At, Decision
  <2>4. CASE AddBridgePort(v)
    BY <1>0, <2>1, <2>4, LinksRewritten DEF AddBridgePort, netVars
  <2>5. CASE ExistsVeth(v)
    BY <2>5 DEF ExistsVeth
  <2> QED
    BY <1>1, <2>2, <2>3, <2>4, <2>5
       DEF HybridPlugPcs, UpdateVeth, SetRepresentorUp, CreateTapDevice, At
<1>2. CASE UpdateVeth(v)
  BY <1>2 DEF UpdateVeth
<1>3. CASE SetRepresentorUp(v)
  <2>1. DatapathOf(v) = "system" => <<"rep", v>> \in devs \cap up
    BY <1>0, <1>3 DEF SetRepresentorUp, At, PlugPlace, Wired, LinksUp,
                      UsesPortBridge
  <2>2. UNCHANGED kernelVars
    BY <1>0, <1>3, <2>1, LinksRewritten DEF SetRepresentorUp
  <2> QED
    BY <1>3, <2>2 DEF SetRepresentorUp, netVars
<1>4. CASE CreateTapDevice(v)
  <2>1. Kind[v] = "ovs" => <<"tap", v>> \in devs \cap up
    BY <1>0, <1>4 DEF CreateTapDevice, At, PlugPlace, PortPlugPcs, Wired,
                      TapInPlace, LinksUp, UsesPortBridge
  <2>2. Kind[v] = "ovs" /\ AddUp(<<"tap", v>>) => UNCHANGED kernelVars
    BY <1>0, <2>1, LinksRewritten
  <2> QED
    BY <1>4, <2>1, <2>2 DEF CreateTapDevice, netVars
<1> QED
  BY <1>1, <1>2, <1>3, <1>4
     DEF EnsureBridge, ExistsVeth, CreateVeth, AddBridgePort, At,
         HybridPlugPcs

LEMMA QuietBridges ==
  ASSUME Typed, ReplugInv, NEW v \in Vifs, Wired(v),
         EnsureIntBridge(v) \/ EnsurePortBridge(v)
  PROVE  UNCHANGED netVars
<1>0. PlugPlace(v) /\ TypeOK
  BY DEF ReplugInv, Typed
<1>1. CASE EnsureIntBridge(v)
  <2>1. brType[Bridge[v]] = DatapathOf(v)
    BY <1>0, <1>1, WiredBridge DEF EnsureIntBridge, At, PlugPlace
  <2> QED
    BY <1>0, <1>1, <2>1, Places, Rewritten
       DEF EnsureIntBridge, Lost, netVars, ovsdbVars
<1>2. CASE EnsurePortBridge(v)
  <2>1. brType[PortBridge(v)] = DatapathOf(v)
    BY <1>0, <1>2, WiredPatch
       DEF EnsurePortBridge, At, PlugPlace, PatchPlugPcs
  <2> QED
    BY <1>0, <1>2, <2>1, Places, Rewritten
       DEF EnsurePortBridge, Lost, netVars, ovsdbVars
<1> QED
  BY <1>1, <1>2

LEMMA QuietTransaction ==
  ASSUME Typed, ReplugInv, NEW v \in Vifs \ misled, Wired(v),
         pc[v] = "create_ovs_vif_port", PortTransaction(v)
  PROVE  UNCHANGED <<brType, portVars>>
<1>0. TypeOK /\ PlugPlace(v) /\ Decision(v) /\ port[v] = MainPort(v)
  BY DEF Typed, ReplugInv, PortChosen, PlugWork, PlugPcs
<1>1. PortInPlace(v)
  BY <1>0, WiredPort DEF PortPlugPcs, CreatePcs
<1>2. v \notin isolating /\ v \notin qosing
  BY <1>0, <1>1 DEF Decision, CreatePcs, PortInPlace
<1>3. CASE ~UNCHANGED <<brType, portVars>>
  <2>1. /\ IF Kind[v] = "vhostuser"
           THEN AddBr(PlugBridge(v), VhostDatapath(v))
           ELSE UNCHANGED brType
        /\ PutPort(MainPort(v), PlugBridge(v), v \in isolating,
                   ~UsesPortBridge(v, Kind[v]), v \in qosing)
    BY <1>0, <1>3 DEF PortTransaction
  <2>2. brType' = brType
    BY <1>0, <1>1, <2>1, Places, Rewritten DEF PortInPlace, WantedDatapath
  <2>3. UNCHANGED portVars
    <3>1. portBr[MainPort(v)] = PlugBridge(v)
          /\ (~UsesPortBridge(v, Kind[v]) => MainPort(v) \in ids)
      BY <1>1 DEF PortInPlace
    <3> QED
      BY <1>0, <1>2, <2>1, <3>1, PlaceNames
         DEF PutPort, TypeOK, NetTypeOK, portVars
  <2> QED
    BY <2>2, <2>3
<1> QED
  BY <1>3

LEMMA QuietPatch ==
  ASSUME Typed, ReplugInv, NEW v \in Vifs \ misled, Wired(v),
         pc[v] = "create_patch_port_pair", PatchTransaction(v)
  PROVE  UNCHANGED ovsdbVars
<1>0. TypeOK /\ PlugPlace(v) /\ Decision(v)
  BY DEF Typed, ReplugInv
<1>1. PatchInPlace(v)
  BY <1>0, WiredPatch DEF PlugPlace, PatchPlugPcs
<1>2. v \notin isolating
  BY <1>0, <1>1 DEF Decision, PatchInPlace
<1>3. /\ portBr \in [Ports -> AllBridges \cup {NoBridge}]
      /\ tag \in [Ports -> {"none", "dead", "local"}]
  BY <1>0 DEF TypeOK, NetTypeOK
<1>4. CASE PutPatchPair(v, Bridge[v], v \in isolating)
  BY <1>1, <1>2, <1>3, <1>4, PlaceNames
     DEF PutPatchPair, PatchInPlace, ovsdbVars, portVars
<1> QED
  BY <1>4 DEF PatchTransaction

LEMMA PlugQuiet ==
  ASSUME Typed, ReplugInv, NEW v \in Vifs \ misled, PlugStep(v), Wired(v)
  PROVE  UNCHANGED netVars
<1>0. PlugPlace(v) /\ Decision(v)
  BY DEF ReplugInv
<1>1. CASE \/ EnsureBridge(v) \/ ExistsVeth(v) \/ CreateVeth(v)
           \/ AddBridgePort(v) \/ UpdateVeth(v) \/ SetRepresentorUp(v)
           \/ CreateTapDevice(v)
  BY <1>1, QuietLinks
<1>2. CASE EnsureIntBridge(v) \/ EnsurePortBridge(v)
  BY <1>2, QuietBridges
<1>3. CASE Plug(v) \/ Isolate(v) \/ ExistsPort(v) \/ IsolatePatch(v)
  BY <1>3 DEF Plug, Isolate, ExistsPort, IsolatePatch, Lost
<1>4. ~(DeleteOldQos(v) \/ CreateNewQos(v) \/ GetQos(v))
  <2>1. pc[v] \in RowPcs => PortInPlace(v)
    BY <1>0, WiredPort DEF RowPcs, PortPlugPcs, CreatePcs
  <2>2. pc[v] \notin RowPcs
    BY <1>0, <2>1 DEF Decision, PortInPlace, RowPcs
  <2> QED
    BY <2>2 DEF DeleteOldQos, CreateNewQos, GetQos, At, RowPcs
<1>5. CASE CreateOvsVifPort(v)
  <2>1. CASE Lost
    BY <2>1 DEF Lost
  <2>2. CASE ~Lost
    BY <1>5, <2>2, QuietTransaction
       DEF CreateOvsVifPort, At, netVars, ovsdbVars
  <2> QED
    BY <2>1, <2>2
<1>6. CASE CreatePatchPortPair(v)
  <2>1. CASE Lost
    BY <2>1 DEF Lost
  <2>2. CASE ~Lost
    BY <1>6, <2>2, QuietPatch DEF CreatePatchPortPair, At, netVars
  <2> QED
    BY <2>1, <2>2
<1> QED
  BY <1>1, <1>2, <1>3, <1>4, <1>5, <1>6 DEF PlugStep
-----------------------------------------------------------------------------
(* The other steps make no port and no link of another VIF, and take no    *)
(* decision.                                                               *)

LEMMA ReplugFrame ==
  ASSUME ReplugInv, NEW v \in Vifs, OwnCall(v), OwnStores(v), NoStaleTag',
         PlugPlace(v)' /\ Decision(v)'
  PROVE  ReplugInv'
<1>1. ASSUME NEW w \in Vifs \ {v}
      PROVE  PlugPlace(w)' /\ Decision(w)'
  BY OthersUndisturbed, UndisturbedKept DEF ReplugInv
<1> QED
  BY <1>1 DEF ReplugInv

LEMMA PlugKeepsReplug ==
  ASSUME Typed, ReplugInv, NEW v \in Vifs, PlugStep(v),
         "lost" \notin FaultKinds
  PROVE  ReplugInv' /\ TagsStay
<1>1. OwnCall(v) /\ OwnStores(v) /\ NoStaleTag' /\ TagsStay
  BY PlugCalls, PlugLinks, PlugMisled, PlugPorts
     DEF Typed, OwnStores, PortsAlone
<1> QED
  BY <1>1, PlugDecides, ReplugFrame

LEMMA RemovalTags ==
  ASSUME Typed, NoStaleTag,
         UNCHANGED portVars \/ \E S : RemovePorts(S)
  PROVE  /\ NoStaleTag' /\ TagsStay
         /\ \A p \in Ports : portBr'[p] \in {portBr[p], NoBridge}
BY Places
   DEF Typed, TypeOK, NetTypeOK, NoStaleTag, TagsStay, RemovePorts, portVars

LEMMA UnplugCalls ==
  ASSUME TypeOK, NEW v \in Vifs, UnplugStep(v)
  PROVE  /\ OwnCall(v)
         /\ pc[v] \in UnplugPcs /\ pc'[v] \in UnplugPcs \cup {"idle"}
         /\ op'[v] \in {op[v], "none"}
<1> USE DEF At, UnplugPcs
<1>1. CASE Unplug(v)
  BY <1>1, CallAlone, Returned, Went DEF Unplug
<1>2. CASE ExistsQbr(v) \/ DeleteLinuxBridge(v)
  BY <1>2, CallAlone, Returned, Went, Proceeded
     DEF ExistsQbr, DeleteLinuxBridge
<1>3. CASE FindRepresentor(v) \/ DeleteTap(v)
  BY <1>3, CallAlone, Proceeded DEF FindRepresentor, DeleteTap
<1>4. CASE DeleteIntPatch(v) \/ DeletePortPatch(v) \/ DeletePortDevice(v)
  BY <1>4, CallAlone, Returned, Proceeded
     DEF DeleteIntPatch, DeletePortPatch, DeletePatch, DeletePortDevice
<1>5. CASE DeleteOvsVifPort(v) \/ CleanQos(v)
  BY <1>5, CallAlone, Proceeded DEF DeleteOvsVifPort, CleanQos, AfterQos
<1>6. CASE DeletePortBridge(v) \/ SetRepresentorDown(v) \/ DeleteTrunk(v)
  BY <1>6, CallAlone, Returned, Proceeded
     DEF DeletePortBridge, SetRepresentorDown, DeleteTrunk
<1> QED
  BY <1>1, <1>2, <1>3, <1>4, <1>5, <1>6 DEF UnplugStep

LEMMA UnplugLinks ==
  ASSUME NEW v \in Vifs, UnplugStep(v)
  PROVE  devs' \subseteq devs
<1> USE DEF Lost, netVars, kernelVars
<1>1. CASE Unplug(v) \/ ExistsQbr(v) \/ FindRepresentor(v)
  BY <1>1 DEF Unplug, ExistsQbr, FindRepresentor
<1>2. CASE DeleteLinuxBridge(v)
  BY <1>2 DEF DeleteLinuxBridge, DeleteBridge, DeleteBridgePartly
<1>3. CASE DeleteTap(v) \/ DeletePortDevice(v) \/ SetRepresentorDown(v)
  BY <1>3 DEF DeleteTap, DeletePortDevice, DeleteNetDev, SetRepresentorDown,
              SetDown
<1>4. CASE DeleteIntPatch(v) \/ DeletePortPatch(v) \/ DeleteOvsVifPort(v)
  BY <1>4 DEF DeleteIntPatch, DeletePortPatch, DeletePatch,
              DeleteOvsVifPort
<1>5. CASE CleanQos(v) \/ DeletePortBridge(v) \/ DeleteTrunk(v)
  BY <1>5 DEF CleanQos, DeletePortBridge, DeleteTrunk
<1> QED
  BY <1>1, <1>2, <1>3, <1>4, <1>5 DEF UnplugStep

LEMMA Away ==
  ASSUME NEW v \in Vifs, pc'[v] \in UnplugPcs \cup {"idle"}, op'[v] # "plug"
  PROVE  PlugPlace(v)' /\ Decision(v)'
BY DEF PlugPlace, Decision, UnplugPcs, HybridPlugPcs, PatchPlugPcs,
       PortPlugPcs, CreatePcs, RowPcs

LEMMA UnplugKeepsReplug ==
  ASSUME Typed, ReplugInv, NEW v \in Vifs, UnplugStep(v)
  PROVE  ReplugInv' /\ TagsStay
<1>1. /\ OwnCall(v) /\ pc[v] \in UnplugPcs
      /\ pc'[v] \in UnplugPcs \cup {"idle"} /\ op'[v] \in {op[v], "none"}
  BY UnplugCalls DEF Typed
<1>2. op[v] # "plug"
  BY <1>1 DEF ReplugInv, PlugPlace, PlugPcs, UnplugPcs
<1>3. UNCHANGED portVars \/ \E S : RemovePorts(S)
  BY UnplugEffect DEF DelPort, DelBr
<1>4. NoStaleTag' /\ TagsStay /\ OwnStores(v)
  BY <1>3, UnplugLinks, UnplugMisled, RemovalTags DEF ReplugInv, OwnStores
<1> QED
  BY <1>1, <1>2, <1>4, Away, ReplugFrame

LEMMA CallsKeepReplug ==
  ASSUME Typed, ReplugInv, NEW v \in Vifs,
         BeginPlug(v) \/ BeginUnplug(v) \/ StepRaises(v)
  PROVE  ReplugInv' /\ TagsStay
<1>0. /\ TypeOK /\ NoStaleTag
      /\ pc \in [Vifs -> Labels] /\ op \in [Vifs -> {"none", "plug", "unplug"}]
  BY DEF Typed, TypeOK, CallTypeOK, ReplugInv
<1>1. UNCHANGED netVars /\ misled \ {v} \subseteq misled'
  BY DEF BeginPlug, BeginUnplug, StepRaises
<1>2. NoStaleTag' /\ TagsStay /\ OwnStores(v)
  BY <1>0, <1>1, SamePorts
     DEF netVars, kernelVars, ovsdbVars, portVars, OwnStores, PortsAlone
<1>3. OwnCall(v)
  <2>1. CASE BeginPlug(v) \/ BeginUnplug(v)
    BY <1>0, <2>1 DEF BeginPlug, BeginUnplug, OwnCall, localVars
  <2>2. CASE StepRaises(v)
    BY <1>0, <2>2, CallAlone DEF StepRaises
  <2> QED
    BY <2>1, <2>2
<1>4. PlugPlace(v)' /\ Decision(v)'
  <2>1. CASE BeginPlug(v)
    BY <1>0, <2>1
       DEF BeginPlug, PlugPlace, Decision, PlugPcs, HybridPlugPcs,
           PatchPlugPcs, PortPlugPcs, CreatePcs, RowPcs
  <2>2. CASE BeginUnplug(v)
    BY <1>0, <2>2, Away DEF BeginUnplug, UnplugPcs
  <2>3. CASE StepRaises(v)
    BY <1>0, <2>3, AtRest, Returned DEF StepRaises
  <2> QED
    BY <2>1, <2>2, <2>3
<1> QED
  BY <1>2, <1>3, <1>4, ReplugFrame

LEMMA OutsideKeepsReplug ==
  ASSUME Typed, ReplugInv, NEW v \in Vifs,
         AgentWires(v) \/ LibvirtPlugs(v) \/ LibvirtUnplugs(v)
  PROVE  ReplugInv' /\ TagsStay
<1>0. /\ NoStaleTag
      /\ portBr \in [Ports -> AllBridges \cup {NoBridge}]
      /\ tag \in [Ports -> {"none", "dead", "local"}]
  BY DEF Typed, TypeOK, NetTypeOK, ReplugInv
<1>1. UNCHANGED <<pc, op, isolating, qosing>>
  BY DEF AgentWires, LibvirtPlugs, LibvirtUnplugs, localVars
<1>2. OwnCall(v)
  BY <1>1 DEF OwnCall
<1>a. misled \subseteq misled'
  BY DEF AgentWires, LibvirtPlugs, LibvirtUnplugs, Untimely, NoFault
<1>3. <<"tap", v>> \in PortsOf(v) /\ <<"tap", v>> \in Ports
      /\ <<"tap", v>> \in LinksOf(v)
  BY DEF PortsOf, Ports, PortKinds, LinksOf, LinkKinds
<1>4. CASE AgentWires(v)
  <2>1. /\ UNCHANGED <<devs, portBr>>
        /\ \E p \in PortsOf(v) : /\ portBr[p] = Bridge[v]
                                 /\ tag' = [tag EXCEPT ![p] = "local"]
    BY <1>4 DEF AgentWires, kernelVars
  <2>2. PICK p \in PortsOf(v) : /\ portBr[p] = Bridge[v]
                                /\ tag' = [tag EXCEPT ![p] = "local"]
    BY <2>1
  <2>3. ASSUME NEW q \in Ports, portBr'[q] = NoBridge
        PROVE  tag'[q] = "none"
    <3>1. Bridge[v] # NoBridge
      BY PlaceNames
    <3>2. portBr[q] = NoBridge /\ q # p
      BY <2>1, <2>2, <2>3, <3>1
    <3>3. tag[q] = "none"
      BY <1>0, <3>2 DEF NoStaleTag
    <3> QED
      BY <1>0, <2>2, <3>2, <3>3
  <2>4. NoStaleTag'
    BY <2>3 DEF NoStaleTag
  <2>5. TagsStay /\ OwnStores(v)
    BY <1>0, <1>a, <2>1, <2>2, Places DEF TagsStay, OwnStores
  <2>6. PlugPlace(v)' /\ Decision(v)'
    BY <1>1, <1>a, <2>1
       DEF ReplugInv, PlugPlace, Decision, MainPort, PlugBridge, UsesPortBridge
  <2> QED
    BY <1>2, <2>4, <2>5, <2>6, ReplugFrame
<1>5. CASE LibvirtPlugs(v)
  <2>1. NoStaleTag' /\ TagsStay /\ OwnStores(v)
    BY <1>0, <1>3, <1>5, <1>a, PlaceNames, Places
       DEF LibvirtPlugs, AddUp, NoStaleTag, TagsStay, OwnStores
  <2>2. PlugPlace(v)' /\ Decision(v)'
    <3>1. /\ Kind[v] = "ovs" /\ v \notin PerPortBridge
          /\ portBr' = [portBr EXCEPT ![<<"tap", v>>] = Bridge[v]]
          /\ devs' = devs \cup {<<"tap", v>>}
      BY <1>5 DEF LibvirtPlugs, AddUp
    <3>2. PlugPlace(v) /\ Decision(v)
      BY DEF ReplugInv
    <3>3. pc[v] \in CreatePcs => v \in misled'
      BY <1>5 DEF LibvirtPlugs, Untimely, Deciding, At, CreatePcs
    <3>4. /\ pc[v] \notin PatchPlugPcs /\ pc[v] # "create_veth_pair"
          /\ PlugPlace(v)'
      BY <1>1, <3>1, <3>2
         DEF PlugPlace, UsesPortBridge, HybridPlugPcs
    <3> QED
      BY <1>1, <3>3, <3>4 DEF Decision, PatchPlugPcs, CreatePcs, RowPcs
  <2> QED
    BY <1>2, <2>1, <2>2, ReplugFrame
<1>6. CASE LibvirtUnplugs(v)
  <2>1. NoStaleTag' /\ TagsStay /\ OwnStores(v)
    BY <1>0, <1>6, <1>a, RemovalTags
       DEF LibvirtUnplugs, DelPort, DeleteNetDev, OwnStores
  <2>2. PlugPlace(v)' /\ Decision(v)'
    <3>1. /\ devs' \subseteq devs
          /\ \A p \in Ports : portBr'[p] \in {portBr[p], NoBridge}
      BY <1>0, <1>6 DEF LibvirtUnplugs, DelPort, RemovePorts, DeleteNetDev
    <3> QED
      BY <1>1, <1>a, <3>1, PlaceNames
         DEF ReplugInv, PlugPlace, Decision, UsesPortBridge, MainPort,
             PlugBridge
  <2> QED
    BY <1>2, <2>1, <2>2, ReplugFrame
<1> QED
  BY <1>4, <1>5, <1>6

LEMMA DeathKeepsReplug ==
  ASSUME Typed, ReplugInv, Crash \/ Reboot
  PROVE  ReplugInv' /\ TagsStay
<1>1. portBr' = portBr /\ tag' = tag
  BY DEF Crash, Reboot, netVars, ovsdbVars, portVars
<1>2. NoStaleTag' /\ TagsStay
  BY <1>1, Places DEF ReplugInv, NoStaleTag, TagsStay
<1>3. \A v \in Vifs : pc'[v] = "idle" /\ op'[v] = "none"
  BY DEF Crash, Reboot, AbandonCalls
<1> QED
  BY <1>2, <1>3, AtRest DEF ReplugInv

LEMMA ReplugInitially == Init => ReplugInv
<1> SUFFICES ASSUME Init PROVE ReplugInv
  OBVIOUS
<1>1. NoStaleTag
  BY DEF Init, NetInit, NoStaleTag
<1>2. \A v \in Vifs : pc[v] = "idle" /\ op[v] = "none"
  BY DEF Init
<1> QED
  BY <1>1, <1>2 DEF ReplugInv, PlugPlace, Decision, PlugPcs, HybridPlugPcs,
                    PatchPlugPcs, PortPlugPcs, CreatePcs, RowPcs

LEMMA ReplugNext ==
  ASSUME Typed, ReplugInv, [Next]_vars, "lost" \notin FaultKinds
  PROVE  ReplugInv' /\ TagsStay
<1>1. CASE UNCHANGED vars
  <2>1. /\ UNCHANGED <<pc, op, isolating, qosing, misled>>
        /\ UNCHANGED <<devs, portBr, tag>>
    BY <1>1 DEF vars, localVars, netVars, kernelVars, ovsdbVars, portVars
  <2> QED
    BY <2>1 DEF ReplugInv, NoStaleTag, TagsStay, PlugPlace, Decision,
                MainPort, PlugBridge, UsesPortBridge
<1>2. CASE Next
  BY <1>2, PlugKeepsReplug, UnplugKeepsReplug, CallsKeepReplug,
     OutsideKeepsReplug, DeathKeepsReplug DEF Next
<1> QED
  BY <1>1, <1>2

LEMMA ReplugInvariant ==
  ASSUME "lost" \notin FaultKinds
  PROVE  Spec => []ReplugInv
<1>1. Typed /\ ReplugInv /\ [Next]_vars => ReplugInv'
  BY ReplugNext
<1> QED
  BY <1>1, ReplugInitially, TypedInvariant, PTL DEF Spec

-----------------------------------------------------------------------------
LEMMA SameWiringOf ==
  ASSUME UNCHANGED netVars, NEW v \in Vifs
  PROVE  WiringOf(v)' = WiringOf(v)
BY DEF netVars, kernelVars, ovsdbVars, portVars, WiringOf, LinksOf, PortsOf,
       PortBridge

LEMMA ReplugStep ==
  ASSUME Typed, ReplugInv, [Next]_vars, NEW v \in Vifs \ misled,
         op[v] = "plug", pc'[v] # pc[v], Wired(v), last'[v] # "interrupted"
  PROVE  WiringOf(v)' = WiringOf(v)
<1>0. pc[v] \in PlugPcs
  BY DEF ReplugInv, PlugPlace
<1>1. CASE PlugStep(v)
  BY <1>1, PlugQuiet, SameWiringOf
<1>2. ~UnplugStep(v)
  BY <1>0, UnplugCalls DEF Typed, PlugPcs, UnplugPcs
<1>3. CASE BeginPlug(v) \/ BeginUnplug(v) \/ StepRaises(v) \/ Crash
  BY <1>3, SameWiringOf DEF BeginPlug, BeginUnplug, StepRaises, Crash
<1>4. ~Reboot
  BY <1>0 DEF Reboot, AbandonCalls, Busy, PlugPcs
<1>5. ASSUME NEW w \in Vifs,
             \/ w # v /\ \/ PlugStep(w) \/ UnplugStep(w)
                         \/ BeginPlug(w) \/ BeginUnplug(w) \/ StepRaises(w)
             \/ AgentWires(w) \/ LibvirtPlugs(w) \/ LibvirtUnplugs(w)
      PROVE  FALSE
  <2>1. TypeOK
    BY DEF Typed
  <2>2. CASE w # v /\ (PlugStep(w) \/ UnplugStep(w))
    BY <2>1, <2>2, PlugCalls, UnplugCalls DEF OwnCall
  <2>3. CASE w # v /\ (BeginPlug(w) \/ BeginUnplug(w))
    BY <2>1, <2>3 DEF BeginPlug, BeginUnplug, TypeOK, CallTypeOK
  <2>4. CASE w # v /\ StepRaises(w)
    BY <2>1, <2>4, CallAlone DEF StepRaises, OwnCall
  <2>5. CASE AgentWires(w) \/ LibvirtPlugs(w) \/ LibvirtUnplugs(w)
    BY <2>5 DEF AgentWires, LibvirtPlugs, LibvirtUnplugs
  <2> QED
    BY <1>5, <2>2, <2>3, <2>4, <2>5
<1>6. pc' # pc
  OBVIOUS
<1> QED
  BY <1>1, <1>2, <1>3, <1>4, <1>5, <1>6 DEF Next, vars

\* As long as no OVSDB command fails unnoticed, plug() of a VIF that is
\* wired writes nothing that is not there already, whatever the classes of
\* the VIFs, whatever their other calls do meanwhile and whichever of its
\* steps fails ("don't break traffic", ovs.py:240-242), unless one of its own
\* looks at a link has failed (impl_pyroute2.py:153-160) or the VM has
\* stopped or started between its look at the port and the transaction.
THEOREM ReplugCorrect ==
  ASSUME "lost" \notin FaultKinds
  PROVE  Spec => ReplugIsQuiet
<1>1. Typed /\ ReplugInv /\ [Next]_vars =>
        [\A v \in Vifs \ misled :
           op[v] = "plug" /\ pc'[v] # pc[v] /\ Wired(v)
             /\ last'[v] # "interrupted"
             => WiringOf(v)' = WiringOf(v)]_vars
  BY ReplugStep
<1> QED
  BY <1>1, TypedInvariant, ReplugInvariant, PTL DEF Spec, ReplugIsQuiet

\* As long as no OVSDB command fails unnoticed, a port that carries the
\* VLAN of its network is never put on the dead one, neither by a plug() of
\* its VIF, unless the port is one libvirt made after that plug() had looked
\* for it, nor by anything done for another (ovs.py:240-242).
THEOREM TagKeptCorrect ==
  ASSUME "lost" \notin FaultKinds
  PROVE  Spec => WiredTagKept
<1>1. Typed /\ ReplugInv /\ [Next]_vars =>
        [\A v \in Vifs \ misled : \A p \in PortsOf(v) :
           tag[p] = "local" => tag'[p] # "dead"]_vars
  BY ReplugNext DEF TagsStay
<1> QED
  BY <1>1, TypedInvariant, ReplugInvariant, PTL DEF Spec, WiredTagKept
=============================================================================
