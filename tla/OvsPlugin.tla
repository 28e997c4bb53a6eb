----------------------------- MODULE OvsPlugin -----------------------------
(***************************************************************************)
(* The OVS plugin, src/vif_plug_ovs/ovs.py: plug() and unplug() of hybrid  *)
(* (VIFBridge), plain (VIFOpenVSwitch, with or without a port bridge),     *)
(* vhost-user and host-device VIFs, as sequences of the privileged calls   *)
(* and OVSDB transactions of HostNet.                                      *)
(*                                                                         *)
(* Calls for different VIFs interleave at every such call; the caller      *)
(* (Nova, under its per-instance lock) has at most one call per VIF in     *)
(* progress, so a call is identified by its VIF.  Around them run the      *)
(* Neutron agent, libvirt, whose VMs stop whenever they like, and what may *)
(* fail: a call raises, an OVSDB command or the look at a link fails and   *)
(* the failure is swallowed, the process or the host dies.                 *)
(***************************************************************************)
EXTENDS HostNet, FiniteSets

CONSTANTS
  Kind,           \* the class of each VIF when it is plugged
  UnpluggedAs,    \* its class when it is unplugged: a hybrid VIF may come
                  \* back as VIFOpenVSwitch once its binding has changed
  Bridge,         \* network.bridge of each VIF
  Trunks,         \* the bridges of is_trunk_bridge()
  Datapath,       \* datapath_type of each port profile, or "unset"
  CreatePort,     \* VIFs whose profile sets create_port
  CreateTap,      \* VIFs whose profile sets create_tap
  BadProfile,     \* VIFs without a port profile this plugin accepts
  IsolateVif,     \* [os_vif_ovs]isolate_vif
  PerPortBridge,  \* VIFs on hosts with [os_vif_ovs]per_port_bridge set
  FaultKinds,     \* the failures and untimely events that may happen
  MaxFaults       \* bound on how many do

Kinds == {"bridge", "ovs", "vhostuser", "hostdev"}
AllFaults == {"raise", "partial", "lost", "blind", "vm", "crash", "reboot"}

ASSUME PluginAssumption ==
  /\ Kind \in [Vifs -> Kinds]
  /\ UnpluggedAs \in [Vifs -> Kinds]
  /\ \A v \in Vifs : \/ UnpluggedAs[v] = Kind[v]
                     \/ Kind[v] = "bridge" /\ UnpluggedAs[v] = "ovs"
  /\ Bridge \in [Vifs -> Bridges]
  /\ Trunks \subseteq Bridges
  /\ Datapath \in [Vifs -> {"unset", "system", "netdev"}]
  /\ CreatePort \subseteq Vifs
  /\ CreateTap \subseteq Vifs
  /\ BadProfile \subseteq Vifs
  /\ IsolateVif \in BOOLEAN
  /\ PerPortBridge \subseteq Vifs
  /\ FaultKinds \subseteq AllFaults
  /\ MaxFaults \in Nat

VARIABLES
  pc,         \* the call the plugin makes next for each VIF, or "idle"
  op,         \* whether that is within plug() or unplug()
  port,       \* vif_name or representor the call is about
  isolating,  \* VIFs whose create_vif_port decided on the dead VLAN
  qosing,     \* VIFs whose create_vif_port decided on a QoS row
  last,       \* how the last call for each VIF ended, as its caller saw it
  byLibvirt,  \* VIFs whose OVS port libvirt created
  raced,      \* history: VIFs whose VM has ever stopped or started between
              \* the look of a plug() at the port and its transaction
  misled,     \* history: VIFs whose current or last call went by a look
              \* that failed, or was no longer true when it was acted on
  faults      \* failures and untimely events so far

localVars == <<port, isolating, qosing>>
vars == <<netVars, localVars, pc, op, last, byLibvirt, raced, misled, faults>>

PlugPcs ==
  {"plug", "ensure_bridge", "exists_veth", "create_veth_pair",
   "add_bridge_port", "update_veth_pair", "ensure_int_bridge",
   "ensure_port_bridge", "set_representor_up", "isolate_vif", "exists_port",
   "delete_qos", "create_qos", "get_qos", "create_ovs_vif_port",
   "create_tap", "isolate_patch", "create_patch_port_pair"}

UnplugPcs ==
  {"unplug", "exists_qbr", "delete_bridge", "find_representor",
   "delete_tap", "delete_int_patch", "delete_port_patch", "delete_port",
   "clean_qos", "delete_net_dev", "delete_port_bridge",
   "set_representor_down", "delete_trunk"}

Results == {"none", "plugged", "unplugged", "plug_error", "unplug_error",
            "interrupted", "vm_stopped"}

NoPort == <<"none">>

Labels == {"idle"} \cup PlugPcs \cup UnplugPcs

CallTypeOK ==
  /\ pc \in [Vifs -> Labels]
  /\ op \in [Vifs -> {"none", "plug", "unplug"}]
  /\ port \in [Vifs -> Ports \cup {NoPort}]
  /\ isolating \subseteq Vifs
  /\ qosing \subseteq Vifs
  /\ last \in [Vifs -> Results]
  /\ byLibvirt \subseteq Vifs
  /\ raced \subseteq Vifs
  /\ misled \subseteq Vifs
  /\ faults \in 0 .. MaxFaults

TypeOK == NetTypeOK /\ CallTypeOK

Init ==
  /\ NetInit
  /\ pc = [v \in Vifs |-> "idle"]
  /\ op = [v \in Vifs |-> "none"]
  /\ port = [v \in Vifs |-> NoPort]
  /\ isolating = {}
  /\ qosing = {}
  /\ last = [v \in Vifs |-> "none"]
  /\ byLibvirt = {}
  /\ raced = {}
  /\ misled = {}
  /\ faults = 0

-----------------------------------------------------------------------------
(* What the plugin computes from the VIF alone                             *)

\* _get_vif_datapath_type(), whose default differs in _plug_vhostuser().
DatapathOf(v) == IF Datapath[v] = "unset" THEN "system" ELSE Datapath[v]
VhostDatapath(v) == IF Datapath[v] = "unset" THEN "netdev" ELSE Datapath[v]

\* supports_tc_qdisc(), hence whether _get_qos_type() names a type.
SupportsQos(v) == DatapathOf(v) = "system"

IsTrunk(b) == b \in Trunks

UsesPortBridge(v, kind) == v \in PerPortBridge /\ kind = "ovs"

\* The name of the OVS port for a VIF handled as the given class.
PortName(v, kind) ==
  CASE kind = "bridge"    -> <<"qvo", v>>
    [] kind = "ovs"       -> <<"tap", v>>
    [] kind = "vhostuser" -> <<"vhu", v>>
    [] kind = "hostdev"   -> 
         <<IF DatapathOf(v) = "system" THEN "rep" ELSE "vfr", v>>

\* The bridge plug() puts that port on, and then the one unplug() looks on.
PlugBridge(v) ==
  IF UsesPortBridge(v, Kind[v]) THEN PortBridge(v) ELSE Bridge[v]

UnplugBridge(v) ==
  IF UsesPortBridge(v, UnpluggedAs[v]) THEN PortBridge(v) ELSE Bridge[v]

-----------------------------------------------------------------------------
(* How a call moves on                                                     *)

At(v, label) == pc[v] = label

Goto(v, label) ==
  /\ pc' = [pc EXCEPT ![v] = label]
  /\ UNCHANGED <<op, last>>

Proceed(v, label) == Goto(v, label) /\ UNCHANGED localVars

Return(v, result) ==
  /\ pc' = [pc EXCEPT ![v] = "idle"]
  /\ op' = [op EXCEPT ![v] = "none"]
  /\ last' = [last EXCEPT ![v] = result]
  /\ port' = [port EXCEPT ![v] = NoPort]
  /\ isolating' = isolating \ {v}
  /\ qosing' = qosing \ {v}

Succeed(v) == Return(v, IF op[v] = "plug" THEN "plugged" ELSE "unplugged")
Fail(v) ==
  Return(v, IF op[v] = "plug" THEN "plug_error" ELSE "unplug_error")

Fault(kind) ==
  /\ kind \in FaultKinds
  /\ faults < MaxFaults
  /\ faults' = faults + 1

NoFault == UNCHANGED <<byLibvirt, raced, misled, faults>>

\* An OVSDB command run without check_error: its failure is only logged.
Lost == Fault("lost") /\ UNCHANGED <<netVars, byLibvirt, raced, misled>>

\* A privileged call fails after some of its netlink requests.
Partial ==
  Fault("partial") /\ UNCHANGED <<ovsdbVars, byLibvirt, raced, misled>>

\* ip_lib.exists() takes whatever goes wrong for the absence of the link.
Blind(v) ==
  /\ Fault("blind")
  /\ misled' = misled \cup {v}
  /\ UNCHANGED <<byLibvirt, raced>>

-----------------------------------------------------------------------------
(* plug(): dispatch on the class of the VIF                                *)

BeginPlug(v) ==
  /\ At(v, "idle")
  /\ pc' = [pc EXCEPT ![v] = "plug"]
  /\ op' = [op EXCEPT ![v] = "plug"]
  /\ last' = [last EXCEPT ![v] = "none"]
  /\ misled' = misled \ {v}
  /\ UNCHANGED <<netVars, localVars, byLibvirt, raced, faults>>

Plug(v) ==
  /\ At(v, "plug")
  /\ IF v \in BadProfile
     THEN Fail(v)
     ELSE /\ port' = [port EXCEPT ![v] = PortName(v, Kind[v])]
          /\ Goto(v, CASE Kind[v] = "bridge"    -> "ensure_bridge"
                       [] Kind[v] = "vhostuser" -> "isolate_vif"
                       [] OTHER                 -> "ensure_int_bridge")
          /\ UNCHANGED <<isolating, qosing>>
  /\ UNCHANGED netVars /\ NoFault

-----------------------------------------------------------------------------
(* _plug_bridge()                                                          *)

EnsureBridge(v) ==
  /\ At(v, "ensure_bridge")
  /\ \/ /\ AddUp(<<"qbr", v>>)
        /\ Proceed(v, "exists_veth")
        /\ UNCHANGED ovsdbVars /\ NoFault
     \/ /\ <<"qbr", v>> \notin devs
        /\ AddDown(<<"qbr", v>>)
        /\ Fail(v)
        /\ Partial
     \/ /\ <<"qbr", v>> \in devs
        /\ Fail(v)
        /\ UNCHANGED netVars /\ Blind(v)

\* Mutant of ExistsVeth: the pair is always made anew.
AlwaysNewVeth(v) ==
  /\ At(v, "exists_veth")
  /\ Proceed(v, "create_veth_pair")
  /\ UNCHANGED netVars /\ NoFault

ExistsVeth(v) ==
  /\ At(v, "exists_veth")
  /\ \/ /\ Proceed(v, IF <<"qvo", v>> \in devs
                      THEN "update_veth_pair"
                      ELSE "create_veth_pair")
        /\ NoFault
     \/ Proceed(v, "create_veth_pair") /\ Blind(v)
  /\ UNCHANGED netVars

\* With neither of the looks of delete_net_dev() the old pair stays, and the
\* new one cannot be added.
CreateVeth(v) ==
  /\ At(v, "create_veth_pair")
  /\ \/ /\ CreateVethPair(v)
        /\ Proceed(v, "add_bridge_port")
        /\ UNCHANGED ovsdbVars /\ NoFault
     \/ /\ CreateVethPairPartly(v)
        /\ Fail(v)
        /\ Partial
     \/ /\ Veth(v) \subseteq devs
        /\ Fail(v)
        /\ UNCHANGED netVars /\ Blind(v)

\* Mutant of AddBridgePort: the veth end stays off the bridge.
ForgetBridgePort(v) ==
  /\ At(v, "add_bridge_port")
  /\ Proceed(v, "ensure_int_bridge")
  /\ UNCHANGED netVars /\ NoFault

AddBridgePort(v) ==
  /\ At(v, "add_bridge_port")
  /\ IF {<<"qbr", v>>, <<"qvb", v>>} \subseteq devs
     THEN Enslave(v) /\ Proceed(v, "ensure_int_bridge")
     ELSE Fail(v) /\ UNCHANGED kernelVars
  /\ UNCHANGED ovsdbVars /\ NoFault

\* update_veth_pair() and _update_vif_port(): nothing but MTUs.
UpdateVeth(v) ==
  /\ At(v, "update_veth_pair")
  /\ Succeed(v)
  /\ UNCHANGED netVars /\ NoFault

-----------------------------------------------------------------------------
(* The bridges of _plug_bridge(), _plug_vif_generic(), _plug_port_bridge() *)
(* and _plug_vf(), and the representor of the last                         *)

EnsureIntBridge(v) ==
  /\ At(v, "ensure_int_bridge")
  /\ \/ /\ AddBr(Bridge[v], DatapathOf(v))
        /\ UNCHANGED <<kernelVars, portVars, qosRows>> /\ NoFault
     \/ Lost
  /\ CASE UsesPortBridge(v, Kind[v]) -> Proceed(v, "ensure_port_bridge")
       [] Kind[v] = "hostdev"        -> Proceed(v, "set_representor_up")
       [] /\ Kind[v] = "ovs"
          /\ v \notin PerPortBridge \cup CreatePort -> Succeed(v)
       [] OTHER                      -> Proceed(v, "isolate_vif")

EnsurePortBridge(v) ==
  /\ At(v, "ensure_port_bridge")
  /\ \/ /\ AddBr(PortBridge(v), DatapathOf(v))
        /\ UNCHANGED <<kernelVars, portVars, qosRows>> /\ NoFault
     \/ Lost
  /\ Proceed(v, "isolate_vif")

SetRepresentorUp(v) ==
  /\ At(v, "set_representor_up")
  /\ IF DatapathOf(v) = "system"
     THEN AddUp(<<"rep", v>>)
     ELSE UNCHANGED kernelVars
  /\ Proceed(v, "isolate_vif")
  /\ UNCHANGED ovsdbVars /\ NoFault

-----------------------------------------------------------------------------
(* _create_vif_port() and create_ovs_vif_port()                            *)

\* Mutant of Isolate: does not ask whether the port exists.
IsolateAlways(v) ==
  /\ At(v, "isolate_vif")
  /\ isolating' = IF IsolateVif THEN isolating \cup {v} ELSE isolating
  /\ UNCHANGED netVars /\ NoFault
  /\ Goto(v, "exists_port")
  /\ UNCHANGED <<port, qosing>>

\* Mutant of Isolate: a failed look counts as a port that is there.
IsolateIfSeen(v) ==
  /\ At(v, "isolate_vif")
  /\ \/ /\ isolating' =
             IF IsolateVif /\ ~PortExists(port[v], PlugBridge(v))
             THEN isolating \cup {v}
             ELSE isolating
        /\ UNCHANGED netVars /\ NoFault
     \/ UNCHANGED isolating /\ Lost
  /\ Goto(v, "exists_port")
  /\ UNCHANGED <<port, qosing>>

\* port_exists() takes a list_ports() that failed for an empty one.
Isolate(v) ==
  /\ At(v, "isolate_vif")
  /\ \/ /\ isolating' =
             IF /\ IsolateVif
                /\ ~PortExists(port[v], PlugBridge(v))
                /\ ~IsTrunk(PlugBridge(v))
             THEN isolating \cup {v}
             ELSE isolating \ {v}
        /\ UNCHANGED netVars /\ NoFault
     \/ /\ IsolateVif /\ ~IsTrunk(PlugBridge(v))
        /\ isolating' = isolating \cup {v}
        /\ Lost
  /\ Goto(v, "exists_port")
  /\ UNCHANGED <<port, qosing>>

\* Mutant of ExistsPort: a QoS row for every plug (bug 2133225).
AlwaysQos(v) ==
  /\ At(v, "exists_port")
  /\ qosing' = IF SupportsQos(v) THEN qosing \cup {v} ELSE qosing \ {v}
  /\ UNCHANGED netVars /\ NoFault
  /\ Goto(v, IF v \in qosing' THEN "delete_qos" ELSE "create_ovs_vif_port")
  /\ UNCHANGED <<port, isolating>>

ExistsPort(v) ==
  /\ At(v, "exists_port")
  /\ \/ /\ qosing' =
             IF SupportsQos(v) /\ ~PortExists(port[v], PlugBridge(v))
             THEN qosing \cup {v}
             ELSE qosing \ {v}
        /\ UNCHANGED netVars /\ NoFault
     \/ /\ SupportsQos(v)
        /\ qosing' = qosing \cup {v}
        /\ Lost
  /\ Goto(v, IF v \in qosing' THEN "delete_qos" ELSE "create_ovs_vif_port")
  /\ UNCHANGED <<port, isolating>>

\* Mutant of DeleteOldQos: rows of an earlier attempt stay.
KeepOldQos(v) ==
  /\ At(v, "delete_qos")
  /\ UNCHANGED netVars /\ NoFault
  /\ Proceed(v, "create_qos")

DeleteOldQos(v) ==
  /\ At(v, "delete_qos")
  /\ \/ /\ DeleteQos(port[v])
        /\ UNCHANGED <<kernelVars, brType, portVars>> /\ NoFault
     \/ Lost
  /\ Proceed(v, "create_qos")

\* db_create() checks errors; a timeout may hide that the row was made.
CreateNewQos(v) ==
  /\ At(v, "create_qos")
  /\ CreateQos(port[v])
  /\ \/ Proceed(v, "get_qos") /\ NoFault
     \/ /\ Fault("raise") /\ UNCHANGED <<byLibvirt, raced, misled>>
        /\ Fail(v)
  /\ UNCHANGED <<kernelVars, brType, portVars>>

\* record[0] raises if the row is not there or was not read.
GetQos(v) ==
  /\ At(v, "get_qos")
  /\ \/ /\ IF qosRows[port[v]] > 0
           THEN Proceed(v, "create_ovs_vif_port")
           ELSE Fail(v)
        /\ UNCHANGED netVars /\ NoFault
     \/ Fail(v) /\ Lost

\* What follows once the port is in place.
PortDone(v) ==
  IF UsesPortBridge(v, Kind[v])
  THEN Proceed(v, "isolate_patch")
  ELSE Succeed(v)

\* The one transaction that makes the port.  Only vhost-user VIFs have it
\* make the bridge as well; a transaction the database rejects is lost.
PortTransaction(v) ==
  LET b == PlugBridge(v)
  IN IF /\ Kind[v] = "vhostuser" \/ BrExists(b)
        /\ CanAddPort(port[v], b)
     THEN /\ IF Kind[v] = "vhostuser"
             THEN AddBr(b, VhostDatapath(v))
             ELSE UNCHANGED brType
          /\ PutPort(port[v], b, v \in isolating,
                     ~UsesPortBridge(v, Kind[v]), v \in qosing)
     ELSE UNCHANGED <<brType, portVars>>

CreateOvsVifPort(v) ==
  /\ At(v, "create_ovs_vif_port")
  /\ \/ /\ PortTransaction(v) /\ UNCHANGED <<kernelVars, qosRows>> /\ NoFault
        /\ IF v \in CreateTap THEN Proceed(v, "create_tap") ELSE PortDone(v)
     \/ /\ Lost
        /\ IF v \in CreateTap THEN Proceed(v, "create_tap") ELSE PortDone(v)
     \/ /\ PortTransaction(v) /\ UNCHANGED <<kernelVars, qosRows>>
        /\ Fault("raise") /\ UNCHANGED <<byLibvirt, raced, misled>>
        /\ Fail(v)

\* TapCreationNotSupported is raised when the port is already there.  That
\* create_tap() finds the device it is to add is not an error.
CreateTapDevice(v) ==
  /\ At(v, "create_tap")
  /\ \/ /\ Kind[v] # "ovs"
        /\ Fail(v)
        /\ UNCHANGED netVars /\ NoFault
     \/ /\ Kind[v] = "ovs"
        /\ IF <<"tap", v>> \in devs
           THEN UNCHANGED kernelVars
           ELSE AddUp(<<"tap", v>>)
        /\ PortDone(v)
        /\ UNCHANGED ovsdbVars /\ NoFault
     \/ /\ Kind[v] = "ovs"
        /\ <<"tap", v>> \notin devs
        /\ AddDown(<<"tap", v>>)
        /\ Fail(v)
        /\ Partial
     \/ /\ Kind[v] = "ovs"
        /\ <<"tap", v>> \in devs
        /\ AddUp(<<"tap", v>>)
        /\ PortDone(v)
        /\ UNCHANGED ovsdbVars /\ Blind(v)

-----------------------------------------------------------------------------
(* The rest of _plug_port_bridge()                                         *)

\* Mutant of IsolatePatch: looks for the other end of the patch.
IsolateOtherEnd(v) ==
  /\ At(v, "isolate_patch")
  /\ isolating' =
       IF IsolateVif /\ ~PortExists(<<"pbp", v>>, PortBridge(v))
       THEN isolating \cup {v}
       ELSE isolating \ {v}
  /\ UNCHANGED netVars /\ NoFault
  /\ Goto(v, "create_patch_port_pair")
  /\ UNCHANGED <<port, qosing>>

IsolatePatch(v) ==
  /\ At(v, "isolate_patch")
  /\ \/ /\ isolating' =
             IF IsolateVif /\ ~PortExists(<<"ibp", v>>, Bridge[v])
             THEN isolating \cup {v}
             ELSE isolating \ {v}
        /\ UNCHANGED netVars /\ NoFault
     \/ /\ IsolateVif
        /\ isolating' = isolating \cup {v}
        /\ Lost
  /\ Goto(v, "create_patch_port_pair")
  /\ UNCHANGED <<port, qosing>>

PatchTransaction(v) ==
  IF /\ BrExists(Bridge[v]) /\ CanAddPort(<<"ibp", v>>, Bridge[v])
     /\ BrExists(PortBridge(v)) /\ CanAddPort(<<"pbp", v>>, PortBridge(v))
  THEN PutPatchPair(v, Bridge[v], v \in isolating)
  ELSE UNCHANGED ovsdbVars

CreatePatchPortPair(v) ==
  /\ At(v, "create_patch_port_pair")
  /\ \/ PatchTransaction(v) /\ Succeed(v) /\ UNCHANGED kernelVars /\ NoFault
     \/ Lost /\ Succeed(v)
     \/ /\ PatchTransaction(v) /\ UNCHANGED kernelVars
        /\ Fault("raise") /\ UNCHANGED <<byLibvirt, raced, misled>>
        /\ Fail(v)

-----------------------------------------------------------------------------
(* unplug(): dispatch on the class of the VIF                              *)

BeginUnplug(v) ==
  /\ At(v, "idle")
  /\ pc' = [pc EXCEPT ![v] = "unplug"]
  /\ op' = [op EXCEPT ![v] = "unplug"]
  /\ last' = [last EXCEPT ![v] = "none"]
  /\ misled' = misled \ {v}
  /\ UNCHANGED <<netVars, localVars, byLibvirt, raced, faults>>

Unplug(v) ==
  /\ At(v, "unplug")
  /\ IF v \in BadProfile
     THEN Fail(v)
     ELSE /\ port' = [port EXCEPT ![v] = PortName(v, UnpluggedAs[v])]
          /\ Goto(v, CASE UnpluggedAs[v] = "bridge"    -> "delete_bridge"
                       [] UnpluggedAs[v] = "vhostuser" -> "delete_port"
                       [] UnpluggedAs[v] = "hostdev"   ->
                            IF DatapathOf(v) = "system"
                            THEN "find_representor"
                            ELSE "delete_port"
                       [] UsesPortBridge(v, UnpluggedAs[v]) -> "delete_tap"
                       [] OTHER                        -> "exists_qbr")
          /\ UNCHANGED <<isolating, qosing>>
  /\ UNCHANGED netVars /\ NoFault

\* A VIFOpenVSwitch whose qbr exists was plugged with the hybrid strategy.
ExistsQbr(v) ==
  /\ At(v, "exists_qbr")
  /\ \/ /\ <<"qbr", v>> \in devs
        /\ port' = [port EXCEPT ![v] = PortName(v, "bridge")]
        /\ Goto(v, "delete_bridge") /\ NoFault
     \/ /\ <<"qbr", v>> \notin devs
        /\ Goto(v, "delete_tap") /\ UNCHANGED port /\ NoFault
     \/ /\ <<"qbr", v>> \in devs
        /\ Goto(v, "delete_tap") /\ UNCHANGED port /\ Blind(v)
  /\ UNCHANGED <<netVars, isolating, qosing>>

\* The look at the bridge may fail, or that at the veth end.
DeleteLinuxBridge(v) ==
  /\ At(v, "delete_bridge")
  /\ \/ /\ DeleteBridge(v)
        /\ Proceed(v, "delete_port")
        /\ UNCHANGED ovsdbVars /\ NoFault
     \/ /\ DeleteBridgePartly(v)
        /\ Fail(v)
        /\ Partial
     \/ /\ UNCHANGED kernelVars \/ DeleteBridgePartly(v)
        /\ Proceed(v, "delete_port")
        /\ UNCHANGED ovsdbVars /\ Blind(v)

\* Only reads; it may raise, as StepRaises says.
FindRepresentor(v) ==
  /\ At(v, "find_representor")
  /\ Proceed(v, "delete_port")
  /\ UNCHANGED netVars /\ NoFault

\* _delete_tap_if_required()
DeleteTap(v) ==
  /\ At(v, "delete_tap")
  /\ \/ /\ IF v \in CreateTap /\ <<"tap", v>> \in devs
           THEN DeleteNetDev(<<"tap", v>>)
           ELSE UNCHANGED kernelVars
        /\ NoFault
     \/ v \in CreateTap /\ UNCHANGED kernelVars /\ Blind(v)
  /\ Proceed(v, IF UsesPortBridge(v, UnpluggedAs[v])
                THEN "delete_int_patch"
                ELSE "delete_port")
  /\ UNCHANGED ovsdbVars

\* delete_ovs_vif_port() of a patch port: the port, and then the link of that
\* name, of which there is none; but asking for it may raise.
DeletePatch(v, p, b, next) ==
  \/ /\ DelPort(p, b) /\ UNCHANGED kernelVars /\ NoFault
     /\ Proceed(v, next)
  \/ Lost /\ Proceed(v, next)
  \/ /\ DelPort(p, b) /\ UNCHANGED kernelVars
     /\ Fault("raise") /\ UNCHANGED <<byLibvirt, raced, misled>>
     /\ Fail(v)

DeleteIntPatch(v) ==
  /\ At(v, "delete_int_patch")
  /\ DeletePatch(v, <<"ibp", v>>, Bridge[v], "delete_port_patch")

DeletePortPatch(v) ==
  /\ At(v, "delete_port_patch")
  /\ DeletePatch(v, <<"pbp", v>>, PortBridge(v), "delete_port")

\* Libvirt's ports are those among the ones that remain.
ForgetPorts ==
  /\ byLibvirt' = {w \in byLibvirt : portBr'[<<"tap", w>>] # NoBridge}
  /\ UNCHANGED <<raced, misled, faults>>

\* delete_ovs_vif_port() deletes a network device for all but VFs.
AfterQos(v) ==
  IF UnpluggedAs[v] # "hostdev"
  THEN Proceed(v, "delete_net_dev")
  ELSE Proceed(v, IF DatapathOf(v) = "system"
                  THEN "set_representor_down"
                  ELSE "delete_trunk")

\* Mutant of DeleteOvsVifPort: no qos_type is passed on.
DeletePortOnly(v) ==
  /\ At(v, "delete_port")
  /\ DelPort(port[v], UnplugBridge(v))
  /\ UNCHANGED kernelVars /\ ForgetPorts
  /\ AfterQos(v)

DeleteOvsVifPort(v) ==
  /\ At(v, "delete_port")
  /\ \/ /\ DelPort(port[v], UnplugBridge(v))
        /\ UNCHANGED kernelVars /\ ForgetPorts
     \/ Lost
  /\ IF SupportsQos(v) /\ UnpluggedAs[v] # "vhostuser"
     THEN Proceed(v, "clean_qos")
     ELSE AfterQos(v)

CleanQos(v) ==
  /\ At(v, "clean_qos")
  /\ \/ /\ DeleteQos(port[v])
        /\ UNCHANGED <<kernelVars, brType, portVars>> /\ NoFault
     \/ Lost
  /\ AfterQos(v)

\* Mutant of DeletePortDevice: delete_netdev is taken to be False.
KeepPortDevice(v) ==
  /\ At(v, "delete_net_dev")
  /\ Proceed(v, IF UsesPortBridge(v, UnpluggedAs[v])
                THEN "delete_port_bridge"
                ELSE "delete_trunk")
  /\ UNCHANGED netVars /\ NoFault

DeletePortDevice(v) ==
  /\ At(v, "delete_net_dev")
  /\ \/ /\ IF port[v] \in devs
           THEN DeleteNetDev(port[v])
           ELSE UNCHANGED kernelVars
        /\ NoFault
     \/ UNCHANGED kernelVars /\ Blind(v)
  /\ Proceed(v, IF UsesPortBridge(v, UnpluggedAs[v])
                THEN "delete_port_bridge"
                ELSE "delete_trunk")
  /\ UNCHANGED ovsdbVars

DeletePortBridge(v) ==
  /\ At(v, "delete_port_bridge")
  /\ \/ DelBr(PortBridge(v)) /\ UNCHANGED kernelVars /\ NoFault
     \/ Lost
  /\ Proceed(v, "delete_trunk")

SetRepresentorDown(v) ==
  /\ At(v, "set_representor_down")
  /\ SetDown(port[v])
  /\ Proceed(v, "delete_trunk")
  /\ UNCHANGED ovsdbVars /\ NoFault

\* Mutant of DeleteTrunk: does not ask what kind of bridge it is.
DeleteAnyBridge(v) ==
  /\ At(v, "delete_trunk")
  /\ DelBr(Bridge[v]) /\ UNCHANGED kernelVars /\ ForgetPorts
  /\ Succeed(v)

\* _delete_bridge_if_trunk(), with whatever else is on the bridge.
DeleteTrunk(v) ==
  /\ At(v, "delete_trunk")
  /\ \/ /\ ~IsTrunk(Bridge[v])
        /\ UNCHANGED netVars /\ NoFault
     \/ /\ IsTrunk(Bridge[v])
        /\ DelBr(Bridge[v]) /\ UNCHANGED kernelVars /\ ForgetPorts
     \/ IsTrunk(Bridge[v]) /\ Lost
  /\ Succeed(v)

-----------------------------------------------------------------------------
(* What may fail                                                           *)

\* Calls that raise before they have done anything: privileged ones, the
\* commit of a transaction, db_create(), and the first use of OVSDB in a
\* call, which may have to connect.
RaisingPcs ==
  {"ensure_bridge", "create_veth_pair", "add_bridge_port",
   "update_veth_pair", "ensure_int_bridge", "set_representor_up",
   "create_qos", "create_ovs_vif_port", "create_tap",
   "create_patch_port_pair", "delete_bridge", "find_representor",
   "delete_tap", "delete_port", "delete_net_dev", "set_representor_down"}

StepRaises(v) ==
  /\ pc[v] \in RaisingPcs
  /\ At(v, "delete_tap") => v \in CreateTap
  /\ Fault("raise")
  /\ Fail(v)
  /\ UNCHANGED <<netVars, byLibvirt, raced, misled>>

Busy == {v \in Vifs : pc[v] # "idle"}

\* The process dies, and with it every call in progress.
AbandonCalls(affected) ==
  /\ pc' = [v \in Vifs |-> "idle"]
  /\ op' = [v \in Vifs |-> "none"]
  /\ port' = [v \in Vifs |-> NoPort]
  /\ isolating' = {}
  /\ qosing' = {}
  /\ last' = [v \in Vifs |-> IF v \in affected THEN "interrupted" ELSE last[v]]

Crash ==
  /\ Fault("crash")
  /\ Busy # {}
  /\ AbandonCalls(Busy)
  /\ UNCHANGED <<netVars, byLibvirt, raced, misled>>

\* The host reboots: links are gone, VF representors are back and down,
\* and the database is as it was.
Reboot ==
  /\ Fault("reboot")
  /\ AbandonCalls(Busy \cup
                  {v \in Vifs : last[v] \notin {"none", "unplugged"}})
  /\ devs' = {"rep"} \X Vifs
  /\ up' = {}
  /\ enslaved' = {}
  /\ UNCHANGED <<ovsdbVars, byLibvirt, raced, misled>>

-----------------------------------------------------------------------------
(* The surroundings                                                        *)

\* The Neutron agent finds a port on the integration bridge by its iface-id
\* and gives it the local VLAN of its network.
AgentWires(v) ==
  /\ \E p \in PortsOf(v) \cap ids :
       /\ portBr[p] = Bridge[v]
       /\ ~IsTrunk(Bridge[v])
       /\ tag[p] # "local"
       /\ tag' = [tag EXCEPT ![p] = "local"]
  /\ UNCHANGED <<kernelVars, brType, portBr, ids, portQos, qosRows>>
  /\ UNCHANGED <<localVars, pc, op, last>> /\ NoFault

\* A plug() is at one of these between its look at the port and the
\* transaction that goes by it.
Deciding ==
  {"exists_port", "delete_qos", "create_qos", "get_qos",
   "create_ovs_vif_port"}

\* The VM of v starts or stops while a call for v is in progress.
Untimely(v) ==
  /\ Fault("vm")
  /\ IF pc[v] \in Deciding
     THEN raced' = raced \cup {v} /\ misled' = misled \cup {v}
     ELSE UNCHANGED <<raced, misled>>

\* Libvirt starts a VM on a plain VIF: it deletes the port, if there is
\* one, and makes it anew together with the tap device.  Nova has a VM
\* started once plug() has returned; within a plug() one may be started that
\* has stopped in the course of it.
LibvirtPlugs(v) ==
  LET p == <<"tap", v>>
  IN /\ \/ At(v, "idle") /\ last[v] = "plugged"
           /\ UNCHANGED <<raced, misled, faults>>
        \/ op[v] = "plug" /\ last[v] = "vm_stopped" /\ Untimely(v)
     /\ Kind[v] = "ovs" /\ v \notin PerPortBridge /\ v \notin CreateTap
     /\ BrExists(Bridge[v])
     /\ v \notin byLibvirt
     /\ AddUp(p)
     /\ portBr' = [portBr EXCEPT ![p] = Bridge[v]]
     /\ tag' = [tag EXCEPT ![p] = "none"]
     /\ ids' = ids \cup {p}
     /\ portQos' = portQos \ {p}
     /\ byLibvirt' = byLibvirt \cup {v}
     /\ UNCHANGED <<brType, qosRows, localVars, pc, op, last>>

\* The VM stops, whatever the plugin is doing: port and tap device go.
LibvirtUnplugs(v) ==
  /\ v \in byLibvirt
  /\ \/ At(v, "idle") /\ UNCHANGED <<raced, misled, faults>>
     \/ ~At(v, "idle") /\ Untimely(v)
  /\ DelPort(<<"tap", v>>, Bridge[v])
  /\ DeleteNetDev(<<"tap", v>>)
  /\ byLibvirt' = byLibvirt \ {v}
  /\ last' = [last EXCEPT ![v] = "vm_stopped"]
  /\ UNCHANGED <<localVars, pc, op>>

-----------------------------------------------------------------------------
PlugStep(v) ==
  \/ Plug(v)
  \/ EnsureBridge(v) \/ ExistsVeth(v) \/ CreateVeth(v) \/ AddBridgePort(v)
  \/ UpdateVeth(v)
  \/ EnsureIntBridge(v) \/ EnsurePortBridge(v) \/ SetRepresentorUp(v)
  \/ Isolate(v) \/ ExistsPort(v)
  \/ DeleteOldQos(v) \/ CreateNewQos(v) \/ GetQos(v)
  \/ CreateOvsVifPort(v) \/ CreateTapDevice(v)
  \/ IsolatePatch(v) \/ CreatePatchPortPair(v)

UnplugStep(v) ==
  \/ Unplug(v)
  \/ ExistsQbr(v) \/ DeleteLinuxBridge(v)
  \/ FindRepresentor(v) \/ DeleteTap(v)
  \/ DeleteIntPatch(v) \/ DeletePortPatch(v)
  \/ DeleteOvsVifPort(v) \/ CleanQos(v) \/ DeletePortDevice(v)
  \/ DeletePortBridge(v) \/ SetRepresentorDown(v) \/ DeleteTrunk(v)

Next ==
  \/ \E v \in Vifs :
       \/ BeginPlug(v)
       \/ BeginUnplug(v)
       \/ PlugStep(v)
       \/ UnplugStep(v)
       \/ StepRaises(v)
       \/ AgentWires(v)
       \/ LibvirtPlugs(v)
       \/ LibvirtUnplugs(v)
  \/ Crash
  \/ Reboot

Spec == Init /\ [][Next]_vars

\* A call in progress goes on, and the agent gets round to every port.
Fairness ==
  \A v \in Vifs :
    /\ WF_vars(PlugStep(v) \/ UnplugStep(v))
    /\ WF_vars(AgentWires(v))
FairSpec == Spec /\ Fairness

-----------------------------------------------------------------------------
(* Properties                                                              *)

MainPort(v) == PortName(v, Kind[v])

WantedDatapath(v) ==
  IF Kind[v] = "vhostuser" THEN VhostDatapath(v) ELSE DatapathOf(v)

LinksUp(S) == S \subseteq devs \cap up

\* The OVS port of v as plug() is to leave it.  Libvirt's own ports have no
\* QoS row, nor has a port made anew by a plug() that had seen one; and only
\* the patch port of a port bridge names the VIF.
PortInPlace(v) ==
  /\ portBr[MainPort(v)] = PlugBridge(v)
  /\ brType[PlugBridge(v)] = WantedDatapath(v)
  /\ ~UsesPortBridge(v, Kind[v]) => MainPort(v) \in ids
  /\ SupportsQos(v) /\ v \notin byLibvirt \cup raced
       => MainPort(v) \in portQos

PatchInPlace(v) ==
  /\ brType[Bridge[v]] = DatapathOf(v)
  /\ portBr[<<"ibp", v>>] = Bridge[v]
  /\ portBr[<<"pbp", v>>] = PortBridge(v)
  /\ <<"ibp", v>> \in ids

TapInPlace(v) == v \in CreateTap => LinksUp({<<"tap", v>>})

\* All that a VIF needs to pass traffic, by its class.
Wired(v) ==
  CASE Kind[v] = "bridge" ->
         /\ PortInPlace(v)
         /\ LinksUp(Veth(v) \cup {<<"qbr", v>>})
         /\ <<"qvb", v>> \in enslaved
    [] UsesPortBridge(v, Kind[v]) ->
         PortInPlace(v) /\ PatchInPlace(v) /\ TapInPlace(v)
    [] Kind[v] = "ovs" /\ v \notin PerPortBridge ->
         IF v \in CreatePort
         THEN PortInPlace(v) /\ TapInPlace(v)
         ELSE brType[Bridge[v]] = DatapathOf(v)
    [] Kind[v] = "vhostuser" -> PortInPlace(v)
    [] Kind[v] = "hostdev" ->
         /\ PortInPlace(v)
         /\ DatapathOf(v) = "system" => LinksUp({<<"rep", v>>})

\* Nothing of v is left: no link (its representor stays, down), no port, no
\* QoS row, no bridge of its own.
Clean(v) ==
  /\ LinksOf(v) \cap devs \subseteq {<<"rep", v>>}
  /\ LinksOf(v) \cap up = {}
  /\ \A p \in PortsOf(v) : portBr[p] = NoBridge /\ qosRows[p] = 0
  /\ ~BrExists(PortBridge(v))
  /\ IsTrunk(Bridge[v]) => ~BrExists(Bridge[v])

\* A caller that was told the VIF is plugged has it wired (os_vif.plug()
\* raises "if anything fails"): whatever earlier calls failed or were cut
\* off at whichever step, whatever they left behind, and even if the VM
\* stopped, and with it the port went, in the course of the call.
PluggedIsWired == \A v \in Vifs : last[v] = "plugged" => Wired(v)

\* A caller that was told the VIF is unplugged can forget it: an unplug()
\* that returns has removed whatever any earlier plug() or unplug() of the
\* VIF, complete, cut off at any step or misled, had made, unless one of its
\* own looks at a link failed.
UnpluggedIsClean ==
  \A v \in Vifs \ misled : last[v] = "unplugged" => Clean(v)

\* However often plug() is called and cut off between creating a QoS row
\* and the transaction that refers to it, a port never has two rows
\* (ovsdb_lib.py:242-258, bug 2133225).
OneQosRow == \A p \in Ports : qosRows[p] <= 1

\* With isolate_vif, no port the plugin makes on a bridge the agent manages
\* is ever without the dead VLAN before the agent has wired it, not even
\* when the look at port_exists() fails (ovs.py:239-244, 264-287, 457-459).
\* The one way to an exposed port is a VM that stops between that look and
\* the transaction, which then makes the port that libvirt has deleted anew.
IsolatedUntilWired ==
  IsolateVif =>
    \A v \in Vifs \ raced : \A p \in PortsOf(v) :
      /\ portBr[p] = Bridge[v]
      /\ ~IsTrunk(Bridge[v])
      /\ ~(v \in byLibvirt /\ p = <<"tap", v>>)
      => tag[p] \in {"dead", "local"}

\* All the state of v that a plug() may write.
WiringOf(v) ==
  [links  |-> LinksOf(v) \cap devs,
   linkUp |-> LinksOf(v) \cap up,
   master |-> LinksOf(v) \cap enslaved,
   ports  |-> [p \in PortsOf(v) |-> portBr[p]],
   ids    |-> PortsOf(v) \cap ids,
   qos    |-> PortsOf(v) \cap portQos,
   rows   |-> [p \in PortsOf(v) |-> qosRows[p]],
   dead   |-> {p \in PortsOf(v) : tag[p] = "dead"},
   brs    |-> <<brType[Bridge[v]], brType[PortBridge(v)]>>]

\* plug() of a VIF that is wired already, which Nova does for every VIF when
\* its compute service starts, disturbs nothing: no step of it, even of one
\* that fails, touches the links, ports, tags, QoS rows or bridges of a
\* running VM ("don't break traffic", ovs.py:240-242), unless the look it
\* goes by failed or the VM was restarted meanwhile.
ReplugIsQuiet ==
  [][\A v \in Vifs \ misled :
       op[v] = "plug" /\ pc'[v] # pc[v] /\ Wired(v)
         /\ last'[v] # "interrupted"
         => WiringOf(v)' = WiringOf(v)]_vars

\* A port that Neutron has put on its VLAN is not put back on the dead one:
\* "don't break traffic if port already exists" (ovs.py:240-242); unless it
\* is a port that libvirt made after plug() had looked for one in vain.
WiredTagKept ==
  [][\A v \in Vifs \ misled : \A p \in PortsOf(v) :
       tag[p] = "local" => tag'[p] # "dead"]_vars

\* A VIF that was plugged onto the dead VLAN gets off it, or off the bridge,
\* once the agent gets round to it: every port that is isolated carries the
\* iface-id by which the agent finds it.
ReleasedFromDeadVlan ==
  \A v \in Vifs :
    (last[v] = "plugged" /\ tag[MainPort(v)] = "dead")
      ~> tag[MainPort(v)] # "dead"
=============================================================================
