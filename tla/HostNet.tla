------------------------------ MODULE HostNet ------------------------------
(***************************************************************************)
(* The two stores the OVS plugin writes: the links of the kernel, through  *)
(* src/vif_plug_ovs/linux_net.py and os_vif/internal/ip, and the Open      *)
(* vSwitch database, through src/vif_plug_ovs/ovsdb.  Each operator below  *)
(* is the effect of one privileged call or of one OVSDB transaction.       *)
(*                                                                         *)
(* Every link and port the plugin makes belongs to one VIF and is named    *)
(* <<prefix, vif>>, as gen_port_name() and get_veth_pair_names() name them *)
(* (their truncation to 14 characters is assumed not to make two names     *)
(* equal).  MTU, addresses and multiqueue are left out.                    *)
(***************************************************************************)
EXTENDS Integers

CONSTANTS
  Vifs,      \* VIF identifiers
  Bridges,   \* the OVS bridges networks name: br-int, trunk bridges
  NoBridge   \* "on no bridge"

VARIABLES
  devs,      \* links that exist
  up,        \* links that are administratively up
  enslaved,  \* qvb links attached to the qbr bridge of their VIF
  brType,    \* datapath_type of each OVS bridge, or "absent"
  portBr,    \* the bridge each OVS port is on
  tag,       \* its VLAN tag: none, dead (4095), or local (set by Neutron)
  ids,       \* ports whose interface carries the iface-id of a Neutron port
  portQos,   \* ports whose qos column refers to a QoS row
  qosRows    \* number of QoS rows whose external_ids name each port

kernelVars == <<devs, up, enslaved>>
portVars   == <<portBr, tag, ids, portQos>>
ovsdbVars  == <<brType, portVars, qosRows>>
netVars    == <<kernelVars, ovsdbVars>>

LinkKinds == {"qbr", "qvb", "qvo", "tap", "rep"}
PortKinds == {"qvo", "tap", "vhu", "rep", "vfr", "pbp", "ibp"}
Links == LinkKinds \X Vifs
Ports == PortKinds \X Vifs

Veth(v)     == {<<"qvb", v>>, <<"qvo", v>>}
LinksOf(v)  == LinkKinds \X {v}
PortsOf(v)  == PortKinds \X {v}
PortBridge(v) == <<"pb", v>>
AllBridges  == Bridges \cup {PortBridge(v) : v \in Vifs}

ASSUME NetAssumption ==
  /\ NoBridge \notin AllBridges
  /\ \A v \in Vifs : PortBridge(v) \notin Bridges

NetTypeOK ==
  /\ devs \subseteq Links
  /\ up \subseteq devs
  /\ enslaved \subseteq devs \cap ({"qvb"} \X Vifs)
  /\ brType \in [AllBridges -> {"absent", "system", "netdev"}]
  /\ portBr \in [Ports -> AllBridges \cup {NoBridge}]
  /\ tag \in [Ports -> {"none", "dead", "local"}]
  /\ ids \subseteq Ports
  /\ portQos \subseteq Ports
  /\ qosRows \in [Ports -> Nat]

\* An empty database and a host whose VF representors exist but are down.
NetInit ==
  /\ devs = {"rep"} \X Vifs
  /\ up = {}
  /\ enslaved = {}
  /\ brType = [b \in AllBridges |-> "absent"]
  /\ portBr = [p \in Ports |-> NoBridge]
  /\ tag = [p \in Ports |-> "none"]
  /\ ids = {}
  /\ portQos = {}
  /\ qosRows = [p \in Ports |-> 0]

-----------------------------------------------------------------------------
(* Links: linux_net.py over impl_pyroute2.py                               *)

\* What ip_lib.delete() of a link removes: a veth goes with its peer.
Gone(d) == IF d[1] \in {"qvb", "qvo"} THEN Veth(d[2]) ELSE {d}

\* delete_net_dev(): a missing link is not an error.
DeleteNetDev(d) ==
  /\ devs' = devs \ Gone(d)
  /\ up' = up \ Gone(d)
  /\ enslaved' = enslaved \ Gone(d)

\* set_interface_state(d, 'up') of a link that may have just been added.
AddUp(d) ==
  /\ devs' = devs \cup {d}
  /\ up' = up \cup {d}
  /\ UNCHANGED enslaved

\* A link was added and the call that was to configure it failed.
AddDown(d) ==
  /\ devs' = devs \cup {d}
  /\ UNCHANGED <<up, enslaved>>

SetDown(d) ==
  /\ up' = up \ {d}
  /\ UNCHANGED <<devs, enslaved>>

\* create_veth_pair(): earlier links of these names go first.
CreateVethPair(v) ==
  /\ devs' = devs \cup Veth(v)
  /\ up' = up \cup Veth(v)
  /\ enslaved' = enslaved \ Veth(v)

\* create_veth_pair() raises after the old pair went, after the new one was
\* added, or once one of its ends, or both, had been set up.
CreateVethPairPartly(v) ==
  /\ \/ devs' = devs \ Veth(v) /\ up' = up \ Veth(v)
     \/ /\ devs' = devs \cup Veth(v)
        /\ \E ends \in {{}, {<<"qvb", v>>}, Veth(v)} :
             up' = (up \ Veth(v)) \cup ends
  /\ enslaved' = enslaved \ Veth(v)

\* add_bridge_port()
Enslave(v) ==
  /\ enslaved' = enslaved \cup {<<"qvb", v>>}
  /\ UNCHANGED <<devs, up>>

\* delete_bridge(): the kernel detaches the ports of the bridge, and the
\* veth end that was on it is set down if it exists.
DeleteBridge(v) ==
  IF <<"qbr", v>> \in devs
  THEN /\ devs' = devs \ {<<"qbr", v>>}
       /\ up' = up \ {<<"qbr", v>>, <<"qvb", v>>}
       /\ enslaved' = enslaved \ {<<"qvb", v>>}
  ELSE UNCHANGED kernelVars

\* delete_bridge() raises once the bridge is gone and the veth still up.
DeleteBridgePartly(v) ==
  /\ <<"qbr", v>> \in devs
  /\ devs' = devs \ {<<"qbr", v>>}
  /\ up' = up \ {<<"qbr", v>>}
  /\ enslaved' = enslaved \ {<<"qvb", v>>}

-----------------------------------------------------------------------------
(* OVSDB: ovsdb_lib.py over ovs-vsctl or the IDL                           *)

BrExists(b) == brType[b] # "absent"
PortExists(p, b) == portBr[p] = b

\* add_br(may_exist=True, datapath_type): the type is set in either case.
AddBr(b, datapath) == brType' = [brType EXCEPT ![b] = datapath]

\* Ports leave the database with their columns; QoS rows stay behind.
RemovePorts(S) ==
  /\ portBr' = [p \in Ports |-> IF p \in S THEN NoBridge ELSE portBr[p]]
  /\ tag' = [p \in Ports |-> IF p \in S THEN "none" ELSE tag[p]]
  /\ ids' = ids \ S
  /\ portQos' = portQos \ S

\* del_port(if_exists=True) with a bridge: an error, and so nothing, if the
\* port is on another one.
DelPort(p, b) ==
  RemovePorts({q \in {p} : portBr[q] = b}) /\ UNCHANGED <<brType, qosRows>>

\* del_br(if_exists=True): the ports of the bridge go with it.
DelBr(b) ==
  /\ brType' = [brType EXCEPT ![b] = "absent"]
  /\ RemovePorts({p \in Ports : portBr[p] = b})
  /\ UNCHANGED qosRows

\* add_port(may_exist=True): a port name is unique over all bridges.
CanAddPort(p, b) == portBr[p] \in {b, NoBridge}

\* Mutant of PutPort: set_ids has no effect.
PutPortWithoutIds(p, b, isDead, hasIds, hasQos) ==
  /\ portBr' = [portBr EXCEPT ![p] = b]
  /\ tag' = [tag EXCEPT ![p] = IF isDead THEN "dead" ELSE @]
  /\ portQos' = IF hasQos THEN portQos \cup {p} ELSE portQos
  /\ UNCHANGED ids

\* The columns a transaction sets on a port it adds or finds on bridge b.
PutPort(p, b, isDead, hasIds, hasQos) ==
  /\ portBr' = [portBr EXCEPT ![p] = b]
  /\ tag' = [tag EXCEPT ![p] = IF isDead THEN "dead" ELSE @]
  /\ ids' = IF hasIds THEN ids \cup {p} ELSE ids
  /\ portQos' = IF hasQos THEN portQos \cup {p} ELSE portQos

\* Both ports of create_patch_port_pair(), in its one transaction.
PutPatchPair(v, b, isDead) ==
  LET ibp == <<"ibp", v>>
      pbp == <<"pbp", v>>
  IN /\ portBr' = [portBr EXCEPT ![ibp] = b, ![pbp] = PortBridge(v)]
     /\ tag' = [tag EXCEPT ![ibp] = IF isDead THEN "dead" ELSE @]
     /\ ids' = ids \cup {ibp}
     /\ UNCHANGED <<brType, portQos, qosRows>>

\* Mutant of DeleteQos: takes one row off without looking for any.
DeleteOneQos(p) == qosRows' = [qosRows EXCEPT ![p] = @ - 1]

\* delete_qos_if_exists(): the database refuses to destroy a row that a
\* port still refers to, and the refusal is swallowed.
DeleteQos(p) ==
  qosRows' = [qosRows EXCEPT ![p] = IF p \in portQos THEN 1 ELSE 0]

CreateQos(p) == qosRows' = [qosRows EXCEPT ![p] = @ + 1]
=============================================================================
