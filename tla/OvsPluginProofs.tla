-------------------------- MODULE OvsPluginProofs --------------------------
(***************************************************************************)
(* Proofs about OvsPlugin, for every set of VIFs, whatever their classes   *)
(* and profiles, and any number of failures.                               *)
(***************************************************************************)
EXTENDS OvsPlugin, TLAPS

USE PluginAssumption

\* What counts failures and remembers events stays typed.
Counted ==
  /\ byLibvirt' \subseteq Vifs
  /\ raced' \subseteq Vifs
  /\ misled' \subseteq Vifs
  /\ faults' \in 0 .. MaxFaults

USE DEF Counted

-----------------------------------------------------------------------------
(* How a call moves on keeps its local state typed.                        *)

LEMMA ReturnType ==
  ASSUME CallTypeOK, NEW v \in Vifs, NEW r \in Results, Return(v, r),
         Counted
  PROVE  CallTypeOK'
BY DEF CallTypeOK, Return, Labels

LEMMA EndType ==
  ASSUME CallTypeOK, NEW v \in Vifs, Succeed(v) \/ Fail(v),
         Counted
  PROVE  CallTypeOK'
BY ReturnType DEF Succeed, Fail, Results

LEMMA ProceedType ==
  ASSUME CallTypeOK, NEW v \in Vifs, NEW l \in Labels, Proceed(v, l),
         Counted
  PROVE  CallTypeOK'
BY DEF CallTypeOK, Proceed, Goto, localVars

LEMMA FaultType ==
  ASSUME CallTypeOK, NEW k, Fault(k)
  PROVE  faults' \in 0 .. MaxFaults
BY DEF CallTypeOK, Fault

LEMMA NoFaultType ==
  ASSUME CallTypeOK, NoFault
  PROVE  Counted
BY DEF CallTypeOK, NoFault

LEMMA LostType ==
  ASSUME TypeOK, Lost
  PROVE  NetTypeOK' /\ Counted
BY FaultType DEF TypeOK, CallTypeOK, NetTypeOK, Lost, netVars, kernelVars,
                 ovsdbVars, portVars

LEMMA SkipNetType ==
  ASSUME TypeOK, UNCHANGED netVars
  PROVE  NetTypeOK'
BY DEF TypeOK, NetTypeOK, netVars, kernelVars, ovsdbVars, portVars

-----------------------------------------------------------------------------
(* The effects of HostNet keep the stores typed.                           *)

KernelTypeOK ==
  /\ devs \subseteq Links
  /\ up \subseteq devs
  /\ enslaved \subseteq devs \cap ({"qvb"} \X Vifs)

OvsdbTypeOK ==
  /\ brType \in [AllBridges -> {"absent", "system", "netdev"}]
  /\ portBr \in [Ports -> AllBridges \cup {NoBridge}]
  /\ tag \in [Ports -> {"none", "dead", "local"}]
  /\ ids \subseteq Ports
  /\ portQos \subseteq Ports
  /\ qosRows \in [Ports -> Nat]

LEMMA NetType == NetTypeOK <=> KernelTypeOK /\ OvsdbTypeOK
BY DEF NetTypeOK, KernelTypeOK, OvsdbTypeOK

LEMMA KernelType ==
  ASSUME KernelTypeOK, NEW v \in Vifs,
         \/ UNCHANGED kernelVars
         \/ \E d \in Links : \/ DeleteNetDev(d) \/ AddUp(d) \/ AddDown(d)
                             \/ SetDown(d)
         \/ CreateVethPair(v) \/ CreateVethPairPartly(v)
         \/ <<"qvb", v>> \in devs /\ Enslave(v)
         \/ DeleteBridge(v) \/ DeleteBridgePartly(v)
  PROVE  KernelTypeOK'
<1> USE DEF KernelTypeOK
<1>1. Veth(v) \subseteq Links
  BY DEF Veth, Links, LinkKinds
<1>2. CASE UNCHANGED kernelVars
  BY <1>2 DEF kernelVars
<1>3. ASSUME NEW d \in Links, DeleteNetDev(d)
      PROVE  KernelTypeOK'
  BY <1>3 DEF DeleteNetDev
<1>4. ASSUME NEW d \in Links, AddUp(d) \/ AddDown(d) \/ SetDown(d)
      PROVE  KernelTypeOK'
  BY <1>4 DEF AddUp, AddDown, SetDown
<1>5. CASE CreateVethPair(v)
  BY <1>1, <1>5 DEF CreateVethPair
<1>6. CASE CreateVethPairPartly(v)
  <2>1. <<"qvb", v>> \in Veth(v)
    BY DEF Veth
  <2> QED
    BY <1>1, <1>6, <2>1 DEF CreateVethPairPartly
<1>7. CASE <<"qvb", v>> \in devs /\ Enslave(v)
  BY <1>7 DEF Enslave
<1>8. CASE DeleteBridge(v) \/ DeleteBridgePartly(v)
  BY <1>8 DEF DeleteBridge, DeleteBridgePartly, kernelVars
<1> QED
  BY <1>2, <1>3, <1>4, <1>5, <1>6, <1>7, <1>8

LEMMA RemoveType ==
  ASSUME OvsdbTypeOK, NEW S, RemovePorts(S)
  PROVE  /\ portBr' \in [Ports -> AllBridges \cup {NoBridge}]
         /\ tag' \in [Ports -> {"none", "dead", "local"}]
         /\ ids' \subseteq Ports
         /\ portQos' \subseteq Ports
BY DEF OvsdbTypeOK, RemovePorts

LEMMA DeleteType ==
  ASSUME OvsdbTypeOK,
         \/ \E p \in Ports, b \in AllBridges : DelPort(p, b)
         \/ \E b \in AllBridges : DelBr(b)
  PROVE  OvsdbTypeOK'
<1>1. ASSUME NEW p, NEW b, DelPort(p, b) PROVE OvsdbTypeOK'
  BY <1>1, RemoveType DEF DelPort, OvsdbTypeOK
<1>2. ASSUME NEW b, DelBr(b) PROVE OvsdbTypeOK'
  BY <1>2, RemoveType DEF DelBr, OvsdbTypeOK
<1> QED
  BY <1>1, <1>2

LEMMA PutType ==
  ASSUME OvsdbTypeOK, NEW p \in Ports, NEW b \in AllBridges,
         NEW isDead, NEW hasIds, NEW hasQos,
         PutPort(p, b, isDead, hasIds, hasQos)
  PROVE  /\ portBr' \in [Ports -> AllBridges \cup {NoBridge}]
         /\ tag' \in [Ports -> {"none", "dead", "local"}]
         /\ ids' \subseteq Ports
         /\ portQos' \subseteq Ports
BY DEF OvsdbTypeOK, PutPort

LEMMA PatchType ==
  ASSUME OvsdbTypeOK, NEW v \in Vifs, PatchTransaction(v)
  PROVE  OvsdbTypeOK'
<1>1. <<"ibp", v>> \in Ports /\ <<"pbp", v>> \in Ports
  BY DEF Ports, PortKinds
<1>2. Bridge[v] \in AllBridges /\ PortBridge(v) \in AllBridges
  BY DEF AllBridges
<1>3. CASE PutPatchPair(v, Bridge[v], v \in isolating)
  BY <1>1, <1>2, <1>3 DEF PutPatchPair, OvsdbTypeOK
<1>4. CASE UNCHANGED ovsdbVars
  BY <1>4 DEF ovsdbVars, portVars, OvsdbTypeOK
<1> QED
  BY <1>3, <1>4 DEF PatchTransaction

-----------------------------------------------------------------------------
(* TypeOK is not inductive by itself: the columns of port[v] stay those of *)
(* a port only because a call has chosen its port before it writes them.   *)

PlugWork == PlugPcs \ {"plug"}
UnplugWork == UnplugPcs \ {"unplug"}

PortChosen ==
  \A v \in Vifs : /\ pc[v] \in PlugWork => port[v] = MainPort(v)
                  /\ pc[v] \in UnplugWork => port[v] \in PortsOf(v)

Typed == TypeOK /\ PortChosen

CallTyped == CallTypeOK /\ PortChosen

LEMMA PortNames ==
  ASSUME NEW v \in Vifs, NEW k \in Kinds
  PROVE  PortName(v, k) \in PortsOf(v)
BY DEF PortName, PortsOf, PortKinds, Kinds

LEMMA Places ==
  ASSUME NEW v \in Vifs
  PROVE  /\ PortsOf(v) \subseteq Ports
         /\ MainPort(v) \in PortsOf(v)
         /\ PortBridge(v) \in AllBridges /\ Bridge[v] \in AllBridges
         /\ PlugBridge(v) \in AllBridges /\ UnplugBridge(v) \in AllBridges
BY PortNames DEF PortsOf, Ports, MainPort, AllBridges, PlugBridge,
                 UnplugBridge

LEMMA WorkPort ==
  ASSUME Typed, NEW v \in Vifs, pc[v] \in PlugWork \cup UnplugWork
  PROVE  port[v] \in PortsOf(v) /\ port[v] \in Ports
BY Places DEF Typed, PortChosen

\* A step of plug(), or of unplug(), to the next one.
LEMMA PlugMove ==
  ASSUME Typed, NEW v \in Vifs, pc[v] \in PlugWork, NEW l \in PlugWork,
         Goto(v, l), port' = port,
         isolating' \subseteq Vifs, qosing' \subseteq Vifs,
         Counted
  PROVE  CallTyped'
<1>1. CallTypeOK'
  BY DEF Typed, TypeOK, CallTypeOK, Goto, Labels, PlugWork
<1>2. pc' = [pc EXCEPT ![v] = l] /\ pc \in [Vifs -> Labels]
  BY DEF Typed, TypeOK, CallTypeOK, Goto
<1>3. PlugWork \cap UnplugWork = {}
  BY DEF PlugWork, UnplugWork, PlugPcs, UnplugPcs
<1>4. PortChosen'
  BY <1>2, <1>3 DEF Typed, PortChosen, MainPort
<1> QED
  BY <1>1, <1>4 DEF CallTyped

LEMMA PlugProceed ==
  ASSUME Typed, NEW v \in Vifs, pc[v] \in PlugWork, NEW l \in PlugWork,
         Proceed(v, l),
         Counted
  PROVE  CallTyped'
<1>1. /\ port' = port /\ Goto(v, l)
      /\ isolating' \subseteq Vifs /\ qosing' \subseteq Vifs
  BY DEF Typed, TypeOK, CallTypeOK, Proceed, localVars
<1> QED
  BY <1>1, PlugMove

LEMMA UnplugMove ==
  ASSUME Typed, NEW v \in Vifs, NEW l \in UnplugWork, Goto(v, l),
         NEW p \in PortsOf(v), port' = [port EXCEPT ![v] = p],
         isolating' \subseteq Vifs, qosing' \subseteq Vifs,
         Counted
  PROVE  CallTyped'
<1>1. p \in Ports
  BY Places
<1>2. CallTypeOK'
  BY <1>1 DEF Typed, TypeOK, CallTypeOK, Goto, Labels, UnplugWork
<1>3. pc' = [pc EXCEPT ![v] = l] /\ pc \in [Vifs -> Labels]
  BY DEF Typed, TypeOK, CallTypeOK, Goto
<1>4. port \in [Vifs -> Ports \cup {NoPort}]
  BY DEF Typed, TypeOK, CallTypeOK
<1>5. PlugWork \cap UnplugWork = {}
  BY DEF PlugWork, UnplugWork, PlugPcs, UnplugPcs
<1>6. PortChosen'
  BY <1>3, <1>4, <1>5 DEF Typed, PortChosen, MainPort
<1> QED
  BY <1>2, <1>6 DEF CallTyped

LEMMA UnplugProceed ==
  ASSUME Typed, NEW v \in Vifs, pc[v] \in UnplugWork, NEW l \in UnplugWork,
         Proceed(v, l),
         Counted
  PROVE  CallTyped'
<1>1. port' = [port EXCEPT ![v] = port[v]]
  BY DEF Typed, TypeOK, CallTypeOK, Proceed, localVars
<1>2. isolating' \subseteq Vifs /\ qosing' \subseteq Vifs /\ Goto(v, l)
  BY DEF Typed, TypeOK, CallTypeOK, Proceed, localVars
<1> QED
  BY <1>1, <1>2, WorkPort, UnplugMove

LEMMA EndMove ==
  ASSUME Typed, NEW v \in Vifs, Succeed(v) \/ Fail(v),
         Counted
  PROVE  CallTyped'
<1>1. CallTypeOK'
  BY EndType DEF Typed, TypeOK
<1>2. /\ pc' = [pc EXCEPT ![v] = "idle"] /\ port' = [port EXCEPT ![v] = NoPort]
      /\ pc \in [Vifs -> Labels] /\ port \in [Vifs -> Ports \cup {NoPort}]
  BY DEF Typed, TypeOK, CallTypeOK, Succeed, Fail, Return
<1>3. "idle" \notin PlugWork \cup UnplugWork
  BY DEF PlugWork, UnplugWork, PlugPcs, UnplugPcs
<1>4. PortChosen'
  BY <1>2, <1>3 DEF Typed, PortChosen, MainPort
<1> QED
  BY <1>1, <1>4 DEF CallTyped

-----------------------------------------------------------------------------
(* Every step keeps the state typed.                                       *)

LEMMA CountType ==
  ASSUME TypeOK,
         \/ NoFault \/ ForgetPorts \/ Lost \/ Partial
         \/ \E v \in Vifs : Blind(v)
         \/ Fault("raise") /\ UNCHANGED <<byLibvirt, raced, misled>>
  PROVE  Counted
<1>1. /\ byLibvirt \subseteq Vifs /\ raced \subseteq Vifs
      /\ misled \subseteq Vifs /\ faults \in 0 .. MaxFaults
  BY DEF TypeOK, CallTypeOK
<1>2. byLibvirt' \subseteq Vifs /\ raced' \subseteq Vifs
  BY <1>1 DEF NoFault, ForgetPorts, Lost, Partial, Blind
<1>3. misled' \subseteq Vifs
  BY <1>1 DEF NoFault, ForgetPorts, Lost, Partial, Blind
<1>4. faults' \in 0 .. MaxFaults
  BY <1>1 DEF NoFault, ForgetPorts, Lost, Partial, Blind, Fault
<1> QED
  BY <1>2, <1>3, <1>4

\* The kernel's side of a step of v.
KernelStep(v) ==
  \/ UNCHANGED kernelVars
  \/ \E d \in Links : DeleteNetDev(d) \/ AddUp(d) \/ AddDown(d) \/ SetDown(d)
  \/ CreateVethPair(v) \/ CreateVethPairPartly(v)
  \/ <<"qvb", v>> \in devs /\ Enslave(v)
  \/ DeleteBridge(v) \/ DeleteBridgePartly(v)

LEMMA KernelStepType ==
  ASSUME TypeOK, NEW v \in Vifs, KernelStep(v), UNCHANGED ovsdbVars
  PROVE  NetTypeOK'
<1>1. KernelTypeOK'
  BY KernelType, NetType DEF TypeOK, KernelStep
<1>2. OvsdbTypeOK'
  BY NetType DEF TypeOK, OvsdbTypeOK, ovsdbVars, portVars
<1> QED
  BY <1>1, <1>2 DEF NetTypeOK, KernelTypeOK, OvsdbTypeOK

\* The database's side, but for the transactions that make ports.
OvsdbStep ==
  \/ \E b \in AllBridges, t \in {"system", "netdev"} :
       AddBr(b, t) /\ UNCHANGED <<portVars, qosRows>>
  \/ \E p \in Ports, b \in AllBridges : DelPort(p, b)
  \/ \E b \in AllBridges : DelBr(b)
  \/ \E p \in Ports :
       (DeleteQos(p) \/ CreateQos(p)) /\ UNCHANGED <<brType, portVars>>

LEMMA KernelKept ==
  ASSUME TypeOK, UNCHANGED kernelVars, OvsdbTypeOK'
  PROVE  NetTypeOK'
BY DEF TypeOK, NetTypeOK, OvsdbTypeOK, kernelVars

LEMMA OvsdbStepType ==
  ASSUME TypeOK, OvsdbStep, UNCHANGED kernelVars
  PROVE  NetTypeOK'
<1>1. OvsdbTypeOK
  BY NetType DEF TypeOK
<1>2. ASSUME NEW b \in AllBridges, NEW t \in {"system", "netdev"},
             AddBr(b, t), UNCHANGED <<portVars, qosRows>>
      PROVE  OvsdbTypeOK'
  BY <1>1, <1>2 DEF AddBr, portVars, OvsdbTypeOK
<1>3. ASSUME NEW p \in Ports, DeleteQos(p) \/ CreateQos(p),
             UNCHANGED <<brType, portVars>>
      PROVE  OvsdbTypeOK'
  BY <1>1, <1>3 DEF DeleteQos, CreateQos, portVars, OvsdbTypeOK
<1>4. OvsdbTypeOK'
  BY <1>1, <1>2, <1>3, DeleteType DEF OvsdbStep
<1> QED
  BY <1>4, KernelKept

LEMMA PortTransactionType ==
  ASSUME Typed, NEW v \in Vifs, pc[v] \in PlugWork,
         PortTransaction(v), UNCHANGED qosRows
  PROVE  OvsdbTypeOK'
<1> DEFINE b == PlugBridge(v)
           t == VhostDatapath(v)
<1>1. OvsdbTypeOK
  BY NetType DEF Typed, TypeOK
<1>2. b \in AllBridges /\ port[v] \in Ports
  BY Places, WorkPort
<1>3. t \in {"system", "netdev"}
  BY DEF VhostDatapath
<1>4. brType' \in [AllBridges -> {"absent", "system", "netdev"}]
  BY <1>1, <1>2, <1>3 DEF PortTransaction, OvsdbTypeOK, AddBr
<1>5. CASE UNCHANGED <<brType, portVars>>
  BY <1>1, <1>5 DEF OvsdbTypeOK, portVars
<1>6. CASE PutPort(port[v], b, v \in isolating,
                   ~UsesPortBridge(v, Kind[v]), v \in qosing)
  <2>1. /\ portBr' \in [Ports -> AllBridges \cup {NoBridge}]
        /\ tag' \in [Ports -> {"none", "dead", "local"}]
        /\ ids' \subseteq Ports
        /\ portQos' \subseteq Ports
    BY <1>1, <1>2, <1>6, PutType
  <2> QED
    BY <1>1, <1>4, <2>1 DEF OvsdbTypeOK
<1> QED
  BY <1>5, <1>6 DEF PortTransaction

LEMMA LinkNames ==
  ASSUME NEW v \in Vifs, NEW k \in LinkKinds
  PROVE  <<k, v>> \in Links
BY DEF Links, LinkKinds

LEMMA PlugStepTyped ==
  ASSUME Typed, NEW v \in Vifs, PlugStep(v)
  PROVE  NetTypeOK' /\ CallTyped'
<1>0. TypeOK
  BY DEF Typed
<1>1. CASE Plug(v)
  <2>1. NetTypeOK'
    BY <1>0, <1>1, SkipNetType DEF Plug
  <2>2. CASE v \in BadProfile
    BY <1>0, <1>1, <2>1, <2>2, CountType, EndMove DEF Plug
  <2>3. CASE v \notin BadProfile
    <3>1. PICK l \in PlugWork : Goto(v, l)
      BY <1>1, <2>3 DEF Plug, PlugWork, PlugPcs
    <3>2. port' = [port EXCEPT ![v] = MainPort(v)] /\ MainPort(v) \in Ports
      BY <1>1, <2>3, Places DEF Plug, MainPort
    <3>3. CallTypeOK'
      BY <1>0, <1>1, <2>3, <3>1, <3>2, CountType
         DEF Plug, TypeOK, CallTypeOK, Goto, Labels, PlugWork
    <3>4. PlugWork \cap UnplugWork = {}
      BY DEF PlugWork, UnplugWork, PlugPcs, UnplugPcs
    <3>5. PortChosen'
      BY <1>0, <3>1, <3>2, <3>4
         DEF Typed, TypeOK, CallTypeOK, PortChosen, Goto, MainPort
    <3> QED
      BY <2>1, <3>3, <3>5 DEF CallTyped
  <2> QED
    BY <2>2, <2>3
<1>2. CASE EnsureBridge(v)
  <2>1. <<"qbr", v>> \in Links /\ pc[v] \in PlugWork
        /\ "exists_veth" \in PlugWork
    BY <1>2, LinkNames DEF EnsureBridge, At, PlugWork, PlugPcs, LinkKinds
  <2>2. Counted
    BY <1>0, <1>2, CountType DEF EnsureBridge
  <2>3. KernelStep(v) /\ UNCHANGED ovsdbVars
    BY <1>2, <2>1 DEF EnsureBridge, KernelStep, Partial, netVars, ovsdbVars
  <2>4. CallTyped'
    BY <1>2, <2>1, <2>2, PlugProceed, EndMove DEF EnsureBridge
  <2> QED
    BY <1>0, <2>3, <2>4, KernelStepType
<1>3. CASE ExistsVeth(v)
  <2>1. /\ pc[v] \in PlugWork
        /\ \E l \in PlugWork : Proceed(v, l)
    BY <1>3 DEF ExistsVeth, At, PlugWork, PlugPcs
  <2> QED
    BY <1>0, <1>3, <2>1, SkipNetType, CountType, PlugProceed DEF ExistsVeth
<1>4. CASE CreateVeth(v)
  <2>1. pc[v] \in PlugWork /\ "add_bridge_port" \in PlugWork
    BY <1>4 DEF CreateVeth, At, PlugWork, PlugPcs
  <2>2. Counted
    BY <1>0, <1>4, CountType DEF CreateVeth
  <2>3. KernelStep(v) /\ UNCHANGED ovsdbVars
    BY <1>4 DEF CreateVeth, KernelStep, Partial, netVars, ovsdbVars
  <2>4. CallTyped'
    BY <1>4, <2>1, <2>2, PlugProceed, EndMove DEF CreateVeth
  <2> QED
    BY <1>0, <2>3, <2>4, KernelStepType
<1>5. CASE AddBridgePort(v)
  <2>1. pc[v] \in PlugWork /\ "ensure_int_bridge" \in PlugWork
    BY <1>5 DEF AddBridgePort, At, PlugWork, PlugPcs
  <2>2. Counted
    BY <1>0, <1>5, CountType DEF AddBridgePort
  <2>3. KernelStep(v) /\ UNCHANGED ovsdbVars
    BY <1>5 DEF AddBridgePort, KernelStep
  <2>4. CallTyped'
    BY <1>5, <2>1, <2>2, PlugProceed, EndMove DEF AddBridgePort
  <2> QED
    BY <1>0, <2>3, <2>4, KernelStepType
<1>6. CASE UpdateVeth(v)
  BY <1>0, <1>6, SkipNetType, CountType, EndMove DEF UpdateVeth
<1>7. CASE EnsureIntBridge(v)
  <2>1. /\ pc[v] \in PlugWork
        /\ Succeed(v) \/ \E l \in PlugWork : Proceed(v, l)
    BY <1>7 DEF EnsureIntBridge, At, PlugWork, PlugPcs
  <2>2. Counted
    BY <1>0, <1>7, CountType DEF EnsureIntBridge
  <2>3. DatapathOf(v) \in {"system", "netdev"}
    BY DEF DatapathOf
  <2>4. NetTypeOK'
    BY <1>0, <1>7, <2>3, Places, LostType, OvsdbStepType
       DEF EnsureIntBridge, OvsdbStep
  <2> QED
    BY <2>1, <2>2, <2>4, PlugProceed, EndMove
<1>8. CASE EnsurePortBridge(v)
  <2>1. pc[v] \in PlugWork /\ "isolate_vif" \in PlugWork
    BY <1>8 DEF EnsurePortBridge, At, PlugWork, PlugPcs
  <2>2. Counted
    BY <1>0, <1>8, CountType DEF EnsurePortBridge
  <2>3. DatapathOf(v) \in {"system", "netdev"}
    BY DEF DatapathOf
  <2>4. NetTypeOK'
    BY <1>0, <1>8, <2>3, Places, LostType, OvsdbStepType
       DEF EnsurePortBridge, OvsdbStep
  <2> QED
    BY <1>8, <2>1, <2>2, <2>4, PlugProceed DEF EnsurePortBridge
<1>9. CASE SetRepresentorUp(v)
  <2>1. <<"rep", v>> \in Links /\ pc[v] \in PlugWork
        /\ "isolate_vif" \in PlugWork
    BY <1>9, LinkNames DEF SetRepresentorUp, At, PlugWork, PlugPcs, LinkKinds
  <2>2. KernelStep(v) /\ UNCHANGED ovsdbVars
    BY <1>9, <2>1 DEF SetRepresentorUp, KernelStep
  <2> QED
    BY <1>0, <1>9, <2>1, <2>2, KernelStepType, CountType, PlugProceed
       DEF SetRepresentorUp
<1>10. CASE Isolate(v)
  <2>1. pc[v] \in PlugWork /\ "exists_port" \in PlugWork
    BY <1>10 DEF Isolate, At, PlugWork, PlugPcs
  <2>2. Counted
    BY <1>0, <1>10, CountType DEF Isolate
  <2>3. NetTypeOK'
    BY <1>0, <1>10, SkipNetType, LostType DEF Isolate
  <2>4. isolating' \subseteq Vifs /\ qosing' \subseteq Vifs /\ port' = port
    BY <1>0, <1>10 DEF Isolate, TypeOK, CallTypeOK
  <2> QED
    BY <1>10, <2>1, <2>2, <2>3, <2>4, PlugMove DEF Isolate
<1>11. CASE ExistsPort(v)
  <2>1. pc[v] \in PlugWork /\ \E l \in PlugWork : Goto(v, l)
    BY <1>11 DEF ExistsPort, At, PlugWork, PlugPcs
  <2>2. Counted
    BY <1>0, <1>11, CountType DEF ExistsPort
  <2>3. NetTypeOK'
    BY <1>0, <1>11, SkipNetType, LostType DEF ExistsPort
  <2>4. isolating' \subseteq Vifs /\ qosing' \subseteq Vifs /\ port' = port
    BY <1>0, <1>11 DEF ExistsPort, TypeOK, CallTypeOK
  <2> QED
    BY <2>1, <2>2, <2>3, <2>4, PlugMove
<1>12. CASE DeleteOldQos(v)
  <2>1. pc[v] \in PlugWork /\ "create_qos" \in PlugWork
    BY <1>12 DEF DeleteOldQos, At, PlugWork, PlugPcs
  <2>2. Counted
    BY <1>0, <1>12, CountType DEF DeleteOldQos
  <2>3. NetTypeOK'
    BY <1>0, <1>12, <2>1, WorkPort, LostType, OvsdbStepType
       DEF DeleteOldQos, OvsdbStep
  <2> QED
    BY <1>12, <2>1, <2>2, <2>3, PlugProceed DEF DeleteOldQos
<1>13. CASE CreateNewQos(v)
  <2>1. pc[v] \in PlugWork /\ "get_qos" \in PlugWork
    BY <1>13 DEF CreateNewQos, At, PlugWork, PlugPcs
  <2>2. Counted
    BY <1>0, <1>13, CountType DEF CreateNewQos
  <2>3. NetTypeOK'
    BY <1>0, <1>13, <2>1, WorkPort, OvsdbStepType
       DEF CreateNewQos, OvsdbStep
  <2> QED
    BY <1>13, <2>1, <2>2, <2>3, PlugProceed, EndMove DEF CreateNewQos
<1>14. CASE GetQos(v)
  <2>1. pc[v] \in PlugWork /\ "create_ovs_vif_port" \in PlugWork
    BY <1>14 DEF GetQos, At, PlugWork, PlugPcs
  <2>2. Counted
    BY <1>0, <1>14, CountType DEF GetQos
  <2>3. NetTypeOK'
    BY <1>0, <1>14, SkipNetType, LostType DEF GetQos
  <2> QED
    BY <1>14, <2>1, <2>2, <2>3, PlugProceed, EndMove DEF GetQos
<1>15. CASE CreateOvsVifPort(v)
  <2>1. pc[v] \in PlugWork
    BY <1>15 DEF CreateOvsVifPort, At, PlugWork, PlugPcs
  <2>2. Counted
    BY <1>0, <1>15, CountType DEF CreateOvsVifPort
  <2>3. NetTypeOK'
    BY <1>0, <1>15, <2>1, PortTransactionType, KernelKept, LostType
       DEF CreateOvsVifPort
  <2>4. Succeed(v) \/ Fail(v) \/ \E l \in PlugWork : Proceed(v, l)
    BY <1>15 DEF CreateOvsVifPort, PortDone, PlugWork, PlugPcs
  <2> QED
    BY <2>1, <2>2, <2>3, <2>4, PlugProceed, EndMove
<1>16. CASE CreateTapDevice(v)
  <2>1. <<"tap", v>> \in Links /\ pc[v] \in PlugWork
    BY <1>16, LinkNames DEF CreateTapDevice, At, PlugWork, PlugPcs, LinkKinds
  <2>2. Counted
    BY <1>0, <1>16, CountType DEF CreateTapDevice
  <2>3. KernelStep(v) /\ UNCHANGED ovsdbVars
    BY <1>16, <2>1 DEF CreateTapDevice, KernelStep, Partial, netVars
  <2>4. Succeed(v) \/ Fail(v) \/ \E l \in PlugWork : Proceed(v, l)
    BY <1>16 DEF CreateTapDevice, PortDone, PlugWork, PlugPcs
  <2> QED
    BY <1>0, <2>1, <2>2, <2>3, <2>4, KernelStepType, PlugProceed, EndMove
<1>17. CASE IsolatePatch(v)
  <2>1. pc[v] \in PlugWork /\ "create_patch_port_pair" \in PlugWork
    BY <1>17 DEF IsolatePatch, At, PlugWork, PlugPcs
  <2>2. Counted
    BY <1>0, <1>17, CountType DEF IsolatePatch
  <2>3. NetTypeOK'
    BY <1>0, <1>17, SkipNetType, LostType DEF IsolatePatch
  <2>4. isolating' \subseteq Vifs /\ qosing' \subseteq Vifs /\ port' = port
    BY <1>0, <1>17 DEF IsolatePatch, TypeOK, CallTypeOK
  <2> QED
    BY <1>17, <2>1, <2>2, <2>3, <2>4, PlugMove DEF IsolatePatch
<1>18. CASE CreatePatchPortPair(v)
  <2>1. Counted
    BY <1>0, <1>18, CountType DEF CreatePatchPortPair
  <2>2. OvsdbTypeOK
    BY <1>0, NetType DEF TypeOK
  <2>3. NetTypeOK'
    BY <1>0, <1>18, <2>2, PatchType, KernelKept, LostType
       DEF CreatePatchPortPair
  <2> QED
    BY <1>18, <2>1, <2>3, EndMove DEF CreatePatchPortPair
<1> QED
  BY <1>1, <1>2, <1>3, <1>4, <1>5, <1>6, <1>7, <1>8, <1>9, <1>10, <1>11,
     <1>12, <1>13, <1>14, <1>15, <1>16, <1>17, <1>18 DEF PlugStep

LEMMA UnplugStepTyped ==
  ASSUME Typed, NEW v \in Vifs, UnplugStep(v)
  PROVE  NetTypeOK' /\ CallTyped'
<1>0. TypeOK
  BY DEF Typed
<1>1. CASE Unplug(v)
  <2>1. NetTypeOK' /\ Counted
    BY <1>0, <1>1, SkipNetType, CountType DEF Unplug
  <2>2. CASE v \in BadProfile
    BY <1>1, <2>1, <2>2, EndMove DEF Unplug
  <2>3. CASE v \notin BadProfile
    <3>1. PICK l \in UnplugWork : Goto(v, l)
      BY <1>1, <2>3 DEF Unplug, UnplugWork, UnplugPcs
    <3>2. \E p \in PortsOf(v) : port' = [port EXCEPT ![v] = p]
      BY <1>1, <2>3, PortNames DEF Unplug
    <3>3. isolating' \subseteq Vifs /\ qosing' \subseteq Vifs
      BY <1>0, <1>1, <2>3 DEF Unplug, TypeOK, CallTypeOK
    <3> QED
      BY <2>1, <3>1, <3>2, <3>3, UnplugMove
  <2> QED
    BY <2>2, <2>3
<1>2. CASE ExistsQbr(v)
  <2>1. NetTypeOK' /\ Counted
    BY <1>0, <1>2, SkipNetType, CountType DEF ExistsQbr
  <2>2. pc[v] \in UnplugWork
    BY <1>2 DEF ExistsQbr, At, UnplugWork, UnplugPcs
  <2>3. \E l \in UnplugWork : Goto(v, l)
    BY <1>2 DEF ExistsQbr, UnplugWork, UnplugPcs
  <2>4. port' = [port EXCEPT ![v] = port[v]]
        \/ port' = [port EXCEPT ![v] = PortName(v, "bridge")]
    BY <1>0, <1>2 DEF ExistsQbr, TypeOK, CallTypeOK
  <2>5. PortName(v, "bridge") \in PortsOf(v)
    BY PortNames DEF Kinds
  <2>6. isolating' \subseteq Vifs /\ qosing' \subseteq Vifs
    BY <1>0, <1>2 DEF ExistsQbr, TypeOK, CallTypeOK
  <2> QED
    BY <2>1, <2>2, <2>3, <2>4, <2>5, <2>6, WorkPort, UnplugMove
<1>3. CASE DeleteLinuxBridge(v)
  <2>1. pc[v] \in UnplugWork /\ "delete_port" \in UnplugWork
    BY <1>3 DEF DeleteLinuxBridge, At, UnplugWork, UnplugPcs
  <2>2. Counted
    BY <1>0, <1>3, CountType DEF DeleteLinuxBridge
  <2>3. KernelStep(v) /\ UNCHANGED ovsdbVars
    BY <1>3 DEF DeleteLinuxBridge, KernelStep, Partial
  <2>4. CallTyped'
    BY <1>3, <2>1, <2>2, UnplugProceed, EndMove DEF DeleteLinuxBridge
  <2> QED
    BY <1>0, <2>3, <2>4, KernelStepType
<1>4. CASE FindRepresentor(v)
  <2>1. pc[v] \in UnplugWork /\ "delete_port" \in UnplugWork
    BY <1>4 DEF FindRepresentor, At, UnplugWork, UnplugPcs
  <2> QED
    BY <1>0, <1>4, <2>1, SkipNetType, CountType, UnplugProceed
       DEF FindRepresentor
<1>5. CASE DeleteTap(v)
  <2>1. /\ pc[v] \in UnplugWork
        /\ \E l \in UnplugWork : Proceed(v, l)
    BY <1>5 DEF DeleteTap, At, UnplugWork, UnplugPcs
  <2>2. KernelStep(v) /\ UNCHANGED ovsdbVars
    BY <1>5, LinkNames DEF DeleteTap, KernelStep, LinkKinds
  <2> QED
    BY <1>0, <1>5, <2>1, <2>2, KernelStepType, CountType, UnplugProceed
       DEF DeleteTap
<1>6. CASE DeleteIntPatch(v)
  <2>1. pc[v] \in UnplugWork /\ "delete_port_patch" \in UnplugWork
    BY <1>6 DEF DeleteIntPatch, At, UnplugWork, UnplugPcs
  <2>2. Counted
    BY <1>0, <1>6, CountType DEF DeleteIntPatch, DeletePatch
  <2>3. <<"ibp", v>> \in Ports
    BY DEF Ports, PortKinds
  <2>4. NetTypeOK'
    BY <1>0, <1>6, <2>3, Places, LostType, OvsdbStepType
       DEF DeleteIntPatch, DeletePatch, OvsdbStep
  <2> QED
    BY <1>6, <2>1, <2>2, <2>4, UnplugProceed, EndMove
       DEF DeleteIntPatch, DeletePatch
<1>7. CASE DeletePortPatch(v)
  <2>1. pc[v] \in UnplugWork /\ "delete_port" \in UnplugWork
    BY <1>7 DEF DeletePortPatch, At, UnplugWork, UnplugPcs
  <2>2. Counted
    BY <1>0, <1>7, CountType DEF DeletePortPatch, DeletePatch
  <2>3. <<"pbp", v>> \in Ports
    BY DEF Ports, PortKinds
  <2>4. NetTypeOK'
    BY <1>0, <1>7, <2>3, Places, LostType, OvsdbStepType
       DEF DeletePortPatch, DeletePatch, OvsdbStep
  <2> QED
    BY <1>7, <2>1, <2>2, <2>4, UnplugProceed, EndMove
       DEF DeletePortPatch, DeletePatch
<1>8. CASE DeleteOvsVifPort(v)
  <2>1. pc[v] \in UnplugWork
    BY <1>8 DEF DeleteOvsVifPort, At, UnplugWork, UnplugPcs
  <2>2. \E l \in UnplugWork : Proceed(v, l)
    BY <1>8 DEF DeleteOvsVifPort, AfterQos, UnplugWork, UnplugPcs
  <2>3. Counted
    BY <1>0, <1>8, CountType DEF DeleteOvsVifPort
  <2>4. NetTypeOK'
    BY <1>0, <1>8, <2>1, WorkPort, Places, LostType, OvsdbStepType
       DEF DeleteOvsVifPort, OvsdbStep
  <2> QED
    BY <2>1, <2>2, <2>3, <2>4, UnplugProceed
<1>9. CASE CleanQos(v)
  <2>1. pc[v] \in UnplugWork
    BY <1>9 DEF CleanQos, At, UnplugWork, UnplugPcs
  <2>2. \E l \in UnplugWork : Proceed(v, l)
    BY <1>9 DEF CleanQos, AfterQos, UnplugWork, UnplugPcs
  <2>3. Counted
    BY <1>0, <1>9, CountType DEF CleanQos
  <2>4. NetTypeOK'
    BY <1>0, <1>9, <2>1, WorkPort, LostType, OvsdbStepType
       DEF CleanQos, OvsdbStep
  <2> QED
    BY <2>1, <2>2, <2>3, <2>4, UnplugProceed
<1>10. CASE DeletePortDevice(v)
  <2>1. /\ pc[v] \in UnplugWork
        /\ \E l \in UnplugWork : Proceed(v, l)
    BY <1>10 DEF DeletePortDevice, At, UnplugWork, UnplugPcs
  <2>2. devs \subseteq Links
    BY <1>0 DEF TypeOK, NetTypeOK
  <2>3. KernelStep(v) /\ UNCHANGED ovsdbVars
    BY <1>10, <2>2 DEF DeletePortDevice, KernelStep
  <2> QED
    BY <1>0, <1>10, <2>1, <2>3, KernelStepType, CountType, UnplugProceed
       DEF DeletePortDevice
<1>11. CASE DeletePortBridge(v)
  <2>1. pc[v] \in UnplugWork /\ "delete_trunk" \in UnplugWork
    BY <1>11 DEF DeletePortBridge, At, UnplugWork, UnplugPcs
  <2>2. Counted
    BY <1>0, <1>11, CountType DEF DeletePortBridge
  <2>3. NetTypeOK'
    BY <1>0, <1>11, Places, LostType, OvsdbStepType
       DEF DeletePortBridge, OvsdbStep
  <2> QED
    BY <1>11, <2>1, <2>2, <2>3, UnplugProceed DEF DeletePortBridge
<1>12. CASE SetRepresentorDown(v)
  <2>1. pc[v] \in UnplugWork /\ "delete_trunk" \in UnplugWork
    BY <1>12 DEF SetRepresentorDown, At, UnplugWork, UnplugPcs
  <2>2. NetTypeOK'
    BY <1>0, <1>12
       DEF SetRepresentorDown, SetDown, TypeOK, NetTypeOK, ovsdbVars,
           portVars
  <2> QED
    BY <1>0, <1>12, <2>1, <2>2, CountType, UnplugProceed
       DEF SetRepresentorDown
<1>13. CASE DeleteTrunk(v)
  <2>1. Counted
    BY <1>0, <1>13, CountType DEF DeleteTrunk
  <2>2. NetTypeOK'
    BY <1>0, <1>13, Places, SkipNetType, LostType, OvsdbStepType
       DEF DeleteTrunk, OvsdbStep
  <2> QED
    BY <1>13, <2>1, <2>2, EndMove DEF DeleteTrunk
<1> QED
  BY <1>1, <1>2, <1>3, <1>4, <1>5, <1>6, <1>7, <1>8, <1>9, <1>10, <1>11,
     <1>12, <1>13 DEF UnplugStep

LEMMA BeginTyped ==
  ASSUME Typed, NEW v \in Vifs, BeginPlug(v) \/ BeginUnplug(v)
  PROVE  NetTypeOK' /\ CallTyped'
<1>1. TypeOK
  BY DEF Typed
<1>2. NetTypeOK' /\ Counted
  BY <1>1, SkipNetType DEF BeginPlug, BeginUnplug, TypeOK, CallTypeOK
<1>3. CallTypeOK'
  BY <1>1, <1>2
     DEF BeginPlug, BeginUnplug, localVars, Counted, TypeOK, CallTypeOK,
         Labels, PlugPcs, UnplugPcs, Results
<1>4. {"plug", "unplug"} \cap (PlugWork \cup UnplugWork) = {}
  BY DEF PlugWork, UnplugWork, PlugPcs, UnplugPcs
<1>5. PortChosen'
  BY <1>1, <1>4
     DEF BeginPlug, BeginUnplug, localVars, Typed, TypeOK, CallTypeOK,
         PortChosen, MainPort
<1> QED
  BY <1>2, <1>3, <1>5 DEF CallTyped

LEMMA StopTyped ==
  ASSUME Typed, Crash \/ Reboot
  PROVE  NetTypeOK' /\ CallTyped'
<1>1. TypeOK
  BY DEF Typed
<1>2. \E S : AbandonCalls(S)
  BY DEF Crash, Reboot
<1>3. Counted
  BY <1>1, FaultType DEF Crash, Reboot, TypeOK, CallTypeOK
<1>4. CallTypeOK'
  BY <1>1, <1>2, <1>3
     DEF AbandonCalls, TypeOK, CallTypeOK, Labels, Results
<1>5. "idle" \notin PlugWork \cup UnplugWork
  BY DEF PlugWork, UnplugWork, PlugPcs, UnplugPcs
<1>6. PortChosen'
  BY <1>2, <1>5 DEF AbandonCalls, PortChosen
<1>7. CASE Crash
  BY <1>1, <1>4, <1>6, <1>7, SkipNetType DEF Crash, CallTyped
<1>8. CASE Reboot
  <2>1. OvsdbTypeOK'
    BY <1>1, <1>8, NetType
       DEF Reboot, TypeOK, OvsdbTypeOK, ovsdbVars, portVars
  <2>2. KernelTypeOK'
    BY <1>8 DEF Reboot, KernelTypeOK, Links, LinkKinds
  <2>3. NetTypeOK'
    BY <2>1, <2>2 DEF NetTypeOK, KernelTypeOK, OvsdbTypeOK
  <2> QED
    BY <1>4, <1>6, <2>3 DEF CallTyped
<1> QED
  BY <1>7, <1>8

LEMMA OutsideTyped ==
  ASSUME Typed, NEW v \in Vifs,
         AgentWires(v) \/ LibvirtPlugs(v) \/ LibvirtUnplugs(v)
  PROVE  NetTypeOK' /\ CallTyped'
<1>1. TypeOK /\ PortChosen
  BY DEF Typed
<1>2. <<"tap", v>> \in Ports /\ <<"tap", v>> \in Links
  BY LinkNames DEF Ports, PortKinds, LinkKinds
<1>3. pc' = pc /\ port' = port
  BY DEF AgentWires, LibvirtPlugs, LibvirtUnplugs, localVars
<1>4. PortChosen'
  BY <1>1, <1>3 DEF PortChosen, MainPort
<1>0. ASSUME UNCHANGED <<raced, misled, faults>> \/ Untimely(v)
      PROVE  /\ raced' \subseteq Vifs /\ misled' \subseteq Vifs
             /\ faults' \in 0 .. MaxFaults
  BY <1>1, <1>0, FaultType DEF Untimely, TypeOK, CallTypeOK
<1>5. CASE AgentWires(v)
  <2>1. CallTypeOK'
    BY <1>1, <1>5 DEF AgentWires, TypeOK, CallTypeOK, localVars, NoFault
  <2>2. NetTypeOK'
    BY <1>1, <1>5 DEF AgentWires, TypeOK, NetTypeOK, kernelVars
  <2> QED
    BY <1>4, <2>1, <2>2 DEF CallTyped
<1>6. CASE LibvirtPlugs(v)
  <2>1. CallTypeOK'
    BY <1>1, <1>0, <1>6 DEF LibvirtPlugs, TypeOK, CallTypeOK, localVars
  <2>2. NetTypeOK'
    BY <1>1, <1>2, <1>6, Places
       DEF LibvirtPlugs, AddUp, TypeOK, NetTypeOK
  <2> QED
    BY <1>4, <2>1, <2>2 DEF CallTyped
<1>7. CASE LibvirtUnplugs(v)
  <2>1. CallTypeOK'
    BY <1>1, <1>0, <1>7
       DEF LibvirtUnplugs, TypeOK, CallTypeOK, localVars, Results
  <2>2. KernelTypeOK'
    BY <1>1, <1>2, <1>7, KernelType, NetType DEF LibvirtUnplugs, TypeOK
  <2>3. OvsdbTypeOK'
    BY <1>1, <1>2, <1>7, DeleteType, NetType, Places
       DEF LibvirtUnplugs, TypeOK
  <2>4. NetTypeOK'
    BY <2>2, <2>3 DEF NetTypeOK, KernelTypeOK, OvsdbTypeOK
  <2> QED
    BY <1>4, <2>1, <2>4 DEF CallTyped
<1> QED
  BY <1>5, <1>6, <1>7

LEMMA RaisesTyped ==
  ASSUME Typed, NEW v \in Vifs, StepRaises(v)
  PROVE  NetTypeOK' /\ CallTyped'
<1>1. TypeOK
  BY DEF Typed
<1>2. Counted
  BY <1>1, CountType DEF StepRaises
<1>3. CallTyped'
  BY <1>2, EndMove DEF StepRaises, Counted
<1>4. NetTypeOK'
  BY <1>1, SkipNetType DEF StepRaises
<1> QED
  BY <1>3, <1>4

LEMMA TypedInvariant == Spec => []Typed
<1>1. Init => Typed
  <2> SUFFICES ASSUME Init PROVE Typed
    OBVIOUS
  <2>1. NetTypeOK
    BY DEF Init, NetInit, NetTypeOK, Links, LinkKinds
  <2>2. CallTypeOK
    BY DEF Init, CallTypeOK, Labels, Results
  <2>3. PortChosen
    BY DEF Init, PortChosen, PlugWork, UnplugWork, PlugPcs, UnplugPcs
  <2> QED
    BY <2>1, <2>2, <2>3 DEF Typed, TypeOK
<1>2. Typed /\ [Next]_vars => Typed'
  <2> SUFFICES ASSUME Typed, [Next]_vars PROVE Typed'
    OBVIOUS
  <2>1. CASE UNCHANGED vars
    <3>1. NetTypeOK'
      BY <2>1, SkipNetType DEF vars, Typed
    <3>2. CallTypeOK' /\ PortChosen'
      BY <2>1 DEF vars, localVars, Typed, TypeOK, CallTypeOK, PortChosen,
                  MainPort
    <3> QED
      BY <3>1, <3>2 DEF Typed, TypeOK
  <2>2. CASE Next
    <3>1. NetTypeOK' /\ CallTyped'
      BY <2>2, BeginTyped, PlugStepTyped, UnplugStepTyped, RaisesTyped,
         OutsideTyped, StopTyped DEF Next
    <3> QED
      BY <3>1 DEF Typed, TypeOK, CallTyped
  <2> QED
    BY <2>1, <2>2
<1> QED
  BY <1>1, <1>2, PTL DEF Spec

\* Type correctness: whatever calls, failures and surroundings do, links,
\* ports and the local state of every call stay within TypeOK (ovs.py).
THEOREM TypeCorrect == Spec => []TypeOK
<1>1. Typed => TypeOK
  BY DEF Typed
<1> QED
  BY <1>1, TypedInvariant, PTL

-----------------------------------------------------------------------------
(* A QoS row is made only for a port that has none: the rows of the port   *)
(* were deleted one step before, which worked because no port referred to  *)
(* one of them, because only the port on PlugBridge ever does.             *)

QosPcs == {"delete_qos", "create_qos"}

QosColumns ==
  \A v \in Vifs : \A p \in PortsOf(v) \cap portQos :
    p = MainPort(v) /\ portBr[p] = PlugBridge(v)

QosInv ==
  /\ OneQosRow
  /\ QosColumns
  /\ \A v \in Vifs : pc[v] \in QosPcs => port[v] \notin portQos
  /\ \A v \in Vifs : pc[v] = "create_qos" => qosRows[port[v]] = 0

\* No port gains a reference to a QoS row, or moves while it has one.
ColumnsKept ==
  \A p \in Ports : p \in portQos' => p \in portQos /\ portBr'[p] = portBr[p]

\* No call comes to the steps around the creation of a row.
QosPcsKept ==
  \A v \in Vifs : pc'[v] \in QosPcs => pc'[v] = pc[v] /\ port'[v] = port[v]

LEMMA OwnerOf ==
  ASSUME NEW p \in Ports
  PROVE  \E v \in Vifs : p \in PortsOf(v)
BY DEF Ports, PortsOf

LEMMA OwnPorts ==
  ASSUME NEW v \in Vifs, NEW w \in Vifs, v # w
  PROVE  PortsOf(v) \cap PortsOf(w) = {}
BY DEF PortsOf

LEMMA QosFrame ==
  ASSUME Typed, QosInv, ColumnsKept, QosPcsKept, UNCHANGED qosRows
  PROVE  QosInv'
<1>1. OneQosRow'
  BY DEF QosInv, OneQosRow
<1>2. QosColumns'
  BY Places DEF QosInv, QosColumns, ColumnsKept, MainPort, PlugBridge
<1>3. \A v \in Vifs : pc'[v] \in QosPcs => port'[v] \in Ports
  BY WorkPort DEF QosPcsKept, QosPcs, PlugWork, PlugPcs
<1>4. \A v \in Vifs : pc'[v] \in QosPcs => port'[v] \notin portQos'
  BY <1>3 DEF QosInv, ColumnsKept, QosPcsKept
<1>5. \A v \in Vifs : pc'[v] = "create_qos" => qosRows'[port'[v]] = 0
  BY DEF QosInv, QosPcsKept, QosPcs
<1> QED
  BY <1>1, <1>2, <1>4, <1>5 DEF QosInv

LEMMA PcsFrame ==
  ASSUME TypeOK, NEW v \in Vifs,
         \/ Succeed(v) \/ Fail(v)
         \/ \E l \in Labels \ QosPcs : Goto(v, l)
                                      /\ \E p : port' = [port EXCEPT ![v] = p]
         \/ \E l \in Labels \ QosPcs : Proceed(v, l)
         \/ UNCHANGED <<pc, port>>
  PROVE  QosPcsKept
<1>1. pc \in [Vifs -> Labels] /\ port \in [Vifs -> Ports \cup {NoPort}]
  BY DEF TypeOK, CallTypeOK
<1>2. "idle" \notin QosPcs
  BY DEF QosPcs
<1> QED
  BY <1>1, <1>2
     DEF QosPcsKept, Succeed, Fail, Return, Goto, Proceed, localVars

LEMMA ColumnsFrame ==
  ASSUME TypeOK,
         \/ UNCHANGED portVars
         \/ \E p, b : DelPort(p, b)
         \/ \E b : DelBr(b)
  PROVE  ColumnsKept
BY DEF TypeOK, NetTypeOK, portVars, DelPort, DelBr, RemovePorts, ColumnsKept

\* The steps of plug() that leave ports and QoS rows alone.
QuietPlugStep(v) ==
  \/ Plug(v)
  \/ EnsureBridge(v) \/ ExistsVeth(v) \/ CreateVeth(v) \/ AddBridgePort(v)
  \/ UpdateVeth(v)
  \/ EnsureIntBridge(v) \/ EnsurePortBridge(v) \/ SetRepresentorUp(v)
  \/ Isolate(v) \/ GetQos(v) \/ CreateTapDevice(v) \/ IsolatePatch(v)

LEMMA QuietPlugNet ==
  ASSUME NEW v \in Vifs, QuietPlugStep(v)
  PROVE  UNCHANGED <<portVars, qosRows>>
<1> USE DEF Lost, Partial, netVars, ovsdbVars
<1>1. CASE Plug(v) \/ EnsureBridge(v) \/ ExistsVeth(v) \/ CreateVeth(v)
  BY <1>1 DEF Plug, EnsureBridge, ExistsVeth, CreateVeth
<1>2. CASE AddBridgePort(v) \/ UpdateVeth(v) \/ EnsureIntBridge(v)
  BY <1>2 DEF AddBridgePort, UpdateVeth, EnsureIntBridge
<1>3. CASE EnsurePortBridge(v) \/ SetRepresentorUp(v) \/ Isolate(v)
  BY <1>3 DEF EnsurePortBridge, SetRepresentorUp, Isolate
<1>4. CASE GetQos(v) \/ CreateTapDevice(v) \/ IsolatePatch(v)
  BY <1>4 DEF GetQos, CreateTapDevice, IsolatePatch
<1> QED
  BY <1>1, <1>2, <1>3, <1>4 DEF QuietPlugStep

LEMMA QuietPlugPcs ==
  ASSUME TypeOK, NEW v \in Vifs, QuietPlugStep(v)
  PROVE  QosPcsKept
<1> USE DEF Labels, PlugPcs, QosPcs
<1>1. port = [port EXCEPT ![v] = port[v]]
  BY DEF TypeOK, CallTypeOK
<1>2. CASE Plug(v)
  BY <1>2, PcsFrame DEF Plug
<1>3. CASE EnsureBridge(v) \/ ExistsVeth(v) \/ CreateVeth(v)
  BY <1>3, PcsFrame DEF EnsureBridge, ExistsVeth, CreateVeth
<1>4. CASE AddBridgePort(v) \/ UpdateVeth(v)
  BY <1>4, PcsFrame DEF AddBridgePort, UpdateVeth
<1>5. CASE EnsureIntBridge(v)
  BY <1>5, PcsFrame DEF EnsureIntBridge
<1>6. CASE EnsurePortBridge(v) \/ SetRepresentorUp(v)
  BY <1>6, PcsFrame DEF EnsurePortBridge, SetRepresentorUp
<1>7. CASE Isolate(v)
  BY <1>1, <1>7, PcsFrame DEF Isolate
<1>8. CASE IsolatePatch(v)
  BY <1>1, <1>8, PcsFrame DEF IsolatePatch
<1>9. CASE GetQos(v)
  BY <1>9, PcsFrame DEF GetQos
<1>10. CASE CreateTapDevice(v)
  BY <1>10, PcsFrame DEF CreateTapDevice, PortDone
<1> QED
  BY <1>2, <1>3, <1>4, <1>5, <1>6, <1>7, <1>8, <1>9, <1>10
     DEF QuietPlugStep

LEMMA QosPlugStep ==
  ASSUME Typed, QosInv, NEW v \in Vifs, PlugStep(v), "lost" \notin FaultKinds
  PROVE  QosInv'
<1>0. TypeOK /\ ~Lost
  BY DEF Typed, Lost, Fault
<1>1. CASE QuietPlugStep(v)
  <2>1. UNCHANGED portVars /\ UNCHANGED qosRows
    BY <1>1, QuietPlugNet
  <2> QED
    BY <1>0, <1>1, <2>1, QuietPlugPcs, ColumnsFrame, QosFrame
<1>2. CASE ExistsPort(v)
  <2>1. /\ UNCHANGED <<portBr, portQos, qosRows, port>>
        /\ pc[v] \in PlugWork
        /\ pc'[v] # "create_qos"
        /\ \A w \in Vifs \ {v} : pc'[w] = pc[w]
        /\ pc'[v] = "delete_qos" => ~PortExists(port[v], PlugBridge(v))
    BY <1>0, <1>2
       DEF ExistsPort, netVars, ovsdbVars, portVars, Goto, TypeOK,
           CallTypeOK, At, PlugWork, PlugPcs
  <2>2. port[v] \in portQos => PortExists(port[v], PlugBridge(v))
    BY <2>1, WorkPort DEF QosInv, QosColumns, PortExists
  <2>3. \A w \in Vifs : pc'[w] \in QosPcs => port'[w] \notin portQos'
    BY <2>1, <2>2 DEF QosInv, QosPcs
  <2>4. \A w \in Vifs : pc'[w] = "create_qos" => qosRows'[port'[w]] = 0
    BY <2>1 DEF QosInv
  <2>5. OneQosRow' /\ QosColumns'
    BY <2>1 DEF QosInv, OneQosRow, QosColumns, MainPort, PlugBridge
  <2> QED
    BY <2>3, <2>4, <2>5 DEF QosInv
<1>3. CASE DeleteOldQos(v)
  <2>1. /\ UNCHANGED <<portBr, portQos, port>>
        /\ pc[v] = "delete_qos" /\ pc'[v] = "create_qos"
        /\ \A w \in Vifs \ {v} : pc'[w] = pc[w]
        /\ DeleteQos(port[v])
    BY <1>0, <1>3
       DEF DeleteOldQos, portVars, localVars, Proceed, Goto, TypeOK,
           CallTypeOK, At
  <2>2. port[v] \in Ports /\ port[v] \in PortsOf(v)
    BY <2>1, WorkPort DEF PlugWork, PlugPcs
  <2>3. port[v] \notin portQos
    BY <2>1 DEF QosInv, QosPcs
  <2>4. qosRows' = [qosRows EXCEPT ![port[v]] = 0]
        /\ qosRows \in [Ports -> Nat]
    BY <1>0, <2>1, <2>3 DEF DeleteQos, TypeOK, NetTypeOK
  <2>5. OneQosRow'
    BY <2>2, <2>4 DEF QosInv, OneQosRow
  <2>6. QosColumns'
    BY <2>1 DEF QosInv, QosColumns, MainPort, PlugBridge
  <2>7. \A w \in Vifs : pc'[w] \in QosPcs => port'[w] \notin portQos'
    BY <2>1, <2>3 DEF QosInv
  <2>8. \A w \in Vifs : pc'[w] = "create_qos" => qosRows'[port'[w]] = 0
    <3> SUFFICES ASSUME NEW w \in Vifs, pc'[w] = "create_qos"
                 PROVE  qosRows'[port[w]] = 0
      BY <2>1
    <3>1. CASE w = v
      BY <2>2, <2>4, <3>1
    <3>2. CASE w # v
      <4>1. pc[w] = "create_qos" /\ qosRows[port[w]] = 0
        BY <2>1, <3>2 DEF QosInv
      <4>2. port[w] \in Ports
        BY <4>1, WorkPort DEF PlugWork, PlugPcs
      <4> QED
        BY <2>4, <4>1, <4>2
    <3> QED
      BY <3>1, <3>2
  <2> QED
    BY <2>5, <2>6, <2>7, <2>8 DEF QosInv
<1>4. CASE CreateNewQos(v)
  <2>1. /\ UNCHANGED <<portBr, portQos>>
        /\ pc[v] = "create_qos" /\ pc'[v] \notin QosPcs
        /\ \A w \in Vifs \ {v} : pc'[w] = pc[w] /\ port'[w] = port[w]
        /\ CreateQos(port[v])
    BY <1>0, <1>4
       DEF CreateNewQos, portVars, localVars, Proceed, Goto, Fail, Return,
           TypeOK, CallTypeOK, At, QosPcs
  <2>2. port[v] \in Ports /\ port[v] \in PortsOf(v)
    BY <2>1, WorkPort DEF PlugWork, PlugPcs
  <2>3. qosRows[port[v]] = 0
    BY <2>1 DEF QosInv
  <2>4. qosRows' = [qosRows EXCEPT ![port[v]] = 1]
        /\ qosRows \in [Ports -> Nat]
    BY <1>0, <2>1, <2>2, <2>3 DEF CreateQos, TypeOK, NetTypeOK
  <2>5. OneQosRow'
    BY <2>2, <2>4 DEF QosInv, OneQosRow
  <2>6. QosColumns'
    BY <2>1 DEF QosInv, QosColumns, MainPort, PlugBridge
  <2>7. \A w \in Vifs : pc'[w] \in QosPcs => port'[w] \notin portQos'
    BY <2>1 DEF QosInv
  <2>8. \A w \in Vifs : pc'[w] = "create_qos" => qosRows'[port'[w]] = 0
    <3> SUFFICES ASSUME NEW w \in Vifs, pc'[w] = "create_qos"
                 PROVE  qosRows'[port'[w]] = 0
      OBVIOUS
    <3>1. w # v
      BY <2>1 DEF QosPcs
    <3>2. pc[w] = "create_qos" /\ qosRows[port[w]] = 0 /\ port'[w] = port[w]
      BY <2>1, <3>1 DEF QosInv
    <3>3. port[w] \in PortsOf(w)
      BY <3>2, WorkPort DEF PlugWork, PlugPcs
    <3>4. port[w] # port[v]
      BY <2>2, <3>1, <3>3, OwnPorts
    <3>5. port[w] \in Ports
      BY <3>3, Places
    <3> QED
      BY <2>4, <3>2, <3>4, <3>5
  <2> QED
    BY <2>5, <2>6, <2>7, <2>8 DEF QosInv
<1>5. CASE CreateOvsVifPort(v)
  <2>1. QosPcsKept
    <3> USE DEF Labels, PlugPcs, QosPcs
    <3> QED
      BY <1>0, <1>5, PcsFrame DEF CreateOvsVifPort, PortDone
  <2>2. CASE UNCHANGED <<portVars, qosRows>>
    BY <1>0, <2>1, <2>2, ColumnsFrame, QosFrame
  <2>3. CASE PortTransaction(v) /\ UNCHANGED qosRows
    <3>1. CASE UNCHANGED portVars
      BY <1>0, <2>1, <2>3, <3>1, ColumnsFrame, QosFrame
    <3>2. CASE PutPort(port[v], PlugBridge(v), v \in isolating,
                       ~UsesPortBridge(v, Kind[v]), v \in qosing)
      <4>1. /\ portBr' = [portBr EXCEPT ![port[v]] = PlugBridge(v)]
            /\ portQos' \subseteq portQos \cup {port[v]}
            /\ portBr \in [Ports -> AllBridges \cup {NoBridge}]
        BY <1>0, <3>2 DEF PutPort, TypeOK, NetTypeOK
      <4>2. pc[v] = "create_ovs_vif_port" /\ port[v] = MainPort(v)
        BY <1>5 DEF CreateOvsVifPort, At, Typed, PortChosen, PlugWork, PlugPcs
      <4>3. QosColumns'
        <5> SUFFICES ASSUME NEW w \in Vifs, NEW p \in PortsOf(w) \cap portQos'
                     PROVE  p = MainPort(w) /\ portBr'[p] = PlugBridge(w)
          BY DEF QosColumns, MainPort, PlugBridge
        <5>1. CASE p = port[v]
          <6>1. w = v
            BY <4>2, <5>1, OwnPorts, Places
          <6> QED
            BY <4>1, <4>2, <5>1, <6>1, Places
        <5>2. CASE p # port[v]
          BY <4>1, <5>2, Places DEF QosInv, QosColumns
        <5> QED
          BY <5>1, <5>2
      <4>4. \A w \in Vifs : pc'[w] \in QosPcs => port'[w] \notin portQos'
        <5> SUFFICES ASSUME NEW w \in Vifs, pc'[w] \in QosPcs
                     PROVE  port'[w] \notin portQos'
          OBVIOUS
        <5>1. pc'[w] = pc[w] /\ port'[w] = port[w] /\ w # v
          BY <2>1, <4>2 DEF QosPcsKept, QosPcs
        <5>2. port[w] \in PortsOf(w) /\ port[v] \in PortsOf(v)
          BY <4>2, <5>1, WorkPort DEF QosPcs, PlugWork, PlugPcs
        <5> QED
          BY <4>1, <5>1, <5>2, OwnPorts DEF QosInv
      <4>5. OneQosRow'
        BY <2>3 DEF QosInv, OneQosRow
      <4>6. \A w \in Vifs : pc'[w] = "create_qos" => qosRows'[port'[w]] = 0
        BY <2>1, <2>3 DEF QosInv, QosPcsKept, QosPcs
      <4> QED
        BY <4>3, <4>4, <4>5, <4>6 DEF QosInv
    <3> QED
      BY <2>3, <3>1, <3>2 DEF PortTransaction
  <2> QED
    BY <1>0, <1>5, <2>2, <2>3 DEF CreateOvsVifPort
<1>6. CASE CreatePatchPortPair(v)
  <2>1. QosPcsKept
    BY <1>0, <1>6, PcsFrame DEF CreatePatchPortPair
  <2>2. PatchTransaction(v)
    BY <1>0, <1>6 DEF CreatePatchPortPair
  <2>3. UNCHANGED <<portQos, qosRows>>
    BY <2>2 DEF PatchTransaction, PutPatchPair, ovsdbVars, portVars
  <2>4. \A p \in Ports \ {<<"ibp", v>>, <<"pbp", v>>} : portBr'[p] = portBr[p]
    BY <1>0, <2>2
       DEF PatchTransaction, PutPatchPair, ovsdbVars, portVars, TypeOK,
           NetTypeOK
  <2>5. \A w \in Vifs : MainPort(w) \notin {<<"ibp", v>>, <<"pbp", v>>}
    BY DEF MainPort, PortName, Kinds
  <2>6. ColumnsKept
    BY <2>3, <2>4, <2>5, OwnerOf DEF ColumnsKept, QosInv, QosColumns
  <2> QED
    BY <2>1, <2>3, <2>6, QosFrame
<1> QED
  BY <1>1, <1>2, <1>3, <1>4, <1>5, <1>6 DEF PlugStep, QuietPlugStep

LEMMA QosUnplugStep ==
  ASSUME Typed, QosInv, NEW v \in Vifs, UnplugStep(v)
  PROVE  QosInv'
<1>0. TypeOK
  BY DEF Typed
<1>1. QosPcsKept
  <2> USE <1>0, PcsFrame DEF Labels, UnplugPcs, QosPcs
  <2>1. CASE Unplug(v)
    BY <2>1 DEF Unplug
  <2>2. CASE ExistsQbr(v)
    <3>1. port = [port EXCEPT ![v] = port[v]]
      BY DEF TypeOK, CallTypeOK
    <3> QED
      BY <2>2, <3>1 DEF ExistsQbr
  <2>3. CASE DeleteLinuxBridge(v) \/ FindRepresentor(v) \/ DeleteTap(v)
    BY <2>3 DEF DeleteLinuxBridge, FindRepresentor, DeleteTap
  <2>4. CASE DeleteIntPatch(v) \/ DeletePortPatch(v) \/ DeletePortDevice(v)
    BY <2>4 DEF DeleteIntPatch, DeletePortPatch, DeletePatch,
                DeletePortDevice
  <2>5. CASE DeleteOvsVifPort(v) \/ CleanQos(v)
    BY <2>5 DEF DeleteOvsVifPort, CleanQos, AfterQos
  <2>6. CASE DeletePortBridge(v) \/ SetRepresentorDown(v) \/ DeleteTrunk(v)
    BY <2>6 DEF DeletePortBridge, SetRepresentorDown, DeleteTrunk
  <2> QED
    BY <2>1, <2>2, <2>3, <2>4, <2>5, <2>6 DEF UnplugStep
<1>2. CASE UNCHANGED <<portVars, qosRows>>
  BY <1>0, <1>1, <1>2, ColumnsFrame, QosFrame
<1>3. CASE \E p, b : DelPort(p, b)
  <2>1. UNCHANGED qosRows
    BY <1>3 DEF DelPort
  <2> QED
    BY <1>0, <1>1, <1>3, <2>1, ColumnsFrame, QosFrame
<1>4. CASE \E b : DelBr(b)
  <2>1. UNCHANGED qosRows
    BY <1>4 DEF DelBr
  <2> QED
    BY <1>0, <1>1, <1>4, <2>1, ColumnsFrame, QosFrame
<1>5. CASE CleanQos(v) /\ DeleteQos(port[v]) /\ UNCHANGED portVars
  <2>1. pc[v] = "clean_qos"
    BY <1>5 DEF CleanQos, At
  <2>2. port[v] \in PortsOf(v) /\ port[v] \in Ports
    BY <2>1, WorkPort DEF UnplugWork, UnplugPcs
  <2>3. /\ qosRows \in [Ports -> Nat]
        /\ qosRows'[port[v]] \in {0, 1}
        /\ \A p \in Ports \ {port[v]} : qosRows'[p] = qosRows[p]
    BY <1>0, <1>5, <2>2 DEF DeleteQos, TypeOK, NetTypeOK
  <2>4. OneQosRow'
    BY <2>3 DEF QosInv, OneQosRow
  <2>5. QosColumns'
    BY <1>5 DEF QosInv, QosColumns, MainPort, PlugBridge, portVars
  <2>6. \A w \in Vifs : pc'[w] \in QosPcs => port'[w] \notin portQos'
    BY <1>1, <1>5 DEF QosInv, QosPcsKept, portVars
  <2>7. \A w \in Vifs : pc'[w] = "create_qos" => qosRows'[port'[w]] = 0
    <3> SUFFICES ASSUME NEW w \in Vifs, pc'[w] = "create_qos"
                 PROVE  qosRows'[port'[w]] = 0
      OBVIOUS
    <3>1. pc[w] = "create_qos" /\ port'[w] = port[w]
      BY <1>1 DEF QosPcsKept, QosPcs
    <3>2. port[w] \in PortsOf(w) /\ port[w] \in Ports /\ w # v
      BY <2>1, <3>1, WorkPort DEF PlugWork, PlugPcs
    <3>3. port[w] # port[v]
      BY <2>2, <3>2, OwnPorts
    <3> QED
      BY <2>3, <3>1, <3>2, <3>3 DEF QosInv
  <2> QED
    BY <2>4, <2>5, <2>6, <2>7 DEF QosInv
<1>6. \/ UNCHANGED <<portVars, qosRows>>
      \/ \E p, b : DelPort(p, b)
      \/ \E b : DelBr(b)
      \/ CleanQos(v) /\ DeleteQos(port[v]) /\ UNCHANGED portVars
  <2> USE DEF Lost, Partial, netVars, ovsdbVars
  <2>1. CASE \/ Unplug(v) \/ ExistsQbr(v) \/ DeleteLinuxBridge(v)
             \/ FindRepresentor(v) \/ DeleteTap(v)
    BY <2>1 DEF Unplug, ExistsQbr, DeleteLinuxBridge, FindRepresentor,
                DeleteTap
  <2>2. CASE DeleteIntPatch(v) \/ DeletePortPatch(v) \/ DeleteOvsVifPort(v)
    BY <2>2 DEF DeleteIntPatch, DeletePortPatch, DeletePatch,
                DeleteOvsVifPort
  <2>3. CASE CleanQos(v)
    BY <2>3 DEF CleanQos
  <2>4. CASE DeletePortDevice(v) \/ SetRepresentorDown(v)
    BY <2>4 DEF DeletePortDevice, SetRepresentorDown
  <2>5. CASE DeletePortBridge(v) \/ DeleteTrunk(v)
    BY <2>5 DEF DeletePortBridge, DeleteTrunk
  <2> QED
    BY <2>1, <2>2, <2>3, <2>4, <2>5 DEF UnplugStep
<1> QED
  BY <1>2, <1>3, <1>4, <1>5, <1>6

LEMMA QosOtherStep ==
  ASSUME Typed, QosInv, NEW v \in Vifs,
         \/ BeginPlug(v) \/ BeginUnplug(v) \/ StepRaises(v)
         \/ AgentWires(v) \/ LibvirtPlugs(v) \/ LibvirtUnplugs(v)
         \/ Crash \/ Reboot
  PROVE  QosInv'
<1>0. TypeOK
  BY DEF Typed
<1>1. QosPcsKept
  <2>1. CASE BeginPlug(v) \/ BeginUnplug(v)
    BY <1>0, <2>1
       DEF BeginPlug, BeginUnplug, localVars, QosPcsKept, QosPcs, TypeOK,
           CallTypeOK
  <2>2. CASE StepRaises(v)
    BY <1>0, <2>2, PcsFrame DEF StepRaises
  <2>3. CASE AgentWires(v) \/ LibvirtPlugs(v) \/ LibvirtUnplugs(v)
    BY <2>3 DEF AgentWires, LibvirtPlugs, LibvirtUnplugs, localVars,
                QosPcsKept
  <2>4. CASE Crash \/ Reboot
    BY <2>4 DEF Crash, Reboot, AbandonCalls, QosPcsKept, QosPcs
  <2> QED
    BY <2>1, <2>2, <2>3, <2>4
<1>2. UNCHANGED qosRows
  BY DEF BeginPlug, BeginUnplug, StepRaises, AgentWires, LibvirtPlugs,
         LibvirtUnplugs, DelPort, Crash, Reboot, netVars, ovsdbVars
<1>3. ColumnsKept
  <2>1. CASE \/ BeginPlug(v) \/ BeginUnplug(v) \/ StepRaises(v)
             \/ AgentWires(v) \/ Crash \/ Reboot
    BY <2>1 DEF BeginPlug, BeginUnplug, StepRaises, AgentWires, Crash,
                Reboot, netVars, ovsdbVars, portVars, ColumnsKept
  <2>2. CASE LibvirtPlugs(v)
    BY <1>0, <2>2 DEF LibvirtPlugs, ColumnsKept, TypeOK, NetTypeOK
  <2>3. CASE LibvirtUnplugs(v)
    BY <1>0, <2>3, ColumnsFrame DEF LibvirtUnplugs
  <2> QED
    BY <2>1, <2>2, <2>3
<1> QED
  BY <1>1, <1>2, <1>3, QosFrame

\* Without lost OVSDB commands no port ever has two QoS rows, however often
\* and wherever its plug() is cut off and retried (ovsdb_lib.py:242-258).
THEOREM QosCorrect ==
  ASSUME "lost" \notin FaultKinds
  PROVE  Spec => []OneQosRow
<1>1. Init => QosInv
  BY DEF Init, NetInit, QosInv, OneQosRow, QosColumns, QosPcs
<1>2. Typed /\ QosInv /\ [Next]_vars => QosInv'
  <2> SUFFICES ASSUME Typed, QosInv, [Next]_vars PROVE QosInv'
    OBVIOUS
  <2>1. CASE UNCHANGED vars
    BY <2>1 DEF vars, netVars, ovsdbVars, portVars, localVars, QosInv,
                OneQosRow, QosColumns, MainPort, PlugBridge
  <2>2. ASSUME NEW v \in Vifs, PlugStep(v) \/ UnplugStep(v)
        PROVE  QosInv'
    BY <2>2, QosPlugStep, QosUnplugStep
  <2>3. CASE Crash \/ Reboot
    <3>1. CASE Vifs = {}
      BY <2>3, <3>1 DEF Crash, Reboot, Busy, QosInv, OneQosRow, QosColumns,
                        QosPcs, Ports, ovsdbVars
    <3>2. CASE Vifs # {}
      BY <2>3, <3>2, QosOtherStep
    <3> QED
      BY <3>1, <3>2
  <2> QED
    BY <2>1, <2>2, <2>3, QosOtherStep DEF Next
<1>3. QosInv => OneQosRow
  BY DEF QosInv
<1> QED
  BY <1>1, <1>2, <1>3, TypedInvariant, PTL DEF Spec

-----------------------------------------------------------------------------
(* A call that has decided not to isolate a port relies, until its         *)
(* transaction, on the port it saw, which goes if the VM stops meanwhile.  *)

CreatePcs == {"exists_port", "delete_qos", "create_qos", "get_qos",
              "create_ovs_vif_port"}
DecidedPcs == CreatePcs \cup {"create_patch_port_pair"}

PortSeen ==
  \A v \in Vifs \ raced :
    /\ pc[v] \in CreatePcs /\ v \notin isolating
    /\ IsolateVif /\ ~IsTrunk(PlugBridge(v))
    => portBr[port[v]] = PlugBridge(v)

PatchSeen ==
  \A v \in Vifs :
    /\ pc[v] = "create_patch_port_pair" /\ v \notin isolating
    /\ IsolateVif /\ ~IsTrunk(Bridge[v])
    => portBr[<<"ibp", v>>] = Bridge[v]

IsolationInv == IsolatedUntilWired /\ PortSeen /\ PatchSeen

\* Ports may go, and be given their VLAN by the agent, but do not move.
TagsKept ==
  \A p \in Ports : portBr'[p] # NoBridge =>
    portBr'[p] = portBr[p] /\ tag'[p] \in {tag[p], "local"}

LibvirtKept ==
  \A v \in byLibvirt \ byLibvirt' : portBr'[<<"tap", v>>] # Bridge[v]

RacedKept == raced \subseteq raced'

\* The ports of a call that has decided stay, but on a trunk bridge or with
\* the VM stopping.
SeenKept ==
  \A v \in Vifs : pc'[v] \in DecidedPcs =>
    \A p \in PortsOf(v) :
      /\ portBr[p] \in {Bridge[v], PortBridge(v)} \ Trunks
      /\ p = <<"tap", v>> => pc'[v] \in CreatePcs /\ v \notin raced'
      => portBr'[p] = portBr[p]

DecisionsKept ==
  \A v \in Vifs : pc'[v] \in DecidedPcs =>
    /\ pc[v] \in DecidedPcs
    /\ pc[v] \in CreatePcs <=> pc'[v] \in CreatePcs
    /\ port'[v] = port[v]
    /\ v \in isolating => v \in isolating'

LEMMA TagsFrame ==
  ASSUME IsolatedUntilWired, TagsKept, LibvirtKept, RacedKept
  PROVE  IsolatedUntilWired'
<1> SUFFICES ASSUME IsolateVif, NEW v \in Vifs \ raced',
                    NEW p \in PortsOf(v),
                    portBr'[p] = Bridge[v], ~IsTrunk(Bridge[v]),
                    ~(v \in byLibvirt' /\ p = <<"tap", v>>)
             PROVE  tag'[p] \in {"dead", "local"}
  BY DEF IsolatedUntilWired, IsTrunk
<1>1. p \in Ports /\ portBr'[p] # NoBridge
  BY Places, NetAssumption
<1>2. portBr[p] = Bridge[v] /\ tag'[p] \in {tag[p], "local"}
  BY <1>1 DEF TagsKept
<1>3. ~(v \in byLibvirt /\ p = <<"tap", v>>)
  BY DEF LibvirtKept
<1>4. tag[p] \in {"dead", "local"}
  BY <1>2, <1>3 DEF IsolatedUntilWired, RacedKept
<1> QED
  BY <1>2, <1>4

LEMMA SeenFrame ==
  ASSUME Typed, IsolationInv, SeenKept, DecisionsKept, RacedKept
  PROVE  PortSeen' /\ PatchSeen'
<1>1. PortSeen'
  <2> SUFFICES ASSUME NEW v \in Vifs \ raced', pc'[v] \in CreatePcs,
                      v \notin isolating', IsolateVif,
                      ~IsTrunk(PlugBridge(v))
               PROVE  portBr'[port'[v]] = PlugBridge(v)
    BY DEF PortSeen, PlugBridge, IsTrunk, UsesPortBridge
  <2>1. /\ pc[v] \in CreatePcs /\ v \notin isolating /\ port'[v] = port[v]
        /\ pc'[v] \in DecidedPcs
    BY DEF DecisionsKept, DecidedPcs
  <2>2. portBr[port[v]] = PlugBridge(v) /\ port[v] \in PortsOf(v)
    BY <2>1, WorkPort
       DEF IsolationInv, PortSeen, CreatePcs, PlugWork, PlugPcs, RacedKept
  <2>3. PlugBridge(v) \in {Bridge[v], PortBridge(v)} \ Trunks
    BY DEF PlugBridge, IsTrunk
  <2> QED
    BY <2>1, <2>2, <2>3 DEF SeenKept
<1>2. PatchSeen'
  <2> SUFFICES ASSUME NEW v \in Vifs, pc'[v] = "create_patch_port_pair",
                      v \notin isolating', IsolateVif, ~IsTrunk(Bridge[v])
               PROVE  portBr'[<<"ibp", v>>] = Bridge[v]
    BY DEF PatchSeen, IsTrunk
  <2>1. pc'[v] \in DecidedPcs /\ pc'[v] \notin CreatePcs
    BY DEF DecidedPcs, CreatePcs
  <2>2. pc[v] = "create_patch_port_pair" /\ v \notin isolating
    BY <2>1 DEF DecisionsKept, DecidedPcs
  <2>3. portBr[<<"ibp", v>>] = Bridge[v]
    BY <2>2 DEF IsolationInv, PatchSeen
  <2>4. /\ <<"ibp", v>> \in PortsOf(v) /\ <<"ibp", v>> # <<"tap", v>>
        /\ Bridge[v] \notin Trunks
    BY DEF PortsOf, PortKinds, IsTrunk
  <2> QED
    BY <2>1, <2>3, <2>4 DEF SeenKept
<1> QED
  BY <1>1, <1>2

LEMMA IsolationFrame ==
  ASSUME Typed, IsolationInv, TagsKept, LibvirtKept, SeenKept, DecisionsKept,
         RacedKept
  PROVE  IsolationInv'
BY TagsFrame, SeenFrame DEF IsolationInv, RacedKept

\* Steps that leave the ports where they are.
LEMMA IsolationQuiet ==
  ASSUME Typed, IsolationInv, UNCHANGED <<portBr, tag>>,
         byLibvirt' = byLibvirt, raced' = raced, DecisionsKept
  PROVE  IsolationInv'
<1>1. TagsKept /\ LibvirtKept /\ SeenKept /\ RacedKept
  BY DEF TagsKept, LibvirtKept, SeenKept, RacedKept
<1> QED
  BY <1>1, IsolationFrame

LEMMA DecisionsFrame ==
  ASSUME TypeOK, NEW v \in Vifs,
         \/ Succeed(v) \/ Fail(v)
         \/ \E l \in Labels \ DecidedPcs :
              Goto(v, l) /\ (\E p : port' = [port EXCEPT ![v] = p])
                         /\ isolating' = isolating
         \/ \E l \in Labels \ DecidedPcs : Proceed(v, l)
         \/ \E l \in CreatePcs : /\ pc[v] \in CreatePcs /\ Goto(v, l)
                                 /\ UNCHANGED <<port, isolating>>
         \/ UNCHANGED <<pc, port, isolating>>
  PROVE  DecisionsKept
<1>1. pc \in [Vifs -> Labels] /\ port \in [Vifs -> Ports \cup {NoPort}]
  BY DEF TypeOK, CallTypeOK
<1>2. "idle" \notin DecidedPcs
  BY DEF DecidedPcs, CreatePcs
<1>3. CASE Succeed(v) \/ Fail(v)
  BY <1>1, <1>2, <1>3 DEF DecisionsKept, Succeed, Fail, Return
<1>4. ASSUME NEW l \in Labels \ DecidedPcs, Goto(v, l), isolating' = isolating,
             \E p : port' = [port EXCEPT ![v] = p]
      PROVE  DecisionsKept
  BY <1>1, <1>4 DEF DecisionsKept, Goto
<1>5. ASSUME NEW l \in Labels \ DecidedPcs, Proceed(v, l)
      PROVE  DecisionsKept
  BY <1>1, <1>5 DEF DecisionsKept, Proceed, Goto, localVars
<1>6. ASSUME NEW l \in CreatePcs, pc[v] \in CreatePcs, Goto(v, l),
             UNCHANGED <<port, isolating>>
      PROVE  DecisionsKept
  BY <1>1, <1>6 DEF DecisionsKept, Goto, DecidedPcs
<1>7. CASE UNCHANGED <<pc, port, isolating>>
  BY <1>7 DEF DecisionsKept
<1> QED
  BY <1>3, <1>4, <1>5, <1>6, <1>7

LEMMA QuietPlugDecisions ==
  ASSUME TypeOK, NEW v \in Vifs, QuietPlugStep(v), ~Isolate(v),
         ~IsolatePatch(v)
  PROVE  DecisionsKept
<1> USE DecisionsFrame DEF Labels, PlugPcs, DecidedPcs, CreatePcs
<1>1. CASE Plug(v)
  BY <1>1 DEF Plug
<1>2. CASE EnsureBridge(v) \/ ExistsVeth(v) \/ CreateVeth(v)
  BY <1>2 DEF EnsureBridge, ExistsVeth, CreateVeth
<1>3. CASE AddBridgePort(v) \/ UpdateVeth(v)
  BY <1>3 DEF AddBridgePort, UpdateVeth
<1>4. CASE EnsureIntBridge(v)
  BY <1>4 DEF EnsureIntBridge
<1>5. CASE EnsurePortBridge(v) \/ SetRepresentorUp(v)
  BY <1>5 DEF EnsurePortBridge, SetRepresentorUp
<1>6. CASE GetQos(v)
  <2>1. pc[v] \in CreatePcs
    BY <1>6 DEF GetQos, At
  <2>2. \/ Fail(v)
        \/ /\ Goto(v, "create_ovs_vif_port")
           /\ UNCHANGED <<port, isolating>>
    BY <1>6 DEF GetQos, Proceed, localVars
  <2> QED
    BY <2>1, <2>2
<1>7. CASE CreateTapDevice(v)
  BY <1>7 DEF CreateTapDevice, PortDone
<1> QED
  BY <1>1, <1>2, <1>3, <1>4, <1>5, <1>6, <1>7 DEF QuietPlugStep

LEMMA PlugLibvirt ==
  ASSUME NEW v \in Vifs, PlugStep(v)
  PROVE  byLibvirt' = byLibvirt /\ raced' = raced
<1> USE DEF NoFault, Lost, Partial, Blind
<1>1. CASE QuietPlugStep(v)
  <2> USE DEF QuietPlugStep
  <2>1. CASE Plug(v) \/ EnsureBridge(v) \/ ExistsVeth(v) \/ CreateVeth(v)
    BY <2>1 DEF Plug, EnsureBridge, ExistsVeth, CreateVeth
  <2>2. CASE AddBridgePort(v) \/ UpdateVeth(v) \/ EnsureIntBridge(v)
    BY <2>2 DEF AddBridgePort, UpdateVeth, EnsureIntBridge
  <2>3. CASE EnsurePortBridge(v) \/ SetRepresentorUp(v) \/ Isolate(v)
    BY <2>3 DEF EnsurePortBridge, SetRepresentorUp, Isolate
  <2>4. CASE GetQos(v) \/ CreateTapDevice(v) \/ IsolatePatch(v)
    BY <2>4 DEF GetQos, CreateTapDevice, IsolatePatch
  <2> QED
    BY <1>1, <2>1, <2>2, <2>3, <2>4
<1>2. CASE ExistsPort(v) \/ DeleteOldQos(v) \/ CreateNewQos(v)
  BY <1>2 DEF ExistsPort, DeleteOldQos, CreateNewQos
<1>3. CASE CreateOvsVifPort(v) \/ CreatePatchPortPair(v)
  BY <1>3 DEF CreateOvsVifPort, CreatePatchPortPair
<1> QED
  BY <1>1, <1>2, <1>3 DEF PlugStep, QuietPlugStep

LEMMA IsolationPlugStep ==
  ASSUME Typed, IsolationInv, NEW v \in Vifs, PlugStep(v)
  PROVE  IsolationInv'
<1>0. TypeOK /\ byLibvirt' = byLibvirt /\ raced' = raced
  BY PlugLibvirt DEF Typed
<1>1. CASE QuietPlugStep(v) /\ ~Isolate(v) /\ ~IsolatePatch(v)
  <2>1. UNCHANGED <<portBr, tag>>
    BY <1>1, QuietPlugNet DEF portVars
  <2> QED
    BY <1>0, <1>1, <2>1, QuietPlugDecisions, IsolationQuiet
<1>2. CASE ExistsPort(v) \/ DeleteOldQos(v) \/ CreateNewQos(v)
  <2>1. UNCHANGED <<portBr, tag>>
    BY <1>2 DEF ExistsPort, DeleteOldQos, CreateNewQos, Lost, netVars,
                ovsdbVars, portVars
  <2>2. pc[v] \in CreatePcs
    BY <1>2 DEF ExistsPort, DeleteOldQos, CreateNewQos, At, CreatePcs
  <2>3. \/ Fail(v)
        \/ \E l \in CreatePcs : Goto(v, l) /\ UNCHANGED <<port, isolating>>
    BY <1>2 DEF ExistsPort, DeleteOldQos, CreateNewQos, Proceed, localVars,
                CreatePcs
  <2> QED
    BY <1>0, <2>1, <2>2, <2>3, DecisionsFrame, IsolationQuiet
<1>3. CASE Isolate(v)
  <2>1. /\ UNCHANGED <<portBr, tag, port>>
        /\ pc' = [pc EXCEPT ![v] = "exists_port"] /\ pc \in [Vifs -> Labels]
        /\ \A w \in Vifs \ {v} : w \in isolating' <=> w \in isolating
        /\ IsolateVif /\ v \notin isolating' /\ ~IsTrunk(PlugBridge(v))
             => PortExists(port[v], PlugBridge(v))
    BY <1>0, <1>3 DEF Isolate, Lost, netVars, ovsdbVars, portVars, Goto,
                      TypeOK, CallTypeOK
  <2>2. IsolatedUntilWired'
    BY <1>0, <2>1 DEF IsolationInv, IsolatedUntilWired, IsTrunk
  <2>3. PortSeen'
    BY <1>0, <2>1 DEF IsolationInv, PortSeen, PortExists, PlugBridge, IsTrunk,
                      UsesPortBridge
  <2>4. PatchSeen'
    BY <2>1 DEF IsolationInv, PatchSeen, IsTrunk
  <2> QED
    BY <2>2, <2>3, <2>4 DEF IsolationInv
<1>4. CASE IsolatePatch(v)
  <2>1. /\ UNCHANGED <<portBr, tag, port>>
        /\ pc' = [pc EXCEPT ![v] = "create_patch_port_pair"]
        /\ pc \in [Vifs -> Labels]
        /\ \A w \in Vifs \ {v} : w \in isolating' <=> w \in isolating
        /\ IsolateVif /\ v \notin isolating'
             => PortExists(<<"ibp", v>>, Bridge[v])
    BY <1>0, <1>4 DEF IsolatePatch, Lost, netVars, ovsdbVars, portVars, Goto,
                      TypeOK, CallTypeOK
  <2>2. IsolatedUntilWired'
    BY <1>0, <2>1 DEF IsolationInv, IsolatedUntilWired, IsTrunk
  <2>3. PortSeen'
    BY <1>0, <2>1 DEF IsolationInv, PortSeen, CreatePcs, PlugBridge, IsTrunk,
                      UsesPortBridge
  <2>4. PatchSeen'
    BY <2>1 DEF IsolationInv, PatchSeen, PortExists, IsTrunk
  <2> QED
    BY <2>2, <2>3, <2>4 DEF IsolationInv
<1>5. CASE CreateOvsVifPort(v)
  <2>1. DecisionsKept
    <3> USE DecisionsFrame DEF Labels, PlugPcs, DecidedPcs, CreatePcs
    <3> QED
      BY <1>0, <1>5 DEF CreateOvsVifPort, PortDone
  <2>2. CASE UNCHANGED portVars
    BY <1>0, <2>1, <2>2, IsolationQuiet DEF portVars
  <2>3. CASE PutPort(port[v], PlugBridge(v), v \in isolating,
                     ~UsesPortBridge(v, Kind[v]), v \in qosing)
    <3>1. /\ pc[v] = "create_ovs_vif_port" /\ pc[v] \in CreatePcs
          /\ port[v] \in PortsOf(v) /\ port[v] \in Ports
      BY <1>5, WorkPort
         DEF CreateOvsVifPort, At, CreatePcs, PlugWork, PlugPcs
    <3>2. pc'[v] \notin DecidedPcs
      <4> USE <1>0 DEF TypeOK, CallTypeOK
      <4> QED
        BY <1>5
           DEF CreateOvsVifPort, PortDone, Proceed, Goto, Succeed, Fail,
               Return, DecidedPcs, CreatePcs
    <3>3. /\ portBr' = [portBr EXCEPT ![port[v]] = PlugBridge(v)]
          /\ portBr \in [Ports -> AllBridges \cup {NoBridge}]
      BY <1>0, <2>3 DEF PutPort, TypeOK, NetTypeOK
    <3>4. \A p \in Ports \ {port[v]} : tag'[p] = tag[p]
      BY <1>0, <2>3 DEF PutPort, TypeOK, NetTypeOK
    <3>5. tag'[port[v]] = tag[port[v]] \/ tag'[port[v]] = "dead"
      BY <1>0, <2>3, <3>1 DEF PutPort, TypeOK, NetTypeOK
    <3>6. v \in isolating => tag'[port[v]] = "dead"
      BY <1>0, <2>3, <3>1 DEF PutPort, TypeOK, NetTypeOK
    <3>7. SeenKept
      BY <3>1, <3>2, <3>3, OwnPorts, Places DEF SeenKept
    <3>8. IsolatedUntilWired'
      <4> SUFFICES ASSUME IsolateVif, NEW w \in Vifs \ raced,
                          NEW p \in PortsOf(w),
                          portBr'[p] = Bridge[w], ~IsTrunk(Bridge[w]),
                          ~(w \in byLibvirt /\ p = <<"tap", w>>)
                   PROVE  tag'[p] \in {"dead", "local"}
        BY <1>0 DEF IsolatedUntilWired, IsTrunk
      <4>1. CASE p # port[v]
        BY <3>3, <3>4, <4>1, Places DEF IsolationInv, IsolatedUntilWired
      <4>2. CASE p = port[v] /\ v \in isolating
        BY <3>6, <4>2
      <4>3. CASE p = port[v] /\ v \notin isolating
        <5>1. w = v
          BY <3>1, <4>3, OwnPorts
        <5>2. PlugBridge(v) = Bridge[v]
          BY <3>1, <3>3, <4>3, <5>1
        <5>3. portBr[p] = Bridge[v]
          BY <3>1, <4>3, <5>1, <5>2 DEF IsolationInv, PortSeen
        <5>4. tag[p] \in {"dead", "local"}
          BY <5>1, <5>3 DEF IsolationInv, IsolatedUntilWired
        <5> QED
          BY <3>5, <4>3, <5>4
      <4> QED
        BY <4>1, <4>2, <4>3
    <3> QED
      BY <1>0, <2>1, <3>7, <3>8, SeenFrame DEF IsolationInv, RacedKept
  <2> QED
    BY <1>5, <2>2, <2>3
       DEF CreateOvsVifPort, PortTransaction, Lost, netVars, ovsdbVars
<1>6. CASE CreatePatchPortPair(v)
  <2>1. Succeed(v) \/ Fail(v)
    BY <1>6 DEF CreatePatchPortPair
  <2>2. DecisionsKept /\ pc'[v] \notin DecidedPcs
    BY <1>0, <2>1, DecisionsFrame
       DEF Succeed, Fail, Return, TypeOK, CallTypeOK, DecidedPcs, CreatePcs
  <2>3. CASE UNCHANGED portVars
    BY <1>0, <2>2, <2>3, IsolationQuiet DEF portVars
  <2>4. CASE PutPatchPair(v, Bridge[v], v \in isolating)
    <3> DEFINE ibp == <<"ibp", v>>
               pbp == <<"pbp", v>>
    <3>1. ibp \in PortsOf(v) /\ pbp \in PortsOf(v) /\ ibp # pbp
      BY DEF PortsOf, PortKinds
    <3>2. ibp \in Ports /\ pbp \in Ports
      BY <3>1, Places
    <3>3. /\ portBr \in [Ports -> AllBridges \cup {NoBridge}]
          /\ tag \in [Ports -> {"none", "dead", "local"}]
      BY <1>0 DEF TypeOK, NetTypeOK
    <3>4. /\ portBr' = [portBr EXCEPT ![ibp] = Bridge[v],
                                      ![pbp] = PortBridge(v)]
          /\ tag' = [tag EXCEPT ![ibp] = IF v \in isolating THEN "dead" ELSE @]
      BY <2>4 DEF PutPatchPair
    <3> HIDE DEF ibp, pbp
    <3>5. /\ portBr'[ibp] = Bridge[v] /\ portBr'[pbp] = PortBridge(v)
          /\ \A p \in Ports \ {ibp, pbp} : portBr'[p] = portBr[p]
      BY <3>1, <3>2, <3>3, <3>4
    <3>6. /\ \A p \in Ports \ {ibp} : tag'[p] = tag[p]
          /\ v \in isolating => tag'[ibp] = "dead"
          /\ v \notin isolating => tag'[ibp] = tag[ibp]
      BY <3>2, <3>3, <3>4
    <3>7. SeenKept
      BY <2>2, <3>1, <3>5, OwnPorts, Places DEF SeenKept
    <3>8. IsolatedUntilWired'
      <4> SUFFICES ASSUME IsolateVif, NEW w \in Vifs \ raced,
                          NEW p \in PortsOf(w),
                          portBr'[p] = Bridge[w], ~IsTrunk(Bridge[w]),
                          ~(w \in byLibvirt /\ p = <<"tap", w>>)
                   PROVE  tag'[p] \in {"dead", "local"}
        BY <1>0 DEF IsolatedUntilWired, IsTrunk
      <4>1. CASE p \notin {ibp, pbp}
        BY <3>5, <3>6, <4>1, Places DEF IsolationInv, IsolatedUntilWired
      <4>2. CASE p = pbp
        <5>1. w = v /\ PortBridge(v) # Bridge[v]
          BY <3>1, <4>2, OwnPorts, NetAssumption
        <5> QED
          BY <3>5, <4>2, <5>1
      <4>3. CASE p = ibp
        <5>1. w = v
          BY <3>1, <4>3, OwnPorts
        <5>2. CASE v \in isolating
          BY <3>6, <4>3, <5>2
        <5>3. CASE v \notin isolating
          <6>1. portBr[ibp] = Bridge[v]
            BY <1>6, <5>1, <5>3
               DEF IsolationInv, PatchSeen, CreatePatchPortPair, At, ibp
          <6>2. tag[ibp] \in {"dead", "local"}
            BY <4>3, <5>1, <6>1 DEF IsolationInv, IsolatedUntilWired
          <6> QED
            BY <3>6, <4>3, <5>3, <6>2
        <5> QED
          BY <5>2, <5>3
      <4> QED
        BY <4>1, <4>2, <4>3
    <3> QED
      BY <1>0, <2>2, <3>7, <3>8, SeenFrame DEF IsolationInv, RacedKept
  <2> QED
    BY <1>6, <2>3, <2>4
       DEF CreatePatchPortPair, PatchTransaction, Lost, netVars, ovsdbVars
<1> QED
  BY <1>1, <1>2, <1>3, <1>4, <1>5, <1>6 DEF PlugStep, QuietPlugStep

\* What deleting ports and bridges on behalf of v leaves alone.
LEMMA RemovalFrame ==
  ASSUME TypeOK, NEW v \in Vifs, pc'[v] \notin DecidedPcs,
         \/ \E p \in PortsOf(v) : \E b : DelPort(p, b)
         \/ DelBr(PortBridge(v))
         \/ DelBr(Bridge[v]) /\ IsTrunk(Bridge[v])
  PROVE  TagsKept /\ SeenKept
<1>1. TagsKept
  BY DEF TypeOK, NetTypeOK, DelPort, DelBr, RemovePorts, TagsKept
<1>2. CASE \E p \in PortsOf(v) : \E b : DelPort(p, b)
  BY <1>1, <1>2, OwnPorts, Places DEF DelPort, RemovePorts, SeenKept
<1>3. CASE DelBr(PortBridge(v))
  <2>1. \A w \in Vifs \ {v} :
          PortBridge(v) \notin {Bridge[w], PortBridge(w)}
    BY NetAssumption DEF PortBridge
  <2>2. \A p \in Ports : portBr[p] # PortBridge(v) => portBr'[p] = portBr[p]
    BY <1>3 DEF DelBr, RemovePorts
  <2> QED
    BY <1>1, <2>1, <2>2, Places DEF SeenKept
<1>4. CASE DelBr(Bridge[v]) /\ IsTrunk(Bridge[v])
  <2>1. \A p \in Ports : portBr[p] # Bridge[v] => portBr'[p] = portBr[p]
    BY <1>4 DEF DelBr, RemovePorts
  <2> QED
    BY <1>1, <1>4, <2>1, Places DEF SeenKept, IsTrunk
<1> QED
  BY <1>1, <1>2, <1>3, <1>4

LEMMA ForgetFrame ==
  ASSUME TypeOK, NoFault \/ ForgetPorts \/ byLibvirt' = byLibvirt
  PROVE  LibvirtKept
<1>1. CASE byLibvirt' = byLibvirt
  BY <1>1 DEF LibvirtKept
<1>2. CASE ForgetPorts
  <2> SUFFICES ASSUME NEW v \in byLibvirt \ byLibvirt'
               PROVE  portBr'[<<"tap", v>>] # Bridge[v]
    BY DEF LibvirtKept
  <2>1. v \in Vifs
    BY DEF TypeOK, CallTypeOK
  <2>2. portBr'[<<"tap", v>>] = NoBridge
    BY <1>2 DEF ForgetPorts
  <2> QED
    BY <2>1, <2>2, Places, NetAssumption
<1> QED
  BY <1>1, <1>2 DEF NoFault

LEMMA UnplugDecisions ==
  ASSUME TypeOK, NEW v \in Vifs, UnplugStep(v)
  PROVE  DecisionsKept /\ pc'[v] \notin DecidedPcs
<1>1. DecisionsKept
  <2> USE DecisionsFrame DEF Labels, UnplugPcs, DecidedPcs, CreatePcs
  <2>1. CASE Unplug(v)
    BY <2>1 DEF Unplug
  <2>2. CASE ExistsQbr(v)
    <3>1. port = [port EXCEPT ![v] = port[v]]
      BY DEF TypeOK, CallTypeOK
    <3> QED
      BY <2>2, <3>1 DEF ExistsQbr
  <2>3. CASE DeleteLinuxBridge(v) \/ FindRepresentor(v) \/ DeleteTap(v)
    BY <2>3 DEF DeleteLinuxBridge, FindRepresentor, DeleteTap
  <2>4. CASE DeleteIntPatch(v) \/ DeletePortPatch(v) \/ DeletePortDevice(v)
    BY <2>4 DEF DeleteIntPatch, DeletePortPatch, DeletePatch,
                DeletePortDevice
  <2>5. CASE DeleteOvsVifPort(v) \/ CleanQos(v)
    BY <2>5 DEF DeleteOvsVifPort, CleanQos, AfterQos
  <2>6. CASE DeletePortBridge(v) \/ SetRepresentorDown(v) \/ DeleteTrunk(v)
    BY <2>6 DEF DeletePortBridge, SetRepresentorDown, DeleteTrunk
  <2> QED
    BY <2>1, <2>2, <2>3, <2>4, <2>5, <2>6 DEF UnplugStep
<1>2. pc[v] \in UnplugPcs
  <2> USE DEF At, UnplugPcs
  <2>1. CASE Unplug(v) \/ ExistsQbr(v) \/ DeleteLinuxBridge(v)
    BY <2>1 DEF Unplug, ExistsQbr, DeleteLinuxBridge
  <2>2. CASE FindRepresentor(v) \/ DeleteTap(v) \/ DeleteIntPatch(v)
    BY <2>2 DEF FindRepresentor, DeleteTap, DeleteIntPatch
  <2>3. CASE DeletePortPatch(v) \/ DeleteOvsVifPort(v) \/ CleanQos(v)
    BY <2>3 DEF DeletePortPatch, DeleteOvsVifPort, CleanQos
  <2>4. CASE DeletePortDevice(v) \/ DeletePortBridge(v)
    BY <2>4 DEF DeletePortDevice, DeletePortBridge
  <2>5. CASE SetRepresentorDown(v) \/ DeleteTrunk(v)
    BY <2>5 DEF SetRepresentorDown, DeleteTrunk
  <2> QED
    BY <2>1, <2>2, <2>3, <2>4, <2>5 DEF UnplugStep
<1>3. pc[v] \notin DecidedPcs
  BY <1>2 DEF UnplugPcs, DecidedPcs, CreatePcs
<1> QED
  BY <1>1, <1>3 DEF DecisionsKept

\* An unplug() step deletes a port or a bridge of v, or nothing of OVSDB's
\* ports, and forgets libvirt's port only with the port itself.
LEMMA UnplugEffect ==
  ASSUME Typed, NEW v \in Vifs, UnplugStep(v)
  PROVE  /\ \/ UNCHANGED portVars
            \/ \E p \in PortsOf(v) : \E b : DelPort(p, b)
            \/ DelBr(PortBridge(v))
            \/ DelBr(Bridge[v]) /\ IsTrunk(Bridge[v])
         /\ LibvirtKept
         /\ raced' = raced
<1> USE DEF Lost, Partial, Blind, NoFault, ForgetPorts, netVars, ovsdbVars
<1>0. NoFault \/ ForgetPorts \/ byLibvirt' = byLibvirt => LibvirtKept
  BY ForgetFrame DEF Typed
<1>1. CASE Unplug(v) \/ ExistsQbr(v) \/ DeleteLinuxBridge(v)
  BY <1>0, <1>1 DEF Unplug, ExistsQbr, DeleteLinuxBridge
<1>2. CASE FindRepresentor(v) \/ DeleteTap(v) \/ DeletePortDevice(v)
  BY <1>0, <1>2 DEF FindRepresentor, DeleteTap, DeletePortDevice
<1>3. CASE SetRepresentorDown(v) \/ CleanQos(v)
  BY <1>0, <1>3 DEF SetRepresentorDown, CleanQos
<1>4. CASE DeleteIntPatch(v) \/ DeletePortPatch(v)
  <2>1. <<"ibp", v>> \in PortsOf(v) /\ <<"pbp", v>> \in PortsOf(v)
    BY DEF PortsOf, PortKinds
  <2> QED
    BY <1>0, <1>4, <2>1 DEF DeleteIntPatch, DeletePortPatch, DeletePatch
<1>5. CASE DeleteOvsVifPort(v)
  <2>1. port[v] \in PortsOf(v)
    BY <1>5, WorkPort DEF DeleteOvsVifPort, At, UnplugWork, UnplugPcs
  <2> QED
    BY <1>0, <1>5, <2>1 DEF DeleteOvsVifPort
<1>6. CASE DeletePortBridge(v) \/ DeleteTrunk(v)
  BY <1>0, <1>6 DEF DeletePortBridge, DeleteTrunk
<1> QED
  BY <1>1, <1>2, <1>3, <1>4, <1>5, <1>6 DEF UnplugStep

LEMMA IsolationUnplugStep ==
  ASSUME Typed, IsolationInv, NEW v \in Vifs, UnplugStep(v)
  PROVE  IsolationInv'
<1>1. DecisionsKept /\ pc'[v] \notin DecidedPcs /\ TypeOK /\ RacedKept
  BY UnplugDecisions, UnplugEffect DEF Typed, RacedKept
<1>2. CASE UNCHANGED portVars
  <2>1. TagsKept /\ SeenKept
    BY <1>2 DEF portVars, TagsKept, SeenKept
  <2> QED
    BY <1>1, <2>1, UnplugEffect, IsolationFrame
<1>3. CASE ~UNCHANGED portVars
  <2>1. TagsKept /\ SeenKept
    BY <1>1, <1>3, UnplugEffect, RemovalFrame
  <2> QED
    BY <1>1, <2>1, UnplugEffect, IsolationFrame
<1> QED
  BY <1>2, <1>3

LEMMA IsolationOtherStep ==
  ASSUME Typed, IsolationInv, NEW v \in Vifs,
         \/ BeginPlug(v) \/ BeginUnplug(v) \/ StepRaises(v)
         \/ AgentWires(v) \/ LibvirtPlugs(v) \/ LibvirtUnplugs(v)
         \/ Crash \/ Reboot
  PROVE  IsolationInv'
<1>0. TypeOK
  BY DEF Typed
<1>1. DecisionsKept
  <2>1. CASE BeginPlug(v) \/ BeginUnplug(v)
    BY <1>0, <2>1
       DEF BeginPlug, BeginUnplug, localVars, DecisionsKept, DecidedPcs,
           CreatePcs, TypeOK, CallTypeOK
  <2>2. CASE StepRaises(v)
    BY <1>0, <2>2, DecisionsFrame DEF StepRaises
  <2>3. CASE AgentWires(v) \/ LibvirtPlugs(v) \/ LibvirtUnplugs(v)
    BY <2>3 DEF AgentWires, LibvirtPlugs, LibvirtUnplugs, localVars,
                DecisionsKept
  <2>4. CASE Crash \/ Reboot
    BY <2>4 DEF Crash, Reboot, AbandonCalls, DecisionsKept, DecidedPcs,
                CreatePcs
  <2> QED
    BY <2>1, <2>2, <2>3, <2>4
<1>a. RacedKept
  BY DEF BeginPlug, BeginUnplug, StepRaises, AgentWires, LibvirtPlugs,
         LibvirtUnplugs, Untimely, Crash, Reboot, NoFault, RacedKept
<1>2. CASE \/ BeginPlug(v) \/ BeginUnplug(v) \/ StepRaises(v)
           \/ Crash \/ Reboot
  <2>1. UNCHANGED <<portBr, tag>> /\ byLibvirt' = byLibvirt /\ raced' = raced
    BY <1>2 DEF BeginPlug, BeginUnplug, StepRaises, Crash, Reboot, NoFault,
                netVars, ovsdbVars, portVars
  <2> QED
    BY <1>1, <2>1, IsolationQuiet
<1>3. CASE AgentWires(v)
  <2>1. TagsKept /\ SeenKept /\ LibvirtKept
    BY <1>0, <1>3 DEF AgentWires, NoFault, TypeOK, NetTypeOK, TagsKept,
                      SeenKept, LibvirtKept
  <2> QED
    BY <1>1, <1>a, <2>1, IsolationFrame
<1>4. CASE LibvirtUnplugs(v)
  <2>1. <<"tap", v>> \in PortsOf(v)
    BY DEF PortsOf, PortKinds
  <2>2. /\ TagsKept
        /\ \A p \in Ports \ {<<"tap", v>>} : portBr'[p] = portBr[p]
    BY <1>0, <1>4 DEF LibvirtUnplugs, DelPort, RemovePorts, TagsKept, TypeOK,
                      NetTypeOK
  <2>3. portBr'[<<"tap", v>>] # Bridge[v]
    BY <1>4, <2>1, Places, NetAssumption
       DEF LibvirtUnplugs, DelPort, RemovePorts
  <2>4. LibvirtKept
    BY <1>4, <2>3 DEF LibvirtUnplugs, LibvirtKept
  <2>5. pc'[v] \in CreatePcs => v \in raced'
    BY <1>4 DEF LibvirtUnplugs, Untimely, Deciding, At, CreatePcs
  <2>6. SeenKept
    BY <2>1, <2>2, <2>5, OwnPorts, Places DEF SeenKept
  <2> QED
    BY <1>1, <1>a, <2>2, <2>4, <2>6, IsolationFrame
<1>5. CASE LibvirtPlugs(v)
  <2>1. <<"tap", v>> \in PortsOf(v) /\ <<"tap", v>> \in Ports
    BY Places DEF PortsOf, PortKinds
  <2>2. /\ \A p \in Ports \ {<<"tap", v>>} :
             portBr'[p] = portBr[p] /\ tag'[p] = tag[p]
        /\ byLibvirt' = byLibvirt \cup {v}
        /\ pc'[v] \in CreatePcs => v \in raced'
    BY <1>0, <1>5, <2>1
       DEF LibvirtPlugs, Untimely, Deciding, At, TypeOK, NetTypeOK, CreatePcs
  <2>3. SeenKept
    BY <2>1, <2>2, OwnPorts, Places DEF SeenKept
  <2>4. IsolatedUntilWired'
    <3> SUFFICES ASSUME IsolateVif, NEW w \in Vifs \ raced',
                        NEW p \in PortsOf(w),
                        portBr'[p] = Bridge[w], ~IsTrunk(Bridge[w]),
                        ~(w \in byLibvirt' /\ p = <<"tap", w>>)
                 PROVE  tag'[p] \in {"dead", "local"}
      BY DEF IsolatedUntilWired, IsTrunk
    <3>1. p # <<"tap", v>>
      BY <2>1, <2>2, OwnPorts
    <3> QED
      BY <1>a, <2>2, <3>1, Places
         DEF IsolationInv, IsolatedUntilWired, RacedKept
  <2> QED
    BY <1>1, <1>a, <2>3, <2>4, SeenFrame DEF IsolationInv
<1> QED
  BY <1>2, <1>3, <1>4, <1>5

\* With isolate_vif, and whichever failures occur, lost OVSDB commands and
\* failed looks included, a port the plugin made on a bridge of the agent's
\* carries the dead VLAN until the agent has wired it (ovs.py:239-244,
\* 457-459), for every VIF whose VM never stopped or started between the
\* look of a plug() at the port and its transaction.
THEOREM IsolationCorrect == Spec => []IsolatedUntilWired
<1>1. Init => IsolationInv
  <2> SUFFICES ASSUME Init PROVE IsolationInv
    OBVIOUS
  <2>1. \A v \in Vifs : \A p \in PortsOf(v) : portBr[p] # Bridge[v]
    BY Places, NetAssumption DEF Init, NetInit
  <2>2. IsolatedUntilWired
    BY <2>1 DEF IsolatedUntilWired
  <2>3. PortSeen /\ PatchSeen
    BY DEF Init, PortSeen, PatchSeen, CreatePcs
  <2> QED
    BY <2>2, <2>3 DEF IsolationInv
<1>2. Typed /\ IsolationInv /\ [Next]_vars => IsolationInv'
  <2> SUFFICES ASSUME Typed, IsolationInv, [Next]_vars PROVE IsolationInv'
    OBVIOUS
  <2>1. CASE UNCHANGED vars
    <3>1. /\ UNCHANGED <<portBr, tag>>
          /\ byLibvirt' = byLibvirt /\ raced' = raced
          /\ UNCHANGED <<pc, port, isolating>>
      BY <2>1 DEF vars, netVars, ovsdbVars, portVars, localVars
    <3>2. DecisionsKept
      BY <3>1 DEF DecisionsKept
    <3> QED
      BY <3>1, <3>2, IsolationQuiet
  <2>2. ASSUME NEW v \in Vifs, PlugStep(v) \/ UnplugStep(v)
        PROVE  IsolationInv'
    BY <2>2, IsolationPlugStep, IsolationUnplugStep
  <2>3. CASE Crash \/ Reboot
    <3>1. CASE Vifs = {}
      BY <3>1 DEF IsolationInv, IsolatedUntilWired, PortSeen, PatchSeen
    <3>2. CASE Vifs # {}
      BY <2>3, <3>2, IsolationOtherStep
    <3> QED
      BY <3>1, <3>2
  <2> QED
    BY <2>1, <2>2, <2>3, IsolationOtherStep DEF Next
<1>3. IsolationInv => IsolatedUntilWired
  BY DEF IsolationInv
<1> QED
  BY <1>1, <1>2, <1>3, TypedInvariant, PTL DEF Spec
=============================================================================
