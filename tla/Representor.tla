---------------------------- MODULE Representor ----------------------------
(***************************************************************************)
(* How _plug_vf() and _unplug_vf() of src/vif_plug_ovs/ovs.py find the     *)
(* representor of an SR-IOV VF: src/vif_plug_ovs/linux_net.py reads sysfs  *)
(* file by file while drivers, udev and the operator add and remove        *)
(* network devices, disable VFs and change the mode of a switch.           *)
(*                                                                         *)
(* A network device keeps its name, so a device stands for its name.  Of a *)
(* phys_port_name the model keeps what the regular expressions of the code *)
(* extract from it.  A card numbers the PFs in those names by PCI          *)
(* function; names of external controllers (c1pf0vf1) are left out.        *)
(***************************************************************************)
EXTENDS Integers

CONSTANTS
  Pfs,         \* the physical functions
  Card,        \* the switch id of each: PFs of one card may share it
  Func,        \* the PCI function number of each
  Netdevs,     \* network devices: an uplink, and representors of VFs and SFs
  Vfs,         \* the VFs whose representor may be asked for
  Linked,      \* switches whose representors are children of their PF
  PlainNames,  \* switches whose representors are named by the VF number alone
  MaxEvents    \* bound: changes of the host

None  == -1       \* a regular expression does not match
NoFile == "none"  \* the file is not there: the reader returns None
Error == "error"  \* the file cannot be read: the reader raises
NoDevice == [kind |-> "none", pf |-> "none", num |-> None]
Switches == {Card[f] : f \in Pfs}

ASSUME RepresentorAssumption ==
  /\ Func \in [Pfs -> Nat]
  /\ Switches \cap {NoFile, Error} = {}
  /\ Netdevs \subseteq [kind : {"uplink", "vf", "sf"}, pf : Pfs, num : Nat]
  /\ Vfs \subseteq [pf : Pfs, num : Nat]
  /\ MaxEvents \in Nat
  \* PFs that share a switch differ in their function, and a switch whose
  \* names do not tell the PF has one PF.
  /\ \A f, g \in Pfs :
       /\ Card[f] = Card[g]
       /\ Func[f] = Func[g] \/ Card[f] \in PlainNames
       => f = g

Uplinks(f) == {d \in Netdevs : d.kind = "uplink" /\ d.pf = f}
RepresentorOf(v) == [kind |-> "vf", pf |-> v.pf, num |-> v.num]

\* A device whose parent is the PCI device of its PF: .../device leads there,
\* and the PF lists it in its net directory.
HasParent(d) == d.kind = "uplink" \/ Card[d.pf] \in Linked
PfNetdevs(f) == {d \in Netdevs : d.pf = f /\ HasParent(d)}

\* UPLINK_PORT_RE, _parse_pf_number() and _parse_vf_number() of its name.
PortName(d) ==
  [read   |-> "name",
   uplink |-> d.kind = "uplink",
   pf     |-> IF d.kind = "uplink" \/ Card[d.pf] \in PlainNames
              THEN None ELSE Func[d.pf],
   vf     |-> IF d.kind = "vf" THEN d.num ELSE None]
NoName(why) == [read |-> why, uplink |-> FALSE, pf |-> None, vf |-> None]

VARIABLES
  present,    \* devices that exist
  switchdev,  \* PFs in switchdev mode
  sriov,      \* PFs whose VFs are enabled
  pc,         \* the next read of the lookup
  call,       \* the call it serves: plug or unplug
  vf,         \* the VF it is about
  todo,       \* devices of the directory listing not looked at yet
  cur,        \* the device being looked at
  fallback,   \* fallback_netdev
  pfIf,       \* pf_ifname
  pfSw,       \* pf_sw_id
  pfFunc,     \* ifname_pf_func
  result,     \* the representor returned
  error,      \* the exception raised
  start,      \* history: the devices there when the lookup began
  gone,       \* history: the devices that went away since
  events

hostVars   == <<present, switchdev, sriov, gone, events>>
callVars   == <<call, vf, start>>
foundVars  == <<fallback, pfIf, pfSw, pfFunc>>
lookupVars == <<pc, callVars, todo, cur, foundVars, result, error>>
vars == <<hostVars, lookupVars>>

Pcs == {"idle", "vf_num", "pf_list", "pf_loop", "pf_name", "pf_switch",
        "all_list", "pf_func", "rep_loop", "rep_name", "done"}
Errors == {"none", "PciDeviceNotFoundById", "RepresentorNotFound", "OSError"}

TypeOK ==
  /\ present \subseteq Netdevs
  /\ switchdev \subseteq Pfs
  /\ sriov \subseteq Pfs
  /\ pc \in Pcs
  /\ call \in {"plug", "unplug"}
  /\ vf \in Vfs
  /\ todo \subseteq Netdevs
  /\ {cur, fallback, pfIf, result} \subseteq Netdevs \cup {NoDevice}
  /\ pfSw \in Switches \cup {NoFile}
  /\ pfFunc \in Nat \cup {None}
  /\ error \in Errors
  /\ start \subseteq Netdevs
  /\ gone \subseteq Netdevs
  /\ events \in 0..MaxEvents

Init ==
  /\ present = Netdevs /\ switchdev = Pfs /\ sriov = Pfs
  /\ pc = "idle"
  /\ call \in {"plug", "unplug"}
  /\ vf \in Vfs
  /\ todo = {} /\ cur = NoDevice /\ fallback = NoDevice /\ pfIf = NoDevice
  /\ pfSw = NoFile /\ pfFunc = None
  /\ result = NoDevice /\ error = "none"
  /\ start = {} /\ gone = {}
  /\ events = 0

-----------------------------------------------------------------------------
(* Reads of sysfs                                                          *)

\* _get_phys_switch_id(): unreadable outside switchdev mode; a file that
\* vanished is found missing, or fails to open after it was found.
SwitchIds(d) ==
  IF d \in present
  THEN {IF d.pf \in switchdev THEN Card[d.pf] ELSE Error}
  ELSE {NoFile, Error}

\* _get_phys_port_name()
PortNames(d) ==
  IF d \in present THEN {PortName(d)} ELSE {NoName(NoFile), NoName(Error)}

Raise(e) ==
  /\ pc' = "done"
  /\ error' = e
  /\ UNCHANGED <<callVars, todo, cur, foundVars, result>>

Go(next) == pc' = next /\ UNCHANGED <<callVars, result, error>>

-----------------------------------------------------------------------------
(* The lookup.  _plug_vf() asks for the number of the VF first,            *)
(* _unplug_vf() for the netdev of its PF.                                  *)

Begin ==
  /\ pc = "idle"
  /\ pc' = IF call = "plug" THEN "vf_num" ELSE "pf_list"
  /\ start' = present
  /\ gone' = {}
  /\ UNCHANGED <<present, switchdev, sriov, events, call, vf, todo, cur,
                 foundVars, result, error>>

\* get_vf_num_by_pci_address(): a virtfn link of the PF leads to the VF.
FindVfNum ==
  /\ pc = "vf_num"
  /\ IF vf.pf \in sriov
     THEN /\ Go(IF call = "plug" THEN "pf_list" ELSE "pf_switch")
          /\ UNCHANGED <<todo, cur, foundVars>>
     ELSE Raise("PciDeviceNotFoundById")
  /\ UNCHANGED hostVars

\* get_ifname_by_pci_address(): the listing of physfn/net.
ListPf ==
  /\ pc = "pf_list"
  /\ IF vf.pf \in sriov
     THEN /\ todo' = PfNetdevs(vf.pf) \cap present
          /\ Go("pf_loop")
          /\ UNCHANGED <<cur, foundVars>>
     ELSE Raise("PciDeviceNotFoundById")
  /\ UNCHANGED hostVars

FoundPf(d) ==
  /\ pfIf' = d
  /\ Go(IF call = "plug" THEN "pf_switch" ELSE "vf_num")
  /\ UNCHANGED <<todo, cur, fallback, pfSw, pfFunc>>

\* ... the next of its netdevs: _is_switchdev() hides a failed read.
PfNext ==
  /\ pc = "pf_loop"
  /\ todo # {}
  /\ \E d \in todo : \E id \in SwitchIds(d) :
       /\ todo' = todo \ {d}
       /\ IF id \in Switches
          THEN /\ cur' = d
               /\ fallback' = IF fallback = NoDevice THEN d ELSE fallback
               /\ Go("pf_name")
          ELSE Go("pf_loop") /\ UNCHANGED <<cur, fallback>>
  /\ UNCHANGED <<hostVars, pfIf, pfSw, pfFunc>>

\* ... there is no uplink among them.
PfEnd ==
  /\ pc = "pf_loop"
  /\ todo = {}
  /\ IF fallback # NoDevice
     THEN FoundPf(fallback)
     ELSE Raise("PciDeviceNotFoundById")
  /\ UNCHANGED hostVars

\* ... the port name of a switchdev netdev: a failed read ends the search.
PfName ==
  /\ pc = "pf_name"
  /\ \E name \in PortNames(cur) :
       \/ name.read = Error /\ Raise("PciDeviceNotFoundById")
       \/ name.uplink /\ FoundPf(cur)
       \/ /\ name.read # Error /\ ~name.uplink
          /\ Go("pf_loop")
          /\ UNCHANGED <<todo, cur, foundVars>>
  /\ UNCHANGED hostVars

\* Mutant of PfSwitch: pf_sw_id is assigned though its read failed.
PfSwitchUnguarded ==
  /\ pc = "pf_switch"
  /\ \E id \in SwitchIds(pfIf) :
       /\ pfSw' = id
       /\ Go("all_list")
       /\ UNCHANGED <<todo, cur, fallback, pfIf, pfFunc>>
  /\ UNCHANGED hostVars

\* get_representor_port(): the switch of the PF, None if the netdev is gone.
PfSwitch ==
  /\ pc = "pf_switch"
  /\ \E id \in SwitchIds(pfIf) :
       IF id = Error
       THEN Raise("RepresentorNotFound")
       ELSE /\ pfSw' = id
            /\ Go("all_list")
            /\ UNCHANGED <<todo, cur, fallback, pfIf, pfFunc>>
  /\ UNCHANGED hostVars

\* ... the listing of all netdevs, through the subsystem link of the PF's.
ListAll ==
  /\ pc = "all_list"
  /\ IF pfIf \in present
     THEN /\ todo' = present
          /\ Go("pf_func")
          /\ UNCHANGED <<cur, foundVars>>
     ELSE Raise("RepresentorNotFound")
  /\ UNCHANGED hostVars

\* _get_pf_func(): readlink() of a device that vanished after isdir() raises.
PfFunc ==
  /\ pc = "pf_func"
  /\ IF pfIf \in present /\ HasParent(pfIf)
     THEN /\ pfFunc' = Func[pfIf.pf]
          /\ Go("rep_loop")
          /\ UNCHANGED <<todo, cur, fallback, pfIf, pfSw>>
     ELSE \/ Raise("RepresentorNotFound")
          \/ pfIf \notin present /\ Raise("OSError")
  /\ UNCHANGED hostVars

\* ... the next netdev: one of another switch, or unreadable, is passed over.
RepNext ==
  /\ pc = "rep_loop"
  /\ todo # {}
  /\ \E d \in todo : \E id \in SwitchIds(d) :
       /\ todo' = todo \ {d}
       /\ IF id \in Switches /\ id = pfSw
          THEN cur' = d /\ Go("rep_name")
          ELSE Go("rep_loop") /\ UNCHANGED cur
  /\ UNCHANGED <<hostVars, foundVars>>

RepEnd ==
  /\ pc = "rep_loop"
  /\ todo = {}
  /\ Raise("RepresentorNotFound")
  /\ UNCHANGED hostVars

\* Mutant of Matches: the PF of a port name is not compared.
MatchesAnyPf(name) == name.vf = vf.num

\* ... the checks of a port name: the PF, where it names one, then the VF.
Matches(name) == name.pf \in {None, pfFunc} /\ name.vf = vf.num

\* Mutant of RepName: a failed read is not caught.
RepNameUnguarded ==
  /\ pc = "rep_name"
  /\ \E name \in PortNames(cur) :
       CASE name.read = Error ->
              /\ pc' = "done"
              /\ error' = "OSError"
              /\ UNCHANGED <<callVars, result>>
         [] Matches(name) ->
              /\ result' = cur
              /\ pc' = "done"
              /\ UNCHANGED <<callVars, error>>
         [] OTHER -> Go("rep_loop")
  /\ UNCHANGED <<hostVars, todo, cur, foundVars>>

\* ... the next port name: one that cannot be read is passed over.
RepName ==
  /\ pc = "rep_name"
  /\ \E name \in PortNames(cur) :
       IF Matches(name)
       THEN /\ result' = cur
            /\ pc' = "done"
            /\ UNCHANGED <<callVars, error>>
       ELSE Go("rep_loop")
  /\ UNCHANGED <<hostVars, todo, cur, foundVars>>

Lookup ==
  \/ Begin \/ FindVfNum \/ ListPf \/ PfNext \/ PfEnd \/ PfName
  \/ PfSwitch \/ ListAll \/ PfFunc \/ RepNext \/ RepEnd \/ RepName

-----------------------------------------------------------------------------
(* The host, while the lookup runs                                         *)

Change ==
  /\ pc # "done"
  /\ events < MaxEvents
  /\ events' = events + 1
  /\ gone' = gone \cup (present \ present')
  /\ UNCHANGED lookupVars

\* A device is unregistered or moves to another network namespace.
RemoveNetdev(d) ==
  /\ d \in present
  /\ present' = present \ {d}
  /\ Change
  /\ UNCHANGED <<switchdev, sriov>>

\* A device appears: a representor only in switchdev mode, one of a VF only
\* while the VFs are enabled.
AddNetdev(d) ==
  /\ d \notin present
  /\ d.kind = "uplink" \/ d.pf \in switchdev
  /\ d.kind # "vf" \/ d.pf \in sriov
  /\ present' = present \cup {d}
  /\ Change
  /\ UNCHANGED <<switchdev, sriov>>

\* sriov_numvfs is set to 0: the VFs go, and their representors.
DisableVfs(f) ==
  /\ f \in sriov
  /\ sriov' = sriov \ {f}
  /\ present' = {d \in present : d.pf # f \/ d.kind # "vf"}
  /\ Change
  /\ UNCHANGED switchdev

EnableVfs(f) ==
  /\ f \notin sriov
  /\ sriov' = sriov \cup {f}
  /\ UNCHANGED <<present, switchdev>>
  /\ Change

\* devlink dev eswitch set mode legacy: all representors go.
SetLegacy(f) ==
  /\ f \in switchdev
  /\ switchdev' = switchdev \ {f}
  /\ present' = {d \in present : d.pf # f \/ d.kind = "uplink"}
  /\ Change
  /\ UNCHANGED sriov

SetSwitchdev(f) ==
  /\ f \notin switchdev
  /\ switchdev' = switchdev \cup {f}
  /\ UNCHANGED <<present, sriov>>
  /\ Change

Host ==
  \/ \E d \in Netdevs : RemoveNetdev(d) \/ AddNetdev(d)
  \/ \E f \in Pfs : \/ DisableVfs(f) \/ EnableVfs(f)
                    \/ SetLegacy(f) \/ SetSwitchdev(f)

Next == Lookup \/ Host
Spec == Init /\ [][Next]_vars

-----------------------------------------------------------------------------
(* Properties                                                              *)

\* What get_representor_port() returns is the representor of the VF that was
\* asked for, never that of the VF with the same number on another PF or of
\* another kind of function, whatever came and went between its reads.
FoundIsRepresentor == result # NoDevice => result = RepresentorOf(vf)

\* The lookup fails only for a reason: with the uplink and the representor
\* there from beginning to end it finds the representor, whatever else comes
\* and goes on the host - unless another netdev of the same PF went away,
\* whose failed port name read get_ifname_by_pci_address() turns into
\* PciDeviceNotFoundById.
Steady(d) == d \in start \ gone
FoundIfThere ==
  error # "none" =>
    \/ ~Steady(RepresentorOf(vf))
    \/ \E u \in Uplinks(vf.pf) : ~Steady(u)
    \/ /\ error = "PciDeviceNotFoundById"
       /\ gone \cap PfNetdevs(vf.pf) # {}

=============================================================================
