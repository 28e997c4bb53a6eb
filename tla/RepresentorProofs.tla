------------------------- MODULE RepresentorProofs -------------------------
(***************************************************************************)
(* The lookup never returns another device than the representor of its VF, *)
(* for any cards, devices and VFs and whatever the host does between the   *)
(* reads.                                                                  *)
(***************************************************************************)
EXTENDS Representor, TLAPS

\* What the lookup has learned holds for good, though the devices it learned
\* it from may be gone: the netdev it takes for the PF's is one of the PF's,
\* pf_sw_id is the PF's switch or None, ifname_pf_func the PF's function,
\* and the device whose port name is read is on that switch.
LookupInv ==
  /\ vf \in Vfs
  /\ todo \subseteq Netdevs
  /\ pc \in {"pf_loop", "pf_name"} => todo \subseteq PfNetdevs(vf.pf)
  /\ pc = "pf_name" => cur \in PfNetdevs(vf.pf)
  /\ fallback # NoDevice => fallback \in PfNetdevs(vf.pf)
  /\ pc \in {"pf_switch", "all_list", "pf_func"}
       => pfIf \in PfNetdevs(vf.pf)
  /\ call = "unplug" /\ pc = "vf_num" => pfIf \in PfNetdevs(vf.pf)
  /\ pfSw \in {Card[vf.pf], NoFile}
  /\ pc \in {"rep_loop", "rep_name"} => pfFunc = Func[vf.pf]
  /\ pc = "rep_name" => cur \in Netdevs /\ Card[cur.pf] = pfSw
  /\ call \in {"plug", "unplug"}
  /\ present \subseteq Netdevs
  /\ FoundIsRepresentor

\* A port name that passes the checks, of a device on the switch of the PF,
\* is that of the VF's representor.
LEMMA NameTellsVf ==
  ASSUME NEW d \in Netdevs, NEW v \in Vfs,
         Card[d.pf] = Card[v.pf],
         PortName(d).pf \in {None, Func[v.pf]},
         PortName(d).vf = v.num
  PROVE  d = RepresentorOf(v)
<1>1. /\ d \in [kind : {"uplink", "vf", "sf"}, pf : Pfs, num : Nat]
      /\ v \in [pf : Pfs, num : Nat]
      /\ Func[d.pf] \in Nat
  BY RepresentorAssumption
<1>2. d.kind = "vf" /\ d.num = v.num
  BY <1>1 DEF PortName, None
<1>3. d.pf = v.pf
  <2>1. Card[d.pf] \in PlainNames \/ Func[d.pf] = Func[v.pf]
    BY <1>1, <1>2 DEF PortName, None
  <2> QED
    BY <1>1, <2>1, RepresentorAssumption
<1> QED
  BY <1>1, <1>2, <1>3 DEF RepresentorOf

\* The names a device may be found to have: its own, or one that tells no VF.
LEMMA NameRead ==
  ASSUME NEW d, NEW name \in PortNames(d)
  PROVE  name = PortName(d) \/ (name.vf = None /\ ~name.uplink)
BY DEF PortNames, NoName

LEMMA UplinkName ==
  ASSUME NEW d
  PROVE  PortName(d).uplink <=> d.kind = "uplink"
BY DEF PortName

LEMMA SwitchRead ==
  ASSUME NEW d, NEW id \in SwitchIds(d)
  PROVE  id \in {Card[d.pf], NoFile, Error}
BY DEF SwitchIds

LEMMA InitLookup == Init => LookupInv
BY DEF Init, LookupInv, FoundIsRepresentor

LEMMA HostKeepsLookup ==
  ASSUME LookupInv, Host
  PROVE  LookupInv'
<1>1. UNCHANGED lookupVars
  BY DEF Host, RemoveNetdev, AddNetdev, DisableVfs, EnableVfs, SetLegacy,
         SetSwitchdev, Change
<1>2. present' \subseteq Netdevs
  BY DEF LookupInv, Host, RemoveNetdev, AddNetdev, DisableVfs, EnableVfs,
         SetLegacy, SetSwitchdev
<1> QED
  BY <1>1, <1>2 DEF LookupInv, FoundIsRepresentor, lookupVars, callVars,
     foundVars

LEMMA LookupKeeps ==
  ASSUME LookupInv, Lookup
  PROVE  LookupInv'
<1> USE DEF LookupInv, FoundIsRepresentor, Go, Raise, hostVars, callVars,
            foundVars
<1>1. CASE Begin
  BY <1>1 DEF Begin
<1>2. CASE FindVfNum
  BY <1>2 DEF FindVfNum
<1>3. CASE ListPf
  BY <1>3 DEF ListPf
<1>4. CASE PfNext
  BY <1>4 DEF PfNext
<1>5. CASE PfEnd
  BY <1>5 DEF PfEnd, FoundPf
<1>6. CASE PfName
  <2>1. \/ Raise("PciDeviceNotFoundById")
        \/ FoundPf(cur)
        \/ Go("pf_loop") /\ UNCHANGED <<todo, cur, foundVars>>
    BY <1>6, Zenon DEF PfName
  <2>2. pc = "pf_name" /\ UNCHANGED hostVars
    BY <1>6, Zenon DEF PfName
  <2> QED
    BY <2>1, <2>2 DEF FoundPf
<1>7. CASE PfSwitch
  <2>1. pfIf.pf = vf.pf
    BY <1>7 DEF PfSwitch, PfNetdevs
  <2>2. PICK id \in SwitchIds(pfIf) :
          IF id = Error
          THEN Raise("RepresentorNotFound")
          ELSE /\ pfSw' = id
               /\ Go("all_list")
               /\ UNCHANGED <<todo, cur, fallback, pfIf, pfFunc>>
    BY <1>7 DEF PfSwitch
  <2>3. id \in {Card[vf.pf], NoFile, Error}
    BY <2>1, SwitchRead
  <2> QED
    BY <1>7, <2>2, <2>3 DEF PfSwitch
<1>8. CASE ListAll
  BY <1>8 DEF ListAll
<1>9. CASE PfFunc
  BY <1>9 DEF PfFunc, PfNetdevs
<1>10. CASE RepNext
  <2>1. PICK d \in todo : \E id \in SwitchIds(d) :
          /\ todo' = todo \ {d}
          /\ IF id \in Switches /\ id = pfSw
             THEN cur' = d /\ Go("rep_name")
             ELSE Go("rep_loop") /\ UNCHANGED cur
    BY <1>10 DEF RepNext
  <2>2. PICK id \in SwitchIds(d) :
          /\ todo' = todo \ {d}
          /\ IF id \in Switches /\ id = pfSw
             THEN cur' = d /\ Go("rep_name")
             ELSE Go("rep_loop") /\ UNCHANGED cur
    BY <2>1
  <2>3. id \in Switches => id = Card[d.pf]
    BY SwitchRead, RepresentorAssumption
  <2> QED
    BY <1>10, <2>2, <2>3 DEF RepNext
<1>11. CASE RepEnd
  BY <1>11 DEF RepEnd
<1>12. CASE RepName
  <2>1. PICK name \in PortNames(cur) :
          IF Matches(name)
          THEN /\ result' = cur
               /\ pc' = "done"
               /\ UNCHANGED <<callVars, error>>
          ELSE Go("rep_loop")
    BY <1>12 DEF RepName
  <2>2. ASSUME Matches(name)
        PROVE  cur = RepresentorOf(vf)
    <3>1. vf.num \in Nat /\ cur \in Netdevs /\ cur.pf \in Pfs
      BY <1>12, RepresentorAssumption DEF RepName
    <3>2. name = PortName(cur)
      BY <2>2, <3>1, NameRead DEF Matches, None
    <3>3. Card[cur.pf] = Card[vf.pf]
      BY <1>12, <3>1, RepresentorAssumption DEF RepName, Switches
    <3>4. pfFunc = Func[vf.pf]
      BY <1>12 DEF RepName
    <3> QED
      BY <2>2, <3>1, <3>2, <3>3, <3>4, NameTellsVf DEF Matches
  <2> QED
    BY <1>12, <2>1, <2>2 DEF RepName
<1> QED
  BY <1>1, <1>2, <1>3, <1>4, <1>5, <1>6, <1>7, <1>8, <1>9, <1>10, <1>11,
     <1>12 DEF Lookup

LEMMA LookupInvariant == Spec => []LookupInv
<1>1. LookupInv /\ [Next]_vars => LookupInv'
  <2> SUFFICES ASSUME LookupInv, [Next]_vars
               PROVE  LookupInv'
    OBVIOUS
  <2>1. CASE Lookup
    BY <2>1, LookupKeeps
  <2>2. CASE Host
    BY <2>2, HostKeepsLookup
  <2>3. CASE UNCHANGED vars
    BY <2>3 DEF LookupInv, FoundIsRepresentor, vars, hostVars, lookupVars,
       callVars, foundVars
  <2> QED
    BY <2>1, <2>2, <2>3 DEF Next
<1> QED
  BY InitLookup, <1>1, PTL DEF Spec

\* get_representor_port() returns the representor of the VF it was asked for
\* or raises: no device of another PF, another VF or an SF, whatever devices,
\* VFs and switch modes come and go between its reads.
THEOREM RepresentorCorrect == Spec => []FoundIsRepresentor
<1>1. LookupInv => FoundIsRepresentor
  BY DEF LookupInv
<1> QED
  BY LookupInvariant, <1>1, PTL

-----------------------------------------------------------------------------
\* What the next read of a netdev of the PF leads to.
LEMMA PfNameLeads ==
  ASSUME PfName
  PROVE  /\ pc = "pf_name" /\ UNCHANGED hostVars
         /\ \/ /\ \E name \in PortNames(cur) : name.read = Error
               /\ Raise("PciDeviceNotFoundById")
            \/ /\ \E name \in PortNames(cur) : name.uplink
               /\ FoundPf(cur)
            \/ /\ \E name \in PortNames(cur) : ~ name.uplink
               /\ Go("pf_loop") /\ UNCHANGED <<todo, cur, foundVars>>
BY Zenon DEF PfName

LEMMA LookupKeepsTypes ==
  ASSUME TypeOK, LookupInv, Lookup
  PROVE  TypeOK'
<1> USE DEF TypeOK, Pcs, Errors, Go, Raise, hostVars, callVars, foundVars
<1>1. CASE Begin
  BY <1>1 DEF Begin
<1>2. CASE FindVfNum
  BY <1>2 DEF FindVfNum
<1>3. CASE ListPf
  BY <1>3 DEF ListPf
<1>4. CASE PfNext
  BY <1>4 DEF PfNext
<1>5. CASE PfEnd
  BY <1>5 DEF PfEnd, FoundPf
<1>6. CASE PfName
  BY <1>6, PfNameLeads DEF FoundPf
<1>7. CASE PfSwitch
  <2>1. Card[pfIf.pf] \in Switches
    BY <1>7, RepresentorAssumption DEF PfSwitch, LookupInv, PfNetdevs, Switches
  <2>2. \A id \in SwitchIds(pfIf) : id \in Switches \cup {NoFile, Error}
    BY <2>1, SwitchRead
  <2> QED
    BY <1>7, <2>2 DEF PfSwitch
<1>8. CASE ListAll
  BY <1>8 DEF ListAll
<1>9. CASE PfFunc
  <2>1. Func[pfIf.pf] \in Nat
    BY <1>9, RepresentorAssumption DEF PfFunc, LookupInv, PfNetdevs
  <2> QED
    BY <1>9, <2>1 DEF PfFunc
<1>10. CASE RepNext
  BY <1>10 DEF RepNext
<1>11. CASE RepEnd
  BY <1>11 DEF RepEnd
<1>12. CASE RepName
  BY <1>12 DEF RepName
<1> QED
  BY <1>1, <1>2, <1>3, <1>4, <1>5, <1>6, <1>7, <1>8, <1>9, <1>10, <1>11,
     <1>12 DEF Lookup

LEMMA HostKeepsTypes ==
  ASSUME TypeOK, Host
  PROVE  TypeOK'
<1>1. /\ present' \subseteq Netdevs /\ switchdev' \subseteq Pfs
      /\ sriov' \subseteq Pfs /\ Change
  BY DEF TypeOK, Host, RemoveNetdev, AddNetdev, DisableVfs, EnableVfs,
     SetLegacy, SetSwitchdev
<1> QED
  BY <1>1, RepresentorAssumption DEF TypeOK, Change, lookupVars, callVars,
     foundVars

\* Type correctness of the lookup, whatever the host does meanwhile: a switch
\* id that could not be read is never taken for one.
THEOREM TypeCorrect == Spec => []TypeOK
<1>1. Init => TypeOK
  BY RepresentorAssumption DEF Init, TypeOK, Pcs, Errors
<1>2. TypeOK /\ LookupInv /\ [Next]_vars => TypeOK'
  <2>1. TypeOK /\ UNCHANGED vars => TypeOK'
    BY DEF TypeOK, vars, hostVars, lookupVars, callVars, foundVars
  <2> QED
    BY <2>1, LookupKeepsTypes, HostKeepsTypes DEF Next
<1> QED
  BY <1>1, <1>2, LookupInvariant, PTL DEF Spec

-----------------------------------------------------------------------------
(* A lookup fails only for a reason                                        *)

\* The uplink and the representor have been there since it began.
AllThere ==
  /\ Steady(RepresentorOf(vf))
  /\ \A u \in Uplinks(vf.pf) : Steady(u)

\* Then the lookup has not missed them: the uplink is ahead of it until it is
\* taken for the netdev of the PF, and so is the representor afterwards.
OnTrack ==
  /\ pc = "pf_loop" => Uplinks(vf.pf) \subseteq todo
  /\ pc = "pf_name" => Uplinks(vf.pf) \subseteq todo \cup {cur}
  /\ \/ pc \in {"pf_switch", "all_list", "pf_func"}
     \/ call = "unplug" /\ pc = "vf_num"
     => pfIf \in Uplinks(vf.pf)
  /\ pc \in {"all_list", "pf_func", "rep_loop", "rep_name"}
       => pfSw = Card[vf.pf]
  /\ pc \in {"pf_func", "rep_loop"} => RepresentorOf(vf) \in todo
  /\ pc = "rep_name" => RepresentorOf(vf) \in todo \cup {cur}

SearchInv ==
  /\ error # "none" => pc = "done"
  /\ \A d \in present : /\ d.kind # "uplink" => d.pf \in switchdev
                        /\ d.kind = "vf" => d.pf \in sriov
  /\ pc # "idle" => start \ gone \subseteq present
  /\ pc \in {"pf_loop", "pf_name"} => todo \subseteq present \cup gone
  /\ pc = "pf_name" => cur \in present \cup gone
  /\ AllThere => OnTrack
  /\ FoundIfThere

\* What reads of the uplink and of the representor give while both are there.
LEMMA ReadsOfThere ==
  ASSUME LookupInv, SearchInv, AllThere, pc # "idle"
  PROVE  /\ vf.pf \in sriov /\ Card[vf.pf] \in Switches
         /\ \A d \in Uplinks(vf.pf) \cup {RepresentorOf(vf)} :
              /\ d \in present
              /\ SwitchIds(d) = {Card[vf.pf]}
              /\ PortNames(d) = {PortName(d)}
<1> DEFINE rep == RepresentorOf(vf)
<1>1. rep \in present /\ rep.kind = "vf" /\ rep.pf = vf.pf
  BY DEF SearchInv, AllThere, Steady, RepresentorOf
<1>2. vf.pf \in switchdev /\ vf.pf \in sriov
  BY <1>1 DEF SearchInv
<1>3. \A u \in Uplinks(vf.pf) : u \in present /\ u.pf = vf.pf
  BY DEF SearchInv, AllThere, Steady, Uplinks
<1>4. Card[vf.pf] \in Switches
  BY RepresentorAssumption DEF LookupInv, Switches
<1> HIDE DEF rep
<1>5. \A d \in Uplinks(vf.pf) \cup {rep} : d \in present /\ d.pf = vf.pf
  BY <1>1, <1>3
<1> QED
  BY <1>2, <1>4, <1>5 DEF SwitchIds, PortNames, rep

\* What a read of the lookup has to see to.
Advances ==
  /\ error' # "none" => pc' = "done"
  /\ pc' \in {"pf_loop", "pf_name"} => todo' \subseteq present \cup gone
  /\ pc' = "pf_name" => cur' \in present \cup gone
  /\ AllThere => OnTrack'
  /\ AllThere /\ error' # "none" =>
       /\ error' = "PciDeviceNotFoundById"
       /\ gone \cap PfNetdevs(vf.pf) # {}

LEMMA LookupAdvances ==
  ASSUME LookupInv, SearchInv, Lookup, ~ Begin, Uplinks(vf.pf) # {}
  PROVE  /\ pc \notin {"idle", "done"}
         /\ UNCHANGED <<hostVars, callVars>>
         /\ Advances
<1>1. pc \notin {"idle", "done"} /\ UNCHANGED <<hostVars, callVars>>
  BY PfNameLeads DEF Lookup, FindVfNum, ListPf, PfNext, PfEnd, FoundPf,
     PfSwitch, ListAll, PfFunc, RepNext, RepEnd, RepName, Go, Raise, callVars
<1>2. error = "none"
  BY <1>1 DEF SearchInv
<1>3. Uplinks(vf.pf) \subseteq PfNetdevs(vf.pf)
  BY DEF Uplinks, PfNetdevs, HasParent
<1> USE <1>2 DEF Advances, OnTrack, Go, Raise, hostVars, callVars, foundVars
<1>4. CASE FindVfNum
  <2>1. AllThere => vf.pf \in sriov
    BY <1>1, ReadsOfThere
  <2>2. AllThere /\ call = "unplug" => pfIf \in Uplinks(vf.pf)
    BY <1>4 DEF FindVfNum, SearchInv
  <2>3. CASE vf.pf \in sriov
    <3>1. /\ pc' = IF call = "plug" THEN "pf_list" ELSE "pf_switch"
          /\ UNCHANGED <<todo, cur, foundVars, error>>
      BY <1>4, <2>3 DEF FindVfNum
    <3>2. call \in {"plug", "unplug"}
      BY DEF LookupInv
    <3> QED
      BY <1>1, <2>2, <3>1, <3>2
  <2>4. CASE vf.pf \notin sriov
    BY <1>4, <2>1, <2>4 DEF FindVfNum
  <2> QED
    BY <2>3, <2>4
<1>5. CASE ListPf
  <2>1. AllThere => vf.pf \in sriov /\ Uplinks(vf.pf) \subseteq present
    BY <1>1, ReadsOfThere
  <2> QED
    BY <1>3, <1>5, <2>1 DEF ListPf
<1>6. CASE PfNext
  <2>1. PICK d \in todo : \E id \in SwitchIds(d) :
          /\ todo' = todo \ {d}
          /\ IF id \in Switches
             THEN cur' = d /\ Go("pf_name")
             ELSE Go("pf_loop")
    BY <1>6 DEF PfNext
  <2>2. AllThere /\ d \in Uplinks(vf.pf) => cur' = d /\ pc' = "pf_name"
    BY <1>1, <2>1, ReadsOfThere
  <2>3. pc = "pf_loop"
    BY <1>6 DEF PfNext
  <2>4. pc' \in {"pf_loop", "pf_name"} /\ error' = "none"
        /\ (pc' = "pf_name" => cur' = d) /\ todo' = todo \ {d}
    BY <2>1
  <2>5. todo \subseteq present \cup gone
        /\ (AllThere => Uplinks(vf.pf) \subseteq todo)
    BY <2>3 DEF SearchInv
  <2> QED
    BY <1>1, <2>2, <2>4, <2>5
<1>7. CASE PfEnd
  <2>1. ~ AllThere
    BY <1>7 DEF PfEnd, SearchInv
  <2> QED
    BY <1>7, <2>1 DEF PfEnd, FoundPf
<1>8. CASE PfName
  <2>1. pc = "pf_name" /\ cur \in present \cup gone /\ cur \in PfNetdevs(vf.pf)
        /\ todo \subseteq present \cup gone
        /\ (AllThere => Uplinks(vf.pf) \subseteq todo \cup {cur})
    BY <1>8, PfNameLeads DEF SearchInv, LookupInv
  <2>2. CASE /\ \E name \in PortNames(cur) : name.read = Error
             /\ Raise("PciDeviceNotFoundById")
    <3>1. cur \in gone
      BY <2>1, <2>2 DEF PortNames, PortName, Error
    <3> QED
      BY <1>1, <2>1, <2>2, <3>1
  <2>3. CASE /\ \E name \in PortNames(cur) : name.uplink
             /\ FoundPf(cur)
    <3>1. cur.kind = "uplink"
      BY <2>3, NameRead, UplinkName
    <3>2. cur \in Uplinks(vf.pf)
      BY <2>1, <3>1 DEF Uplinks, PfNetdevs
    <3> QED
      BY <1>1, <2>3, <3>2 DEF FoundPf
  <2>4. CASE /\ \E name \in PortNames(cur) : ~ name.uplink
             /\ Go("pf_loop") /\ UNCHANGED <<todo, cur, foundVars>>
    <3>1. AllThere => cur \notin Uplinks(vf.pf)
      <4>1. AllThere /\ cur \in Uplinks(vf.pf)
              => PortNames(cur) = {PortName(cur)} /\ PortName(cur).uplink
        BY <1>1, ReadsOfThere, UplinkName DEF Uplinks
      <4> QED
        BY <2>4, <4>1
    <3> QED
      BY <1>1, <2>1, <2>4, <3>1
  <2> QED
    BY <1>8, <2>2, <2>3, <2>4, PfNameLeads
<1>9. CASE PfSwitch
  <2>1. AllThere => SwitchIds(pfIf) = {Card[vf.pf]} /\ pfIf \in Uplinks(vf.pf)
                    /\ Card[vf.pf] # Error
    BY <1>1, <1>9, ReadsOfThere, RepresentorAssumption DEF PfSwitch, SearchInv
  <2> QED
    BY <1>9, <2>1 DEF PfSwitch
<1>10. CASE ListAll
  <2>1. AllThere => /\ pfIf \in Uplinks(vf.pf) /\ pfIf \in present
                    /\ pfSw = Card[vf.pf] /\ RepresentorOf(vf) \in present
    BY <1>1, <1>10, ReadsOfThere DEF ListAll, SearchInv
  <2> QED
    BY <1>10, <2>1 DEF ListAll
<1>11. CASE PfFunc
  <2>1. AllThere => /\ pfIf \in present /\ HasParent(pfIf)
                    /\ pfSw = Card[vf.pf]
    BY <1>1, <1>11, ReadsOfThere DEF PfFunc, SearchInv, Uplinks, HasParent
  <2>2. AllThere => RepresentorOf(vf) \in todo
    BY <1>11 DEF PfFunc, SearchInv
  <2> QED
    BY <1>1, <1>11, <2>1, <2>2 DEF PfFunc
<1>12. CASE RepNext
  <2>1. PICK d \in todo : \E id \in SwitchIds(d) :
          /\ todo' = todo \ {d}
          /\ IF id \in Switches /\ id = pfSw
             THEN cur' = d /\ Go("rep_name")
             ELSE Go("rep_loop")
    BY <1>12 DEF RepNext
  <2>2. AllThere => pfSw = Card[vf.pf] /\ RepresentorOf(vf) \in todo
    BY <1>12 DEF RepNext, SearchInv
  <2>3. AllThere /\ d = RepresentorOf(vf) => cur' = d /\ pc' = "rep_name"
    BY <1>1, <2>1, <2>2, ReadsOfThere
  <2>4. pc' \in {"rep_loop", "rep_name"} /\ error' = "none"
        /\ (pc' = "rep_name" => cur' = d) /\ todo' = todo \ {d}
    BY <2>1
  <2>5. UNCHANGED foundVars
    BY <1>12 DEF RepNext
  <2> QED
    BY <1>1, <2>2, <2>3, <2>4, <2>5
<1>13. CASE RepEnd
  <2>1. ~ AllThere
    BY <1>13 DEF RepEnd, SearchInv
  <2> QED
    BY <1>13, <2>1 DEF RepEnd
<1>14. CASE RepName
  <2>1. AllThere => /\ RepresentorOf(vf) \in todo \cup {cur}
                    /\ pfSw = Card[vf.pf]
    BY <1>14 DEF RepName, SearchInv
  <2>2. AllThere /\ cur = RepresentorOf(vf) => pc' = "done"
    <3> SUFFICES ASSUME AllThere, cur = RepresentorOf(vf)
                 PROVE  pc' = "done"
      OBVIOUS
    <3>1. PortNames(cur) = {PortName(cur)}
      BY <1>1, ReadsOfThere
    <3>2. pfFunc = Func[vf.pf]
      BY <1>14 DEF RepName, LookupInv
    <3>3. Matches(PortName(cur))
      BY <3>2 DEF Matches, PortName, RepresentorOf
    <3> QED
      BY <1>14, <3>1, <3>3 DEF RepName
  <2>3. pc' \in {"rep_loop", "done"} /\ error' = "none"
        /\ UNCHANGED <<todo, foundVars>>
    BY <1>14 DEF RepName
  <2> QED
    BY <1>1, <2>1, <2>2, <2>3
<1> QED
  BY <1>1, <1>4, <1>5, <1>6, <1>7, <1>8, <1>9, <1>10, <1>11, <1>12, <1>13,
     <1>14 DEF Lookup

LEMMA LookupKeepsSearch ==
  ASSUME LookupInv, SearchInv, Lookup, Uplinks(vf.pf) # {}
  PROVE  SearchInv'
<1>1. CASE Begin
  BY <1>1 DEF Begin, SearchInv, FoundIfThere, OnTrack, callVars, foundVars
<1>2. CASE ~ Begin
  <2>1. /\ pc \notin {"idle", "done"}
        /\ UNCHANGED <<hostVars, callVars>>
        /\ Advances
    BY <1>2, LookupAdvances
  <2>2. (AllThere' <=> AllThere) /\ start' \ gone' \subseteq present'
    BY <2>1 DEF AllThere, Steady, hostVars, callVars, SearchInv
  <2>3. FoundIfThere'
    BY <2>1 DEF Advances, AllThere, FoundIfThere, Steady, hostVars, callVars
  <2> QED
    BY <2>1, <2>2, <2>3 DEF Advances, SearchInv, hostVars, callVars
<1> QED
  BY <1>1, <1>2

LEMMA HostKeepsSearch ==
  ASSUME LookupInv, SearchInv, Host
  PROVE  SearchInv'
<1>1. /\ Change
      /\ \A d \in present' : /\ d.kind # "uplink" => d.pf \in switchdev'
                             /\ d.kind = "vf" => d.pf \in sriov'
  BY DEF Host, RemoveNetdev, AddNetdev, DisableVfs, EnableVfs, SetLegacy,
         SetSwitchdev, SearchInv
<1>2. /\ gone' = gone \cup (present \ present')
      /\ UNCHANGED lookupVars
      /\ error = "none"
  BY <1>1 DEF Change, SearchInv
<1>3. AllThere' => AllThere
  BY <1>2 DEF AllThere, Steady, lookupVars, callVars
<1>4. OnTrack' <=> OnTrack
  BY <1>2 DEF OnTrack, lookupVars, callVars, foundVars
<1> QED
  <2>1. start' \ gone' \subseteq (start \ gone) \cap present'
               \/ ~ (start \ gone \subseteq present)
    BY <1>2 DEF lookupVars, callVars
  <2>2. present \cup gone \subseteq present' \cup gone'
    BY <1>2
  <2> QED
    BY <1>1, <1>2, <1>3, <1>4, <2>1, <2>2
       DEF SearchInv, FoundIfThere, lookupVars

\* Where every PF has an uplink, the lookup fails only if the uplink or the
\* representor went away meanwhile, or another netdev of the PF whose name it
\* was about to read: nothing else that comes and goes makes it fail.
THEOREM FoundCorrect ==
  ASSUME \A v \in Vfs : Uplinks(v.pf) # {}
  PROVE  Spec => []FoundIfThere
<1>1. Init => SearchInv
  BY RepresentorAssumption DEF Init, SearchInv, FoundIfThere, OnTrack
<1>2. LookupInv /\ SearchInv /\ [Next]_vars => SearchInv'
  <2> SUFFICES ASSUME LookupInv, SearchInv, [Next]_vars
               PROVE  SearchInv'
    OBVIOUS
  <2>1. CASE Lookup
    BY <2>1, LookupKeepsSearch DEF LookupInv
  <2>2. CASE Host
    BY <2>2, HostKeepsSearch
  <2>3. CASE UNCHANGED vars
    BY <2>3 DEF SearchInv, AllThere, Steady, OnTrack, FoundIfThere, vars,
       hostVars, lookupVars, callVars, foundVars
  <2> QED
    BY <2>1, <2>2, <2>3 DEF Next
<1>3. SearchInv => FoundIfThere
  BY DEF SearchInv
<1> QED
  BY <1>1, <1>2, <1>3, LookupInvariant, PTL DEF Spec
=============================================================================
