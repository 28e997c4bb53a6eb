----------------------------- MODULE VifObjects -----------------------------
(***************************************************************************)
(* The versioned objects that describe a VIF to a plugin                   *)
(* (os_vif/objects/vif.py), as far as releases of os-vif differ in them:   *)
(* which fields an object of each class may carry, and which of them       *)
(* obj_make_compatible() takes out of an object that is sent to a peer     *)
(* with an older release.  Version 1.n of a class is n here.               *)
(***************************************************************************)
EXTENDS Naturals, Sequences

\* The class hierarchy: a class has the fields of its superclass and its own.

VIFBase ==
  [version |-> 0,
   fields  |-> {"id", "address", "network", "plugin", "active",
                "preserve_on_delete", "has_traffic_filtering",
                "port_profile"}]

Subclass(super, version, own) ==
  [version |-> version, fields |-> super.fields \cup own]

VIFGeneric     == Subclass(VIFBase, 0, {"vif_name"})
VIFBridge      == Subclass(VIFBase, 0, {"vif_name", "bridge_name"})
VIFOpenVSwitch == Subclass(VIFBase, 0, {"vif_name", "bridge_name"})
VIFDirect ==
  Subclass(VIFBase, 0, {"vif_name", "dev_address", "mode", "vlan_name"})
VIFVHostUser   == Subclass(VIFBase, 1, {"vif_name", "path", "mode"})
VIFHostDevice  == Subclass(VIFBase, 0, {"dev_type", "dev_address"})
VIFNestedDPDK  == Subclass(VIFBase, 0, {"pci_address", "dev_driver"})

DatapathOffloadBase == [version |-> 0, fields |-> {}]
DatapathOffloadRepresentor ==
  Subclass(DatapathOffloadBase, 0, {"representor_name", "representor_address"})

VIFPortProfileBase == [version |-> 1, fields |-> {"datapath_offload"}]

VIFPortProfileOpenVSwitch ==
  Subclass(VIFPortProfileBase, 4,
           {"interface_id", "profile_id", "datapath_type", "create_port",
            "create_tap", "multiqueue"})
VIFPortProfileFPOpenVSwitch ==
  Subclass(VIFPortProfileOpenVSwitch, 4, {"bridge_name", "hybrid_plug"})
VIFPortProfileOVSRepresentor ==
  Subclass(VIFPortProfileOpenVSwitch, 4,
           {"representor_name", "representor_address"})
VIFPortProfileFPBridge == Subclass(VIFPortProfileBase, 1, {"bridge_name"})
VIFPortProfileFPTap    == Subclass(VIFPortProfileBase, 1, {"mac_address"})
VIFPortProfile8021Qbg ==
  Subclass(VIFPortProfileBase, 1,
           {"manager_id", "type_id", "type_id_version", "instance_id"})
VIFPortProfile8021Qbh  == Subclass(VIFPortProfileBase, 1, {"profile_id"})
VIFPortProfileK8sDPDK ==
  Subclass(VIFPortProfileBase, 1, {"l3_setup", "selflink", "resourceversion"})

\* What the decorator of every class makes of this release.
Registry ==
  [VIFBase                      |-> VIFBase,
   VIFGeneric                   |-> VIFGeneric,
   VIFBridge                    |-> VIFBridge,
   VIFOpenVSwitch               |-> VIFOpenVSwitch,
   VIFDirect                    |-> VIFDirect,
   VIFVHostUser                 |-> VIFVHostUser,
   VIFHostDevice                |-> VIFHostDevice,
   VIFNestedDPDK                |-> VIFNestedDPDK,
   DatapathOffloadBase          |-> DatapathOffloadBase,
   DatapathOffloadRepresentor   |-> DatapathOffloadRepresentor,
   VIFPortProfileBase           |-> VIFPortProfileBase,
   VIFPortProfileOpenVSwitch    |-> VIFPortProfileOpenVSwitch,
   VIFPortProfileFPOpenVSwitch  |-> VIFPortProfileFPOpenVSwitch,
   VIFPortProfileOVSRepresentor |-> VIFPortProfileOVSRepresentor,
   VIFPortProfileFPBridge       |-> VIFPortProfileFPBridge,
   VIFPortProfileFPTap          |-> VIFPortProfileFPTap,
   VIFPortProfile8021Qbg        |-> VIFPortProfile8021Qbg,
   VIFPortProfile8021Qbh        |-> VIFPortProfile8021Qbh,
   VIFPortProfileK8sDPDK        |-> VIFPortProfileK8sDPDK]

Classes == DOMAIN Registry

-----------------------------------------------------------------------------
(* obj_make_compatible(): what is left of the fields that are set when an  *)
(* object is sent as version 1.v.  A subclass takes its own news out and   *)
(* asks its superclass for the version it was built upon.                  *)

\* The relationship of datapath_offload: the peer knows it from 1.1 on.
MakeProfileCompatible(set, v) ==
  IF v < 1 THEN set \ {"datapath_offload"} ELSE set

MakeVHostUserCompatible(set, v) ==
  IF v < 1 THEN set \ {"vif_name"} ELSE set

MakeOpenVSwitchCompatible(set, v) ==
  MakeProfileCompatible(
    {f \in set : /\ v < 4 => f \notin {"create_tap", "multiqueue"}
                 /\ v < 3 => f # "create_port"
                 /\ v < 1 => f # "datapath_type"},
    IF v < 2 THEN 0 ELSE 1)

\* Fast path and representor profiles have their superclass's version.
MakeOpenVSwitchKindCompatible(set, v) ==
  MakeOpenVSwitchCompatible(set, IF v < 4 THEN v ELSE 4)

\* So have the profiles that are not about Open vSwitch.
MakeProfileKindCompatible(set, v) ==
  MakeProfileCompatible(set, IF v < 1 THEN 0 ELSE 1)

OpenVSwitchKinds ==
  {"VIFPortProfileFPOpenVSwitch", "VIFPortProfileOVSRepresentor"}
ProfileKinds ==
  {"VIFPortProfileFPBridge", "VIFPortProfileFPTap", "VIFPortProfile8021Qbg",
   "VIFPortProfile8021Qbh", "VIFPortProfileK8sDPDK"}

\* The objects inside an object that no class states a relationship for.
\* They are backported only by a manifest, with which a caller gives the
\* version of each class that the peer knows.
WithoutRule == {"network", "port_profile"}

\* Without a manifest the library raises, and nothing is sent, where such an
\* object would have to be backported, or where this release of the class is
\* older than the peer's.
Refused(c, set, v) ==
  \/ v > Registry[c].version
  \/ v < Registry[c].version /\ set \cap WithoutRule # {}

\* What is sent otherwise.
Backport(c, set, v) ==
  CASE c = "VIFVHostUser" -> MakeVHostUserCompatible(set, v)
    [] c = "VIFPortProfileBase" -> MakeProfileCompatible(set, v)
    [] c = "VIFPortProfileOpenVSwitch" -> MakeOpenVSwitchCompatible(set, v)
    [] c \in OpenVSwitchKinds -> MakeOpenVSwitchKindCompatible(set, v)
    [] c \in ProfileKinds -> MakeProfileKindCompatible(set, v)
    [] OTHER -> set

-----------------------------------------------------------------------------
(* What the comments beside the classes say that each version brought.     *)

OpenVSwitchNews ==
  <<{"datapath_type"}, {"datapath_offload"}, {"create_port"},
    {"create_tap", "multiqueue"}>>

News(c) ==
  CASE c = "VIFVHostUser" -> <<{"vif_name"}>>
    [] c \in {"VIFPortProfileOpenVSwitch"} \cup OpenVSwitchKinds
         -> OpenVSwitchNews
    [] c \in {"VIFPortProfileBase"} \cup ProfileKinds
         -> <<{"datapath_offload"}>>
    [] OTHER -> <<>>

\* The fields that a peer with version 1.v of the class knows.
KnownAt(c, v) ==
  {f \in Registry[c].fields :
     \A n \in DOMAIN News(c) : f \in News(c)[n] => n <= v}
=============================================================================
