--------------------------- MODULE HostInfoProofs ---------------------------
(***************************************************************************)
(* Facts about the backporting of VIF objects and the filtering of host    *)
(* information.                                                            *)
(***************************************************************************)
EXTENDS HostInfo, TLAPS

\* Membership in a class's fields, without the sets that enclose it.
LEMMA ProfileExact ==
  ASSUME NEW set, NEW v \in Nat
  PROVE  \A f : f \in MakeProfileCompatible(set, v)
                  <=> f \in set /\ (f = "datapath_offload" => 1 <= v)
BY DEF MakeProfileCompatible

LEMMA OpenVSwitchExact ==
  ASSUME NEW set, NEW v \in Nat
  PROVE  \A f : f \in MakeOpenVSwitchCompatible(set, v)
                  <=> /\ f \in set
                      /\ f = "datapath_type" => 1 <= v
                      /\ f = "datapath_offload" => 2 <= v
                      /\ f = "create_port" => 3 <= v
                      /\ f \in {"create_tap", "multiqueue"} => 4 <= v
<1> DEFINE kept ==
             {f \in set : /\ v < 4 => f \notin {"create_tap", "multiqueue"}
                          /\ v < 3 => f # "create_port"
                          /\ v < 1 => f # "datapath_type"}
           w == IF v < 2 THEN 0 ELSE 1
<1>1. w \in Nat /\ (1 <= w <=> 2 <= v)
  OBVIOUS
<1>2. MakeOpenVSwitchCompatible(set, v) = MakeProfileCompatible(kept, w)
  BY DEF MakeOpenVSwitchCompatible
<1>3. \A f : f \in kept <=> /\ f \in set
                            /\ f = "datapath_type" => 1 <= v
                            /\ f = "create_port" => 3 <= v
                            /\ f \in {"create_tap", "multiqueue"} => 4 <= v
  OBVIOUS
<1> HIDE DEF kept, w
<1> QED
  BY <1>1, <1>2, <1>3, ProfileExact

\* What the comments say, field by field.
LEMMA OpenVSwitchNewsExact ==
  ASSUME NEW f, NEW v \in Nat
  PROVE  (\A n \in DOMAIN OpenVSwitchNews : f \in OpenVSwitchNews[n] => n <= v)
           <=> /\ f = "datapath_type" => 1 <= v
               /\ f = "datapath_offload" => 2 <= v
               /\ f = "create_port" => 3 <= v
               /\ f \in {"create_tap", "multiqueue"} => 4 <= v
<1>1. DOMAIN OpenVSwitchNews = {1, 2, 3, 4}
  BY DEF OpenVSwitchNews
<1>2. /\ OpenVSwitchNews[1] = {"datapath_type"}
      /\ OpenVSwitchNews[2] = {"datapath_offload"}
      /\ OpenVSwitchNews[3] = {"create_port"}
      /\ OpenVSwitchNews[4] = {"create_tap", "multiqueue"}
  BY DEF OpenVSwitchNews
<1> QED
  BY <1>1, <1>2

\* Of the VIFs, port profiles and offloads of this release, the library
\* refuses a version it has had to vhost-user VIFs alone: one with a network
\* or a port profile is never sent as 1.0 without a manifest, so that its
\* obj_make_compatible() (vif.py, lines 201-209) takes vif_name out in vain.
THEOREM RefusedIsVHostUser ==
  ASSUME NEW c \in Classes, NEW v \in Nat, v <= Registry[c].version,
         NEW set \in SUBSET Registry[c].fields
  PROVE  Refused(c, set, v)
           <=> /\ c = "VIFVHostUser" /\ v = 0
               /\ "network" \in set \/ "port_profile" \in set
<1> USE DEF Classes, Registry, Subclass, VIFBase, DatapathOffloadBase,
            VIFPortProfileBase, VIFPortProfileOpenVSwitch
<1>1. CASE c \in {"VIFBase", "VIFGeneric", "VIFBridge", "VIFOpenVSwitch",
                  "VIFDirect", "VIFHostDevice", "VIFNestedDPDK",
                  "DatapathOffloadBase", "DatapathOffloadRepresentor"}
  <2>1. Registry[c].version = 0
    BY <1>1 DEF VIFGeneric, VIFBridge, VIFOpenVSwitch, VIFDirect,
                VIFHostDevice, VIFNestedDPDK, DatapathOffloadRepresentor
  <2>2. ~ (v > 0) /\ ~ (v < 0)
    BY <2>1
  <2>3. ~ Refused(c, set, v)
    <3> HIDE DEF Registry
    <3> QED
      BY <2>1, <2>2 DEF Refused
  <2> QED
    BY <1>1, <2>3
<1>2. CASE c = "VIFVHostUser"
  <2>1. Registry[c].version = 1
    BY <1>2 DEF VIFVHostUser
  <2> QED
    BY <1>2, <2>1 DEF Refused, WithoutRule
<1>3. CASE c \in {"VIFPortProfileBase", "VIFPortProfileOpenVSwitch"}
                 \cup OpenVSwitchKinds \cup ProfileKinds
  <2> DEFINE Bare(class) == /\ class.version \in Nat
                            /\ class.fields \cap WithoutRule = {}
  <2>1. \A super, n, own :
          Bare(super) /\ n \in Nat /\ own \cap WithoutRule = {}
            => Bare(Subclass(super, n, own))
    BY DEF Subclass
  <2>2. Bare(VIFPortProfileBase)
    BY DEF VIFPortProfileBase, WithoutRule
  <2>3. Bare(VIFPortProfileOpenVSwitch)
    <3> HIDE DEF Bare, VIFPortProfileBase, Subclass
    <3> QED
      BY <2>1, <2>2 DEF VIFPortProfileOpenVSwitch, WithoutRule
  <2>4. Bare(VIFPortProfileFPOpenVSwitch) /\ Bare(VIFPortProfileOVSRepresentor)
    <3> HIDE DEF Bare, VIFPortProfileOpenVSwitch, Subclass
    <3> QED
      BY <2>1, <2>3 DEF VIFPortProfileFPOpenVSwitch,
                        VIFPortProfileOVSRepresentor, WithoutRule
  <2>5. /\ Bare(VIFPortProfileFPBridge) /\ Bare(VIFPortProfileFPTap)
        /\ Bare(VIFPortProfile8021Qbg) /\ Bare(VIFPortProfile8021Qbh)
        /\ Bare(VIFPortProfileK8sDPDK)
    <3> HIDE DEF Bare, VIFPortProfileBase, Subclass
    <3> QED
      BY <2>1, <2>2 DEF VIFPortProfileFPBridge, VIFPortProfileFPTap,
                        VIFPortProfile8021Qbg, VIFPortProfile8021Qbh,
                        VIFPortProfileK8sDPDK, WithoutRule
  <2>6. Bare(Registry[c])
    <3> HIDE DEF Bare, VIFPortProfileBase, VIFPortProfileOpenVSwitch
    <3> QED
      BY <1>3, <2>2, <2>3, <2>4, <2>5 DEF OpenVSwitchKinds, ProfileKinds
  <2>7. ~ Refused(c, set, v)
    <3> HIDE DEF Registry
    <3> QED
      BY <2>6 DEF Refused
  <2>8. c # "VIFVHostUser"
    BY <1>3 DEF OpenVSwitchKinds, ProfileKinds
  <2> QED
    BY <2>7, <2>8
<1> QED
  BY <1>1, <1>2, <1>3 DEF OpenVSwitchKinds, ProfileKinds

\* An object sent as version 1.v, if it is not refused, carries all the
\* fields that were set and that the comments "Version 1.n: ..." promise a
\* peer of that version, and no other: no obj_make_compatible() forgets a field, takes one out too
\* many, or asks its superclass for the wrong version (objects/vif.py).
THEOREM BackportExact ==
  ASSUME NEW c \in Classes, NEW v \in Nat,
         NEW set \in SUBSET Registry[c].fields, ~ Refused(c, set, v)
  PROVE  Backport(c, set, v) = set \cap KnownAt(c, v)
<1> SUFFICES ASSUME NEW f
             PROVE  f \in Backport(c, set, v)
                      <=> f \in set /\ \A n \in DOMAIN News(c) :
                                          f \in News(c)[n] => n <= v
  BY DEF KnownAt
<1>1. CASE c = "VIFVHostUser"
  <2>1. News(c) = <<{"vif_name"}>> /\ DOMAIN News(c) = {1}
    BY <1>1 DEF News, OpenVSwitchKinds, ProfileKinds
  <2>2. Backport(c, set, v) = MakeVHostUserCompatible(set, v)
    BY <1>1 DEF Backport, OpenVSwitchKinds, ProfileKinds
  <2> QED
    BY <2>1, <2>2 DEF MakeVHostUserCompatible
<1>2. CASE c = "VIFPortProfileBase"
  <2>1. News(c) = <<{"datapath_offload"}>> /\ DOMAIN News(c) = {1}
    BY <1>2 DEF News, OpenVSwitchKinds, ProfileKinds
  <2>2. Backport(c, set, v) = MakeProfileCompatible(set, v)
    BY <1>2 DEF Backport, OpenVSwitchKinds, ProfileKinds
  <2> QED
    BY <2>1, <2>2, ProfileExact
<1>3. CASE c = "VIFPortProfileOpenVSwitch"
  <2>1. News(c) = OpenVSwitchNews
    BY <1>3 DEF News, OpenVSwitchKinds, ProfileKinds
  <2>2. Backport(c, set, v) = MakeOpenVSwitchCompatible(set, v)
    BY <1>3 DEF Backport, OpenVSwitchKinds, ProfileKinds
  <2> QED
    BY <2>1, <2>2, OpenVSwitchExact, OpenVSwitchNewsExact
<1>4. CASE c \in OpenVSwitchKinds
  <2> DEFINE w == IF v < 4 THEN v ELSE 4
  <2>1. News(c) = OpenVSwitchNews
    BY <1>4 DEF News, OpenVSwitchKinds, ProfileKinds
  <2>2. Backport(c, set, v) = MakeOpenVSwitchCompatible(set, w)
    BY <1>4 DEF Backport, OpenVSwitchKinds, ProfileKinds,
                MakeOpenVSwitchKindCompatible
  <2>3. w \in Nat /\ \A n \in {1, 2, 3, 4} : n <= w <=> n <= v
    OBVIOUS
  <2> HIDE DEF w
  <2> QED
    BY <2>1, <2>2, <2>3, OpenVSwitchExact, OpenVSwitchNewsExact
<1>5. CASE c \in ProfileKinds
  <2> DEFINE w == IF v < 1 THEN 0 ELSE 1
  <2>1. News(c) = <<{"datapath_offload"}>> /\ DOMAIN News(c) = {1}
    BY <1>5 DEF News, ProfileKinds, OpenVSwitchKinds
  <2>2. Backport(c, set, v) = MakeProfileCompatible(set, w)
    BY <1>5 DEF Backport, ProfileKinds, OpenVSwitchKinds,
                MakeProfileKindCompatible
  <2>3. w \in Nat /\ (1 <= w <=> 1 <= v)
    OBVIOUS
  <2> HIDE DEF w
  <2> QED
    BY <2>1, <2>2, <2>3, ProfileExact
<1>6. CASE /\ c \notin OpenVSwitchKinds \cup ProfileKinds
           /\ c \notin {"VIFVHostUser", "VIFPortProfileBase",
                        "VIFPortProfileOpenVSwitch"}
  <2>1. News(c) = <<>> /\ DOMAIN News(c) = {}
    BY <1>6 DEF News
  <2>2. Backport(c, set, v) = set
    BY <1>6 DEF Backport
  <2> QED
    BY <2>1, <2>2
<1> QED
  BY <1>1, <1>2, <1>3, <1>4, <1>5, <1>6

\* An object that reaches an old peer by way of a less old one is the one
\* that would have been sent to it at once.
THEOREM BackportTwice ==
  ASSUME NEW c \in Classes, NEW v \in Nat, NEW w \in Nat, w <= v,
         NEW set \in SUBSET Registry[c].fields,
         ~ Refused(c, set, v), ~ Refused(c, set, w)
  PROVE  Backport(c, Backport(c, set, v), w) = Backport(c, set, w)
<1>1. /\ Backport(c, set, v) = set \cap KnownAt(c, v)
      /\ Backport(c, set, w) = set \cap KnownAt(c, w)
  BY BackportExact
<1>2. ~ Refused(c, set \cap KnownAt(c, v), w)
  BY DEF Refused
<1>3. Backport(c, set \cap KnownAt(c, v), w)
        = set \cap KnownAt(c, v) \cap KnownAt(c, w)
  BY <1>2, BackportExact
<1>4. DOMAIN News(c) \subseteq Nat
  <2>1. \A s : s \in {<<>>, <<{"vif_name"}>>, <<{"datapath_offload"}>>,
                      OpenVSwitchNews} => DOMAIN s \subseteq Nat
    BY DEF OpenVSwitchNews
  <2>2. News(c) \in {<<>>, <<{"vif_name"}>>, <<{"datapath_offload"}>>,
                     OpenVSwitchNews}
    BY DEF News
  <2> QED
    BY <2>1, <2>2
<1>5. KnownAt(c, w) \subseteq KnownAt(c, v)
  BY <1>4 DEF KnownAt
<1> QED
  BY <1>1, <1>3, <1>5

-----------------------------------------------------------------------------
\* What a filter leaves of a host: of every plugin the permitted VIF types,
\* and no plugin of which none is left (host_info.py, lines 152-157 and
\* 198-206).
THEOREM FilterExact ==
  ASSUME NEW plugins, NEW permitted,
         \A p \in plugins :
           p = [plugin_name |-> p.plugin_name, vif_info |-> p.vif_info]
  PROVE  \A name, i :
           (\E p \in FilterHost(plugins, permitted) :
              p.plugin_name = name /\ i \in p.vif_info)
             <=> /\ i.vif_object_name \in permitted
                 /\ \E p \in plugins : p.plugin_name = name /\ i \in p.vif_info
<1>1. \A q \in plugins :
        /\ FilterPlugin(q, permitted).plugin_name = q.plugin_name
        /\ FilterPlugin(q, permitted).vif_info
             = {i \in q.vif_info : i.vif_object_name \in permitted}
  BY DEF FilterPlugin
<1> QED
  BY <1>1 DEF FilterHost

\* A plugin is offered if, and only if, it supports a permitted type.
THEOREM OfferedIfPermitted ==
  ASSUME NEW plugins, NEW permitted, NEW name,
         \A p \in plugins :
           p = [plugin_name |-> p.plugin_name, vif_info |-> p.vif_info]
  PROVE  HasPlugin(FilterHost(plugins, permitted), name)
           <=> \E p \in plugins :
                 /\ p.plugin_name = name
                 /\ \E c \in permitted : HasVif(p, c)
<1>1. \A q \in plugins :
        /\ FilterPlugin(q, permitted).plugin_name = q.plugin_name
        /\ FilterPlugin(q, permitted).vif_info
             = {i \in q.vif_info : i.vif_object_name \in permitted}
  BY DEF FilterPlugin
<1> QED
  BY <1>1 DEF FilterHost, HasPlugin, HasVif

\* The versions that the OVS plugin states for itself are those of the first
\* release: this release has none of the port profiles in common with them,
\* nor VIFVHostUser (ovs.py, lines 182-224).
THEOREM OwnVersionsOutdated ==
  ASSUME NEW i \in OvsDescription.vif_info
  PROVE  /\ HasCommonVersion(i.vif_object_name, i.min_version, i.max_version)
              <=> i.vif_object_name # "VIFVHostUser"
         /\ \A p \in i.supported_port_profiles :
              ~ HasCommonVersion(p.profile_object_name, p.min_version,
                                 p.max_version)
<1>1. /\ i.vif_object_name \in {"VIFBridge", "VIFOpenVSwitch", "VIFVHostUser",
                                "VIFHostDevice"}
      /\ i.min_version = 0 /\ i.max_version = 0
      /\ \A p \in i.supported_port_profiles :
           /\ p.profile_object_name \in {"VIFPortProfileOpenVSwitch",
                                         "VIFPortProfileOVSRepresentor"}
           /\ p.min_version = 0 /\ p.max_version = 0
  BY DEF OvsDescription, HostPluginInfo, HostVIFInfo, HostPortProfileInfo
<1>2. /\ {"VIFBridge", "VIFOpenVSwitch", "VIFVHostUser", "VIFHostDevice",
          "VIFPortProfileOpenVSwitch", "VIFPortProfileOVSRepresentor"}
           \subseteq Classes
      /\ Registry["VIFBridge"].version = 0
      /\ Registry["VIFOpenVSwitch"].version = 0
      /\ Registry["VIFHostDevice"].version = 0
      /\ Registry["VIFVHostUser"].version = 1
      /\ Registry["VIFPortProfileOpenVSwitch"].version = 4
      /\ Registry["VIFPortProfileOVSRepresentor"].version = 4
  BY DEF Classes, Registry, VIFBridge, VIFOpenVSwitch, VIFHostDevice,
         VIFVHostUser, VIFPortProfileOpenVSwitch,
         VIFPortProfileOVSRepresentor, VIFPortProfileBase, VIFBase, Subclass
<1> QED
  BY <1>1, <1>2 DEF HasCommonVersion
=============================================================================
