------------------------------ MODULE HostInfo ------------------------------
(***************************************************************************)
(* What a host tells the network manager of its plugins                    *)
(* (os_vif/objects/host_info.py) and what the plugins of this repository   *)
(* say of themselves.  The lists of the code are sets here: only get_vif() *)
(* and get_plugin() look at their order, in lists without repetitions.     *)
(***************************************************************************)
EXTENDS VifObjects

HostPortProfileInfo(name, min, max) ==
  [profile_object_name |-> name, min_version |-> min, max_version |-> max]

HostVIFInfo(name, min, max, profiles) ==
  [vif_object_name |-> name, min_version |-> min, max_version |-> max,
   supported_port_profiles |-> profiles]

HostPluginInfo(name, vifs) == [plugin_name |-> name, vif_info |-> vifs]

\* describe() of the OVS plugin and of the noop plugin.
OvsDescription ==
  LET pp_ovs == HostPortProfileInfo("VIFPortProfileOpenVSwitch", 0, 0)
      pp_ovs_representor ==
        HostPortProfileInfo("VIFPortProfileOVSRepresentor", 0, 0)
  IN  HostPluginInfo("ovs",
        {HostVIFInfo("VIFBridge", 0, 0, {pp_ovs}),
         HostVIFInfo("VIFOpenVSwitch", 0, 0, {pp_ovs}),
         HostVIFInfo("VIFVHostUser", 0, 0, {pp_ovs, pp_ovs_representor}),
         HostVIFInfo("VIFHostDevice", 0, 0, {pp_ovs, pp_ovs_representor})})

NoopDescription ==
  HostPluginInfo("noop", {HostVIFInfo("VIFVHostUser", 0, 0, {})})

\* filter_vif_types(), of a plugin and of a host.  A plugin of which nothing
\* is left is dropped.
FilterPlugin(plugin, permitted) ==
  [plugin EXCEPT
     !.vif_info = {i \in @ : i.vif_object_name \in permitted}]

FilterHost(plugins, permitted) ==
  {p \in {FilterPlugin(q, permitted) : q \in plugins} : p.vif_info # {}}

HasVif(plugin, name) ==
  \E i \in plugin.vif_info : i.vif_object_name = name

HasPlugin(plugins, name) == \E p \in plugins : p.plugin_name = name

\* get_common_version(): the version of this release, if it is one of those
\* that were described.
HasCommonVersion(name, min, max) ==
  /\ name \in Classes
  /\ min <= Registry[name].version /\ Registry[name].version <= max
=============================================================================
