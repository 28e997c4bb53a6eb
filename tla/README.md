# os-vif in TLA+

A verification project for os-vif, the library with which OpenStack Nova
attaches the virtual interfaces (VIFs) of its instances to the network of a
compute host. The modules follow the Python source; paths below are relative
to the repository.

## 1. The system

### Components, their state and their operations

| component | source | state it keeps | operations |
|---|---|---|---|
| front end | `os_vif/__init__.py`, `os_vif/plugin.py` | the process-wide `_EXT_MANAGER`: none, or a manager whose extensions get their plugin object one by one | `initialize(reset)`, `plug`, `unplug`, `host_info` |
| OVS plugin | `vif_plug_ovs/ovs.py` | none of its own between calls; local variables within one | `plug` and `unplug` of `VIFBridge` (hybrid), `VIFOpenVSwitch` (plain, or with a bridge per port), `VIFVHostUser`, `VIFHostDevice` |
| OVSDB access | `vif_plug_ovs/ovsdb/ovsdb_lib.py` over `impl_vsctl.py` or `impl_idl.py` | the Open vSwitch database: bridges, ports, interfaces, QoS rows | `ensure_ovs_bridge`, `delete_ovs_bridge`, `create_ovs_vif_port`, `update_ovs_vif_port`, `delete_ovs_vif_port`, `create_patch_port_pair`, `port_exists`, `get_qos`, `delete_qos_if_exists` |
| Linux links | `vif_plug_ovs/linux_net.py` over `os_vif/internal/ip` | the links of the kernel: which exist, which are up, which are on a bridge | `ensure_bridge`, `delete_bridge`, `create_veth_pair`, `update_veth_pair`, `add_bridge_port`, `create_tap`, `delete_net_dev`, `set_interface_state`; finding VF representors in sysfs |
| native OVSDB client | `vif_plug_ovs/ovsdb/impl_idl.py` over ovsdbapp | one connection: a queue of transactions, a replica of the database | the same as through `ovs-vsctl` |
| host information | `os_vif/objects/host_info.py`, `describe()` of the plugins | versioned data objects | filtering by VIF type and version negotiation of what plugins support |
| object model | `os_vif/objects/vif.py` and others | versioned data objects | backporting to older peers |
| noop plugin | `vif_plug_noop` | none | `plug`, `unplug` that do nothing |
| privilege separation, exceptions, options | `vif_plug_ovs/privsep.py`, ... | none | - |

### How they interact

Nova's compute service is the caller. It initializes the library once, plugs
a VIF before its VM starts, unplugs it when the VM is gone, plugs every VIF
again whenever the service starts, and retries what failed. `os_vif.plug()`
looks the plugin up in `_EXT_MANAGER`, calls it and wraps what it raises. The
OVS plugin then works in a sequence of *privileged calls* (each one a call to
the privsep daemon that sends one or more netlink requests) and *OVSDB
transactions*. Nothing ties these together: no lock, no rollback. Two other
programs write the same stores: the Neutron agent, which finds a port by the
`iface-id` of its interface and puts it on the VLAN of its network, and
libvirt, which creates and deletes ports and tap devices of plain VIFs when a
VM starts and stops. A VM stops when its guest does, in the middle of a call
for its VIF too.

### What is hard

* *Cut-off sequences.* Any call may raise, the process may die between two
  calls, the host may reboot (links are lost, the database is not). What was
  done stays, and the next `plug()` or `unplug()` meets it.
* *Idempotence against quiet.* `plug()` must repair what an earlier attempt
  left and must not disturb a VIF that carries traffic; both are decided by
  looking whether a port or a link exists.
* *Swallowed failures.* All OVSDB commands except `db_create` run without
  `check_error`: a failure is logged and the caller goes on. A failed
  `list-ports` looks like a bridge without ports, and `ip_lib.exists()` takes
  whatever goes wrong for the absence of the link.
* *Stale looks.* Between the look at a port or a link and the call that goes
  by it, libvirt may take the port away or make it.
* *Either-or cleanup.* `unplug()` infers how a VIF was plugged from what it
  finds; a retry finds less.
* *The QoS row* is made outside the transaction that makes the port.
* *Late commits and stale reads.* Over the native client a transaction whose
  caller has given up is still committed, behind the caller's back; whether a
  port exists is read from a replica that lags behind.
* *The front end's global* is visible to other threads before the plugins it
  names are loaded.

What makes each component correct: the front end never hands out an extension
without a plugin object; the plugin leaves a VIF wired when it reports
success, leaves nothing behind when it reports an unplug, never duplicates a
row, never exposes a port before Neutron has wired it, and never disturbs one
that is wired; the stores' operations are what the commands do.
`PROJECT.json` lists the hazards line by line.

## 2. The modules

| module | models | |
|---|---|---|
| `VifObjects` | object model | the classes of `vif.py`, their fields and versions; backporting |
| `HostInfo` | host information, noop plugin | what plugins describe, filtering, common versions |
| `HostInfoProofs` | | theorems about both |
| `OsVif` | front end | threads interleaving between the reads and writes of the global; extends `HostInfo` |
| `OsVifProofs` | | theorems about it |
| `MCOsVif` | | instances of 2 and 3 threads; the plugins are the two of this repository with what they describe |
| `HostNet` | Linux links, OVSDB access | the two stores, and the effect of each privileged call and transaction on them |
| `OvsPlugin` | OVS plugin | one call per VIF at a time, of several VIFs at once, over `HostNet`; caller, agent, libvirt, failures |
| `OvsPluginProofs` | | theorems about it |
| `OvsReplugProofs` | | that it does not disturb VIFs that carry traffic |
| `MCOvsPlugin` | | sixteen VIFs of every class and profile, in groups |
| `VifWiring` | `os_vif/plugin.py`, front end | abstract: what `plug()` and `unplug()` promise, of any plugin |
| `VifWiringProofs` | | what a caller may rely on |
| `OvsWiring` | OVS plugin | `OvsPlugin` as an implementation of `VifWiring` (refinement mapping) |
| `OvsWiringProofs` | | that it is one, and the plugin's two main invariants |
| `NativeOvsdb` | native OVSDB client | creation and deletion of a port with its QoS row over queue and replica |
| `NativeOvsdbProofs` | | theorems about it |
| `MCNative` | | a plain and a vhost-user VIF, a queue of two |
| `Representor` | VF representors | one lookup in sysfs, read by read, while the host changes |
| `RepresentorProofs` | | theorems about it |
| `MCRepresentor` | | two cards, three PFs, seven devices |

Definitions marked *Mutant of X* in a comment are variants of `X` with a
plausible mistake. No specification uses them; each belongs to a property and
shows, put in the place of `X`, that the property notices.

### OsVif

`initialized` is `_EXT_MANAGER is not None`; `loaded` is the set of plugins
whose extension has an `obj`. The global is read afresh at every use, as in
the code, so a thread whose `initialize()` is overtaken by a reset stores its
objects in the other thread's manager (lines 47-58), and two threads that both
find no manager (`TestManager`) make one after the other. Actions follow the
lines: `RegisterObjects` (40-41), `TestManager` (43), `CreateManager` (44-47),
`LoadPlugin`/`LoadRaises`
(47-53), `StorePlugin` (58), `FinishInitialize`; `CheckInitialized`,
`LookupPlugin` (the `KeyError` and the assertion), `RunPlugin`; `CheckInfo`,
`DescribePlugin` (one turn of the loop), `FinishInfo`. Constants say how the
library is used: who initializes, whether with `reset`, whether `load()` may
raise, whether callers wait for a successful `initialize()`. `info` is what
`host_info()` has collected so far, and in the end its result, cut down to
the `permitted` VIF types by `FilterHost`.

### VifObjects and HostInfo

Data and pure operators. `VifObjects` has one record per class of `vif.py`,
with its version (1.n is n) and the fields an object of it may carry, a
superclass's among them. `Backport` is `obj_make_compatible()`: each
operator behind it follows one override, with the version it passes on to its
superclass. `Refused` says when the library under it raises instead: for a
version the class has not had, and, without a manifest, for an object inside
the object that no class states a rule for. `KnownAt` is the reference it is compared with: the fields a class
had in an earlier version, taken from the `# Version 1.x: Added` comments
beside the classes. `HostInfo` has the descriptions of the OVS and the noop
plugin, `filter_vif_types()` of a plugin and of a host, and the search for a
common version (`HasCommonVersion`). Sets stand for the code's lists.

### HostNet

Names are pairs `<<prefix, vif>>`, as `gen_port_name` builds them. Kernel:
`devs`, `up`, `enslaved` (the `qvb` end of a veth pair on its `qbr` bridge).
OVSDB: `brType` (a bridge's datapath type, or absent), `portBr` (a port is on
at most one bridge), `tag` (none, the dead VLAN 4095, or the local VLAN
Neutron sets), `ids` (ports whose interface carries an `iface-id`),
`portQos`, `qosRows` (how many QoS rows name a port in their `external_ids`).
Details of OVS that matter are kept: `del-port` with the wrong bridge is an
error and does nothing; `del-br` removes the ports; a QoS row a port refers
to is not destroyed; a new row does not displace an old one; deleting one
end of a veth pair deletes the other; a deleted bridge leaves its ports down
only through the explicit `set_interface_state`. Calls that fail half way
have operators of their own (`CreateVethPairPartly`, `DeleteBridgePartly`).

### OvsPlugin

`pc[v]` is the next call the plugin makes for VIF `v`; every privileged call,
every OVSDB command and every transaction is one step. `port[v]` is the local
`vif_name` or `representor`; `isolating` and `qosing` hold the local
decisions of `_create_vif_port()` between the look at the port and the
transaction that acts on it. `last[v]` is what the caller was told. The
caller has one call per VIF in progress (Nova holds the instance's lock);
calls for different VIFs interleave freely. Constants give each VIF its class
(`Kind`, and `UnpluggedAs` for a hybrid VIF that has become a
`VIFOpenVSwitch` in its binding), bridge, datapath type and profile flags,
and the plugin's configuration (`IsolateVif`;
`PerPortBridge` is the set of VIFs on hosts that set `per_port_bridge`, so
that one instance holds VIFs of both kinds).

Failures are actions and alternatives of actions, each kind enabled by
`FaultKinds` and their number bounded by `MaxFaults`:

| kind | what happens | code |
|---|---|---|
| raise | a call raises before it did anything, or a commit raises after it was applied (a timeout) | `StepRaises`, `CreateOvsVifPort`, ... |
| partial | a privileged call raises between its netlink requests | `Partial` |
| lost | an OVSDB command fails and the failure is only logged | `Lost`; `impl_vsctl.py:111-125` |
| blind | `ip_lib.exists()` fails and answers that the link is not there | `Blind`; `impl_pyroute2.py:153-160` |
| vm | a VM stops, or one that has stopped is started again, while a call for its VIF is in progress | `Untimely` |
| crash | the process dies | `Crash` |
| reboot | the host restarts: links gone, database kept | `Reboot` |

`AgentWires`, `LibvirtPlugs` and `LibvirtUnplugs` are the external programs,
modelled from what the code and its comments (`ovs.py:480-497`) rely on.
Libvirt makes a port when the VM is started: by Nova once `plug()` has
returned, or, for a VM that has stopped in the course of a `plug()` at the
start of the compute service, within that call. It deletes the port whenever
the VM stops, before, within and after a call. What is left out is a VM that
libvirt starts of itself before Nova has plugged its VIF (Nova does not set
autostart).

Two variables are history, read by properties only. `misled` has the VIFs one
of whose looks, in the current or last call, failed (`Blind`) or went stale
before it was acted on (`Untimely` at one of the steps in `Deciding`); a new
call starts with a clean sheet. `raced` has the VIFs of which the latter was
ever the case: what the transaction then makes outlasts the call.

### VifWiring and OvsWiring

`VifWiring` is what `os_vif.plug()` and `os_vif.unplug()` promise, with
nothing of how. Its state is the call in progress for each VIF, what the
caller was told, and the sets of VIFs that are wired and clean. A step of a
call may do anything to its own VIF but break what is there already (a wired
VIF stays wired through `plug()`, a clean one clean through `unplug()`) and
takes nothing from other VIFs; a call that reports success has established
what it reports. `OvsWiring` maps `OvsPlugin` to it: `op` and `last` are the
calls and reports, `wired` and `clean` are the VIFs of which the predicates
`Wired` and `Clean` hold. Of a hybrid VIF that is bound as another kind when
it is unplugged nothing is promised (`Rebound`).

### NativeOvsdb

With `ovsdb_interface = native` all commands share one connection. A command
that writes is a transaction: `Submit` puts it into the queue, where the
thread of the connection (`Commit`) takes the first one; a caller that has
waited for `ovs_vsctl_timeout` (`TimesOut`, or a queue that stays full) goes
on as after the exception or, for the commands run without `check_error`, as
if nothing had happened, and its transaction stays. Reads come from the
replica: `seen` is the set of ports it shows, `stale` the VIFs whose port
libvirt has replaced or removed since. The answer to a transaction brings the
replica up to date, since every transaction with commands in it also changes
`next_cfg`, so that the database answers it; that is also why the
`add-br --may-exist` at the start of a `plug()` matters beyond the bridge.
A transaction is put together from the replica: it may update a port that is
gone, which has no effect, or insert one that is there, which fails. `doubt`
is history: a commit of the last call for a VIF timed out or was lost.
`Depth` is the queue of size one of ovsdbapp and the transaction being
committed.

### Representor

`_plug_vf()` and `_unplug_vf()` take the name of a port from
`linux_net.py:190-446`: the number of the VF behind the `virtfn` links, the
netdev of its PF (the uplink, or the first netdev of the PF that has a switch
id), and then, among all netdevs of the host, the one of the same switch
whose `phys_port_name` tells the PF's function, if it tells one, and the VF's
number. Every read of a file or a directory is a step; between two steps the
host may unregister or register a device, disable or enable VFs, or take a PF
out of switchdev mode. What a read of a vanished device gives is a choice:
nothing (`isfile()` is false) or an exception (it vanished after `isfile()`);
which of the reads catch it, and how, is what the actions differ in. `todo`
is the rest of a directory listing, in no particular order; `start` and
`gone` are history. In `OvsPlugin` the whole lookup is the step
`FindRepresentor`, which finds the representor or raises:
`FoundIsRepresentor` is what justifies it.

A `phys_port_name` is reduced to what the regular expressions extract
from it. Devices keep their names. Names of external controllers
(`c1pf0vf0`) and the truncated `vfr` names of DPDK representors are left out.

## 3. What is checked

Properties of the front end:

* `NoAssertionError`: no lookup finds an extension without its object.
* `UnloadedHasLoader`: an extension lacks its object only while some
  `initialize()` will still store it, whoever resets meanwhile.
* `InfoIsExact`: what `host_info()` returns is all that all registered
  plugins describe, cut down to the permitted types, and never what a manager
  describes that another thread is just replacing.
* `EveryCallReturns` (liveness).
* `InitializedMeansLoaded`: what the docstring of `initialize()` says, true
  unless a `load()` raises.

Properties of the plugin:

* `PluggedIsWired`: a caller told *plugged* has everything traffic needs, even
  if a look of the call failed or the VM stopped and started during it. A
  port that was made anew in place of one libvirt had deleted has no QoS row
  (`raced`).
* `UnpluggedIsClean`: a caller told *unplugged* can forget the VIF: no link,
  port, QoS row or bridge of it remains, whatever earlier calls left, misled
  ones among them, unless a look of this very `unplug()` failed.
* `OneQosRow`: never two QoS rows for a port.
* `IsolatedUntilWired`: with `isolate_vif`, no port the plugin makes is on
  the integration bridge without the dead VLAN before Neutron has wired it,
  but for VIFs in `raced`.
* `ReplugIsQuiet` (action property): a step of `plug()` of a wired VIF changes
  nothing of it, unless the call was misled.
* `WiredTagKept` (action property): a port on its network's VLAN is not put
  back on the dead one, unless the call was misled.

The exemptions are there because the code does not keep the properties
without them; each of these is a behaviour that TLC shows as soon as the
exemption is dropped. *Isolation:* a replug finds the port of a running VM
(`ovs.py:243`), the guest stops and libvirt deletes the port, the transaction
(`ovs.py:303`) makes it anew, with an `iface-id` and outside the dead VLAN.
*The tag:* a replug finds no port, because the VM has just stopped, the VM is
started again, the agent wires the port libvirt makes, and the transaction
puts it on the dead VLAN. *Quiet replug:* the look at the `qvo` device
of a running VM fails (`ovs.py:426`), and `create_veth_pair()`, whose own looks
(`linux_net.py:78-79`) go well, deletes the live pair. *Clean unplug:* the look
at the tap, at the bridge or at the port's device fails
(`linux_net.py:62, 163`; `ovs.py:376, 681`), the device stays and `unplug()`
reports success.

* `ReleasedFromDeadVlan` (liveness): an isolated port is released.
* `ImplementsWiring` (refinement): every step is one that `VifWiring` allows.

Properties of the native client:

* `UnpluggedIsGone`, `PluggedIsThere`: what a call reports is true, and no
  transaction is left in the queue that could still undo it, if the call's
  own commits were answered, whatever of earlier calls was committed late.
  A call one of whose commits timed out reports success too, in `del_port`'s
  case; the properties leave those to the retry.

Properties of the lookup:

* `FoundIsRepresentor`: what is returned is the representor of this VF, not
  of the VF of the same number on another PF of the switch, nor an SF's.
* `FoundIfThere`: with the uplink and the representor there all the time, the
  lookup finds it, whatever else comes and goes. The exception the property
  makes is the code's: `get_ifname_by_pci_address()` catches a failed read of
  a switch id and goes on (`_is_switchdev`), but a failed read of a port name
  ends the whole lookup with `PciDeviceNotFoundById` (`linux_net.py:366,
  375`), so that any netdev of the PF that vanishes at that moment, the
  representor of another VF say, makes `plug()` fail though uplink and
  representor are there.

| run | instance | properties |
|---|---|---|
| `osvif_startup` | 3 threads, one initializer, callers wait (609,181 states) | `TypeOK`, `NoAssertionError`, `InitializedMeansLoaded` |
| `osvif_reset` | 2 threads, both initialize, reset and ask for host information, `load()` may raise (460,306 states) | `UnloadedHasLoader`, `InfoIsExact`, `EveryCallReturns` |
| `ports` | plain VIFs (with tap, without port, on a trunk, with a bridge of their own), VFs, vhost-user and DPDK VIFs; two at once on one bridge; raise, crash, reboot, failed looks at links, VMs that stop and start within a call; two failures (62,910 states) | `TypeOK`, `PluggedIsWired`, `UnpluggedIsClean`, `OneQosRow`, `ReplugIsQuiet`, `WiredTagKept` |
| `hybrid_faults` | two hybrid VIFs at once, one on a trunk, a plain one with a bridge of its own, a VF whose profile asks for a tap, a profile that is refused; raise, partial, crash, reboot, failed looks (176,427 states) | `UnpluggedIsClean`, `IsolatedUntilWired`, `ReplugIsQuiet` |
| `hybrid_reboot` | hybrid VIFs, one bound as plain when unplugged, next to plain ones; two reboots (30,733 states) | `PluggedIsWired`, `ImplementsWiring` |
| `lost` | a plain and a hybrid VIF at once; lost commands, crashes, failed looks, VMs that stop and start within a call (237,364 states) | `IsolatedUntilWired`, `ReleasedFromDeadVlan` |
| `native` | a plain and a vhost-user VIF at once, a queue of two, three timeouts, lost commits or restarts, libvirt (91,148 states) | `TypeOK`, `UnpluggedIsGone`, `PluggedIsThere` |
| `representor` | lookups by plug and unplug of a VF on a new card and on an old one; two changes of the host (819,300 states) | `TypeOK`, `FoundIsRepresentor`, `FoundIfThere` |

Runs that end in a violation, each a disagreement between code and text
(findings in `PROJECT.json` quote both):

| run | what TLC shows |
|---|---|
| `osvif_assert_violated` | `plug()` during another thread's `initialize()` fails the assertion the comment calls impossible |
| `osvif_load_violated` | after a `load()` that raised, `initialize()` succeeds and loads nothing |
| `v_vhost_qos` | a vhost-user VIF without a datapath type leaves its QoS row behind, with no failure involved |
| `v_hybrid_retry` | a hybrid `plug()` retried after a crash reports success without wiring |

The same modules show more of the kind that have no run of their own: a tap
made but not brought up is left down by the retry (`PluggedIsWired` with
`partial` for a VIF with `create_tap`, `ovs.py:347`); a swallowed failure of
the port transaction lets `plug()` report success (`PluggedIsWired` with
`lost`, `impl_vsctl.py:122`); a failed `list-ports` makes a replug put a
wired port back on the dead VLAN (`WiredTagKept` with `lost`,
`ovsdb_lib.py:282`); a re-bound hybrid VIF unplugged after a reboot leaves its
port and row (`UnpluggedIsClean` with `reboot`), because its `qbr` bridge is
gone, and so does the retry of an `unplug()` of it that failed once that
bridge was deleted (`raise`, `ovs.py:681`); on a host with `per_port_bridge`
the re-bound VIF is left as it is with no failure at all, since `unplug()`
does not look for that bridge there (`UnpluggedIsClean` with the VIF in
`PerPortBridge`, `ovs.py:676`). Over the native client a QoS row
can be left over next to the one a port uses, when the `create` of a `plug()`
that timed out is committed after the retry has looked for rows: `OneQosRow`
is not a property of `NativeOvsdb`. What `describe()` of the OVS plugin says
of itself is that of the first release: every version is 1.0, although
`host_info.py:70-76` calls them the earliest and latest version the plugin
understands and `plug()` reads fields of 1.1 to 1.4. A network manager that
asks `get_common_version()` finds none for `VIFVHostUser` and for both port
profiles (`OwnVersionsOutdated`).

### Bounds, and why they are enough

One VIF's calls touch another VIF only through the bridge they share, so two
VIFs at once show every interplay of two calls, and `OneGroup` (a CONSTRAINT)
keeps a behaviour to the VIFs of one group. Links, ports and rows of different
VIFs have different names. Two failures let a call fail, its retry be cut off,
and the retry of that succeed; the properties speak of what one completed call
makes of whatever was left, and the leftovers of two failures already comprise
every subset of steps a first and a second attempt may have done. A failed
look and a VM that stops or starts within a call count as failures: stopping
and starting within one call takes both. Calls themselves are not bounded:
VIFs are plugged and unplugged for ever. Three threads are the initializer and
two callers racing it; two threads that both initialize, reset and call show
every overlap of two loops over the global. One lookup is followed from
beginning to end; two changes of the host take a device away and bring it
back, take away the PF's uplink and the VF's representor, or any other pair.
Three timeouts over the native client let a `plug()`, the `unplug()` after it
and the retry of either each leave a transaction behind with a queue of two;
two VIFs are enough for one to fill the queue before the other. Four QoS rows
are more than three timeouts can leave behind. Symmetry is used over threads
that play the same part in the front end's runs and over the names of rows in
`native`; both runs with a liveness property are without it.

### Fairness

`OsVif!FairSpec`: a thread inside the library keeps running.
`OvsPlugin!FairSpec`: a call in progress goes on (Python code that waits for nothing but its
timeouts), and the Neutron agent gets round to every port it can find, which
is its purpose; nobody has to call, and no failure has to stop.

## 4. What is proved

Everything below holds for every value of the constants that satisfies the
named assumptions (`OsVifAssumption`; `NetAssumption` and `PluginAssumption`;
`NativeAssumption`; `RepresentorAssumption`): any numbers of threads, plugins,
VIFs, bridges and devices, and any number of failures, where the runs have
two.

`OsVifProofs`:

* `TypeCorrect`; the invariant adds to `TypeOK` that a loader only stores the
  object of a plugin it has not visited.
* `UnloadedCorrect` (`UnloadedHasLoader`): inductive together with `Typed`.
  A reset empties the manager, and the thread that reset it has every plugin
  ahead of it; a thread stores an object before it takes the plugin off its
  list.
* `InfoCorrect` (`InfoIsExact`). `Calling` adds that a call has no outcome
  before it returns, where a thread is tells which call it is in, and that the
  loop of `host_info()` has the descriptions of exactly the plugins it has
  visited: a manager that is replaced meanwhile makes it fail an assertion,
  never skip a plugin. `FilteredExact` is what the filter leaves of them.
* `LoadedCorrect` (`InitializedMeansLoaded`), assuming that no `load()`
  raises: from `UnloadedHasLoader`, because a manager, once created, is never
  taken away (`ManagerStays`). Any number of threads may initialize and reset;
  `osvif_load_violated` shows what one failing `load()` does.
* `StartupCorrect` (`NoAssertionError`), assuming `SafeStartup`: one
  initializer, no reset, callers that wait. `osvif_assert_violated` shows
  that the assumption is needed.

`HostInfoProofs`, about every class, version and set of fields:

* `RefusedIsVHostUser`: of the classes of this release the library refuses a
  version the class has had to `VIFVHostUser` alone, with a network or a port
  profile set and 1.0 asked for.
* `BackportExact`: unless it is refused, an object sent to a peer with version
  1.v carries exactly the fields it carried that this version knows
  (`KnownAt`), so that the chains of version numbers that the overrides pass
  to their superclasses agree with the history in the comments.
  `BackportTwice` follows: a detour by way of a third version loses nothing.
* `FilterExact`, `OfferedIfPermitted`: what a filter leaves, and that it drops
  exactly the plugins that support no permitted type.
* `OwnVersionsOutdated`: see the end of section 3.

`OvsPluginProofs`:

* `TypeCorrect`. `TypeOK` alone is not inductive: a step that writes a port
  needs to know that the call has chosen one (`PortChosen`).
* `QosCorrect` (`OneQosRow`), assuming `"lost" \notin FaultKinds`. That a
  port has at most one row is not inductive: `create` adds a row whatever is
  there. The invariant `QosInv` adds that no row is left when the plugin
  comes to `create`, because it has just destroyed them; that no port refers
  to one of them then (ovsdb-server does not destroy a row a port refers to);
  and, so that this holds when `_create_vif_port()` has looked at
  `port_exists()`, that the only port of a VIF with a `qos` column is the one
  `plug()` makes, on the bridge it makes it on (`QosColumns`). With lost
  commands a `destroy` may do nothing and the look may fail: the assumption
  is needed.
* `IsolationCorrect` (`IsolatedUntilWired`), for every kind of failure: lost
  commands, failed looks and VMs that stop and start during a call included.
  `_isolate_vif()` decides in one step what a later transaction does; the
  invariant `IsolationInv` adds that a call which decided not to isolate, on a
  bridge that is not a trunk, still finds the port it saw on that bridge when
  it comes to the transaction (`PortSeen`, and `PatchSeen` for the patch port),
  so that the transaction makes no port without the dead VLAN. `PortSeen` is
  claimed of no VIF in `raced`: libvirt has deleted the port of such a VIF
  after the look, and the code then does make a port on no VLAN (section 3).
  A list of ports that could not be read leads to isolation, never to its
  absence.

`VifWiringProofs`:

* `TruthKept`: in every system that `VifWiring` describes, what a caller was
  told of a VIF stays true until it calls again, the VM stops or the host
  restarts. This is what the refinement is good for.

`OvsReplugProofs`, assuming `"lost" \notin FaultKinds`, for VIFs of every
class and every other kind of failure, failed looks and VMs that stop and
start during a call included:

* `ReplugCorrect` (`ReplugIsQuiet`) and `TagKeptCorrect` (`WiredTagKept`).
  What a step of `plug()` writes was decided some steps before, from a look at
  the port or the link. `ReplugInv` says that each decision still holds when
  it is acted on (`Decision`: a call that isolates a port, replaces its QoS
  row or adds a veth pair has not found that port or link, and nobody else
  makes it), unless the VIF is in `misled`: a look of this very call has
  failed, or libvirt has made the port since. It says further that a call for
  a VIF only comes to the steps of its class (`PlugPlace`), and that the tag
  of a port goes with the port (`NoStaleTag`), so that a port made anew on a
  network's VLAN does not inherit a tag. With lost commands a look at a port
  that is there may show none, and `plug()` isolates it: the assumption is
  needed (section 3).

`OvsWiringProofs`, of `OvsPlugin` under the assumption `Sound`:

* `PluggedCorrect`, `UnpluggedCorrect`, `WiringImplemented`, and the first two
  VIF by VIF (`PluggedVifIsWired`, `UnpluggedVifIsClean`).
  The invariant `WiringInv` says of each VIF what can be there of it at any
  time (`Scope`: which links, ports, rows and bridges, and that a transaction
  that makes a port makes all of it), what a call has established when it
  comes to each of its steps (`CallStage`, `LinksStage`, `PlugStage`,
  `UnplugStage`) and what its outcome means (`Outcome`). The first says that a
  retry finds nothing but what some attempt may have left, the second is the
  plugin's argument, statement by statement: at `create_tap`, say, the port is
  in place; at `delete_trunk` everything else of the VIF is gone. The
  refinement then needs of every action that it spares what belongs to other
  VIFs.
* Hybrid VIFs need one thing more. `_plug_bridge()` looks for one end of the
  veth pair and takes it for the whole: if it is there, nothing is set up but
  the MTU. `Intact` is the invariant behind that: while no call for the VIF is
  half way, and as long as no call was cut off but by a reboot, which takes
  the links with it, a hybrid VIF that has the veth pair has its bridge, its
  links up and its port. It has to survive the `unplug()` of a re-bound VIF,
  which deletes the port under another name where it finds no `qbr` bridge:
  `BridgeGone` says that the veth pair is gone by then as well, or that
  `unplug()` has known the VIF for hybrid.
* `Sound` excludes what breaks both promises, and each exclusion has its
  reason: lost commands (a swallowed failure lets a call report success);
  failed looks (`exists()` answers "no" of a device that is there, and the
  device is left or the wrong branch taken); VMs that stop or start during a
  call (libvirt's port then differs from what the call has read);
  vhost-user VIFs whose profile leaves the datapath type open (`v_vhost_qos`);
  re-bound VIFs on a host with `per_port_bridge` (`unplug()` then takes them
  for VIFs with a bridge of their own and never looks for the `qbr` bridge,
  `ovs.py:669-683`); VIFs on one bridge that disagree on its datapath type, and
  a trunk bridge with two VIFs (one call changes what the other has set up).
* `Sure(v)` excludes for `PluggedCorrect` and the refinement what spoils a
  retry of `plug()`: for hybrid VIFs any failure but a reboot
  (`v_hybrid_retry`), for VIFs with a tap a privileged call that fails half
  way. `UnpluggedCorrect` does without it: whatever a call was cut off in,
  privileged calls half way included, `unplug()` clears it away. It excludes
  re-bound VIFs, of which `unplug()` can leave the port (section 3).
  Exceptions, crashes and reboots are all in otherwise, at any point and any
  number of times.

`NativeOvsdbProofs`:

* `TypeCorrect`, `UnplugCorrect` (`UnpluggedIsGone`), `PlugCorrect`
  (`PluggedIsThere`), for any number of VIFs, any length of the queue and any
  number of faults. `NativeInv` adds to `TypeOK`: a transaction whose caller
  waits is the last one of its VIF (`Fifo`), which is why nothing of earlier
  calls is left when it is answered; the replica shows every port but those
  libvirt has touched (`Replica`); which commands a VIF's kind can have queued
  (`Kinds`); what each step of a call implies for the report and the VM
  (`Calls`); in which order the transactions of calls that timed out can lie
  in the queue (`Order`); and what is settled when a call that has not timed
  out comes to each step (`Progress`).

`RepresentorProofs`:

* `RepresentorCorrect` (`FoundIsRepresentor`). The invariant `LookupInv` is
  what each read has established and no later change of the host can undo:
  the netdev taken for the PF's is of that PF, `pf_sw_id` is its switch or
  nothing, `ifname_pf_func` its function, and a device whose port name is
  read is on that switch. `RepresentorAssumption` is used where a name tells
  no PF: such a switch has one PF.
* `TypeCorrect` (`TypeOK`), by way of `LookupInv`.
* `FoundCorrect` (`FoundIfThere`), assuming that the PF of every VF that is
  asked for has an uplink among the devices. `SearchInv` adds that devices that
  vanish are remembered in `gone`, that a representor implies the mode its PF
  must be in, and, while uplink and representor are there (`AllThere`), that
  the lookup is on track: each of them is still ahead of it in the listing or
  is the device it is looking at.

Only model-checked: liveness (`EveryCallReturns`, `ReleasedFromDeadVlan`),
which needs fairness and `ENABLED`, out of the prover's reach; and
`PluggedIsWired` and `UnpluggedIsClean` under failed looks and VMs that stop
or start during a call, which `ports` and `hybrid_faults` admit and `Sound`
does not. Every safety property, action property and refinement that a run
checks is otherwise also a theorem: `TypeCorrect`, `QosCorrect`,
`IsolationCorrect`, `ReplugCorrect` and `TagKeptCorrect` under assumptions
that the instances of the passing runs that check them satisfy,
`PluggedCorrect` and `WiringImplemented` under those of `hybrid_reboot`.
The runs that end in a violation leave the assumptions.
No module uses recursion.

## 5. What is not modelled

* MTU, MAC, promiscuous mode, multiqueue, IPv6 and ARP settings of links.
* Formatting and parsing of OVSDB commands; `ovs-vsctl` commands that no code
  in the repository calls.
* Over the native client: hybrid VIFs, patch ports, isolation and bridges of
  their own. Their commands have the effects `HostNet` gives them; queue and
  replica do to them what `NativeOvsdb` shows for the port and its QoS row.
  Connection, reconnection and keepalives are ovsdbapp's. There the VM of a
  VIF starts and stops between the calls for it only; within a call it does so
  in `OvsPlugin`.
* A VM that libvirt starts on its own after a reboot, before Nova has called
  `plug()`.
* Networks, subnets, routes, fixed addresses and instance information, which
  are data. Of the rules by which oslo.versionedobjects backports an object
  inside another one two are modelled: that of `datapath_offload`, which
  names its versions, and the refusal (`Refused`) where `VIFBase` names none,
  for a `network` or `port_profile` with no version manifest. A manifest, and
  the backporting of `HostVIFInfo` itself, are not. A field that is "set" is
  set to something other than None.
* Configuration that changes between `plug()` and `unplug()`: a change takes a
  restart of the service, and what becomes of VIFs plugged before is nowhere
  promised.
* `os_vif/internal/ip/api.py` and `ip_command.py`: an abstract class, and the
  choice of the only class that implements it.
* Renaming of devices during a lookup: a device of `Representor` may vanish and
  come back, but its name is never another device's; external controllers.
* Two calls for one VIF at the same time: Nova's lock excludes them.
* A trunk bridge shared by VIFs, VIFs of different datapath types on one
  bridge, and `isolate_vif` together with `per_port_bridge` as to liveness
  (the tap's port on the port bridge is on the dead VLAN and carries no
  `iface-id`, `ovs.py:453-456`, so the agent never releases it: with
  `PerPortBridge`, `ReleasedFromDeadVlan` fails). Deployments do not combine
  these; the constants allow them.

## 6. Plan

Done: 1. `OsVif` and its theorems. 2. `HostNet`. 3. `OvsPlugin` with every
strategy and its runs. 4. First theorems about `OvsPlugin`. 5. `Representor`
and its theorem. 6. `VifObjects` and `HostInfo`, and `host_info()` as a use of
them. 7. `NativeOvsdb` and its theorems. 8. `VifWiring`, the refinement and
its proof, first for plain VIFs, then for all
classes. 9. `ReplugIsQuiet` and `WiredTagKept`.

Next: the wiring theorems under failed looks and VMs that stop or start during
a call, which so far only the runs cover; what is guaranteed of a hybrid VIF
whose binding has changed, where no call is cut off; the native client with
isolation and patch ports.
