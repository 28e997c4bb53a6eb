------------------------------- MODULE OsVif -------------------------------
(***************************************************************************)
(* The library front end, src/os_vif/__init__.py: the process-wide         *)
(* _EXT_MANAGER, initialize(), and the three calls that look a plugin up   *)
(* in it, plug(), unplug() and host_info().                                *)
(*                                                                         *)
(* Threads of one process interleave between the reads and writes of the   *)
(* global.  The global is one variable here too: an initializer that is    *)
(* overtaken by a second one stores the plugins it loads in the manager    *)
(* the second one installed, as lines 47-58 do.                            *)
(***************************************************************************)
EXTENDS HostInfo, FiniteSets

CONSTANTS
  Threads,        \* callers of the library inside one process
  Initializers,   \* the threads that call initialize()
  Plugins,        \* names registered under the 'os_vif' entry point
  OtherNames,     \* plugin names a VIF may carry that are not registered
  Describe,       \* what describe() of each plugin returns
  Permitted,      \* the lists of VIF types a caller of host_info() permits
  Anything,       \* None in place of such a list
  ResetAllowed,   \* whether a caller passes reset=True
  LoadsFail,      \* whether the load() of a plugin class may raise
  StartupFirst    \* whether callers wait for a successful initialize()

ASSUME OsVifAssumption ==
  /\ Initializers \subseteq Threads
  /\ Plugins \cap OtherNames = {}
  /\ \A p \in Plugins : Describe[p] = HostPluginInfo(p, Describe[p].vif_info)
  /\ {ResetAllowed, LoadsFail, StartupFirst} \subseteq BOOLEAN

VARIABLES
  initialized,  \* _EXT_MANAGER is not None
  registered,   \* os_vif.objects.register_all() has run
  loaded,       \* the plugins whose extension has a non-None obj
  pc,           \* where each thread is
  op,           \* the call a thread is in, or was last in
  reset,        \* the argument of initialize()
  target,       \* vif.plugin of a call, plugin_name of the loading loop
  todo,         \* names a loop over names() has yet to visit
  permitted,    \* the argument of host_info()
  info,         \* the descriptions it has collected, and its result
  outcome,      \* how the last call of a thread ended
  started,      \* some initialize() has returned normally
  loadFailed    \* some load() has raised

managerVars == <<initialized, registered, loaded>>
callVars    == <<op, reset, target>>
infoVars    == <<permitted, info>>
history     == <<started, loadFailed>>
vars == <<managerVars, callVars, infoVars, history, pc, todo, outcome>>

Names    == Plugins \cup OtherNames
InitPcs  == {"register", "test", "create", "load", "store"}
PlugPcs  == {"check", "lookup", "run"}
InfoPcs  == {"info_check", "info"}
Outcomes == {"none", "ok", "LoadError", "LibraryNotInitialized",
             "NoMatchingPlugin", "AssertionError", "PlugException",
             "UnplugException", "PluginError"}

PluginInfos ==
  [plugin_name : Plugins,
   vif_info : SUBSET UNION {Describe[p].vif_info : p \in Plugins}]

TypeOK ==
  /\ initialized \in BOOLEAN
  /\ registered \in BOOLEAN
  /\ loaded \subseteq Plugins
  /\ pc \in [Threads -> {"idle"} \cup InitPcs \cup PlugPcs \cup InfoPcs]
  /\ op \in [Threads -> {"none", "initialize", "plug", "unplug", "host_info"}]
  /\ reset \in [Threads -> BOOLEAN]
  /\ target \in [Threads -> Names \cup {"none"}]
  /\ todo \in [Threads -> SUBSET Plugins]
  /\ permitted \in [Threads -> Permitted \cup {Anything}]
  /\ info \in [Threads -> SUBSET PluginInfos]
  /\ outcome \in [Threads -> Outcomes]
  /\ started \in BOOLEAN
  /\ loadFailed \in BOOLEAN

Init ==
  /\ initialized = FALSE
  /\ registered = FALSE
  /\ loaded = {}
  /\ pc = [t \in Threads |-> "idle"]
  /\ op = [t \in Threads |-> "none"]
  /\ reset = [t \in Threads |-> FALSE]
  /\ target = [t \in Threads |-> "none"]
  /\ todo = [t \in Threads |-> {}]
  /\ permitted = [t \in Threads |-> Anything]
  /\ info = [t \in Threads |-> {}]
  /\ outcome = [t \in Threads |-> "none"]
  /\ started = FALSE
  /\ loadFailed = FALSE

Goto(t, label) == pc' = [pc EXCEPT ![t] = label]

Return(t, result) ==
  /\ Goto(t, "idle")
  /\ outcome' = [outcome EXCEPT ![t] = result]

-----------------------------------------------------------------------------
(* Calls begin, and the caller has no use for the last result any more.    *)

ForgetInfo(t) ==
  /\ permitted' = [permitted EXCEPT ![t] = Anything]
  /\ info' = [info EXCEPT ![t] = {}]

CallInitialize(t) ==
  /\ pc[t] = "idle"
  /\ t \in Initializers
  /\ Goto(t, "register")
  /\ op' = [op EXCEPT ![t] = "initialize"]
  /\ \E r \in BOOLEAN :
       /\ r => ResetAllowed
       /\ reset' = [reset EXCEPT ![t] = r]
  /\ outcome' = [outcome EXCEPT ![t] = "none"]
  /\ ForgetInfo(t)
  /\ UNCHANGED <<managerVars, history, target, todo>>

MayCall(t) == pc[t] = "idle" /\ (StartupFirst => started)

CallPlugin(t) ==
  /\ MayCall(t)
  /\ Goto(t, "check")
  /\ \E o \in {"plug", "unplug"} : op' = [op EXCEPT ![t] = o]
  /\ \E n \in Names : target' = [target EXCEPT ![t] = n]
  /\ outcome' = [outcome EXCEPT ![t] = "none"]
  /\ ForgetInfo(t)
  /\ UNCHANGED <<managerVars, history, reset, todo>>

CallHostInfo(t) ==
  /\ MayCall(t)
  /\ Goto(t, "info_check")
  /\ op' = [op EXCEPT ![t] = "host_info"]
  /\ \E types \in Permitted \cup {Anything} :
       permitted' = [permitted EXCEPT ![t] = types]
  /\ info' = [info EXCEPT ![t] = {}]
  /\ outcome' = [outcome EXCEPT ![t] = "none"]
  /\ UNCHANGED <<managerVars, history, reset, target, todo>>

-----------------------------------------------------------------------------
(* initialize()                                                            *)

\* Lines 40-41: the first test of the global.
RegisterObjects(t) ==
  /\ pc[t] = "register"
  /\ registered' = (registered \/ ~initialized)
  /\ Goto(t, "test")
  /\ UNCHANGED <<initialized, loaded, callVars, infoVars, history, todo,
                 outcome>>

\* Line 43: the second test of the global.  What it found may have changed
\* by the time line 44 assigns to it.
TestManager(t) ==
  /\ pc[t] = "test"
  /\ IF reset[t] \/ ~initialized
     THEN Goto(t, "create") /\ UNCHANGED <<outcome, started>>
     ELSE Return(t, "ok") /\ started' = TRUE
  /\ UNCHANGED <<managerVars, callVars, infoVars, todo, loadFailed>>

\* Mutant of CreateManager: returns once the manager is there.
CreateManagerOnly(t) ==
  /\ pc[t] = "create"
  /\ initialized' = TRUE
  /\ started' = TRUE
  /\ Return(t, "ok")
  /\ UNCHANGED <<registered, loaded, todo, callVars, infoVars,
                 loadFailed>>

\* Lines 44-47: the new manager, which the other threads see before any of
\* its extensions has an obj.
CreateManager(t) ==
  /\ pc[t] = "create"
  /\ initialized' = TRUE
  /\ loaded' = {}
  /\ todo' = [todo EXCEPT ![t] = Plugins]
  /\ Goto(t, "load")
  /\ UNCHANGED <<registered, callVars, infoVars, history, outcome>>

\* Lines 47-53: load the plugin class whose turn it is.
LoadPlugin(t) ==
  /\ pc[t] = "load"
  /\ \E p \in todo[t] : target' = [target EXCEPT ![t] = p]
  /\ Goto(t, "store")
  /\ UNCHANGED <<managerVars, infoVars, history, op, reset, todo, outcome>>

\* Line 53 raises: the exception leaves initialize(), the global stays.
LoadRaises(t) ==
  /\ LoadsFail
  /\ pc[t] = "load"
  /\ todo[t] # {}
  /\ loadFailed' = TRUE
  /\ todo' = [todo EXCEPT ![t] = {}]
  /\ Return(t, "LoadError")
  /\ UNCHANGED <<managerVars, callVars, infoVars, started>>

\* Mutant of StorePlugin: forgets the obj.
StoreNothing(t) ==
  /\ pc[t] = "store"
  /\ todo' = [todo EXCEPT ![t] = @ \ {target[t]}]
  /\ Goto(t, "load")
  /\ UNCHANGED <<managerVars, callVars, infoVars, history, outcome>>

\* Mutant of StorePlugin: the loop does not advance.
StoreAgain(t) ==
  /\ pc[t] = "store"
  /\ loaded' = loaded \cup {target[t]}
  /\ Goto(t, "load")
  /\ UNCHANGED <<initialized, registered, callVars, infoVars, todo, history,
                 outcome>>

\* Mutant of StorePlugin: the loop variable is stored under any name.
StoreUnregistered(t) ==
  /\ pc[t] = "store"
  /\ loaded' = loaded \cup OtherNames
  /\ todo' = [todo EXCEPT ![t] = @ \ {target[t]}]
  /\ Goto(t, "load")
  /\ UNCHANGED <<initialized, registered, callVars, infoVars, history, outcome>>

\* Line 58: the obj goes into whatever manager the global holds by now.
StorePlugin(t) ==
  /\ pc[t] = "store"
  /\ loaded' = loaded \cup {target[t]}
  /\ todo' = [todo EXCEPT ![t] = @ \ {target[t]}]
  /\ Goto(t, "load")
  /\ UNCHANGED <<initialized, registered, callVars, infoVars, history, outcome>>

FinishInitialize(t) ==
  /\ pc[t] = "load"
  /\ todo[t] = {}
  /\ Return(t, "ok")
  /\ started' = TRUE
  /\ UNCHANGED <<managerVars, callVars, infoVars, todo, loadFailed>>

-----------------------------------------------------------------------------
(* plug() and unplug()                                                     *)

CheckInitialized(t) ==
  /\ pc[t] = "check"
  /\ IF initialized
     THEN Goto(t, "lookup") /\ UNCHANGED outcome
     ELSE Return(t, "LibraryNotInitialized")
  /\ UNCHANGED <<managerVars, callVars, infoVars, history, todo>>

\* The KeyError, and the assertion on the obj that was found.
LookupPlugin(t) ==
  /\ pc[t] = "lookup"
  /\ \/ /\ target[t] \notin Plugins
        /\ Return(t, "NoMatchingPlugin")
     \/ /\ target[t] \in Plugins \ loaded
        /\ Return(t, "AssertionError")
     \/ /\ target[t] \in loaded
        /\ Goto(t, "run")
        /\ UNCHANGED outcome
  /\ UNCHANGED <<managerVars, callVars, infoVars, history, todo>>

\* The plugin returns, or whatever it raises is wrapped.
RunPlugin(t) ==
  /\ pc[t] = "run"
  /\ \/ Return(t, "ok")
     \/ op[t] = "plug" /\ Return(t, "PlugException")
     \/ op[t] = "unplug" /\ Return(t, "UnplugException")
  /\ UNCHANGED <<managerVars, callVars, infoVars, history, todo>>

-----------------------------------------------------------------------------
(* host_info()                                                             *)

CheckInfo(t) ==
  /\ pc[t] = "info_check"
  /\ IF initialized
     THEN /\ Goto(t, "info")
          /\ todo' = [todo EXCEPT ![t] = Plugins]
          /\ UNCHANGED outcome
     ELSE Return(t, "LibraryNotInitialized") /\ UNCHANGED todo
  /\ UNCHANGED <<managerVars, callVars, infoVars, history>>

\* Mutant of DescribePlugin: a plugin without its object is passed over.
DescribeLoadedPlugin(t) ==
  /\ pc[t] = "info"
  /\ \E p \in todo[t] :
       /\ todo' = [todo EXCEPT ![t] = @ \ {p}]
       /\ info' = [info EXCEPT ![t] = IF p \in loaded
                                     THEN @ \cup {Describe[p]} ELSE @]
  /\ UNCHANGED <<managerVars, callVars, permitted, history, pc, outcome>>

\* One turn of the loop over the sorted names; describe() is not wrapped.
DescribePlugin(t) ==
  /\ pc[t] = "info"
  /\ \E p \in todo[t] :
       IF p \in loaded
       THEN \/ /\ todo' = [todo EXCEPT ![t] = @ \ {p}]
               /\ info' = [info EXCEPT ![t] = @ \cup {Describe[p]}]
               /\ UNCHANGED <<pc, outcome>>
            \/ /\ todo' = [todo EXCEPT ![t] = {}]
               /\ info' = [info EXCEPT ![t] = {}]
               /\ Return(t, "PluginError")
       ELSE /\ todo' = [todo EXCEPT ![t] = {}]
            /\ info' = [info EXCEPT ![t] = {}]
            /\ Return(t, "AssertionError")
  /\ UNCHANGED <<managerVars, callVars, permitted, history>>

\* The filter is only applied to a list of types.
FinishInfo(t) ==
  /\ pc[t] = "info"
  /\ todo[t] = {}
  /\ Return(t, "ok")
  /\ IF permitted[t] = Anything
     THEN UNCHANGED info
     ELSE info' = [info EXCEPT ![t] = FilterHost(@, permitted[t])]
  /\ UNCHANGED <<managerVars, callVars, permitted, history, todo>>

-----------------------------------------------------------------------------
InitializeStep(t) ==
  \/ RegisterObjects(t)
  \/ TestManager(t)
  \/ CreateManager(t)
  \/ LoadPlugin(t)
  \/ LoadRaises(t)
  \/ StorePlugin(t)
  \/ FinishInitialize(t)

UseStep(t) ==
  \/ CheckInitialized(t)
  \/ LookupPlugin(t)
  \/ RunPlugin(t)
  \/ CheckInfo(t)
  \/ DescribePlugin(t)
  \/ FinishInfo(t)

Next ==
  \E t \in Threads :
    \/ CallInitialize(t)
    \/ CallPlugin(t)
    \/ CallHostInfo(t)
    \/ InitializeStep(t)
    \/ UseStep(t)

Spec == Init /\ [][Next]_vars

\* A thread inside the library keeps running; nobody has to call it.
Fairness == \A t \in Threads : WF_vars(InitializeStep(t) \/ UseStep(t))
FairSpec == Spec /\ Fairness

-----------------------------------------------------------------------------
(* Properties                                                              *)

Initializing(t) == pc[t] \in InitPcs

\* Thread t will still store plugin p in the manager, unless load() raises.
WillStore(t, p) == pc[t] \in {"load", "store"} /\ p \in todo[t]

\* No lookup finds an extension without a plugin object: the assertion of
\* plug(), unplug() and host_info() (lines 88-90, 128-130, 168-170) holds.
NoAssertionError == \A t \in Threads : outcome[t] # "AssertionError"

\* An extension has no object only while some initialize() is on its way
\* to store one, so the manager is complete whenever no initialize() runs,
\* however many of them reset the global under each other - provided that
\* no load() raised (lines 44-58).
UnloadedHasLoader ==
  initialized /\ ~loadFailed =>
    \A p \in Plugins \ loaded : \E t \in Threads : WillStore(t, p)

\* initialize() "loads all os_vif plugins and initializes them" (line 33):
\* if one has returned normally and none is running, every plugin has its
\* object.
InitializedMeansLoaded ==
  started /\ (\A t \in Threads : ~Initializing(t)) => loaded = Plugins

\* The host information a caller gets names every registered plugin with all
\* the permitted VIF types that it describes, and nothing else: it is never
\* the information of a manager that another thread is just replacing or
\* loading (lines 162-176).
InfoIsExact ==
  \A t \in Threads :
    op[t] = "host_info" /\ outcome[t] = "ok" =>
      /\ permitted[t] = Anything => info[t] = {Describe[p] : p \in Plugins}
      /\ permitted[t] # Anything =>
           \A p \in Plugins :
             LET offered == {i \in Describe[p].vif_info :
                               i.vif_object_name \in permitted[t]}
             IN  {d \in info[t] : d.plugin_name = p}
                   = IF offered = {} THEN {} ELSE {HostPluginInfo(p, offered)}

\* Every call that begins returns, whatever the other threads do to the
\* global meanwhile.
EveryCallReturns == \A t \in Threads : pc[t] # "idle" ~> pc[t] = "idle"

\* The usage the documentation asks for: one thread initializes once, its
\* plugins load, and only then is the library used.
SafeStartup ==
  /\ StartupFirst
  /\ ~ResetAllowed
  /\ ~LoadsFail
  /\ \A s, t \in Initializers : s = t
=============================================================================
