---------------------------- MODULE OsVifProofs ----------------------------
(***************************************************************************)
(* Proofs about OsVif, for every set of threads and plugins.               *)
(***************************************************************************)
EXTENDS OsVif, TLAPS

\* The plugin a loop is about to store is one it has not visited yet.
StoreTarget == \A t \in Threads : pc[t] = "store" => target[t] \in todo[t]

Typed == TypeOK /\ StoreTarget

\* What the plugins describe, whole or filtered, is host information.
LEMMA Described ==
  ASSUME NEW p \in Plugins
  PROVE  /\ Describe[p] \in PluginInfos
         /\ Describe[p].plugin_name = p
         /\ Describe[p] = [plugin_name |-> p, vif_info |-> Describe[p].vif_info]
BY OsVifAssumption DEF HostPluginInfo, PluginInfos

LEMMA Filtered ==
  ASSUME NEW plugins \in SUBSET PluginInfos, NEW types
  PROVE  FilterHost(plugins, types) \in SUBSET PluginInfos
BY DEF FilterHost, FilterPlugin, PluginInfos

\* The strengthening of TypeOK that is inductive: an initializer only ever
\* stores a registered plugin (line 58).
LEMMA TypedInvariant == Spec => []Typed
<1>1. Init => Typed
  <2>1. Init => TypeOK
    <3> SUFFICES ASSUME Init PROVE TypeOK
      OBVIOUS
    <3> USE DEF Init
    <3>1. /\ pc \in [Threads -> {"idle"} \cup InitPcs \cup PlugPcs
                                  \cup InfoPcs]
          /\ target \in [Threads -> Names \cup {"none"}]
      OBVIOUS
    <3>2. todo \in [Threads -> SUBSET Plugins]
      OBVIOUS
    <3>3. /\ permitted \in [Threads -> Permitted \cup {Anything}]
          /\ info \in [Threads -> SUBSET PluginInfos]
      OBVIOUS
    <3>4. outcome \in [Threads -> Outcomes]
      BY DEF Outcomes
    <3>5. /\ op \in [Threads -> {"none", "initialize", "plug", "unplug",
                                 "host_info"}]
          /\ reset \in [Threads -> BOOLEAN]
      OBVIOUS
    <3> QED
      BY <3>1, <3>2, <3>3, <3>4, <3>5 DEF TypeOK
  <2>2. Init => StoreTarget
    BY DEF Init, StoreTarget
  <2> QED
    BY <2>1, <2>2 DEF Typed
<1>2. Typed /\ [Next]_vars => Typed'
  <2> SUFFICES ASSUME Typed, [Next]_vars PROVE Typed'
    OBVIOUS
  <2> USE DEF Typed, TypeOK, StoreTarget, InitPcs, PlugPcs, InfoPcs,
              Outcomes, Names, managerVars, callVars, infoVars, history,
              Goto, Return
  <2>1. ASSUME NEW t \in Threads, CallInitialize(t) PROVE Typed'
    BY <2>1 DEF CallInitialize, ForgetInfo
  <2>2. ASSUME NEW t \in Threads, CallPlugin(t) PROVE Typed'
    BY <2>2 DEF CallPlugin, MayCall, ForgetInfo
  <2>3. ASSUME NEW t \in Threads, CallHostInfo(t) PROVE Typed'
    BY <2>3 DEF CallHostInfo, MayCall
  <2>4. ASSUME NEW t \in Threads, RegisterObjects(t) PROVE Typed'
    BY <2>4 DEF RegisterObjects
  <2>5. ASSUME NEW t \in Threads, TestManager(t) \/ CreateManager(t)
        PROVE  Typed'
    <3>1. CASE TestManager(t)
      BY <3>1 DEF TestManager
    <3>2. CASE CreateManager(t)
      BY <3>2 DEF CreateManager
    <3> QED
      BY <2>5, <3>1, <3>2
  <2>6. ASSUME NEW t \in Threads, LoadPlugin(t) PROVE Typed'
    BY <2>6 DEF LoadPlugin
  <2>7. ASSUME NEW t \in Threads, LoadRaises(t) PROVE Typed'
    BY <2>7 DEF LoadRaises
  <2>8. ASSUME NEW t \in Threads, StorePlugin(t) PROVE Typed'
    BY <2>8 DEF StorePlugin
  <2>9. ASSUME NEW t \in Threads, FinishInitialize(t) PROVE Typed'
    BY <2>9 DEF FinishInitialize
  <2>10. ASSUME NEW t \in Threads, CheckInitialized(t) PROVE Typed'
    BY <2>10 DEF CheckInitialized
  <2>11. ASSUME NEW t \in Threads, LookupPlugin(t) PROVE Typed'
    BY <2>11 DEF LookupPlugin
  <2>12. ASSUME NEW t \in Threads, RunPlugin(t) PROVE Typed'
    BY <2>12 DEF RunPlugin
  <2>13. ASSUME NEW t \in Threads, CheckInfo(t) PROVE Typed'
    BY <2>13 DEF CheckInfo
  <2>14. ASSUME NEW t \in Threads, DescribePlugin(t) PROVE Typed'
    <3>1. \A p \in todo[t] : Describe[p] \in PluginInfos
      BY Described
    <3>2. info' \in [Threads -> SUBSET PluginInfos]
      BY <2>14, <3>1 DEF DescribePlugin
    <3> QED
      BY <2>14, <3>2 DEF DescribePlugin
  <2>15. ASSUME NEW t \in Threads, FinishInfo(t) PROVE Typed'
    BY <2>15, Filtered DEF FinishInfo
  <2>16. CASE UNCHANGED vars
    BY <2>16 DEF vars
  <2> QED
    BY <2>1, <2>2, <2>3, <2>4, <2>5, <2>6, <2>7, <2>8, <2>9, <2>10, <2>11,
       <2>12, <2>13, <2>14, <2>15, <2>16 DEF Next, InitializeStep, UseStep
<1> QED
  BY <1>1, <1>2, PTL DEF Spec

\* Type correctness: the variables of the front end stay within TypeOK,
\* whichever calls overlap (lines 25-176).
THEOREM TypeCorrect == Spec => []TypeOK
<1>1. Typed => TypeOK
  BY DEF Typed
<1> QED
  BY <1>1, TypedInvariant, PTL

-----------------------------------------------------------------------------
\* An extension without an object always has an initializer on its way to
\* store one, unless a load() raised: initialize(reset=True) calls that
\* overlap leave a complete manager behind (lines 44-58).
THEOREM UnloadedCorrect == Spec => []UnloadedHasLoader
<1>1. Init => UnloadedHasLoader
  BY DEF Init, UnloadedHasLoader
<1>2. Typed /\ UnloadedHasLoader /\ [Next]_vars => UnloadedHasLoader'
  <2> SUFFICES ASSUME Typed, UnloadedHasLoader, [Next]_vars,
                      initialized', ~loadFailed',
                      NEW p \in Plugins \ loaded'
               PROVE  \E t \in Threads : WillStore(t, p)'
    BY DEF UnloadedHasLoader
  <2> USE DEF Typed, TypeOK, StoreTarget, WillStore, UnloadedHasLoader,
              managerVars, callVars, history, Goto, Return
  <2>1. ASSUME NEW t \in Threads, CreateManager(t)
        PROVE  \E s \in Threads : WillStore(s, p)'
    BY <2>1 DEF CreateManager
  <2>2. ASSUME NEW t \in Threads, StorePlugin(t)
        PROVE  \E s \in Threads : WillStore(s, p)'
    BY <2>2 DEF StorePlugin
  <2>3. ASSUME NEW t \in Threads,
               \/ RegisterObjects(t)
               \/ TestManager(t)
               \/ LoadPlugin(t)
               \/ LoadRaises(t)
               \/ FinishInitialize(t)
        PROVE  \E s \in Threads : WillStore(s, p)'
    BY <2>3 DEF RegisterObjects, TestManager, LoadPlugin, LoadRaises, FinishInitialize
  <2>4. ASSUME NEW t \in Threads,
               \/ CallInitialize(t)
               \/ CallPlugin(t)
               \/ CallHostInfo(t)
        PROVE  \E s \in Threads : WillStore(s, p)'
    BY <2>4 DEF CallInitialize, CallPlugin, CallHostInfo, MayCall
  <2>5. ASSUME NEW t \in Threads, UseStep(t)
        PROVE  \E s \in Threads : WillStore(s, p)'
    <3>1. CASE CheckInitialized(t) \/ LookupPlugin(t) \/ RunPlugin(t)
      BY <3>1 DEF CheckInitialized, LookupPlugin, RunPlugin
    <3>2. CASE CheckInfo(t)
      <4>1. PICK s \in Threads : WillStore(s, p)
        BY <3>2 DEF CheckInfo
      <4>2. s # t /\ pc'[s] = pc[s] /\ todo'[s] = todo[s]
        BY <3>2, <4>1 DEF CheckInfo
      <4> QED
        BY <4>1, <4>2
    <3>3. CASE DescribePlugin(t) \/ FinishInfo(t)
      <4>1. PICK s \in Threads : WillStore(s, p)
        BY <3>3 DEF DescribePlugin, FinishInfo
      <4>2. s # t /\ pc'[s] = pc[s] /\ todo'[s] = todo[s]
        BY <3>3, <4>1 DEF DescribePlugin, FinishInfo
      <4> QED
        BY <4>1, <4>2
    <3> QED
      BY <2>5, <3>1, <3>2, <3>3 DEF UseStep
  <2>6. CASE UNCHANGED vars
    BY <2>6 DEF vars
  <2> QED
    BY <2>1, <2>2, <2>3, <2>4, <2>5, <2>6 DEF Next, InitializeStep
<1> QED
  BY <1>1, <1>2, TypedInvariant, PTL DEF Spec

-----------------------------------------------------------------------------
\* What a filter leaves of all the descriptions, plugin by plugin.
LEMMA FilteredExact ==
  ASSUME NEW types, NEW p \in Plugins
  PROVE  LET offered == {i \in Describe[p].vif_info :
                           i.vif_object_name \in types}
         IN  {d \in FilterHost({Describe[q] : q \in Plugins}, types) :
                d.plugin_name = p}
               = IF offered = {} THEN {} ELSE {HostPluginInfo(p, offered)}
<1> DEFINE offered == {i \in Describe[p].vif_info :
                         i.vif_object_name \in types}
           Kept(q) == FilterPlugin(Describe[q], types)
           left == FilterHost({Describe[q] : q \in Plugins}, types)
<1>1. ASSUME NEW q \in Plugins
      PROVE  Kept(q).plugin_name = q
  <2>1. \A vifs, left_of : [[plugin_name |-> q, vif_info |-> vifs]
                              EXCEPT !.vif_info = left_of].plugin_name = q
    OBVIOUS
  <2>2. PICK left_of : Kept(q) = [Describe[q] EXCEPT !.vif_info = left_of]
    BY DEF FilterPlugin
  <2> QED
    BY <2>1, <2>2, Described
<1>2. Kept(p) = HostPluginInfo(p, offered)
  <2>1. \A vifs : [[plugin_name |-> p, vif_info |-> vifs]
                     EXCEPT !.vif_info = offered]
                    = [plugin_name |-> p, vif_info |-> offered]
    OBVIOUS
  <2>2. Kept(p) = [Describe[p] EXCEPT !.vif_info = offered]
    BY DEF FilterPlugin
  <2> QED
    BY <2>1, <2>2, Described DEF HostPluginInfo
<1>3. Kept(p).vif_info = offered
  BY <1>2 DEF HostPluginInfo
<1>4. \A d : d \in left <=>
               d.vif_info # {} /\ \E q \in Plugins : d = Kept(q)
  BY DEF FilterHost
<1>5. \A d : d \in left /\ d.plugin_name = p <=>
               d = Kept(p) /\ offered # {}
  <2> HIDE DEF Kept, offered, left
  <2> QED
    BY <1>1, <1>3, <1>4
<1>6. {d \in left : d.plugin_name = p}
        = IF offered = {} THEN {} ELSE {Kept(p)}
  <2> HIDE DEF Kept, offered, left
  <2>1. CASE offered = {}
    BY <1>5, <2>1
  <2>2. CASE offered # {}
    BY <1>5, <2>2
  <2> QED
    BY <2>1, <2>2
<1> QED
  BY <1>2, <1>6

\* A call has no outcome before it returns, where a thread is tells which
\* call it is in, and host_info() has collected the descriptions of the
\* plugins that its loop has visited.
Calling ==
  \A t \in Threads :
    /\ pc[t] # "idle" => outcome[t] = "none"
    /\ pc[t] \in InitPcs => op[t] = "initialize"
    /\ pc[t] \in PlugPcs => op[t] \in {"plug", "unplug"}
    /\ pc[t] = "info_check" => info[t] = {}
    /\ pc[t] = "info" => info[t] = {Describe[p] : p \in Plugins \ todo[t]}

LEMMA CallingInvariant == Spec => []Calling
<1>1. Init => Calling
  BY DEF Init, Calling, InitPcs, PlugPcs
<1>2. Typed /\ Calling /\ [Next]_vars => Calling'
  <2> SUFFICES ASSUME Typed, Calling, [Next]_vars PROVE Calling'
    OBVIOUS
  <2> USE DEF Typed, TypeOK, Calling, InitPcs, PlugPcs, managerVars, callVars,
              infoVars, history, Goto, Return
  <2>1. ASSUME NEW t \in Threads,
               CallInitialize(t) \/ CallPlugin(t) \/ CallHostInfo(t)
        PROVE  Calling'
    <3>1. CASE CallInitialize(t)
      BY <3>1 DEF CallInitialize, ForgetInfo
    <3>2. CASE CallPlugin(t)
      BY <3>2 DEF CallPlugin, MayCall, ForgetInfo
    <3>3. CASE CallHostInfo(t)
      BY <3>3 DEF CallHostInfo, MayCall
    <3> QED
      BY <2>1, <3>1, <3>2, <3>3
  <2>2. ASSUME NEW t \in Threads, InitializeStep(t)
        PROVE  Calling'
    <3>1. CASE TestManager(t) \/ CreateManager(t)
      BY <3>1 DEF TestManager, CreateManager
    <3>2. CASE RegisterObjects(t) \/ LoadPlugin(t) \/ LoadRaises(t)
      BY <3>2 DEF RegisterObjects, LoadPlugin, LoadRaises
    <3>3. CASE StorePlugin(t) \/ FinishInitialize(t)
      BY <3>3 DEF StorePlugin, FinishInitialize
    <3> QED
      BY <2>2, <3>1, <3>2, <3>3 DEF InitializeStep
  <2>3. ASSUME NEW t \in Threads,
               CheckInitialized(t) \/ LookupPlugin(t) \/ RunPlugin(t)
        PROVE  Calling'
    BY <2>3 DEF CheckInitialized, LookupPlugin, RunPlugin
  <2>4. ASSUME NEW t \in Threads, CheckInfo(t)
        PROVE  Calling'
    <3>1. CASE initialized
      BY <2>4, <3>1, {Describe[p] : p \in Plugins \ Plugins} = {}
         DEF CheckInfo
    <3>2. CASE ~ initialized
      BY <2>4, <3>2 DEF CheckInfo
    <3> QED
      BY <3>1, <3>2
  <2>5. ASSUME NEW t \in Threads, DescribePlugin(t)
        PROVE  Calling'
    <3>1. PICK p \in todo[t] :
            \/ /\ todo' = [todo EXCEPT ![t] = @ \ {p}]
               /\ info' = [info EXCEPT ![t] = @ \cup {Describe[p]}]
               /\ UNCHANGED <<pc, outcome>>
            \/ pc' = [pc EXCEPT ![t] = "idle"] /\ UNCHANGED callVars
      BY <2>5 DEF DescribePlugin
    <3>2. /\ \A s \in Threads \ {t} :
               /\ pc'[s] = pc[s] /\ todo'[s] = todo[s]
               /\ info'[s] = info[s] /\ outcome'[s] = outcome[s]
          /\ pc[t] = "info" /\ op' = op
      BY <2>5 DEF DescribePlugin
    <3>3. CASE pc' = pc /\ outcome' = outcome
               /\ todo' = [todo EXCEPT ![t] = @ \ {p}]
               /\ info' = [info EXCEPT ![t] = @ \cup {Describe[p]}]
      <4>1. Plugins \ todo'[t] = (Plugins \ todo[t]) \cup {p}
        BY <3>3, p \in Plugins
      <4>2. info'[t] = {Describe[q] : q \in Plugins \ todo[t]}
                         \cup {Describe[p]}
        BY <3>2, <3>3
      <4>3. info'[t] = {Describe[q] : q \in Plugins \ todo'[t]}
        BY <4>1, <4>2
      <4> QED
        BY <3>2, <3>3, <4>3
    <3>4. CASE pc' = [pc EXCEPT ![t] = "idle"]
      BY <3>2, <3>4
    <3> QED
      BY <3>1, <3>3, <3>4
  <2>6. ASSUME NEW t \in Threads, FinishInfo(t)
        PROVE  Calling'
    BY <2>6 DEF FinishInfo
  <2>7. CASE UNCHANGED vars
    BY <2>7 DEF vars
  <2> QED
    BY <2>1, <2>2, <2>3, <2>4, <2>5, <2>6, <2>7 DEF Next, UseStep
<1> QED
  BY <1>1, <1>2, TypedInvariant, PTL DEF Spec

\* The host information a caller gets is complete and exactly what was
\* permitted, whatever resets overlap with the call (lines 162-176).
THEOREM InfoCorrect == Spec => []InfoIsExact
<1>1. Init => InfoIsExact
  BY DEF Init, InfoIsExact
<1>2. Typed /\ Calling /\ InfoIsExact /\ Calling' /\ [Next]_vars
        => InfoIsExact'
  <2> SUFFICES ASSUME Typed, Calling, InfoIsExact, Calling', [Next]_vars
               PROVE  InfoIsExact'
    OBVIOUS
  <2> DEFINE Answered(t) == op'[t] = "host_info" /\ outcome'[t] = "ok"
             Kept(t) == /\ op'[t] = op[t] /\ outcome'[t] = outcome[t]
                        /\ permitted'[t] = permitted[t] /\ info'[t] = info[t]
  <2>1. ASSUME NEW t \in Threads, Answered(t)
        PROVE  Kept(t) \/ FinishInfo(t)
    <3> USE DEF Typed, TypeOK, managerVars, callVars, infoVars, history, Goto,
                Return
    <3>1. ASSUME NEW s \in Threads \ {t},
                 \/ CallInitialize(s)
                 \/ CallPlugin(s)
                 \/ CallHostInfo(s)
          PROVE  Kept(t)
      BY <3>1 DEF CallInitialize, CallPlugin, CallHostInfo, MayCall, ForgetInfo
    <3>2. ASSUME NEW s \in Threads \ {t}, InitializeStep(s)
          PROVE  Kept(t)
      BY <3>2 DEF InitializeStep, RegisterObjects, TestManager, CreateManager,
                  LoadPlugin, LoadRaises, StorePlugin, FinishInitialize
    <3>3. ASSUME NEW s \in Threads \ {t}, UseStep(s)
          PROVE  Kept(t)
      BY <3>3 DEF UseStep, CheckInitialized, LookupPlugin, RunPlugin,
                  CheckInfo, DescribePlugin, FinishInfo
    <3>4. ~ (CallInitialize(t) \/ CallPlugin(t) \/ CallHostInfo(t))
      BY <2>1 DEF CallInitialize, CallPlugin, CallHostInfo, MayCall
    <3>5. ~ InitializeStep(t)
      <4>1. pc[t] \in InitPcs => op[t] = "initialize"
        BY DEF Calling
      <4> QED
        BY <2>1, <4>1 DEF InitializeStep, RegisterObjects, TestManager,
             CreateManager, LoadPlugin, LoadRaises, StorePlugin,
             FinishInitialize, InitPcs
    <3>6. ~ (CheckInitialized(t) \/ LookupPlugin(t) \/ RunPlugin(t))
      <4>1. pc[t] \in PlugPcs => op[t] \in {"plug", "unplug"}
        BY DEF Calling
      <4> QED
        BY <2>1, <4>1 DEF CheckInitialized, LookupPlugin, RunPlugin, PlugPcs
    <3>7. ~ (CheckInfo(t) \/ DescribePlugin(t))
      <4>1. /\ pc[t] # "idle" => outcome[t] = "none"
            /\ pc'[t] # "idle" => outcome'[t] = "none"
        BY DEF Calling
      <4> QED
        BY <2>1, <4>1 DEF CheckInfo, DescribePlugin
    <3>8. CASE UNCHANGED vars
      BY <3>8 DEF vars
    <3> QED
      BY <3>1, <3>2, <3>3, <3>4, <3>5, <3>6, <3>7, <3>8 DEF Next, UseStep
  <2>2. ASSUME NEW t \in Threads, FinishInfo(t), permitted'[t] = Anything
        PROVE  info'[t] = {Describe[p] : p \in Plugins}
    <3>1. info[t] = {Describe[p] : p \in Plugins \ {}}
      BY <2>2 DEF FinishInfo, Calling
    <3> QED
      BY <2>2, <3>1 DEF FinishInfo
  <2>3. ASSUME NEW t \in Threads, FinishInfo(t), permitted'[t] # Anything
        PROVE  info'[t] = FilterHost({Describe[p] : p \in Plugins},
                                     permitted'[t])
    <3>1. info[t] = {Describe[p] : p \in Plugins \ {}}
      BY <2>3 DEF FinishInfo, Calling
    <3>2. info[t] = {Describe[p] : p \in Plugins}
      BY <3>1
    <3>3. info'[t] = FilterHost(info[t], permitted'[t])
      BY <2>3 DEF FinishInfo, Typed, TypeOK
    <3> QED
      BY <3>2, <3>3
  <2>4. ASSUME NEW t \in Threads, Answered(t), permitted'[t] = Anything
        PROVE  info'[t] = {Describe[p] : p \in Plugins}
    BY <2>1, <2>2, <2>4 DEF InfoIsExact
  <2>5. ASSUME NEW t \in Threads, Answered(t), permitted'[t] # Anything,
               NEW p \in Plugins
        PROVE  LET offered == {i \in Describe[p].vif_info :
                                 i.vif_object_name \in permitted'[t]}
               IN  {d \in info'[t] : d.plugin_name = p}
                     = IF offered = {} THEN {} ELSE {HostPluginInfo(p, offered)}
    <3>1. CASE Kept(t)
      BY <2>5, <3>1 DEF InfoIsExact
    <3>2. CASE FinishInfo(t)
      <4> DEFINE types == permitted'[t]
      <4>1. info'[t] = FilterHost({Describe[q] : q \in Plugins}, types)
        BY <2>3, <2>5, <3>2
      <4> HIDE DEF types
      <4>2. LET offered == {i \in Describe[p].vif_info :
                              i.vif_object_name \in types}
            IN  {d \in FilterHost({Describe[q] : q \in Plugins}, types) :
                   d.plugin_name = p}
                  = IF offered = {} THEN {} ELSE {HostPluginInfo(p, offered)}
        BY FilteredExact
      <4> QED
        BY <4>1, <4>2 DEF types
    <3> QED
      BY <2>1, <2>5, <3>1, <3>2
  <2> QED
    BY <2>4, <2>5 DEF InfoIsExact
<1> QED
  BY <1>1, <1>2, TypedInvariant, CallingInvariant, PTL DEF Spec

-----------------------------------------------------------------------------
\* A manager, once created, is never taken away again: a thread that loads
\* plugins, or has returned from initialize(), has seen one.
ManagerStays ==
  /\ ~loadFailed
  /\ started => initialized
  /\ \A t \in Threads : pc[t] \in {"load", "store"} => initialized

LEMMA ManagerInvariant ==
  ASSUME ~LoadsFail
  PROVE  Spec => []ManagerStays
<1>1. Init => ManagerStays
  BY DEF Init, ManagerStays
<1>2. Typed /\ ManagerStays /\ [Next]_vars => ManagerStays'
  <2> SUFFICES ASSUME Typed, ManagerStays, [Next]_vars PROVE ManagerStays'
    OBVIOUS
  <2> USE DEF Typed, TypeOK, ManagerStays, managerVars, callVars, history,
              Goto, Return
  <2>1. ASSUME NEW t \in Threads,
               CallInitialize(t) \/ CallPlugin(t) \/ CallHostInfo(t)
        PROVE  ManagerStays'
    BY <2>1 DEF CallInitialize, CallPlugin, CallHostInfo, MayCall
  <2>2. ASSUME NEW t \in Threads,
               RegisterObjects(t) \/ LoadPlugin(t) \/ LoadRaises(t)
        PROVE  ManagerStays'
    BY <2>2 DEF RegisterObjects, LoadPlugin, LoadRaises
  <2>3. ASSUME NEW t \in Threads,
               \/ TestManager(t)
               \/ CreateManager(t)
               \/ StorePlugin(t)
               \/ FinishInitialize(t)
        PROVE  ManagerStays'
    BY <2>3 DEF TestManager, CreateManager, StorePlugin, FinishInitialize
  <2>4. ASSUME NEW t \in Threads, UseStep(t)
        PROVE  ManagerStays'
    BY <2>4 DEF UseStep, CheckInitialized, LookupPlugin, RunPlugin, CheckInfo,
                DescribePlugin, FinishInfo
  <2>5. CASE UNCHANGED vars
    BY <2>5 DEF vars
  <2> QED
    BY <2>1, <2>2, <2>3, <2>4, <2>5 DEF Next, InitializeStep
<1> QED
  BY <1>1, <1>2, TypedInvariant, PTL DEF Spec

\* What the docstring of initialize() says (line 33) is true where no load()
\* raises, however many threads initialize and reset at the same time: each
\* time none of them is at work, every plugin has its object.  The run
\* osvif_load_violated shows that one failing load() is enough to break it.
THEOREM LoadedCorrect ==
  ASSUME ~LoadsFail
  PROVE  Spec => []InitializedMeansLoaded
<1>1. Typed /\ UnloadedHasLoader /\ ManagerStays => InitializedMeansLoaded
  <2> SUFFICES ASSUME Typed, UnloadedHasLoader, ManagerStays, started,
                      \A t \in Threads : ~Initializing(t)
               PROVE  loaded = Plugins
    BY DEF InitializedMeansLoaded
  <2>1. \A t \in Threads, p \in Plugins : ~WillStore(t, p)
    BY DEF Initializing, InitPcs, WillStore
  <2>2. Plugins \ loaded = {}
    BY <2>1 DEF UnloadedHasLoader, ManagerStays
  <2> QED
    BY <2>2 DEF Typed, TypeOK
<1> QED
  BY <1>1, TypedInvariant, UnloadedCorrect, ManagerInvariant, PTL

-----------------------------------------------------------------------------
\* What a single initialize() before any use gives: the calls that use the
\* manager run only after it returned, and then every plugin is there.
StartupInv ==
  /\ ~loadFailed
  /\ \A t \in Threads : ~reset[t]
  /\ \A t \in Threads : Initializing(t) => t \in Initializers
  /\ \A t \in Threads : pc[t] \in PlugPcs \cup InfoPcs => started
  /\ started => initialized /\ loaded = Plugins
  /\ \A t \in Threads : pc[t] = "create" => ~initialized
  /\ \A t \in Threads : pc[t] \in {"load", "store"} => initialized
  /\ NoAssertionError

\* With one initializer, no reset, and use after start-up, the assertion of
\* lines 88-90, 128-130 and 168-170 never fails, however many threads call.
THEOREM StartupCorrect ==
  ASSUME SafeStartup
  PROVE  Spec => []NoAssertionError
<1>1. Init => StartupInv
  BY DEF Init, StartupInv, SafeStartup, Initializing, InitPcs, PlugPcs,
         InfoPcs, NoAssertionError
<1>2. Typed /\ UnloadedHasLoader /\ StartupInv /\ [Next]_vars => StartupInv'
  <2> SUFFICES ASSUME Typed, UnloadedHasLoader, StartupInv, [Next]_vars
               PROVE  StartupInv'
    OBVIOUS
  <2>1. ASSUME NEW t \in Threads, Initializing(t), initialized,
               pc[t] = "test" \/ todo[t] = {}
        PROVE  loaded = Plugins
    <3>1. \A s \in Threads : pc[s] \in {"load", "store"} => s = t
      BY <2>1 DEF StartupInv, SafeStartup, Initializing, InitPcs
    <3>2. \A s \in Threads, p \in Plugins : ~WillStore(s, p)
      BY <2>1, <3>1 DEF WillStore
    <3>3. Plugins \ loaded = {}
      BY <2>1, <3>2 DEF UnloadedHasLoader, StartupInv
    <3>4. loaded \subseteq Plugins
      BY DEF Typed, TypeOK
    <3> QED
      BY <3>3, <3>4
  <2> USE DEF SafeStartup, Typed, TypeOK, StoreTarget, StartupInv,
              Initializing, InitPcs, PlugPcs, InfoPcs, NoAssertionError,
              managerVars, callVars, history, Goto, Return
  <2>2. ASSUME NEW t \in Threads, TestManager(t) \/ CreateManager(t)
        PROVE  StartupInv'
    <3>1. CASE TestManager(t)
      BY <2>1, <3>1 DEF TestManager
    <3>2. CASE CreateManager(t)
      BY <3>2 DEF CreateManager
    <3> QED
      BY <2>2, <3>1, <3>2
  <2>3. ASSUME NEW t \in Threads, FinishInitialize(t) PROVE StartupInv'
    BY <2>1, <2>3 DEF FinishInitialize
  <2>4. ASSUME NEW t \in Threads, StorePlugin(t) PROVE StartupInv'
    BY <2>4 DEF StorePlugin
  <2>5. ASSUME NEW t \in Threads,
               RegisterObjects(t) \/ LoadPlugin(t) \/ LoadRaises(t)
        PROVE  StartupInv'
    BY <2>5 DEF RegisterObjects, LoadPlugin, LoadRaises
  <2>6. ASSUME NEW t \in Threads, CallInitialize(t) PROVE StartupInv'
    BY <2>6 DEF CallInitialize
  <2>7. ASSUME NEW t \in Threads, CallPlugin(t) \/ CallHostInfo(t)
        PROVE  StartupInv'
    BY <2>7 DEF CallPlugin, CallHostInfo, MayCall
  <2>8. ASSUME NEW t \in Threads, CheckInitialized(t) \/ LookupPlugin(t)
        PROVE  StartupInv'
    BY <2>8 DEF CheckInitialized, LookupPlugin
  <2>9. ASSUME NEW t \in Threads, RunPlugin(t) PROVE StartupInv'
    BY <2>9 DEF RunPlugin
  <2>10. ASSUME NEW t \in Threads,
                CheckInfo(t) \/ DescribePlugin(t) \/ FinishInfo(t)
         PROVE  StartupInv'
    BY <2>10 DEF CheckInfo, DescribePlugin, FinishInfo
  <2>11. CASE UNCHANGED vars
    BY <2>11 DEF vars
  <2> QED
    BY <2>2, <2>3, <2>4, <2>5, <2>6, <2>7, <2>8, <2>9, <2>10, <2>11
       DEF Next, InitializeStep, UseStep
<1>3. StartupInv => NoAssertionError
  BY DEF StartupInv
<1> QED
  BY <1>1, <1>2, <1>3, TypedInvariant, UnloadedCorrect, PTL DEF Spec
=============================================================================
