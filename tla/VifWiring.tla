----------------------------- MODULE VifWiring -----------------------------
(***************************************************************************)
(* What os-vif promises the caller of plug() and unplug(), with nothing of *)
(* how a plugin keeps it: the docstrings of os_vif.plug() and              *)
(* os_vif.unplug() (os_vif/__init__.py) and of the two methods of          *)
(* PluginBase (os_vif/plugin.py).  A VIF is wired when it has all it needs *)
(* to pass traffic and clean when nothing of it is left on the host; in    *)
(* between it is neither.                                                  *)
(***************************************************************************)
CONSTANT Vifs  \* VIF identifiers

VARIABLES
  call,   \* the call in progress for each VIF, or "none"
  told,   \* what the caller knows of the last one
  wired,  \* VIFs that can pass traffic
  clean   \* VIFs of which nothing is left

vars == <<call, told, wired, clean>>

Init ==
  /\ call = [v \in Vifs |-> "none"]
  /\ told = [v \in Vifs |-> "none"]
  /\ wired \subseteq Vifs
  /\ clean \subseteq Vifs

\* Whatever is done for v, it takes nothing from the other VIFs.
SparesOthers(v) ==
  /\ wired \ {v} \subseteq wired'
  /\ clean \ {v} \subseteq clean'

\* A step of a call: plug() never breaks a VIF that is wired, unplug() never
\* leaves anything where there was nothing.
Effect(v) ==
  /\ SparesOthers(v)
  /\ call[v] = "plug" /\ v \in wired => v \in wired'
  /\ call[v] = "unplug" /\ v \in clean => v \in clean'

Begin(v, c) ==
  /\ call[v] = "none"
  /\ call' = [call EXCEPT ![v] = c]
  /\ told' = [told EXCEPT ![v] = "none"]
  /\ UNCHANGED <<wired, clean>>

Work(v) ==
  /\ call[v] # "none"
  /\ Effect(v)
  /\ UNCHANGED <<call, told>>

\* A call that reports success has done what it is called for.
Succeed(v) ==
  \/ call[v] = "plug" /\ told'[v] = "plugged" /\ v \in wired'
  \/ call[v] = "unplug" /\ told'[v] = "unplugged" /\ v \in clean'

Fail(v) ==
  \/ call[v] = "plug" /\ told'[v] = "plug_error"
  \/ call[v] = "unplug" /\ told'[v] = "unplug_error"

Return(v) ==
  /\ Succeed(v) \/ Fail(v)
  /\ Effect(v)
  /\ call' = [call EXCEPT ![v] = "none"]
  /\ told' = [told EXCEPT ![v] = told'[v]]

\* The process dies.  What it did not get round to telling is not told.
Interrupt ==
  /\ call' = [v \in Vifs |-> "none"]
  /\ told' = [v \in Vifs |-> IF call[v] = "none" THEN told[v]
                                                 ELSE "interrupted"]
  /\ UNCHANGED <<wired, clean>>

\* The host restarts.  Only a VIF that was told to be unplugged, or was
\* never plugged, is as it was.
Restart ==
  /\ call' = [v \in Vifs |-> "none"]
  /\ told' = [v \in Vifs |-> IF /\ call[v] = "none"
                                /\ told[v] \in {"none", "unplugged"}
                             THEN told[v]
                             ELSE "interrupted"]
  /\ wired' \subseteq wired
  /\ clean \subseteq clean'

\* The VM of a plugged VIF starts: it has to find the VIF wired, and to
\* leave it so.
VmStarts(v) ==
  /\ call[v] = "none"
  /\ told[v] = "plugged"
  /\ v \in wired /\ v \in wired'
  /\ SparesOthers(v)
  /\ UNCHANGED <<call, told>>

VmStops(v) ==
  /\ call[v] = "none"
  /\ told' = [told EXCEPT ![v] = "vm_stopped"]
  /\ SparesOthers(v)
  /\ UNCHANGED call

Next ==
  \/ \E v \in Vifs :
       \/ \E c \in {"plug", "unplug"} : Begin(v, c)
       \/ Work(v) \/ Return(v)
       \/ VmStarts(v) \/ VmStops(v)
  \/ Interrupt
  \/ Restart

Spec == Init /\ [][Next]_vars

-----------------------------------------------------------------------------
\* The promise in short: between its calls, a caller can take what it was
\* told for true.
Kept ==
  \A v \in Vifs : /\ told[v] = "plugged" => v \in wired
                  /\ told[v] = "unplugged" => v \in clean
=============================================================================
