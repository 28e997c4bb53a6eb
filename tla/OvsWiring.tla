----------------------------- MODULE OvsWiring -----------------------------
(***************************************************************************)
(* OvsPlugin seen by its callers: it implements VifWiring where no OVSDB   *)
(* failure is swallowed and no privileged call fails half way, and, for    *)
(* hybrid VIFs, where no call is cut off short of a reboot of the host.    *)
(***************************************************************************)
EXTENDS OvsPlugin

\* Nothing is promised of what unplug() leaves of a hybrid VIF whose binding
\* has changed: where its qbr bridge is gone, it is not known for hybrid.
Rebound(v) == UnpluggedAs[v] # Kind[v]

W == INSTANCE VifWiring
       WITH call  <- op,
            told  <- last,
            wired <- {v \in Vifs : Wired(v)},
            clean <- {v \in Vifs : Clean(v) \/ Rebound(v)}

\* The OVS plugin keeps what os_vif.plug() and os_vif.unplug() promise, step
\* by step: whatever a call does on its way to success or failure, it never
\* takes away from another VIF, from a wired VIF it plugs again or from a
\* clean VIF it unplugs again, and what it reports is true.
ImplementsWiring == W!Spec
=============================================================================
