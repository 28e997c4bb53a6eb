---------------------------- MODULE NativeOvsdb ----------------------------
(***************************************************************************)
(* The OVSDB client with ovsdb_interface = native (impl_idl.py over        *)
(* ovsdbapp), under the two commands of the plugin whose retries matter    *)
(* most: the creation of a port with its QoS row and their deletion        *)
(* (ovsdb_lib.py).  ovs-vsctl runs every command in a process of its own;  *)
(* here they all share one connection:                                     *)
(*   - Commands that write are transactions.  They wait in a short queue   *)
(*     for the thread that commits them, one at a time, first in first     *)
(*     out.  A caller that has waited for ovs_vsctl_timeout seconds goes   *)
(*     on; its transaction stays in the queue and is committed later.      *)
(*   - Commands that read do not go through the queue.  They read a        *)
(*     replica of the database, which learns of other clients' changes     *)
(*     some time after they are made, and at the latest when a             *)
(*     transaction of its own client is answered.                          *)
(***************************************************************************)
EXTENDS Naturals, Sequences

CONSTANTS
  Vifs,       \* VIF identifiers
  Plain,      \* those that are VIFOpenVSwitch with create_port; the others
              \* are VIFVHostUser with datapath_type netdev
  Rows,       \* what QoS rows are told apart by
  NoRow,
  Depth,      \* how many transactions fit in the queue, and one committing
  MaxFaults   \* bound on timeouts, failed commits and restarts

ASSUME NativeAssumption ==
  /\ Plain \subseteq Vifs
  /\ NoRow \notin Rows
  /\ Depth \in Nat \ {0}
  /\ MaxFaults \in Nat

VARIABLES
  ports,   \* database: VIFs whose port is there
  rows,    \* database: the QoS rows for the port of each VIF
  qos,     \* database: the row the port of each VIF refers to
  seen,    \* replica: VIFs whose port it shows
  stale,   \* VIFs whose port it shows is not the one in the database
  queue,   \* transactions, the one being committed first
  pc,      \* the next command for each VIF, or the one its caller waits for
  found,   \* the rows a call has looked up
  doubt,   \* VIFs of whose last call a commit timed out or was lost
  last,    \* how the last call for each VIF ended, as its caller saw it
  vm,      \* VIFs whose VM runs
  faults   \* timeouts, lost commits and restarts so far

dbVars == <<ports, rows, qos, seen, stale>>
vars == <<dbVars, queue, pc, found, doubt, last, vm, faults>>

Commands == {"add_br", "del_port", "destroy", "create", "put"}

Transactions ==
  [vif : Vifs, cmd : Commands, row : Rows \cup {NoRow}, waited : BOOLEAN]

Labels ==
  {"idle", "ensure_bridge", "exists_port", "find_old_qos", "delete_old_qos",
   "create_qos", "get_qos", "create_port", "delete_port", "find_qos",
   "clean_qos"}

Results == {"none", "plugged", "unplugged", "error", "vm_stopped"}

\* Where a call is that waits for the answer to a command.
AwaitedAt(cmd) ==
  CASE cmd = "add_br"   -> {"ensure_bridge"}
    [] cmd = "destroy"  -> {"delete_old_qos", "clean_qos"}
    [] cmd = "create"   -> {"create_qos"}
    [] cmd = "put"      -> {"create_port"}
    [] cmd = "del_port" -> {"delete_port"}

\* The state keeps its types, and no call waits for anything but the command
\* it has come to.
TypeOK ==
  /\ ports \subseteq Vifs
  /\ rows \in [Vifs -> SUBSET Rows]
  /\ qos \in [Vifs -> Rows \cup {NoRow}]
  /\ seen \subseteq Vifs
  /\ stale \subseteq Vifs
  /\ queue \in Seq(Transactions) /\ Len(queue) <= Depth
  /\ pc \in [Vifs -> Labels]
  /\ found \in [Vifs -> SUBSET Rows]
  /\ doubt \subseteq Vifs
  /\ last \in [Vifs -> Results]
  /\ vm \subseteq Vifs
  /\ faults \in 0 .. MaxFaults
  /\ \A i \in DOMAIN queue :
       queue[i].waited => pc[queue[i].vif] \in AwaitedAt(queue[i].cmd)

Init ==
  /\ ports = {} /\ seen = {} /\ stale = {}
  /\ rows = [v \in Vifs |-> {}]
  /\ qos = [v \in Vifs |-> NoRow]
  /\ queue = <<>>
  /\ pc = [v \in Vifs |-> "idle"]
  /\ found = [v \in Vifs |-> {}]
  /\ doubt = {}
  /\ last = [v \in Vifs |-> "none"]
  /\ vm = {}
  /\ faults = 0

-----------------------------------------------------------------------------
(* The calls.  Every operator below says where a call goes next.           *)

Goto(v, label) == pc' = [pc EXCEPT ![v] = label] /\ UNCHANGED last

Return(v, result) ==
  /\ pc' = [pc EXCEPT ![v] = "idle"]
  /\ last' = [last EXCEPT ![v] = result]

\* Some caller still waits for the answer to a transaction of v.
Waiting(v) ==
  \E i \in DOMAIN queue : queue[i].vif = v /\ queue[i].waited

At(v, label) == pc[v] = label /\ ~ Waiting(v)

\* The call for v goes on after a command whose transaction was answered
\* ("ok" or "failed") or timed out.  execute() without check_error logs what
\* went wrong and returns; the exception of a timeout gets out of
\* "with transaction()", an error does not.
Continue(v, cmd, outcome) ==
  CASE cmd = "add_br"   -> Goto(v, "exists_port")
    [] cmd = "destroy"  -> UNCHANGED <<pc, last>>
    [] cmd = "create"   -> IF outcome = "ok" THEN Goto(v, "get_qos")
                                             ELSE Return(v, "error")
    [] cmd = "put" ->
         Return(v, IF outcome = "timeout" THEN "error" ELSE "plugged")
    [] cmd = "del_port" -> IF v \in Plain THEN Goto(v, "find_qos")
                                          ELSE Return(v, "unplugged")

Fault == faults < MaxFaults /\ faults' = faults + 1

\* The caller of v queues a transaction and waits.  A queue that stays full
\* is a timeout, too, and then the transaction is never committed.
Submit(v, cmd, row) ==
  /\ \/ /\ Len(queue) < Depth
        /\ queue' = Append(queue, [vif |-> v, cmd |-> cmd, row |-> row,
                                   waited |-> TRUE])
        /\ UNCHANGED <<pc, last, doubt, faults>>
     \/ /\ Len(queue) = Depth
        /\ Fault
        /\ doubt' = doubt \cup {v}
        /\ Continue(v, cmd, "timeout")
        /\ UNCHANGED queue
  /\ UNCHANGED <<dbVars, vm>>

\* plug() may be called again whenever Nova starts, unplug() when there is
\* no VM.  A vhost-user VIF of this kind has no QoS type.
BeginPlug(v) ==
  /\ At(v, "idle")
  /\ pc' = [pc EXCEPT ![v] = IF v \in Plain THEN "ensure_bridge"
                                            ELSE "create_port"]
  /\ last' = [last EXCEPT ![v] = "none"]
  /\ found' = [found EXCEPT ![v] = {}]
  /\ doubt' = doubt \ {v}
  /\ UNCHANGED <<dbVars, queue, vm, faults>>

\* Mutant of EnsureBridge: the bridge is known to be there.
TrustBridge(v) ==
  /\ At(v, "ensure_bridge") /\ Goto(v, "exists_port")
  /\ UNCHANGED <<dbVars, queue, found, doubt, vm, faults>>

EnsureBridge(v) ==
  At(v, "ensure_bridge") /\ Submit(v, "add_br", NoRow) /\ UNCHANGED found

\* list_ports() reads the replica.  A port that is there keeps its QoS row.
ExistsPort(v) ==
  /\ At(v, "exists_port")
  /\ Goto(v, IF v \in seen THEN "create_port" ELSE "find_old_qos")
  /\ UNCHANGED <<dbVars, queue, found, doubt, vm, faults>>

\* get_qos() reads the replica, of rows that no other client writes.
FindOldQos(v) ==
  /\ At(v, "find_old_qos")
  /\ found' = [found EXCEPT ![v] = rows[v]]
  /\ Goto(v, "delete_old_qos")
  /\ UNCHANGED <<dbVars, queue, doubt, vm, faults>>

\* One turn of the loop of delete_qos_if_exists().
DestroyFound(v) ==
  \E r \in found[v] :
    /\ found' = [found EXCEPT ![v] = @ \ {r}]
    /\ Submit(v, "destroy", r)

NoneFound(v) ==
  found[v] = {} /\ UNCHANGED <<dbVars, queue, found, doubt, vm, faults>>

DeleteOldQos(v) ==
  /\ At(v, "delete_old_qos")
  /\ \/ DestroyFound(v)
     \/ NoneFound(v) /\ Goto(v, "create_qos")

CreateQos(v) ==
  At(v, "create_qos") /\ Submit(v, "create", NoRow) /\ UNCHANGED found

\* record[0] is any row that matches, and raises if there is none.
GetQos(v) ==
  /\ At(v, "get_qos")
  /\ \/ \E r \in rows[v] : /\ found' = [found EXCEPT ![v] = {r}]
                           /\ Goto(v, "create_port")
     \/ rows[v] = {} /\ Return(v, "error") /\ UNCHANGED found
  /\ UNCHANGED <<dbVars, queue, doubt, vm, faults>>

CreatePort(v) ==
  /\ At(v, "create_port")
  /\ \/ \E r \in found[v] : Submit(v, "put", r)
     \/ found[v] = {} /\ Submit(v, "put", NoRow)
  /\ UNCHANGED found

BeginUnplug(v) ==
  /\ At(v, "idle")
  /\ v \notin vm
  /\ pc' = [pc EXCEPT ![v] = "delete_port"]
  /\ last' = [last EXCEPT ![v] = "none"]
  /\ doubt' = doubt \ {v}
  /\ UNCHANGED <<dbVars, queue, found, vm, faults>>

\* Mutant of DeletePort: a port that is not there need not be deleted.
DeletePortIfSeen(v) ==
  /\ At(v, "delete_port")
  /\ IF v \in seen
     THEN Submit(v, "del_port", NoRow)
     ELSE /\ Continue(v, "del_port", "ok")
          /\ UNCHANGED <<dbVars, queue, doubt, vm, faults>>
  /\ UNCHANGED found

DeletePort(v) ==
  At(v, "delete_port") /\ Submit(v, "del_port", NoRow) /\ UNCHANGED found

FindQos(v) ==
  /\ At(v, "find_qos")
  /\ found' = [found EXCEPT ![v] = rows[v]]
  /\ Goto(v, "clean_qos")
  /\ UNCHANGED <<dbVars, queue, doubt, vm, faults>>

CleanQos(v) ==
  /\ At(v, "clean_qos")
  /\ \/ DestroyFound(v)
     \/ NoneFound(v) /\ Return(v, "unplugged")

-----------------------------------------------------------------------------
(* The thread that commits                                                 *)

\* What transactions do to the database and what they are answered.  They
\* are put together from the replica.

\* A port the replica does not show is not deleted, and deleting the one that
\* is gone has no effect.
ApplyDelPort(v, outcome) ==
  /\ outcome = "ok"
  /\ IF v \in seen \ stale
     THEN /\ ports' = ports \ {v}
          /\ qos' = [qos EXCEPT ![v] = NoRow]
     ELSE UNCHANGED <<ports, qos>>
  /\ UNCHANGED rows

\* A row is not destroyed while the port refers to it.
ApplyDestroy(v, r, outcome) ==
  /\ IF r \in rows[v] /\ qos[v] # r
     THEN rows' = [rows EXCEPT ![v] = @ \ {r}] /\ outcome = "ok"
     ELSE UNCHANGED rows /\ outcome = "failed"
  /\ UNCHANGED <<ports, qos>>

ApplyCreate(v, outcome) ==
  /\ \E r \in Rows \ rows[v] : rows' = [rows EXCEPT ![v] = @ \cup {r}]
  /\ outcome = "ok"
  /\ UNCHANGED <<ports, qos>>

\* A port the replica shows is not made but changed, which has no effect on
\* one that is gone.  One that is there and not shown, or a row that is gone,
\* makes the transaction fail.
ApplyPut(v, r, outcome) ==
  /\ \/ /\ r \in rows[v] \cup {NoRow}
        /\ v \in seen \ stale \/ v \notin seen \cup ports
        /\ ports' = ports \cup {v}
        /\ qos' = [qos EXCEPT ![v] = IF r = NoRow THEN @ ELSE r]
        /\ outcome = "ok"
     \/ /\ r \in rows[v] \cup {NoRow}
        /\ v \in seen \cap stale
        /\ UNCHANGED <<ports, qos>>
        /\ outcome = "ok"
     \/ /\ r \notin rows[v] \cup {NoRow} \/ v \in ports \ seen
        /\ UNCHANGED <<ports, qos>>
        /\ outcome = "failed"
  /\ UNCHANGED rows

Apply(t, outcome) ==
  \/ /\ t.cmd = "add_br" /\ outcome = "ok"
     /\ UNCHANGED <<ports, rows, qos>>
  \/ t.cmd = "del_port" /\ ApplyDelPort(t.vif, outcome)
  \/ t.cmd = "destroy" /\ ApplyDestroy(t.vif, t.row, outcome)
  \/ t.cmd = "create" /\ ApplyCreate(t.vif, outcome)
  \/ t.cmd = "put" /\ ApplyPut(t.vif, t.row, outcome)

\* What the answer to t does to the call that waits for it, if it still does.
Answer(t, outcome) ==
  IF t.waited THEN Continue(t.vif, t.cmd, outcome)
              ELSE UNCHANGED <<pc, last>>

\* Every transaction with commands in it changes next_cfg, so that the
\* database is asked and the replica has caught up when it answers.
Commit ==
  /\ queue # <<>>
  /\ \E outcome \in {"ok", "failed"} :
       /\ Apply(Head(queue), outcome)
       /\ Answer(Head(queue), outcome)
  /\ seen' = ports'
  /\ stale' = {}
  /\ queue' = Tail(queue)
  /\ UNCHANGED <<found, doubt, vm, faults>>

\* The connection fails, or the database refuses for reasons of its own.
CommitFails ==
  /\ queue # <<>>
  /\ Fault
  /\ Answer(Head(queue), "failed")
  /\ doubt' = IF Head(queue).waited THEN doubt \cup {Head(queue).vif}
                                    ELSE doubt
  /\ queue' = Tail(queue)
  /\ UNCHANGED <<dbVars, found, vm>>

\* Mutant of TimesOut: the late answer reaches the caller.
TimesOutExpectant(v) ==
  \E i \in DOMAIN queue :
    /\ queue[i].vif = v /\ queue[i].waited
    /\ Fault
    /\ doubt' = doubt \cup {v}
    /\ Continue(v, queue[i].cmd, "timeout")
    /\ UNCHANGED <<dbVars, queue, found, vm>>

\* The caller of v has waited long enough.  Its transaction stays.
TimesOut(v) ==
  \E i \in DOMAIN queue :
    /\ queue[i].vif = v /\ queue[i].waited
    /\ Fault
    /\ doubt' = doubt \cup {v}
    /\ queue' = [queue EXCEPT ![i].waited = FALSE]
    /\ Continue(v, queue[i].cmd, "timeout")
    /\ UNCHANGED <<dbVars, found, vm>>

\* The process dies and takes its queue along; a new one reads the database.
Restart ==
  /\ Fault
  /\ queue' = <<>>
  /\ seen' = ports
  /\ stale' = {}
  /\ last' = [v \in Vifs |-> IF pc[v] = "idle" THEN last[v] ELSE "error"]
  /\ pc' = [v \in Vifs |-> "idle"]
  /\ UNCHANGED <<ports, rows, qos, found, doubt, vm>>

-----------------------------------------------------------------------------
(* Other clients                                                           *)

\* libvirt deletes the port of a plain VIF, if it is there, and makes it
\* anew, without the reference to the QoS row.
VmStarts(v) ==
  /\ At(v, "idle")
  /\ last[v] = "plugged" /\ v \notin vm
  /\ vm' = vm \cup {v}
  /\ IF v \in Plain
     THEN /\ ports' = ports \cup {v}
          /\ qos' = [qos EXCEPT ![v] = NoRow]
          /\ stale' = stale \cup {v}
     ELSE UNCHANGED <<ports, qos, stale>>
  /\ UNCHANGED <<rows, seen, queue, pc, found, doubt, last, faults>>

VmStops(v) ==
  /\ At(v, "idle")
  /\ v \in vm
  /\ vm' = vm \ {v}
  /\ last' = [last EXCEPT ![v] = "vm_stopped"]
  /\ IF v \in Plain
     THEN /\ ports' = ports \ {v}
          /\ qos' = [qos EXCEPT ![v] = NoRow]
          /\ stale' = stale \cup {v}
     ELSE UNCHANGED <<ports, qos, stale>>
  /\ UNCHANGED <<rows, seen, queue, pc, found, doubt, faults>>

\* The replica hears of other clients' changes.
Refresh ==
  /\ stale # {}
  /\ seen' = ports
  /\ stale' = {}
  /\ UNCHANGED <<ports, rows, qos, queue, pc, found, doubt, last, vm, faults>>

PlugStep(v) ==
  \/ BeginPlug(v) \/ EnsureBridge(v) \/ ExistsPort(v) \/ FindOldQos(v)
  \/ DeleteOldQos(v) \/ CreateQos(v) \/ GetQos(v) \/ CreatePort(v)

UnplugStep(v) ==
  BeginUnplug(v) \/ DeletePort(v) \/ FindQos(v) \/ CleanQos(v)

Next ==
  \/ \E v \in Vifs : \/ PlugStep(v) \/ UnplugStep(v) \/ TimesOut(v)
                     \/ VmStarts(v) \/ VmStops(v)
  \/ Commit \/ CommitFails \/ Restart \/ Refresh

Spec == Init /\ [][Next]_vars

-----------------------------------------------------------------------------
(* Properties                                                              *)

Pending(v) == \E i \in DOMAIN queue : queue[i].vif = v

\* An unplug() all of whose own commits were answered leaves no port, no QoS
\* row and no transaction that could still make one, whatever of earlier
\* calls had timed out and was committed late, and however far the replica
\* lagged: the deletion of the port waits for all that was queued before it,
\* and only then does the call read which rows there are.
UnpluggedIsGone ==
  \A v \in Vifs :
    last[v] = "unplugged" /\ v \notin doubt
      => v \notin ports /\ rows[v] = {} /\ ~ Pending(v)

\* A plug() all of whose own commits were answered leaves the port, and
\* nothing queued that could take it away, also after a plug() or an unplug()
\* that timed out and was committed late, and after libvirt has removed the
\* port: the transaction that makes it waits for all that was queued before,
\* and ensure_ovs_bridge() for the replica to hear of what libvirt did.
PluggedIsThere ==
  \A v \in Vifs :
    last[v] = "plugged" /\ v \notin doubt => v \in ports /\ ~ Pending(v)
=============================================================================
