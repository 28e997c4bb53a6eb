------------------------- MODULE NativeOvsdbProofs -------------------------
(***************************************************************************)
(* UnpluggedIsGone and PluggedIsThere, for any VIFs, any length of the     *)
(* queue and any number of timeouts, failed commits and restarts.          *)
(***************************************************************************)
EXTENDS NativeOvsdb, TLAPS

\* A VIF's caller waits for the last transaction of the VIF, if for any.
Fifo ==
  \A i, j \in DOMAIN queue :
    i < j /\ queue[i].vif = queue[j].vif => ~ queue[i].waited

\* The replica is wrong about ports that libvirt has changed, and only about
\* those.  Where there is no VM, it has deleted the port.
Replica ==
  \A v \in Vifs :
    /\ v \notin stale => (v \in seen <=> v \in ports)
    /\ v \in stale /\ v \notin vm => v \notin ports
    /\ v \notin ports => qos[v] = NoRow

\* What the two kinds of VIFs never do.
UserPcs == {"idle", "create_port", "delete_port"}

Kinds ==
  \A v \in Vifs \ Plain :
    /\ pc[v] \in UserPcs
    /\ rows[v] = {} /\ found[v] = {} /\ v \notin stale
    /\ \A i \in DOMAIN queue :
         queue[i].vif = v
           => queue[i].cmd \in {"put", "del_port"} /\ queue[i].row = NoRow

Calls ==
  \A v \in Vifs :
    /\ pc[v] # "idle" => last[v] = "none"
    /\ pc[v] \in {"delete_port", "find_qos", "clean_qos"} => v \notin vm
    /\ pc[v] \in {"ensure_bridge", "exists_port"} => found[v] = {}

\* A call has had the answer to its first transaction, and so to all that
\* was queued before, and has not been let down since.
PlugPcs == {"exists_port", "find_old_qos", "delete_old_qos", "create_qos",
            "get_qos", "create_port"}

Flushed(v) ==
  /\ v \notin doubt
  /\ \/ pc[v] \in {"find_qos", "clean_qos"}
     \/ pc[v] \in PlugPcs /\ v \in Plain
     \/ pc[v] = "idle" /\ last[v] \in {"plugged", "unplugged"}

Order ==
  \A v \in Vifs :
    Flushed(v) =>
      \A i \in DOMAIN queue : queue[i].vif = v => queue[i].waited

\* What an unplug() has achieved by then ...
Unplugging(v) ==
  /\ pc[v] \in {"find_qos", "clean_qos"} => v \notin ports
  /\ pc[v] = "clean_qos" =>
       \A r \in rows[v] :
         \/ r \in found[v]
         \/ \E i \in DOMAIN queue : /\ queue[i].vif = v
                                    /\ queue[i].cmd = "destroy"
                                    /\ queue[i].row = r
  /\ pc[v] = "idle" /\ last[v] = "unplugged"
       => v \notin ports /\ rows[v] = {}

\* ... and what a plug() has.
Plugging(v) ==
  /\ pc[v] \in PlugPcs => v \notin stale
  /\ pc[v] = "create_port" =>
       /\ found[v] \subseteq rows[v]
       /\ \A i \in DOMAIN queue :
            queue[i].vif = v /\ queue[i].cmd = "put"
              => queue[i].row \in rows[v] \cup {NoRow}
  /\ pc[v] = "idle" /\ last[v] = "plugged" => v \in ports

Progress ==
  \A v \in Vifs :
    v \notin doubt => Unplugging(v) /\ Plugging(v)

NativeInv ==
  TypeOK /\ Fifo /\ Replica /\ Kinds /\ Calls /\ Order /\ Progress

-----------------------------------------------------------------------------
(* The queue                                                               *)

LEMMA Entries ==
  ASSUME NEW q \in Seq(Transactions), NEW i \in DOMAIN q
  PROVE  /\ q[i] \in Transactions
         /\ q[i].vif \in Vifs /\ q[i].cmd \in Commands
         /\ q[i].row \in Rows \cup {NoRow} /\ q[i].waited \in BOOLEAN
<1>1. q[i] \in Transactions
  OBVIOUS
<1> QED
  BY <1>1 DEF Transactions

LEMMA Appended ==
  ASSUME NEW q \in Seq(Transactions), NEW t \in Transactions
  PROVE  /\ Append(q, t) \in Seq(Transactions)
         /\ Len(Append(q, t)) = Len(q) + 1
         /\ DOMAIN q = 1 .. Len(q)
         /\ DOMAIN Append(q, t) = 1 .. Len(q) + 1
         /\ \A i \in DOMAIN q : Append(q, t)[i] = q[i]
         /\ Append(q, t)[Len(q) + 1] = t
         /\ Len(q) \in Nat
OBVIOUS

LEMMA Shifted ==
  ASSUME NEW q \in Seq(Transactions), q # <<>>
  PROVE  /\ Tail(q) \in Seq(Transactions)
         /\ Len(Tail(q)) = Len(q) - 1
         /\ DOMAIN q = 1 .. Len(q)
         /\ DOMAIN Tail(q) = 1 .. Len(q) - 1
         /\ \A i \in DOMAIN Tail(q) :
              i + 1 \in DOMAIN q /\ Tail(q)[i] = q[i + 1]
         /\ Head(q) = q[1] /\ 1 \in DOMAIN q
         /\ Head(q) \in Transactions
         /\ Len(q) \in Nat /\ Len(q) > 0
OBVIOUS

\* Where a call is after a command whose answer it does not wait for any more.
LEMMA Continued ==
  ASSUME TypeOK, Calls, NEW v \in Vifs, NEW cmd \in Commands,
         NEW outcome \in {"ok", "failed", "timeout"},
         pc[v] \in AwaitedAt(cmd),
         v \notin Plain => cmd \in {"put", "del_port"},
         Continue(v, cmd, outcome)
  PROVE  \E l \in Labels, res \in Results :
           /\ pc' = [pc EXCEPT ![v] = l]
           /\ last' = [last EXCEPT ![v] = res]
           /\ l # "idle" => res = "none"
           /\ l \in {"find_qos", "clean_qos"}
                => pc[v] \in {"delete_port", "clean_qos"}
           /\ l # "delete_port" /\ l # "ensure_bridge"
           /\ l = "exists_port" => pc[v] = "ensure_bridge"
           /\ v \notin Plain => l \in UserPcs
<1> USE DEF TypeOK, Calls, Continue, AwaitedAt, Goto, Return, Labels, Results,
            UserPcs
<1>1. CASE cmd = "add_br"
  <2> last[v] = "none" /\ last = [last EXCEPT ![v] = "none"]
    BY <1>1
  <2> QED BY <1>1
<1>2. CASE cmd = "destroy"
  <2> last[v] = "none" /\ last = [last EXCEPT ![v] = "none"]
    BY <1>2
  <2> pc = [pc EXCEPT ![v] = pc[v]]
    OBVIOUS
  <2> QED BY <1>2
<1>3. CASE cmd = "create"
  <2> last[v] = "none" /\ last = [last EXCEPT ![v] = "none"]
    BY <1>3
  <2> QED BY <1>3
<1>4. CASE cmd = "put"
  BY <1>4
<1>5. CASE cmd = "del_port"
  <2> last[v] = "none" /\ last = [last EXCEPT ![v] = "none"]
    BY <1>5
  <2> QED BY <1>5
<1> QED
  BY <1>1, <1>2, <1>3, <1>4, <1>5 DEF Commands

-----------------------------------------------------------------------------
(* Steps of the calls                                                      *)

\* A call submits a transaction.
Submitting(v, cmd, row) ==
  /\ pc[v] \in AwaitedAt(cmd) /\ ~ Waiting(v)
  /\ v \notin Plain => cmd \in {"put", "del_port"}
  /\ v \notin Plain => row = NoRow
  /\ cmd = "put" => row \in found[v] \cup {NoRow}
  /\ found' \in [Vifs -> SUBSET Rows]
  /\ \A w \in Vifs \ {v} : found'[w] = found[w]
  /\ found'[v] \subseteq found[v]
  /\ \A r \in found[v] : r \in found'[v] \/ (cmd = "destroy" /\ r = row)
  /\ Submit(v, cmd, row)

LEMMA Queued ==
  ASSUME NativeInv, NEW v \in Vifs, NEW cmd \in Commands,
         NEW row \in Rows \cup {NoRow}, Submitting(v, cmd, row),
         Len(queue) < Depth
  PROVE  NativeInv'
<1> DEFINE t == [vif |-> v, cmd |-> cmd, row |-> row, waited |-> TRUE]
<1>1. /\ queue' = Append(queue, t)
      /\ UNCHANGED <<pc, last, doubt, faults, dbVars, vm>>
  BY DEF NativeInv, TypeOK, Submitting, Submit
<1>2. t \in Transactions /\ queue \in Seq(Transactions)
  BY DEF NativeInv, TypeOK, Transactions
<1>3. /\ Len(queue') = Len(queue) + 1
      /\ queue' \in Seq(Transactions)
      /\ DOMAIN queue = 1 .. Len(queue)
      /\ DOMAIN queue' = 1 .. Len(queue) + 1
      /\ \A i \in DOMAIN queue : queue'[i] = queue[i]
      /\ queue'[Len(queue) + 1] = t
      /\ Len(queue) \in Nat
  BY <1>1, <1>2, Appended
<1> HIDE DEF t
<1>4. /\ t.vif = v /\ t.cmd = cmd /\ t.row = row /\ t.waited
  BY DEF t
<1>5. \A i \in DOMAIN queue' :
        \/ i \in DOMAIN queue /\ queue'[i] = queue[i]
        \/ i = Len(queue) + 1 /\ queue'[i] = t
  BY <1>3
<1>6. \A i \in DOMAIN queue : queue[i].vif = v => ~ queue[i].waited
  BY DEF Submitting, Waiting
<1>7. TypeOK'
  BY <1>1, <1>3, <1>4, <1>5, NativeAssumption
     DEF NativeInv, TypeOK, dbVars, Submitting
<1>8. Fifo'
  BY <1>3, <1>4, <1>5, <1>6 DEF NativeInv, Fifo
<1>9. Replica' /\ Calls'
  <2>1. \A w \in Vifs : found'[w] \subseteq found[w]
    BY DEF Submitting
  <2> QED
    BY <2>1, <1>1 DEF NativeInv, Replica, Calls, dbVars
<1>10. Kinds'
  BY <1>1, <1>4, <1>5 DEF NativeInv, Kinds, dbVars, Submitting
<1>11. Order'
  BY <1>1, <1>4, <1>5 DEF NativeInv, Order, Flushed
<1>12. Progress'
  <2> SUFFICES ASSUME NEW w \in Vifs, w \notin doubt
               PROVE  Unplugging(w)' /\ Plugging(w)'
    BY <1>1 DEF Progress
  <2>1. Unplugging(w) /\ Plugging(w)
    BY DEF NativeInv, Progress
  <2>2. Unplugging(w)'
    <3>1. ASSUME pc[w] = "clean_qos", NEW r \in rows[w]
          PROVE  \/ r \in found'[w]
                 \/ \E i \in DOMAIN queue' : /\ queue'[i].vif = w
                                             /\ queue'[i].cmd = "destroy"
                                             /\ queue'[i].row = r
      <4>1. CASE r \in found[w]
        BY <4>1, <1>3, <1>4 DEF Submitting
      <4>2. CASE r \notin found[w]
        BY <4>2, <3>1, <2>1, <1>3 DEF Unplugging
      <4> QED
        BY <4>1, <4>2
    <3> QED
      BY <3>1, <2>1, <1>1 DEF Unplugging, dbVars
  <2>3. Plugging(w)'
    BY <2>1, <1>1, <1>4, <1>5 DEF Plugging, dbVars, Submitting
  <2> QED
    BY <2>2, <2>3
<1> QED
  BY <1>7, <1>8, <1>9, <1>10, <1>11, <1>12 DEF NativeInv

\* After a timeout nothing is claimed of the call any more.
LEMMA GivenUp ==
  ASSUME NativeInv, NEW v \in Vifs, NEW cmd \in Commands,
         pc[v] \in AwaitedAt(cmd),
         v \notin Plain => cmd \in {"put", "del_port"},
         Continue(v, cmd, "timeout"), doubt' = doubt \cup {v},
         UNCHANGED <<dbVars, vm>>, TypeOK', Fifo', DOMAIN queue' = DOMAIN queue,
         \A w \in Vifs \ {v} : found'[w] = found[w],
         found'[v] \subseteq found[v],
         \A i \in DOMAIN queue :
           /\ queue'[i].vif = queue[i].vif /\ queue'[i].cmd = queue[i].cmd
           /\ queue'[i].row = queue[i].row
           /\ queue[i].vif # v => queue'[i].waited = queue[i].waited
  PROVE  NativeInv'
<1>1. PICK l \in Labels, res \in Results :
        /\ pc' = [pc EXCEPT ![v] = l]
        /\ last' = [last EXCEPT ![v] = res]
        /\ l # "idle" => res = "none"
        /\ l \in {"find_qos", "clean_qos"}
             => pc[v] \in {"delete_port", "clean_qos"}
        /\ l # "delete_port" /\ l # "ensure_bridge"
        /\ l = "exists_port" => pc[v] = "ensure_bridge"
        /\ v \notin Plain => l \in UserPcs
  BY Continued DEF NativeInv
<1>2. /\ pc'[v] = l /\ last'[v] = res
      /\ \A w \in Vifs \ {v} : pc'[w] = pc[w] /\ last'[w] = last[w]
  BY <1>1 DEF NativeInv, TypeOK
<1>3. Replica'
  BY DEF NativeInv, Replica, dbVars
<1>4. Kinds'
  BY <1>1, <1>2 DEF NativeInv, Kinds, dbVars
<1>5. Calls'
  BY <1>1, <1>2 DEF NativeInv, Calls
<1>6. Order'
  BY <1>2 DEF NativeInv, Order, Flushed
<1>7. Progress'
  <2> SUFFICES ASSUME NEW w \in Vifs, w \notin doubt'
               PROVE  Unplugging(w)' /\ Plugging(w)'
    BY DEF Progress
  <2>1. w # v /\ Unplugging(w) /\ Plugging(w)
    BY DEF NativeInv, Progress
  <2> QED
    BY <2>1, <1>2 DEF Unplugging, Plugging, dbVars
<1> QED
  BY <1>3, <1>4, <1>5, <1>6, <1>7 DEF NativeInv

LEMMA Submitted ==
  ASSUME NativeInv, NEW v \in Vifs, NEW cmd \in Commands,
         NEW row \in Rows \cup {NoRow}, Submitting(v, cmd, row)
  PROVE  NativeInv'
<1>1. CASE Len(queue) < Depth
  BY <1>1, Queued
<1>2. CASE ~ Len(queue) < Depth
  <2>1. /\ Continue(v, cmd, "timeout") /\ doubt' = doubt \cup {v}
        /\ Fault /\ UNCHANGED <<queue, dbVars, vm>>
    BY <1>2 DEF Submitting, Submit
  <2>2. PICK l \in Labels, res \in Results :
          pc' = [pc EXCEPT ![v] = l] /\ last' = [last EXCEPT ![v] = res]
    BY <2>1, Continued DEF NativeInv, Submitting
  <2>3. \A i \in DOMAIN queue : queue[i].vif = v => ~ queue[i].waited
    BY DEF Submitting, Waiting
  <2>4. faults' \in 0 .. MaxFaults
    BY <2>1, NativeAssumption DEF NativeInv, TypeOK, Fault
  <2>5. TypeOK'
    BY <2>1, <2>2, <2>3, <2>4
       DEF NativeInv, TypeOK, dbVars, Submitting
  <2>6. Fifo'
    BY <2>1 DEF NativeInv, Fifo
  <2> QED
    BY <2>1, <2>5, <2>6, GivenUp DEF Submitting
<1> QED
  BY <1>1, <1>2

\* A step of a call that submits nothing: neither the database nor the queue
\* changes, and what the invariant says of the other VIFs stays.
LEMMA Moved ==
  ASSUME NativeInv, NEW v \in Vifs, ~ Waiting(v),
         NEW l \in Labels, NEW res \in Results,
         pc' = [pc EXCEPT ![v] = l], last' = [last EXCEPT ![v] = res],
         found' \in [Vifs -> SUBSET Rows],
         \A w \in Vifs \ {v} : found'[w] = found[w],
         doubt' \subseteq doubt, doubt \ {v} \subseteq doubt',
         UNCHANGED <<dbVars, queue, vm, faults>>,
         l # "idle" => res = "none",
         l \in {"delete_port", "find_qos", "clean_qos"} => v \notin vm,
         v \notin Plain => l \in UserPcs /\ found'[v] = {},
         l \in {"ensure_bridge", "exists_port"} => found'[v] = {},
         Flushed(v)' => Flushed(v),
         v \notin doubt' => Unplugging(v)' /\ Plugging(v)'
  PROVE  NativeInv'
<1> USE DEF NativeInv
<1>1. /\ pc'[v] = l /\ last'[v] = res
      /\ \A w \in Vifs \ {v} : pc'[w] = pc[w] /\ last'[w] = last[w]
  BY DEF TypeOK
<1>2. \A i \in DOMAIN queue : queue[i].vif = v => ~ queue[i].waited
  BY DEF Waiting
<1>3. TypeOK'
  <2>1. \A i \in DOMAIN queue : queue[i].vif \in Vifs
    BY Entries DEF TypeOK
  <2>2. \A i \in DOMAIN queue :
          queue[i].waited => pc'[queue[i].vif] = pc[queue[i].vif]
    BY <2>1, <1>1, <1>2
  <2>3. pc' \in [Vifs -> Labels] /\ last' \in [Vifs -> Results]
    BY DEF TypeOK
  <2> QED
    BY <2>2, <2>3 DEF TypeOK, dbVars
<1>4. Fifo' /\ Replica'
  BY DEF Fifo, Replica, dbVars
<1>5. Kinds'
  BY <1>1 DEF Kinds, dbVars
<1>6. Calls'
  BY <1>1 DEF Calls
<1>7. Order'
  BY <1>1 DEF Order, Flushed
<1>8. Progress'
  <2> SUFFICES ASSUME NEW w \in Vifs, w # v, w \notin doubt'
               PROVE  Unplugging(w)' /\ Plugging(w)'
    BY DEF Progress
  <2>1. Unplugging(w) /\ Plugging(w)
    BY DEF Progress
  <2> QED
    BY <2>1, <1>1 DEF Unplugging, Plugging, dbVars
<1> QED
  BY <1>3, <1>4, <1>5, <1>6, <1>7, <1>8

LEMMA PlugStepKeeps ==
  ASSUME NativeInv, NEW v \in Vifs, PlugStep(v)
  PROVE  NativeInv'
<1> USE DEF NativeInv
<1>0. /\ pc[v] # "idle" => last = [last EXCEPT ![v] = "none"]
      /\ v \notin Plain => pc[v] \in UserPcs
      /\ v \notin doubt => Unplugging(v) /\ Plugging(v)
  BY DEF TypeOK, Calls, Kinds, Progress
<1>1. CASE BeginPlug(v)
  <2> DEFINE l == IF v \in Plain THEN "ensure_bridge" ELSE "create_port"
  <2>1. /\ pc' = [pc EXCEPT ![v] = l] /\ last' = [last EXCEPT ![v] = "none"]
        /\ l \in Labels /\ l \in {"ensure_bridge", "create_port"}
        /\ v \in Plain <=> l = "ensure_bridge"
        /\ ~ Waiting(v) /\ doubt' = doubt \ {v}
        /\ found' = [found EXCEPT ![v] = {}] /\ found'[v] = {}
        /\ UNCHANGED <<dbVars, queue, vm, faults>>
    BY <1>1 DEF BeginPlug, At, Labels, TypeOK
  <2> HIDE DEF l
  <2>2. pc'[v] = l
    BY <2>1 DEF TypeOK
  <2>3. ~ Flushed(v)'
    BY <2>1, <2>2 DEF Flushed, PlugPcs
  <2>4. Unplugging(v)' /\ Plugging(v)'
    <3>1. l = "create_port" =>
            /\ v \notin stale
            /\ \A i \in DOMAIN queue :
                 queue[i].vif = v => queue[i].row = NoRow
      BY <2>1 DEF Kinds
    <3> QED
      BY <3>1, <2>1, <2>2 DEF Unplugging, Plugging, PlugPcs, dbVars
  <2>5. /\ found' \in [Vifs -> SUBSET Rows]
        /\ \A w \in Vifs \ {v} : found'[w] = found[w]
        /\ v \notin Plain => l \in UserPcs /\ found'[v] = {}
        /\ "none" \in Results
        /\ l \notin {"delete_port", "find_qos", "clean_qos"}
        /\ doubt' \subseteq doubt /\ doubt \ {v} \subseteq doubt'
    BY <2>1 DEF TypeOK, UserPcs, Results
  <2> QED
    BY <2>1, <2>3, <2>4, <2>5, Moved
<1>2. CASE EnsureBridge(v)
  <2>1. Submitting(v, "add_br", NoRow)
    BY <1>0, <1>2 DEF EnsureBridge, Submitting, At, TypeOK, AwaitedAt, UserPcs
  <2> QED
    BY <2>1, Submitted DEF Commands
<1>3. CASE ExistsPort(v)
  <2> DEFINE l == IF v \in seen THEN "create_port" ELSE "find_old_qos"
  <2>1. /\ pc' = [pc EXCEPT ![v] = l] /\ UNCHANGED last
        /\ l \in Labels
        /\ l \in {"create_port", "find_old_qos"} /\ v \in Plain
        /\ pc[v] = "exists_port" /\ ~ Waiting(v) /\ found[v] = {}
        /\ UNCHANGED <<dbVars, queue, found, doubt, vm, faults>>
    BY <1>0, <1>3 DEF ExistsPort, Goto, At, Labels, Calls, UserPcs
  <2> HIDE DEF l
  <2>2. pc'[v] = l
    BY <2>1 DEF TypeOK
  <2>3. Flushed(v)' => Flushed(v)
    BY <2>1, <2>2 DEF Flushed, PlugPcs
  <2>4. v \notin doubt => Unplugging(v)' /\ Plugging(v)'
    <3>1. v \notin doubt => \A i \in DOMAIN queue : queue[i].vif # v
      BY <2>1 DEF Order, Flushed, PlugPcs, Waiting
    <3> QED
      BY <3>1, <2>1, <2>2, <1>0 DEF Unplugging, Plugging, PlugPcs, dbVars
  <2>5. /\ found' \in [Vifs -> SUBSET Rows] /\ last[v] = "none"
        /\ last' = [last EXCEPT ![v] = "none"] /\ found'[v] = {}
        /\ "none" \in Results /\ l \in Labels
    BY <2>1, <1>0 DEF TypeOK, Results, Calls
  <2> QED
    BY <2>1, <2>3, <2>4, <2>5, Moved
<1>4. CASE FindOldQos(v)
  <2>1. /\ pc' = [pc EXCEPT ![v] = "delete_old_qos"] /\ UNCHANGED last
        /\ pc[v] = "find_old_qos" /\ ~ Waiting(v)
        /\ found' = [found EXCEPT ![v] = rows[v]]
        /\ UNCHANGED <<dbVars, queue, doubt, vm, faults>>
    BY <1>4 DEF FindOldQos, Goto, At
  <2>2. pc'[v] = "delete_old_qos"
    BY <2>1 DEF TypeOK
  <2>3. Flushed(v)' => Flushed(v)
    BY <2>1, <2>2 DEF Flushed, PlugPcs
  <2>4. v \notin doubt => Unplugging(v)' /\ Plugging(v)'
    BY <2>1, <2>2, <1>0 DEF Unplugging, Plugging, PlugPcs, dbVars
  <2>5. /\ found' \in [Vifs -> SUBSET Rows] /\ v \in Plain
        /\ \A w \in Vifs \ {v} : found'[w] = found[w]
        /\ last' = [last EXCEPT ![v] = "none"]
        /\ "none" \in Results /\ "delete_old_qos" \in Labels
    BY <2>1, <1>0 DEF TypeOK, Results, Labels, UserPcs
  <2> QED
    BY <2>1, <2>3, <2>4, <2>5, Moved
<1>5. CASE DeleteOldQos(v)
  <2>1. ASSUME NEW r \in found[v], found' = [found EXCEPT ![v] = @ \ {r}],
               Submit(v, "destroy", r)
        PROVE  Submitting(v, "destroy", r)
    BY <2>1, <1>0, <1>5
       DEF DeleteOldQos, Submitting, At, TypeOK, AwaitedAt, UserPcs
  <2>2. CASE DestroyFound(v)
    BY <2>1, <2>2, Submitted DEF DestroyFound, Commands, TypeOK
  <2>3. CASE NoneFound(v) /\ Goto(v, "create_qos")
    <3>1. /\ pc' = [pc EXCEPT ![v] = "create_qos"] /\ UNCHANGED last
          /\ pc[v] = "delete_old_qos" /\ ~ Waiting(v)
          /\ UNCHANGED <<dbVars, queue, found, doubt, vm, faults>>
      BY <1>5, <2>3 DEF DeleteOldQos, NoneFound, Goto, At
    <3>2. pc'[v] = "create_qos"
      BY <3>1 DEF TypeOK
    <3>3. Flushed(v)' => Flushed(v)
      BY <3>1, <3>2 DEF Flushed, PlugPcs
    <3>4. v \notin doubt => Unplugging(v)' /\ Plugging(v)'
      BY <3>1, <3>2, <1>0 DEF Unplugging, Plugging, PlugPcs, dbVars
    <3> QED
      BY <3>1, <3>3, <3>4, <1>0, Moved DEF TypeOK, Results, UserPcs, Labels
  <2> QED
    BY <1>5, <2>2, <2>3 DEF DeleteOldQos
<1>6. CASE CreateQos(v)
  <2>1. Submitting(v, "create", NoRow)
    BY <1>0, <1>6 DEF CreateQos, Submitting, At, TypeOK, AwaitedAt, UserPcs
  <2> QED
    BY <2>1, Submitted DEF Commands
<1>7. CASE GetQos(v)
  <2>1. /\ pc[v] = "get_qos" /\ ~ Waiting(v)
        /\ UNCHANGED <<dbVars, queue, doubt, vm, faults>>
    BY <1>7 DEF GetQos, At
  <2>2. ASSUME NEW r \in rows[v], found' = [found EXCEPT ![v] = {r}],
               Goto(v, "create_port")
        PROVE  NativeInv'
    <3>1. /\ pc' = [pc EXCEPT ![v] = "create_port"] /\ UNCHANGED last
          /\ pc'[v] = "create_port" /\ found'[v] = {r}
      BY <2>2 DEF Goto, TypeOK
    <3>2. Flushed(v)' => Flushed(v)
      BY <2>1, <3>1 DEF Flushed, PlugPcs
    <3>0. v \in Plain
      BY <2>1, <1>0 DEF UserPcs
    <3>3. v \notin doubt => \A i \in DOMAIN queue : queue[i].vif # v
      BY <2>1, <3>0 DEF Order, Flushed, PlugPcs, Waiting
    <3>4. v \notin doubt => Unplugging(v)' /\ Plugging(v)'
      BY <2>1, <2>2, <3>1, <3>3, <1>0
         DEF Unplugging, Plugging, PlugPcs, dbVars
    <3> QED
      <4>1. /\ found' \in [Vifs -> SUBSET Rows]
            /\ \A w \in Vifs \ {v} : found'[w] = found[w]
            /\ last' = [last EXCEPT ![v] = last[v]]
        BY <2>2, <3>1 DEF TypeOK
      <4>2. "create_port" \in Labels \cap UserPcs /\ last[v] \in Results
        BY DEF TypeOK, Labels, UserPcs
      <4>3. last[v] = "none"
        BY <2>1 DEF Calls
      <4> QED
        BY <2>1, <3>0, <3>1, <3>2, <3>4, <4>1, <4>2, <4>3, Moved
  <2>3. CASE rows[v] = {} /\ Return(v, "error") /\ UNCHANGED found
    <3>1. /\ pc' = [pc EXCEPT ![v] = "idle"] /\ pc'[v] = "idle"
          /\ last' = [last EXCEPT ![v] = "error"] /\ last'[v] = "error"
      BY <2>3 DEF Return, TypeOK
    <3>2. ~ Flushed(v)'
      BY <3>1 DEF Flushed, PlugPcs
    <3>3. Unplugging(v)' /\ Plugging(v)'
      BY <3>1 DEF Unplugging, Plugging, PlugPcs
    <3> QED
      BY <2>1, <2>3, <3>1, <3>2, <3>3, Moved
         DEF TypeOK, Results, UserPcs, Labels, Kinds
  <2> QED
    BY <1>7, <2>2, <2>3 DEF GetQos
<1>8. CASE CreatePort(v)
  <2>1. ASSUME NEW r \in found[v] \cup {NoRow}, Submit(v, "put", r)
        PROVE  Submitting(v, "put", r)
    BY <2>1, <1>8 DEF CreatePort, Submitting, At, TypeOK, AwaitedAt, Kinds
  <2>2. found[v] \subseteq Rows
    BY DEF TypeOK
  <2> QED
    BY <1>8, <2>1, <2>2, Submitted DEF CreatePort, Commands
<1> QED
  BY <1>1, <1>2, <1>3, <1>4, <1>5, <1>6, <1>7, <1>8 DEF PlugStep

LEMMA UnplugStepKeeps ==
  ASSUME NativeInv, NEW v \in Vifs, UnplugStep(v)
  PROVE  NativeInv'
<1> USE DEF NativeInv
<1>0. /\ pc[v] # "idle" => last = [last EXCEPT ![v] = "none"]
      /\ v \notin Plain => pc[v] \in UserPcs
      /\ v \notin doubt => Unplugging(v) /\ Plugging(v)
  BY DEF TypeOK, Calls, Kinds, Progress
<1>1. CASE BeginUnplug(v)
  <2>1. /\ pc' = [pc EXCEPT ![v] = "delete_port"] /\ pc'[v] = "delete_port"
        /\ last' = [last EXCEPT ![v] = "none"] /\ v \notin vm
        /\ ~ Waiting(v) /\ doubt' = doubt \ {v}
        /\ UNCHANGED <<dbVars, queue, found, vm, faults>>
    BY <1>1 DEF BeginUnplug, At, TypeOK
  <2>2. ~ Flushed(v)'
    BY <2>1 DEF Flushed, PlugPcs
  <2>3. Unplugging(v)' /\ Plugging(v)'
    BY <2>1 DEF Unplugging, Plugging, PlugPcs
  <2>4. /\ found' \in [Vifs -> SUBSET Rows]
        /\ v \notin Plain => "delete_port" \in UserPcs /\ found'[v] = {}
        /\ "none" \in Results /\ "delete_port" \in Labels
    BY <2>1 DEF TypeOK, UserPcs, Results, Labels, Kinds
  <2> QED
    BY <2>1, <2>2, <2>3, <2>4, Moved
<1>2. CASE DeletePort(v)
  <2>1. Submitting(v, "del_port", NoRow)
    BY <1>2 DEF DeletePort, Submitting, At, TypeOK, AwaitedAt
  <2> QED
    BY <2>1, Submitted DEF Commands
<1>3. CASE FindQos(v)
  <2>1. /\ pc' = [pc EXCEPT ![v] = "clean_qos"] /\ UNCHANGED last
        /\ pc[v] = "find_qos" /\ ~ Waiting(v) /\ pc'[v] = "clean_qos"
        /\ found' = [found EXCEPT ![v] = rows[v]] /\ found'[v] = rows[v]
        /\ UNCHANGED <<dbVars, queue, doubt, vm, faults>>
    BY <1>3 DEF FindQos, Goto, At, TypeOK
  <2>2. Flushed(v)' => Flushed(v)
    BY <2>1 DEF Flushed, PlugPcs
  <2>3. v \notin doubt => Unplugging(v)' /\ Plugging(v)'
    BY <2>1, <1>0 DEF Unplugging, Plugging, PlugPcs, dbVars
  <2>4. v \notin vm /\ v \in Plain
    BY <2>1, <1>0 DEF Calls, UserPcs
  <2> QED
    BY <2>1, <2>2, <2>3, <2>4, <1>0, Moved
       DEF TypeOK, Results, UserPcs, Labels
<1>4. CASE CleanQos(v)
  <2>1. ASSUME NEW r \in found[v], found' = [found EXCEPT ![v] = @ \ {r}],
               Submit(v, "destroy", r)
        PROVE  Submitting(v, "destroy", r)
    BY <2>1, <1>0, <1>4
       DEF CleanQos, Submitting, At, TypeOK, AwaitedAt, UserPcs
  <2>2. CASE DestroyFound(v)
    BY <2>1, <2>2, Submitted DEF DestroyFound, Commands, TypeOK
  <2>3. CASE NoneFound(v) /\ Return(v, "unplugged")
    <3>1. /\ pc' = [pc EXCEPT ![v] = "idle"] /\ pc'[v] = "idle"
          /\ last' = [last EXCEPT ![v] = "unplugged"]
          /\ last'[v] = "unplugged"
          /\ pc[v] = "clean_qos" /\ ~ Waiting(v) /\ found[v] = {}
          /\ UNCHANGED <<dbVars, queue, found, doubt, vm, faults>>
      BY <1>4, <2>3 DEF CleanQos, NoneFound, Return, At, TypeOK
    <3>2. Flushed(v)' => Flushed(v)
      BY <3>1 DEF Flushed, PlugPcs
    <3>3. v \notin doubt => \A i \in DOMAIN queue : queue[i].vif # v
      BY <3>1 DEF Order, Flushed, Waiting
    <3>4. v \notin doubt => Unplugging(v)' /\ Plugging(v)'
      BY <3>1, <3>3, <1>0 DEF Unplugging, Plugging, PlugPcs, dbVars
    <3> QED
      BY <3>1, <3>2, <3>4, Moved DEF TypeOK, Results, UserPcs, Labels
  <2> QED
    BY <1>4, <2>2, <2>3 DEF CleanQos
<1> QED
  BY <1>1, <1>2, <1>3, <1>4 DEF UnplugStep

-----------------------------------------------------------------------------
(* Steps of the thread that commits                                        *)

\* What is left of the queue, and of the call that waited.
LEMMA Popped ==
  ASSUME NativeInv, queue # <<>>, queue' = Tail(queue),
         NEW outcome \in {"ok", "failed"}, Answer(Head(queue), outcome),
         faults' \in 0 .. MaxFaults, doubt' \subseteq Vifs, UNCHANGED found,
         vm' = vm,
         ports' \subseteq Vifs, rows' \in [Vifs -> SUBSET Rows],
         qos' \in [Vifs -> Rows \cup {NoRow}],
         seen' \subseteq Vifs, stale' \subseteq Vifs
  PROVE  /\ TypeOK' /\ Fifo' /\ Calls'
         /\ Head(queue) \in Transactions
         /\ Head(queue) = queue[1] /\ 1 \in DOMAIN queue
         /\ \A i \in DOMAIN queue' :
              i + 1 \in DOMAIN queue /\ queue'[i] = queue[i + 1]
         /\ \A i \in DOMAIN queue \ {1} :
              i - 1 \in DOMAIN queue' /\ queue'[i - 1] = queue[i]
         /\ Head(queue).waited =>
              \A i \in DOMAIN queue' : queue'[i].vif # Head(queue).vif
         /\ \A w \in Vifs \ {Head(queue).vif} :
              pc'[w] = pc[w] /\ last'[w] = last[w]
         /\ ~ Head(queue).waited => UNCHANGED <<pc, last>>
         /\ \A v \in Vifs \ Plain : pc'[v] \in UserPcs
<1> USE DEF NativeInv
<1> DEFINE t == Head(queue)
<1>1. /\ queue' \in Seq(Transactions) /\ Len(queue') = Len(queue) - 1
      /\ DOMAIN queue = 1 .. Len(queue)
      /\ DOMAIN queue' = 1 .. Len(queue) - 1
      /\ \A i \in DOMAIN queue' : i + 1 \in DOMAIN queue
                                  /\ queue'[i] = queue[i + 1]
      /\ t = queue[1] /\ 1 \in DOMAIN queue /\ t \in Transactions
      /\ Len(queue) \in Nat /\ Len(queue) > 0
  BY Shifted DEF TypeOK
<1> HIDE DEF t
<1>2. \A i \in DOMAIN queue \ {1} :
        i - 1 \in DOMAIN queue' /\ queue'[i - 1] = queue[i]
  BY <1>1
<1>3. Fifo'
  BY <1>1 DEF Fifo
<1>4. t.waited => \A i \in DOMAIN queue' : queue'[i].vif # t.vif
  <2> SUFFICES ASSUME queue[1].waited, NEW i \in DOMAIN queue',
                      queue[i + 1].vif = queue[1].vif
               PROVE  FALSE
    BY <1>1
  <2>1. 1 < i + 1 /\ i + 1 \in DOMAIN queue
    BY <1>1
  <2> QED
    BY <2>1, <1>1 DEF Fifo
<1>5. /\ t.vif \in Vifs /\ t.cmd \in Commands
      /\ t.waited => pc[t.vif] \in AwaitedAt(t.cmd)
      /\ t.vif \notin Plain => t.cmd \in {"put", "del_port"}
  BY <1>1 DEF Transactions, TypeOK, Kinds
<1>6. \A i \in DOMAIN queue' : queue'[i].vif \in Vifs
  BY <1>1, Entries
<1>7. CASE t.waited
  <2>1. PICK l \in Labels, res \in Results :
          /\ pc' = [pc EXCEPT ![t.vif] = l]
          /\ last' = [last EXCEPT ![t.vif] = res]
          /\ l # "idle" => res = "none"
          /\ l \in {"find_qos", "clean_qos"}
               => pc[t.vif] \in {"delete_port", "clean_qos"}
          /\ l # "delete_port" /\ l # "ensure_bridge"
          /\ l = "exists_port" => pc[t.vif] = "ensure_bridge"
          /\ t.vif \notin Plain => l \in UserPcs
    BY <1>5, <1>7, Continued DEF Answer, t
  <2>2. /\ pc'[t.vif] = l /\ last'[t.vif] = res
        /\ \A w \in Vifs \ {t.vif} : pc'[w] = pc[w] /\ last'[w] = last[w]
        /\ pc' \in [Vifs -> Labels] /\ last' \in [Vifs -> Results]
    BY <2>1, <1>5 DEF TypeOK
  <2>3. \A i \in DOMAIN queue' :
          queue'[i].waited => pc'[queue'[i].vif] \in AwaitedAt(queue'[i].cmd)
    BY <2>2, <1>1, <1>4, <1>6, <1>7 DEF TypeOK
  <2>4. TypeOK'
    BY <2>2, <2>3, <1>1, NativeAssumption DEF TypeOK
  <2>5. Calls'
    BY <2>1, <2>2, <1>5 DEF Calls
  <2>6. \A v \in Vifs \ Plain : pc'[v] \in UserPcs
    BY <2>1, <2>2 DEF Kinds
  <2> QED
    BY <2>2, <2>4, <2>5, <2>6, <1>1, <1>2, <1>3, <1>4, <1>7 DEF t
<1>8. CASE ~ t.waited
  <2>1. UNCHANGED <<pc, last>>
    BY <1>8 DEF Answer, t
  <2>2. \A i \in DOMAIN queue' :
          queue'[i].waited => pc'[queue'[i].vif] \in AwaitedAt(queue'[i].cmd)
    BY <2>1, <1>1 DEF TypeOK
  <2>3. TypeOK'
    BY <2>1, <2>2, <1>1, NativeAssumption DEF TypeOK
  <2>4. Calls' /\ \A v \in Vifs \ Plain : pc'[v] \in UserPcs
    BY <2>1 DEF Calls, Kinds
  <2> QED
    BY <2>1, <2>3, <2>4, <1>1, <1>2, <1>3, <1>8 DEF t
<1> QED
  BY <1>7, <1>8

LEMMA CommitFailsKeeps ==
  ASSUME NativeInv, CommitFails
  PROVE  NativeInv'
<1> USE DEF NativeInv
<1> DEFINE t == Head(queue)
<1>1. /\ queue # <<>> /\ queue' = Tail(queue)
      /\ Answer(Head(queue), "failed")
      /\ doubt' = (IF t.waited THEN doubt \cup {t.vif} ELSE doubt)
      /\ UNCHANGED <<dbVars, found, vm>>
      /\ faults' \in 0 .. MaxFaults
  BY NativeAssumption DEF CommitFails, Fault, TypeOK
<1>2. t \in Transactions
  BY <1>1, Shifted DEF TypeOK
<1>3. /\ doubt' \subseteq Vifs /\ ports' \subseteq Vifs
      /\ rows' \in [Vifs -> SUBSET Rows] /\ qos' \in [Vifs -> Rows \cup {NoRow}]
      /\ seen' \subseteq Vifs /\ stale' \subseteq Vifs
  BY <1>1, <1>2 DEF TypeOK, dbVars, Transactions
<1>4. /\ TypeOK' /\ Fifo' /\ Calls'
      /\ t = queue[1] /\ 1 \in DOMAIN queue
      /\ \A i \in DOMAIN queue' :
           i + 1 \in DOMAIN queue /\ queue'[i] = queue[i + 1]
      /\ \A i \in DOMAIN queue \ {1} :
           i - 1 \in DOMAIN queue' /\ queue'[i - 1] = queue[i]
      /\ \A w \in Vifs \ {t.vif} : pc'[w] = pc[w] /\ last'[w] = last[w]
      /\ ~ t.waited => UNCHANGED <<pc, last>>
      /\ \A v \in Vifs \ Plain : pc'[v] \in UserPcs
  BY <1>1, <1>3, Popped
<1> HIDE DEF t
<1>5. Replica'
  BY <1>1 DEF Replica, dbVars
<1>6. Kinds'
  BY <1>1, <1>4 DEF Kinds, dbVars
<1>7. ASSUME NEW w \in Vifs, w \notin doubt'
      PROVE  /\ pc'[w] = pc[w] /\ last'[w] = last[w] /\ w \notin doubt
             /\ Flushed(w) => t.vif # w
  <2>1. CASE t.vif = w
    <3>1. ~ t.waited /\ UNCHANGED <<pc, last, doubt>>
      BY <1>1, <1>4, <1>7, <2>1
    <3> QED
      BY <3>1, <2>1, <1>4, <1>7 DEF Order
  <2>2. CASE t.vif # w
    BY <2>2, <1>1, <1>4, <1>7
  <2> QED
    BY <2>1, <2>2
<1>8. Order'
  BY <1>4, <1>7 DEF Order, Flushed
<1>9. Progress'
  <2> SUFFICES ASSUME NEW w \in Vifs, w \notin doubt'
               PROVE  Unplugging(w)' /\ Plugging(w)'
    BY DEF Progress
  <2>1. Unplugging(w) /\ Plugging(w)
    BY <1>7 DEF Progress
  <2>2. ASSUME pc[w] = "clean_qos", NEW r \in rows[w], r \notin found[w]
        PROVE  \E i \in DOMAIN queue' : /\ queue'[i].vif = w
                                        /\ queue'[i].cmd = "destroy"
                                        /\ queue'[i].row = r
    <3>1. PICK i \in DOMAIN queue : /\ queue[i].vif = w
                                    /\ queue[i].cmd = "destroy"
                                    /\ queue[i].row = r
      BY <2>1, <2>2 DEF Unplugging
    <3>2. i # 1
      BY <3>1, <2>2, <1>4, <1>7 DEF Flushed
    <3> QED
      BY <3>1, <3>2, <1>4
  <2>3. Unplugging(w)'
    BY <2>1, <2>2, <1>1, <1>7 DEF Unplugging, dbVars
  <2>4. Plugging(w)'
    BY <2>1, <1>1, <1>4, <1>7 DEF Plugging, dbVars
  <2> QED
    BY <2>3, <2>4
<1> QED
  BY <1>4, <1>5, <1>6, <1>8, <1>9

LEMMA TimesOutKeeps ==
  ASSUME NativeInv, NEW v \in Vifs, TimesOut(v)
  PROVE  NativeInv'
<1> USE DEF NativeInv
<1>1. PICK k \in DOMAIN queue :
        /\ queue[k].vif = v /\ queue[k].waited
        /\ Fault
        /\ doubt' = doubt \cup {v}
        /\ queue' = [queue EXCEPT ![k].waited = FALSE]
        /\ Continue(v, queue[k].cmd, "timeout")
        /\ UNCHANGED <<dbVars, found, vm>>
  BY DEF TimesOut
<1>0. faults' \in 0 .. MaxFaults
  BY <1>1, NativeAssumption DEF Fault, TypeOK
<1>2. \A i \in DOMAIN queue :
        /\ queue[i] \in Transactions
        /\ queue[i].vif \in Vifs /\ queue[i].cmd \in Commands
        /\ queue[i].row \in Rows \cup {NoRow}
        /\ queue[i].waited \in BOOLEAN
  BY Entries DEF TypeOK
<1>3. /\ DOMAIN queue' = DOMAIN queue
      /\ queue' \in Seq(Transactions) /\ Len(queue') = Len(queue)
      /\ queue'[k] = [queue[k] EXCEPT !.waited = FALSE]
      /\ \A i \in DOMAIN queue \ {k} : queue'[i] = queue[i]
  <2>1. [queue[k] EXCEPT !.waited = FALSE] \in Transactions
    BY <1>2 DEF Transactions
  <2> QED
    BY <2>1, <1>1 DEF TypeOK
<1>4. /\ queue'[k].vif = v /\ queue'[k].cmd = queue[k].cmd
      /\ queue'[k].row = queue[k].row /\ ~ queue'[k].waited
  BY <1>1, <1>2, <1>3 DEF Transactions
<1>5. Fifo'
  BY <1>1, <1>3, <1>4 DEF Fifo
<1>6. /\ pc[v] \in AwaitedAt(queue[k].cmd)
      /\ v \notin Plain => queue[k].cmd \in {"put", "del_port"}
  BY <1>1 DEF TypeOK, Kinds
<1>7. PICK l \in Labels, res \in Results :
        pc' = [pc EXCEPT ![v] = l] /\ last' = [last EXCEPT ![v] = res]
  BY <1>1, <1>2, <1>6, Continued
<1>8. \A i \in DOMAIN queue \ {k} : queue[i].vif = v => ~ queue[i].waited
  <2> SUFFICES ASSUME NEW i \in DOMAIN queue \ {k}, queue[i].vif = v,
                      queue[i].waited
               PROVE  FALSE
    OBVIOUS
  <2>1. i < k \/ k < i
    BY DEF TypeOK
  <2> QED
    BY <2>1, <1>1 DEF Fifo
<1>9. TypeOK'
  <2>1. ASSUME NEW i \in DOMAIN queue', queue'[i].waited
        PROVE  pc'[queue'[i].vif] \in AwaitedAt(queue'[i].cmd)
    BY <2>1, <1>2, <1>3, <1>4, <1>7, <1>8 DEF TypeOK
  <2> QED
    BY <2>1, <1>0, <1>1, <1>3, <1>7 DEF TypeOK, dbVars
<1> QED
  <2>1. \A i \in DOMAIN queue :
          /\ queue'[i].vif = queue[i].vif /\ queue'[i].cmd = queue[i].cmd
          /\ queue'[i].row = queue[i].row
          /\ queue[i].vif # v => queue'[i].waited = queue[i].waited
    BY <1>1, <1>3, <1>4
  <2>2. \A w \in Vifs : found'[w] = found[w]
    BY <1>1
  <2>3. queue[k].cmd \in Commands
    BY <1>2
  <2> QED
    BY <2>1, <2>2, <2>3, <1>1, <1>3, <1>5, <1>6, <1>9, GivenUp

\* What a commit makes of the port and the rows of its VIF.
LEMMA Applied ==
  ASSUME NativeInv, NEW t \in Transactions, NEW outcome \in {"ok", "failed"},
         Apply(t, outcome),
         t.vif \notin Plain => t.cmd \in {"put", "del_port"}
  PROVE  /\ ports' \subseteq Vifs
         /\ rows' \in [Vifs -> SUBSET Rows]
         /\ qos' \in [Vifs -> Rows \cup {NoRow}]
         /\ \A w \in Vifs \ {t.vif} :
              /\ w \in ports' <=> w \in ports
              /\ rows'[w] = rows[w] /\ qos'[w] = qos[w]
         /\ t.vif \notin ports' => qos'[t.vif] = NoRow
         /\ t.vif \notin Plain => rows'[t.vif] = {}
         /\ t.cmd \notin {"put", "del_port"} => ports' = ports /\ qos' = qos
         /\ t.cmd = "destroy" /\ t.vif \notin ports
              => rows'[t.vif] \subseteq rows[t.vif] \ {t.row}
         /\ t.cmd = "del_port" /\ t.vif \notin vm => t.vif \notin ports'
         /\ /\ t.cmd = "put" /\ t.vif \notin stale
            /\ t.row \in rows[t.vif] \cup {NoRow}
            => t.vif \in ports'
<1> USE DEF NativeInv
<1>1. t.vif \in Vifs /\ t.cmd \in Commands /\ t.row \in Rows \cup {NoRow}
  BY DEF Transactions
<1>2. /\ t.vif \notin stale => (t.vif \in seen <=> t.vif \in ports)
      /\ t.vif \in stale /\ t.vif \notin vm => t.vif \notin ports
      /\ t.vif \notin ports => qos[t.vif] = NoRow
      /\ t.vif \notin Plain => rows[t.vif] = {}
  BY <1>1 DEF Replica, Kinds
<1>3. CASE t.cmd = "add_br" /\ UNCHANGED <<ports, rows, qos>>
  BY <1>1, <1>2, <1>3 DEF TypeOK
<1>4. CASE t.cmd = "del_port" /\ ApplyDelPort(t.vif, outcome)
  BY <1>1, <1>2, <1>4 DEF TypeOK, ApplyDelPort
<1>5. CASE t.cmd = "destroy" /\ ApplyDestroy(t.vif, t.row, outcome)
  BY <1>1, <1>2, <1>5, NativeAssumption DEF TypeOK, ApplyDestroy
<1>6. CASE t.cmd = "create" /\ ApplyCreate(t.vif, outcome)
  BY <1>1, <1>2, <1>6 DEF TypeOK, ApplyCreate
<1>7. CASE t.cmd = "put" /\ ApplyPut(t.vif, t.row, outcome)
  BY <1>1, <1>2, <1>7 DEF TypeOK, ApplyPut
<1> QED
  BY <1>3, <1>4, <1>5, <1>6, <1>7 DEF Apply

LEMMA CommitKeeps ==
  ASSUME NativeInv, Commit
  PROVE  NativeInv'
<1> USE DEF NativeInv
<1> DEFINE t == Head(queue)
           v == t.vif
<1>1. PICK outcome \in {"ok", "failed"} :
        Apply(t, outcome) /\ Answer(t, outcome)
  BY DEF Commit
<1>2. /\ queue # <<>> /\ queue' = Tail(queue)
      /\ seen' = ports' /\ stale' = {}
      /\ UNCHANGED <<found, doubt, vm, faults>>
  BY DEF Commit
<1>3. /\ t \in Transactions /\ t = queue[1] /\ 1 \in DOMAIN queue
      /\ v \in Vifs /\ t.cmd \in Commands /\ t.row \in Rows \cup {NoRow}
      /\ v \notin Plain => t.cmd \in {"put", "del_port"}
      /\ t.waited => pc[v] \in AwaitedAt(t.cmd)
  <2>1. t \in Transactions /\ t = queue[1] /\ 1 \in DOMAIN queue
    BY <1>2, Shifted DEF TypeOK
  <2> QED
    BY <2>1 DEF Transactions, Kinds, TypeOK
<1>4. /\ ports' \subseteq Vifs
      /\ rows' \in [Vifs -> SUBSET Rows]
      /\ qos' \in [Vifs -> Rows \cup {NoRow}]
      /\ \A w \in Vifs \ {v} : /\ w \in ports' <=> w \in ports
                               /\ rows'[w] = rows[w] /\ qos'[w] = qos[w]
      /\ v \notin ports' => qos'[v] = NoRow
      /\ v \notin Plain => rows'[v] = {}
      /\ t.cmd \notin {"put", "del_port"} => ports' = ports /\ qos' = qos
      /\ t.cmd = "destroy" /\ v \notin ports
           => rows'[v] \subseteq rows[v] \ {t.row}
      /\ t.cmd = "del_port" /\ v \notin vm => v \notin ports'
      /\ t.cmd = "put" /\ v \notin stale /\ t.row \in rows[v] \cup {NoRow}
           => v \in ports'
  BY <1>1, <1>3, Applied
<1>5. seen' \subseteq Vifs /\ stale' \subseteq stale /\ stale' \subseteq Vifs
  BY <1>2, <1>4 DEF TypeOK
<1>6. /\ TypeOK' /\ Fifo' /\ Calls'
      /\ \A i \in DOMAIN queue' :
           i + 1 \in DOMAIN queue /\ queue'[i] = queue[i + 1]
      /\ \A i \in DOMAIN queue \ {1} :
           i - 1 \in DOMAIN queue' /\ queue'[i - 1] = queue[i]
      /\ t.waited => \A i \in DOMAIN queue' : queue'[i].vif # v
      /\ \A w \in Vifs \ {v} : pc'[w] = pc[w] /\ last'[w] = last[w]
      /\ ~ t.waited => UNCHANGED <<pc, last>>
      /\ \A w \in Vifs \ Plain : pc'[w] \in UserPcs
  <2>1. faults' \in 0 .. MaxFaults /\ doubt' \subseteq Vifs
    BY <1>2 DEF TypeOK
  <2> QED
    BY <1>1, <1>2, <1>4, <1>5, <2>1, Popped
<1> HIDE DEF t, v
<1>7. Replica'
  BY <1>2, <1>3, <1>4 DEF Replica
<1>8. Kinds'
  BY <1>2, <1>3, <1>4, <1>5, <1>6 DEF Kinds
<1>9. Order'
  <2> SUFFICES ASSUME NEW w \in Vifs, Flushed(w)', NEW i \in DOMAIN queue',
                      queue'[i].vif = w
               PROVE  queue'[i].waited
    BY DEF Order
  <2>1. w # v \/ ~ t.waited
    BY <1>6
  <2>2. pc'[w] = pc[w] /\ last'[w] = last[w]
    BY <1>3, <1>6, <2>1
  <2>3. Flushed(w)
    BY <1>2, <2>2 DEF Flushed
  <2> QED
    BY <1>6, <2>3 DEF Order
<1>10. Progress'
  <2> SUFFICES ASSUME NEW w \in Vifs, w \notin doubt
               PROVE  Unplugging(w)' /\ Plugging(w)'
    BY <1>2 DEF Progress
  <2>1. Unplugging(w) /\ Plugging(w)
    BY DEF Progress
  <2>2. CASE w # v
    <3>1. /\ pc'[w] = pc[w] /\ last'[w] = last[w] /\ rows'[w] = rows[w]
          /\ w \in ports' <=> w \in ports
          /\ found'[w] = found[w] /\ (w \in stale' => w \in stale)
      BY <1>2, <1>4, <1>5, <1>6, <2>2
    <3>2. ASSUME pc[w] = "clean_qos", NEW r \in rows[w], r \notin found[w]
          PROVE  \E i \in DOMAIN queue' : /\ queue'[i].vif = w
                                          /\ queue'[i].cmd = "destroy"
                                          /\ queue'[i].row = r
      <4>1. PICK i \in DOMAIN queue : /\ queue[i].vif = w
                                      /\ queue[i].cmd = "destroy"
                                      /\ queue[i].row = r
        BY <2>1, <3>2 DEF Unplugging
      <4>2. i # 1
        BY <4>1, <1>3, <2>2 DEF v
      <4> QED
        BY <4>1, <4>2, <1>6
    <3>3. Unplugging(w)'
      BY <2>1, <3>1, <3>2 DEF Unplugging
    <3>4. Plugging(w)'
      BY <2>1, <3>1, <1>6 DEF Plugging
    <3> QED
      BY <3>3, <3>4
  <2>3. CASE w = v /\ ~ t.waited
    <3>1. ~ Flushed(v)
      BY <1>3, <2>3 DEF Order, v
    <3>2. UNCHANGED <<pc, last, doubt>>
      BY <1>2, <1>6, <2>3
    <3>3. v \notin Plain =>
            /\ found'[v] = {}
            /\ \A i \in DOMAIN queue' :
                 queue'[i].vif = v => queue'[i].row = NoRow
      BY <1>2, <1>3, <1>6 DEF Kinds
    <3> QED
      BY <2>3, <3>1, <3>2, <3>3, <1>2
         DEF Flushed, Unplugging, Plugging, PlugPcs
  <2>4. CASE w = v /\ t.waited
    <3>1. Continue(v, t.cmd, outcome)
      BY <1>1, <2>4 DEF Answer, v, t
    <3>2. /\ pc[v] \in AwaitedAt(t.cmd)
          /\ \A i \in DOMAIN queue' : queue'[i].vif # v
      BY <1>3, <1>6, <2>4
    <3>3. pc[v] # "idle" => last[v] = "none"
      BY <1>3 DEF Calls
    <3>4. CASE t.cmd = "add_br"
      <4>1. pc'[v] = "exists_port" /\ stale' = {}
        BY <1>2, <1>3, <3>1, <3>4 DEF Continue, Goto, TypeOK
      <4> QED
        BY <2>4, <4>1 DEF Unplugging, Plugging
    <3>5. CASE t.cmd = "destroy"
      <4>1. /\ pc' = pc /\ last' = last /\ stale' = {}
            /\ ports' = ports /\ found' = found
            /\ pc[v] \in {"delete_old_qos", "clean_qos"}
            /\ last[v] = "none"
        BY <1>1, <1>2, <1>4, <3>1, <3>2, <3>3, <3>5
           DEF Continue, AwaitedAt
      <4>2. CASE pc[v] = "delete_old_qos"
        BY <2>4, <4>1, <4>2 DEF Unplugging, Plugging
      <4>3. CASE pc[v] = "clean_qos"
        <5>1. v \notin ports /\ rows'[v] \subseteq rows[v] \ {t.row}
          BY <2>1, <2>4, <4>3, <1>4, <1>5, <3>5 DEF Unplugging
        <5>2. ASSUME NEW r \in rows'[v], r \notin found[v]
              PROVE  FALSE
          <6>1. PICK i \in DOMAIN queue : queue[i].vif = v /\ queue[i].row = r
            BY <2>1, <2>4, <4>3, <5>1, <5>2 DEF Unplugging
          <6>2. i # 1
            BY <6>1, <5>1, <5>2, <1>3
          <6> QED
            BY <6>1, <6>2, <1>6, <3>2
        <5> QED
          BY <2>4, <4>1, <4>3, <5>1, <5>2 DEF Unplugging, Plugging, PlugPcs
      <4> QED
        BY <4>1, <4>2, <4>3
    <3>6. CASE t.cmd = "create"
      <4>1. /\ stale' = {}
            /\ \/ pc'[v] = "get_qos"
               \/ pc'[v] = "idle" /\ last'[v] = "error"
        BY <1>2, <1>3, <3>1, <3>6 DEF Continue, Goto, Return, TypeOK
      <4> QED
        BY <2>4, <4>1 DEF Unplugging, Plugging, PlugPcs
    <3>7. CASE t.cmd = "put"
      <4>1. pc'[v] = "idle" /\ last'[v] = "plugged" /\ pc[v] = "create_port"
        BY <1>3, <3>1, <3>2, <3>7 DEF Continue, Return, TypeOK, AwaitedAt
      <4>2. v \notin stale /\ t.row \in rows[v] \cup {NoRow}
        BY <2>1, <2>4, <4>1, <3>7, <1>3 DEF Plugging, PlugPcs, v
      <4>3. v \in ports'
        BY <1>4, <3>7, <4>2
      <4> QED
        BY <2>4, <4>1, <4>3 DEF Unplugging, Plugging, PlugPcs
    <3>8. CASE t.cmd = "del_port"
      <4>1. pc[v] = "delete_port" /\ v \notin ports'
        BY <1>1, <1>3, <1>4, <3>2, <3>8 DEF Calls, AwaitedAt
      <4>2. \/ pc'[v] = "find_qos"
            \/ pc'[v] = "idle" /\ last'[v] = "unplugged" /\ v \notin Plain
        BY <1>3, <3>1, <3>8 DEF Continue, Goto, Return, TypeOK
      <4> QED
        BY <2>4, <4>1, <4>2, <1>4, <1>5 DEF Unplugging, Plugging, PlugPcs
    <3> QED
      BY <1>3, <3>4, <3>5, <3>6, <3>7, <3>8 DEF Commands
  <2> QED
    BY <2>2, <2>3, <2>4
<1> QED
  BY <1>6, <1>7, <1>8, <1>9, <1>10

-----------------------------------------------------------------------------
(* Everything else                                                         *)

LEMMA RestartKeeps ==
  ASSUME NativeInv, Restart
  PROVE  NativeInv'
<1> USE DEF NativeInv
<1>1. /\ queue' = <<>> /\ DOMAIN queue' = {} /\ Len(queue') = 0
      /\ queue' \in Seq(Transactions)
      /\ seen' = ports /\ stale' = {}
      /\ UNCHANGED <<ports, rows, qos, found, doubt, vm>>
      /\ faults' \in 0 .. MaxFaults
  BY NativeAssumption DEF Restart, Fault, TypeOK
<1>2. /\ pc' = [v \in Vifs |-> "idle"]
      /\ last' = [v \in Vifs |-> IF pc[v] = "idle" THEN last[v] ELSE "error"]
      /\ last' \in [Vifs -> Results]
  BY DEF Restart, TypeOK, Results
<1>3. TypeOK'
  BY <1>1, <1>2, NativeAssumption DEF TypeOK, Labels
<1>4. Fifo' /\ Replica' /\ Kinds' /\ Calls' /\ Order'
  BY <1>1, <1>2 DEF Fifo, Replica, Kinds, Calls, Order, UserPcs
<1>5. Progress'
  BY <1>1, <1>2 DEF Progress, Unplugging, Plugging, PlugPcs
<1> QED
  BY <1>3, <1>4, <1>5

LEMMA OthersKeep ==
  ASSUME NativeInv,
         (\E v \in Vifs : VmStarts(v) \/ VmStops(v)) \/ Refresh
  PROVE  NativeInv'
<1> USE DEF NativeInv
<1>1. ASSUME NEW v \in Vifs, VmStarts(v)
      PROVE  NativeInv'
  <2>1. /\ pc[v] = "idle" /\ last[v] = "plugged"
        /\ vm' = vm \cup {v}
        /\ ports' \in {ports, ports \cup {v}} /\ stale \subseteq stale'
        /\ stale' \in {stale, stale \cup {v}}
        /\ v \notin ports' => v \notin ports
        /\ UNCHANGED <<rows, seen, queue, pc, found, doubt, last, faults>>
    BY <1>1 DEF VmStarts, At
  <2>2. /\ qos' \in [Vifs -> Rows \cup {NoRow}]
        /\ \A w \in Vifs \ {v} : qos'[w] = qos[w]
        /\ qos'[v] \in {qos[v], NoRow}
    BY <1>1 DEF VmStarts, TypeOK
  <2>3. TypeOK' /\ Fifo' /\ Calls'
    BY <2>1, <2>2 DEF TypeOK, Fifo, Calls
  <2>4. Replica'
    BY <1>1, <2>1, <2>2 DEF Replica, VmStarts
  <2>5. Kinds' /\ Order'
    BY <1>1, <2>1 DEF Kinds, Order, Flushed, VmStarts
  <2>6. Progress'
    BY <2>1 DEF Progress, Unplugging, Plugging, PlugPcs
  <2> QED
    BY <2>3, <2>4, <2>5, <2>6
<1>2. ASSUME NEW v \in Vifs, VmStops(v)
      PROVE  NativeInv'
  <2>1. /\ pc[v] = "idle" /\ last' = [last EXCEPT ![v] = "vm_stopped"]
        /\ last'[v] = "vm_stopped" /\ last' \in [Vifs -> Results]
        /\ \A w \in Vifs \ {v} : last'[w] = last[w]
        /\ vm' = vm \ {v}
        /\ ports' \in {ports, ports \ {v}}
        /\ stale' \in {stale, stale \cup {v}}
        /\ UNCHANGED <<rows, seen, queue, pc, found, doubt, faults>>
    BY <1>2 DEF VmStops, At, TypeOK, Results
  <2>2. /\ qos' \in [Vifs -> Rows \cup {NoRow}]
        /\ \A w \in Vifs \ {v} : qos'[w] = qos[w]
        /\ qos'[v] \in {qos[v], NoRow}
    BY <1>2 DEF VmStops, TypeOK
  <2>3. TypeOK' /\ Fifo' /\ Calls'
    BY <2>1, <2>2 DEF TypeOK, Fifo, Calls
  <2>4. Replica'
    <3>1. CASE v \in Plain
      <4>1. v \notin ports' /\ v \in stale' /\ qos'[v] = NoRow
        BY <1>2, <3>1 DEF VmStops, TypeOK
      <4> QED
        BY <4>1, <2>1, <2>2 DEF Replica
    <3>2. CASE v \notin Plain
      <4>1. UNCHANGED <<ports, qos, stale>> /\ v \notin stale
        BY <1>2, <3>2 DEF VmStops, Kinds
      <4> QED
        BY <4>1, <2>1 DEF Replica
    <3> QED
      BY <3>1, <3>2
  <2>5. Kinds' /\ Order'
    BY <1>2, <2>1 DEF Kinds, Order, Flushed, PlugPcs, VmStops
  <2>6. Progress'
    <3> SUFFICES ASSUME NEW w \in Vifs, w \notin doubt
                 PROVE  Unplugging(w)' /\ Plugging(w)'
      BY <2>1 DEF Progress
    <3>1. Unplugging(w) /\ Plugging(w)
      BY DEF Progress
    <3> QED
      BY <3>1, <2>1 DEF Unplugging, Plugging, PlugPcs
  <2> QED
    BY <2>3, <2>4, <2>5, <2>6
<1>3. CASE Refresh
  <2>1. /\ seen' = ports /\ stale' = {}
        /\ UNCHANGED <<ports, rows, qos, queue, pc, found, doubt, last, vm,
                       faults>>
    BY <1>3 DEF Refresh
  <2>2. TypeOK' /\ Fifo' /\ Calls' /\ Replica' /\ Kinds' /\ Order'
    BY <2>1 DEF TypeOK, Fifo, Calls, Replica, Kinds, Order, Flushed
  <2>3. Progress'
    BY <2>1 DEF Progress, Unplugging, Plugging
  <2> QED
    BY <2>2, <2>3
<1> QED
  BY <1>1, <1>2, <1>3

LEMMA NativeInvariant == Spec => []NativeInv
<1>1. Init => NativeInv
  <2> SUFFICES ASSUME Init PROVE NativeInv
    OBVIOUS
  <2>1. queue = <<>> /\ DOMAIN queue = {} /\ Len(queue) = 0
        /\ queue \in Seq(Transactions)
    BY DEF Init
  <2>2. TypeOK
    BY <2>1, NativeAssumption DEF Init, TypeOK, Labels, Results
  <2>3. Fifo /\ Replica /\ Kinds /\ Calls /\ Order /\ Progress
    BY <2>1 DEF Init, Fifo, Replica, Kinds, Calls, Order, Progress,
                Unplugging, Plugging, PlugPcs, UserPcs
  <2> QED
    BY <2>2, <2>3 DEF NativeInv
<1>2. NativeInv /\ [Next]_vars => NativeInv'
  <2> SUFFICES ASSUME NativeInv, [Next]_vars PROVE NativeInv'
    OBVIOUS
  <2>1. CASE UNCHANGED vars
    BY <2>1
       DEF vars, dbVars, NativeInv, TypeOK, Fifo, Replica, Kinds, Calls,
           Order, Flushed, Progress, Unplugging, Plugging
  <2>2. ASSUME NEW v \in Vifs, PlugStep(v) PROVE NativeInv'
    BY <2>2, PlugStepKeeps
  <2>3. ASSUME NEW v \in Vifs, UnplugStep(v) PROVE NativeInv'
    BY <2>3, UnplugStepKeeps
  <2>4. ASSUME NEW v \in Vifs, TimesOut(v) PROVE NativeInv'
    BY <2>4, TimesOutKeeps
  <2> QED
    BY <2>1, <2>2, <2>3, <2>4, CommitKeeps, CommitFailsKeeps, RestartKeeps,
       OthersKeep DEF Next
<1> QED
  BY <1>1, <1>2, PTL DEF Spec

\* The state keeps its types, and no call waits for anything but the command
\* it has come to.
THEOREM TypeCorrect == Spec => []TypeOK
BY NativeInvariant, PTL DEF NativeInv

\* An unplug() whose own commits were all answered leaves nothing of the VIF
\* in the database and nothing on its way there, however late the commits of
\* earlier calls and however stale the replica.
THEOREM UnplugCorrect == Spec => []UnpluggedIsGone
<1>1. NativeInv => UnpluggedIsGone
  <2> SUFFICES ASSUME NativeInv, NEW v \in Vifs, last[v] = "unplugged",
                      v \notin doubt
               PROVE  v \notin ports /\ rows[v] = {} /\ ~ Pending(v)
    BY DEF UnpluggedIsGone
  <2>1. pc[v] = "idle" /\ Flushed(v)
    BY DEF NativeInv, Calls, Flushed
  <2>2. v \notin ports /\ rows[v] = {}
    BY <2>1 DEF NativeInv, Progress, Unplugging
  <2>3. ~ Pending(v)
    <3>1. \A i \in DOMAIN queue :
            queue[i].waited => pc[queue[i].vif] # "idle"
      BY Entries DEF NativeInv, TypeOK, AwaitedAt, Commands
    <3> QED
      BY <2>1, <3>1 DEF NativeInv, Order, Pending
  <2> QED
    BY <2>2, <2>3
<1> QED
  BY <1>1, NativeInvariant, PTL

\* A plug() whose own commits were all answered leaves its port, and nothing
\* of earlier calls can still take it away.
THEOREM PlugCorrect == Spec => []PluggedIsThere
<1>1. NativeInv => PluggedIsThere
  <2> SUFFICES ASSUME NativeInv, NEW v \in Vifs, last[v] = "plugged",
                      v \notin doubt
               PROVE  v \in ports /\ ~ Pending(v)
    BY DEF PluggedIsThere
  <2>1. v \in Vifs /\ pc[v] = "idle" /\ Flushed(v)
    BY NativeAssumption DEF NativeInv, Calls, Flushed
  <2>2. v \in ports
    BY <2>1 DEF NativeInv, Progress, Plugging
  <2>3. ~ Pending(v)
    <3>1. \A i \in DOMAIN queue :
            queue[i].waited => pc[queue[i].vif] # "idle"
      BY Entries DEF NativeInv, TypeOK, AwaitedAt, Commands
    <3> QED
      BY <2>1, <3>1 DEF NativeInv, Order, Pending
  <2> QED
    BY <2>2, <2>3
<1> QED
  BY <1>1, NativeInvariant, PTL
=============================================================================
