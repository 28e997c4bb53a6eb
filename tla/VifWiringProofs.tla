-------------------------- MODULE VifWiringProofs --------------------------
(***************************************************************************)
(* What follows from the promise of VifWiring alone, whatever plugin keeps *)
(* it.                                                                     *)
(***************************************************************************)
EXTENDS VifWiring, TLAPS

Calls == {"none", "plug", "unplug"}

TypeInv ==
  /\ call \in [Vifs -> Calls]
  /\ DOMAIN told = Vifs
  /\ told = [v \in Vifs |-> told[v]]

\* While a call is in progress, nothing has been told of it.
KeptInv ==
  /\ TypeInv
  /\ Kept
  /\ \A v \in Vifs : call[v] # "none" => told[v] = "none"

\* What a step for v spares stays true of the others.
LEMMA OthersStayKept ==
  ASSUME KeptInv, NEW v \in Vifs, SparesOthers(v),
         \A w \in Vifs \ {v} : told'[w] = told[w],
         told'[v] = "plugged" => v \in wired',
         told'[v] = "unplugged" => v \in clean'
  PROVE  Kept'
BY DEF KeptInv, Kept, SparesOthers

\* A caller that was told a VIF is plugged finds it wired, and one that was
\* told it is unplugged finds it gone, for as long as it calls neither:
\* other VIFs' calls and failures, the death of the process and the VM's
\* own start do not change that.
THEOREM TruthKept == Spec => []Kept
<1>1. Init => KeptInv
  BY DEF Init, KeptInv, TypeInv, Kept, Calls
<1>2. KeptInv /\ [Next]_vars => KeptInv'
  <2> SUFFICES ASSUME KeptInv, [Next]_vars PROVE KeptInv'
    OBVIOUS
  <2> USE DEF KeptInv, TypeInv, Calls
  <2>1. CASE UNCHANGED vars
    BY <2>1 DEF vars, Kept
  <2>2. ASSUME NEW v \in Vifs, NEW c \in {"plug", "unplug"}, Begin(v, c)
        PROVE  KeptInv'
    BY <2>2 DEF Begin, Kept
  <2>3. ASSUME NEW v \in Vifs, Work(v)
        PROVE  KeptInv'
    <3>1. Kept'
      BY <2>3, OthersStayKept DEF Work, Effect
    <3> QED
      BY <2>3, <3>1 DEF Work
  <2>4. ASSUME NEW v \in Vifs, Return(v)
        PROVE  KeptInv'
    <3>1. /\ told'[v] = "plugged" => v \in wired'
          /\ told'[v] = "unplugged" => v \in clean'
      BY <2>4 DEF Return, Succeed, Fail
    <3>2. Kept'
      BY <2>4, <3>1, OthersStayKept DEF Return, Effect
    <3> QED
      BY <2>4, <3>2 DEF Return
  <2>5. ASSUME NEW v \in Vifs, VmStarts(v) \/ VmStops(v)
        PROVE  KeptInv'
    <3>1. Kept'
      BY <2>5, OthersStayKept DEF VmStarts, VmStops
    <3> QED
      BY <2>5, <3>1 DEF VmStarts, VmStops
  <2>6. CASE Interrupt
    BY <2>6 DEF Interrupt, Kept
  <2>7. CASE Restart
    BY <2>7 DEF Restart, Kept
  <2> QED
    BY <2>1, <2>2, <2>3, <2>4, <2>5, <2>6, <2>7 DEF Next
<1> QED
  BY <1>1, <1>2, PTL DEF Spec, KeptInv
=============================================================================
