--------------------------- MODULE MCRepresentor ---------------------------
(***************************************************************************)
(* A card with two PFs on one switch, whose representors are children of   *)
(* their PF and are named pfXvfY, and an older card with one PF, whose     *)
(* representors have no parent and are named by the VF number.  The uplink *)
(* of the second PF, in another network namespace, is not among the        *)
(* devices; the VF asked for shares its number with a VF of that PF, with  *)
(* an SF of its own and with the VF of the other card.                     *)
(***************************************************************************)
EXTENDS Representor

MCPfs  == {"a0", "a1", "b0"}
MCCard == [f \in MCPfs |-> IF f = "b0" THEN "B" ELSE "A"]
MCFunc == [f \in MCPfs |-> IF f = "a1" THEN 1 ELSE 0]
MCVfs  == [pf : {"a0", "b0"}, num : {0}]
MCNetdevs ==
  [kind : {"uplink", "vf"}, pf : {"a0", "b0"}, num : {0}]
    \cup {[kind |-> "vf", pf |-> "a0", num |-> 1],
          [kind |-> "vf", pf |-> "a1", num |-> 0],
          [kind |-> "sf", pf |-> "a0", num |-> 0]}
=============================================================================
