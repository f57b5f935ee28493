------------------------ MODULE MCGroupOrchestrator ------------------------
(***************************************************************************)
(* Instances of GroupOrchestrator for TLC: up to three instances whose     *)
(* columns take a few values each, ties and exhausted budgets among them.  *)
(***************************************************************************)
EXTENDS GroupOrchestrator, TLC

CONSTANTS i1, i2, i3

Columns(p, b, d, h) == [priority |-> p, born |-> b, day |-> d, hour |-> h]

(* The third instance stands between the first two in priority and budget, *)
(* or is tied with one of them; the second has no daily budget, the first  *)
(* no hourly budget, or both have some.                                    *)
MixedProfiles ==
  {(i1 :> Columns(p1, 1, 2, h1)) @@ (i2 :> Columns(p2, 2, d2, 1))
     @@ (i3 :> Columns(1, 3, 2, 1)) :
   p1 \in {1, 2}, p2 \in {0, 1}, d2 \in {0, 3}, h1 \in {0, 1}}

(* The defaults of the table: priority 0, so every instance is tied.       *)
DefaultPriorities == {[i \in Instances |-> Columns(0, 1, 2, 1)]}

OneMessageADay == {[i \in Instances |-> Columns(0, 1, 1, 1)]}
=============================================================================
