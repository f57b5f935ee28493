------------------------- MODULE MCInstanceLifecycle -------------------------
(***************************************************************************)
(* Instances of InstanceLifecycle for TLC.  Connections and requests are   *)
(* interchangeable; the runs of safety properties use their symmetry.      *)
(***************************************************************************)
EXTENDS InstanceLifecycle, TLC

Symmetry == Permutations(Conns) \cup Permutations(Requests)
=============================================================================
