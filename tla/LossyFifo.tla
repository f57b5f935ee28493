----------------------------- MODULE LossyFifo -----------------------------
(***************************************************************************)
(* What the webhook emitter promises: it posts no event that it has not    *)
(* accepted, it posts events in the order in which it accepted them, some  *)
(* not at all, and none more often than there are attempts.                *)
(***************************************************************************)
EXTENDS Naturals, SequencesExt

CONSTANTS Events, Attempts

VARIABLES
  accepted,      \* the events taken for delivery, in order
  posted         \* the requests sent to receivers, in order

Init == accepted = <<>> /\ posted = <<>>

Accept(e) ==
  /\ ~Contains(accepted, e)
  /\ accepted' = Append(accepted, e)
  /\ UNCHANGED posted

Place(e) == CHOOSE n \in DOMAIN accepted : accepted[n] = e
Posted(e) == Cardinality({n \in DOMAIN posted : posted[n] = e})

Post(e) ==
  /\ Contains(accepted, e)
  /\ Posted(e) < Attempts
  /\ posted # <<>> => Place(Last(posted)) <= Place(e)
  /\ posted' = Append(posted, e)
  /\ UNCHANGED accepted

Next == \E e \in Events : Accept(e) \/ Post(e)

Spec == Init /\ [][Next]_<<accepted, posted>>
=============================================================================
