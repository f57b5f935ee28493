--------------------------- MODULE RecipientLedger ---------------------------
(***************************************************************************)
(* What a broadcast promises about its recipients, without workers, pauses *)
(* or a dispatcher: rows are accepted together, a recipient may be written *)
(* to any number of times (delivery is at least once, not exactly once),   *)
(* and a row settles, never to be pending again, as 'sent' only after a    *)
(* message for it has gone out.                                            *)
(***************************************************************************)
CONSTANT Recipients

VARIABLES
  row,        \* broadcast_recipients.status
  delivered   \* the recipients some message has gone out to

vars == <<row, delivered>>

Init ==
  /\ row = [r \in Recipients |-> "absent"]
  /\ delivered = {}

Accept ==
  /\ \A r \in Recipients : row[r] = "absent"
  /\ row' = [r \in Recipients |-> "pending"]
  /\ UNCHANGED delivered

Deliver(r) ==
  /\ row[r] # "absent"
  /\ delivered' = delivered \cup {r}
  /\ UNCHANGED row

Settle(r) ==
  /\ row[r] # "absent"
  /\ \/ r \in delivered /\ row' = [row EXCEPT ![r] = "sent"]
     \/ row' = [row EXCEPT ![r] = "failed"]
  /\ UNCHANGED delivered

Next == Accept \/ \E r \in Recipients : Deliver(r) \/ Settle(r)

Spec == Init /\ [][Next]_vars
=============================================================================
