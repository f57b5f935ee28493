------------------------------ MODULE LogTail ------------------------------
(***************************************************************************)
(* What the log buffer promises: it holds the last Size entries since the  *)
(* process started, oldest first, and hands them out newest first.         *)
(***************************************************************************)
EXTENDS Naturals, Sequences, FiniteSets

CONSTANTS Entry, Size

VARIABLE tail

Init == tail = <<>>

(* The last n elements of a sequence, all of it when it is shorter.        *)
LastOf(s, n) == IF Len(s) <= n THEN s ELSE SubSeq(s, Len(s) - n + 1, Len(s))

Log(entry) == tail' = LastOf(Append(tail, entry), Size)

Restart == tail' = <<>>

Next == (\E entry \in Entry : Log(entry)) \/ Restart

Spec == Init /\ [][Next]_tail

(* The newest `limit` entries of a level, newest first; all of them when   *)
(* `limit` is 0 or there are no more.                                      *)
Newest(s, level, limit) ==
  LET matching == {i \in DOMAIN s : level = "" \/ s[i].level = level}
      newer(i) == {j \in matching : j > i}
      all == Cardinality(matching)
  IN  [k \in 1..(IF limit = 0 \/ limit > all THEN all ELSE limit) |->
         s[CHOOSE i \in matching : Cardinality(newer(i)) = k - 1]]
=============================================================================
