------------------------------ MODULE LogRing ------------------------------
(***************************************************************************)
(* The ring buffer behind the logs endpoint (pkg/logger/buffer.go): Write  *)
(* and Entries run under the buffer's lock, so each is one operator on its *)
(* state.  An entry is a record with a level; a slot that was never written*)
(* holds NoEntry.                                                          *)
(***************************************************************************)
EXTENDS Integers, Sequences

CONSTANTS
  Entry,       \* what may be logged
  NoEntry,     \* Go's zero LogEntry
  Size         \* the buffer's length; 500 in the code

ASSUME RingAssumption == Size \in Nat \ {0} /\ NoEntry \notin Entry

Slots == 0..(Size - 1)

Ring == [entries : [Slots -> Entry \cup {NoEntry}], cursor : Slots, count : 0..Size]

NewRingBuffer == [entries |-> [i \in Slots |-> NoEntry], cursor |-> 0, count |-> 0]

(* Mutant: the cursor stays at the last slot instead of wrapping.          *)
Write_NoWrap(ring, entry) ==
  [entries |-> [ring.entries EXCEPT ![ring.cursor] = entry],
   cursor |-> IF ring.cursor + 1 < Size THEN ring.cursor + 1 ELSE ring.cursor,
   count |-> IF ring.count < Size THEN ring.count + 1 ELSE ring.count]

Write(ring, entry) ==
  [entries |-> [ring.entries EXCEPT ![ring.cursor] = entry],
   cursor |-> (ring.cursor + 1) % Size,
   count |-> IF ring.count < Size THEN ring.count + 1 ELSE ring.count]

(* Mutant: the oldest entry is looked for at the cursor, full or not.      *)
Start_Cursor(ring) == ring.cursor

(* Where the oldest entry is.                                              *)
Start(ring) == (ring.cursor - ring.count + Size) % Size

(* The loop of Entries goes down from the newest entry, and stops taking   *)
(* when it has `limit` of them; 0 or too many means all there are.         *)
(* result[i] is what it has taken after i entries.                         *)
Entries(ring, level, limit) ==
  LET most == IF limit <= 0 \/ limit > ring.count THEN ring.count ELSE limit
      entry(i) == ring.entries[(Start(ring) + (ring.count - i)) % Size]
      result[i \in 0..ring.count] ==
        IF i = 0 THEN <<>>
        ELSE IF Len(result[i - 1]) >= most \/ (level # "" /\ entry(i).level # level)
        THEN result[i - 1]
        ELSE Append(result[i - 1], entry(i))
  IN  result[ring.count]

(* What the ring holds, oldest first: the count slots before the cursor.   *)
Held(ring) ==
  [n \in 1..ring.count |-> ring.entries[(ring.cursor + (Size - ring.count) + (n - 1)) % Size]]
=============================================================================
