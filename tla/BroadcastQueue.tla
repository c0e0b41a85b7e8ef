--------------------------- MODULE BroadcastQueue ---------------------------
(***************************************************************************)
(* What the shared-memory ring of shm_broadcast.py promises: one writer    *)
(* appends to a log, every reader walks it from the start, one object at a *)
(* time, skipping and repeating nothing, and the writer is never more than *)
(* Capacity objects ahead of the slowest reader.                           *)
(***************************************************************************)
EXTENDS Naturals

CONSTANTS Consumers, Capacity

VARIABLES
  tail,     \* objects appended
  position  \* position[r]: objects reader r is done with

Init == tail = 0 /\ position = [r \in Consumers |-> 0]

Append1 ==
  /\ \A r \in Consumers : tail - position[r] < Capacity
  /\ tail' = tail + 1
  /\ UNCHANGED position

Advance(r) ==
  /\ position[r] < tail
  /\ position' = [position EXCEPT ![r] = @ + 1]
  /\ UNCHANGED tail

Next == Append1 \/ \E r \in Consumers : Advance(r)

Spec == Init /\ [][Next]_<<tail, position>>
=============================================================================
