------------------------- MODULE MCMessageDelivery --------------------------
(***************************************************************************)
(* A small instance of MessageDelivery for TLC: a command, the same        *)
(* command admitted again as another task, the same key with another       *)
(* target, and a second command of the first stream.                       *)
(***************************************************************************)
EXTENDS MessageDelivery

CONSTANTS first, again, elsewhere, second, idA, idB, keyA, keyB, near, far

Fields(i, k, s, at) ==
  [message_id |-> i, idempotency_key |-> k, target |-> s, created_at |-> at]

SomeEnvelopes ==
  [m \in {first, again, elsewhere, second} |->
     CASE m = first     -> Fields(idA, keyA, near, 1)
       [] m = again     -> Fields(idA, keyA, near, 3)
       [] m = elsewhere -> Fields(idA, keyA, far, 1)
       [] m = second    -> Fields(idB, keyB, near, 2)]

=============================================================================
