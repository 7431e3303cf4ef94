----------------------------- MODULE BoundedFifo -----------------------------
(***************************************************************************)
(* What a BoundedQueue promises its users (docs/BOUNDED_QUEUE_V1.md): a    *)
(* first-in first-out queue of fixed capacity whose operations take effect *)
(* at one instant, refuse at the limits and never wait.                    *)
(***************************************************************************)
EXTENDS Integers, Sequences

CONSTANTS Capacity, Values

VARIABLE items

FifoInit == items = << >>

Accept(v) == Len(items) < Capacity /\ items' = Append(items, v)
Deliver == items # << >> /\ items' = Tail(items)

FifoNext == Deliver \/ \E v \in Values : Accept(v)
FifoSpec == FifoInit /\ [][FifoNext]_items
=============================================================================
