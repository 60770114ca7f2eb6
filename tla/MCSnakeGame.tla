----------------------------- MODULE MCSnakeGame -----------------------------
(* A field of four cells, and the keys of one question at a time.            *)
EXTENDS SnakeGame

\* Two of the four directions make every turn and every reversal.
Directions == [w |-> UP, s |-> DOWN, d |-> RIGHT]
NoDirections == [k \in {} |-> UP]

TurnActions == [p |-> {"pause"}, r |-> {"restart"}, d |-> {"inc"}]
LoopActions == [p |-> {"pause"}, q |-> {"quit"}, ret |-> {"confirm"}]
SpeedActions == [r |-> {"restart"}]
=============================================================================
