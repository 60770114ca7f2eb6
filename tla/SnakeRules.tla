----------------------------- MODULE SnakeRules -----------------------------
(***************************************************************************)
(* The rules of the game (snake.md) without the program's bookkeeping: a    *)
(* path of cells on a torus that moves one cell per tick, dies of itself    *)
(* and of obstacles, and leaves its tail in place once for each apple it    *)
(* has eaten, when the tail gets there.                                     *)
(***************************************************************************)
EXTENDS Naturals, Sequences

CONSTANTS Cells, Dirs,
          Neighbour(_, _),  \* Neighbour(c, d): the cell reached from c in direction d
          Longest           \* how many cells there are

VARIABLES snake,      \* head first
          eaten,      \* cells of eaten apples the tail has not reached yet, in order
          apples, walls, alive

vars == <<snake, eaten, apples, walls, alive>>

Cellset(path) == {path[i] : i \in DOMAIN path}
But(path) == SubSeq(path, 1, Len(path) - 1)

\* The tail is about to reach the cell of the apple eaten first.
Grows ==
    /\ eaten # <<>> /\ 1 < Len(snake) /\ Len(snake) < Longest
    /\ snake[Len(snake) - 1] = Head(eaten)
Rest == IF Grows THEN snake ELSE But(snake)

Init == Len(snake) > 0 /\ eaten = <<>> /\ alive = TRUE

\* Apples and obstacles appear only where there is nothing.
Free(c) == c \in Cells \ (Cellset(snake) \cup apples \cup walls)

Grow(c) == Free(c) /\ apples' = apples \cup {c} /\ UNCHANGED <<snake, eaten, walls, alive>>
Build(c) == Free(c) /\ walls' = walls \cup {c} /\ UNCHANGED <<snake, eaten, apples, alive>>

Move(d) ==
    LET next == Neighbour(snake[1], d)
    IN  /\ alive
        /\ next \notin walls \cup Cellset(Rest)
        /\ snake' = <<next>> \o Rest
        /\ eaten' = (IF Grows THEN Tail(eaten) ELSE eaten)
                    \o (IF next \in apples THEN <<next>> ELSE <<>>)
        /\ apples' = apples \ {next}
        /\ UNCHANGED <<walls, alive>>

Die(d) ==
    /\ alive
    /\ Neighbour(snake[1], d) \in walls \cup Cellset(Rest)
    /\ alive' = FALSE
    /\ UNCHANGED <<snake, eaten, apples, walls>>

\* A new game.
Restart == Len(snake') > 0 /\ eaten' = <<>> /\ apples' = {} /\ walls' = {} /\ alive' = TRUE

Next ==
    \/ \E c \in Cells : Grow(c) \/ Build(c)
    \/ \E d \in Dirs : Move(d) \/ Die(d)
    \/ Restart

Spec == Init /\ [][Next]_vars
=============================================================================
