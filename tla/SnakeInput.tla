----------------------------- MODULE SnakeInput -----------------------------
(***************************************************************************)
(* user/snake_game/snake_input.c: what the game remembers of the keys.  It   *)
(* reads the kernel's event log (EventLog) one SYS_poll at a time, turns     *)
(* presses into pending actions and a queue of turns, and tracks the keys    *)
(* that are held.  The game loop that calls it is SnakeGame.                 *)
(***************************************************************************)
EXTENDS Integers, Sequences

CONSTANTS SNAKE_INPUT_TURN_QUEUE_CAPACITY,
          DirOf,      \* direction keys -> direction
          ActionsOf,  \* key -> the actions pressing it asks for
          SPEED,      \* the space bar
          Keys        \* the keys the player uses

ASSUME InputAssumption ==
    /\ SNAKE_INPUT_TURN_QUEUE_CAPACITY \in Nat \ {0}
    /\ DOMAIN DirOf \subseteq Keys /\ DOMAIN ActionsOf \subseteq Keys
    /\ SPEED \notin DOMAIN DirOf

VARIABLES held_keys, pending_actions, committed_dir, turn_queue_enabled, turn_queue

input == <<held_keys, pending_actions, committed_dir, turn_queue_enabled, turn_queue>>

opposite(a, b) == (a - b) % 4 = 2            \* snake_input_is_opposite: a ^ b = 2

\* Mutant: a turn is compared with the direction of the last tick only.
tail_dir_Committed == committed_dir
tail_dir ==
    IF turn_queue = <<>> THEN committed_dir ELSE turn_queue[Len(turn_queue)]

Enqueued(d) ==                               \* snake_input_enqueue_turn
    IF /\ turn_queue_enabled
       /\ d # tail_dir /\ ~opposite(d, tail_dir)
       /\ Len(turn_queue) < SNAKE_INPUT_TURN_QUEUE_CAPACITY
    THEN Append(turn_queue, d) ELSE turn_queue

Tracked(key) == key \in DOMAIN DirOf \/ key = SPEED

\* One event of snake_input_poll.
Take(key, pressed) ==
    /\ held_keys' = IF ~Tracked(key) THEN held_keys
                    ELSE IF pressed THEN held_keys \cup {key} ELSE held_keys \ {key}
    /\ pending_actions' = IF pressed /\ key \in DOMAIN ActionsOf
                          THEN pending_actions \cup ActionsOf[key] ELSE pending_actions
    /\ turn_queue' = IF pressed /\ key \in DOMAIN DirOf THEN Enqueued(DirOf[key]) ELSE turn_queue
    /\ UNCHANGED <<committed_dir, turn_queue_enabled>>

snake_input_init(d) ==
    /\ held_keys' = {} /\ pending_actions' = {} /\ committed_dir' = d
    /\ turn_queue_enabled' = TRUE /\ turn_queue' = <<>>

Popped(d) == IF turn_queue = <<>> THEN d ELSE Head(turn_queue)
snake_input_pop_turn(d) ==
    IF turn_queue = <<>> THEN UNCHANGED <<turn_queue, committed_dir>>
    ELSE turn_queue' = Tail(turn_queue) /\ committed_dir' = Popped(d)

\* Mutant: pausing leaves the queue as it is.
EnableOnly(enabled) == turn_queue_enabled' = enabled /\ UNCHANGED turn_queue

snake_input_set_turn_queue_enabled(enabled) ==
    /\ turn_queue_enabled' = enabled
    /\ turn_queue' = IF enabled THEN turn_queue ELSE <<>>
=============================================================================
