------------------------------ MODULE SnakeGame ------------------------------
(***************************************************************************)
(* user/snake.c: the loop of the game.  Each turn of it reads the keys that  *)
(* have come, acts on them as the phase allows, makes the ticks that the     *)
(* time since the last turn calls for, and sleeps.  Keys come and time       *)
(* passes at any point.                                                      *)
(***************************************************************************)
EXTENDS SnakeModel, SnakeInput

CONSTANTS
    SNAKE_BASE_TICK_MS, SNAKE_FAST_TICK_MS, SNAKE_FRAME_TIME_CAP_MS,
    SNAKE_DEFAULT_APPLE_COUNT,
    Frames,             \* how long a turn of the loop may take
    MaxEvents           \* KBD_EVENT_QUEUE_CAPACITY

ASSUME GameAssumption ==
    /\ SNAKE_BASE_TICK_MS \in Nat /\ SNAKE_FAST_TICK_MS \in 1..(SNAKE_BASE_TICK_MS - 1)
    /\ SNAKE_FRAME_TIME_CAP_MS \in 0..(SNAKE_FAST_TICK_MS - 1)
    /\ \A key \in DOMAIN DirOf : DirOf[key] \in Dirs
    /\ SNAKE_DEFAULT_APPLE_COUNT \in 1..SNAKE_MAX_APPLES
    /\ Frames \subseteq Nat \ {0} /\ MaxEvents \in Nat \ {0}

VARIABLES
    pc,                 \* "poll", "act", "ticks", "sleep"; "exit"
    phase,              \* "menu", "game", "game_over"
    paused,
    accumulator_ms, tick_ms,
    since,              \* the time now, less last_time_ms
    events, down        \* the kernel's event log; the keys the player holds down

game == <<phase, paused, accumulator_ms, tick_ms, since>>
player == <<events, down>>
allvars == <<dir, body, occupancy, growth_points, apples, obstacles, score, alive, at,
             target_apple_count, held_keys, pending_actions, committed_dir,
             turn_queue_enabled, turn_queue, pc, phase, paused, accumulator_ms, tick_ms,
             since, events, down>>

\* The model is not looked at before the first game.
GameInit ==
    /\ dir = RIGHT /\ body = CenterBody /\ occupancy = Cellset(CenterBody)
    /\ growth_points = <<>> /\ apples = {} /\ obstacles = {} /\ score = 0
    /\ alive = TRUE /\ at = "play"
    /\ held_keys = {} /\ pending_actions = {} /\ committed_dir = RIGHT
    /\ turn_queue_enabled = TRUE /\ turn_queue = <<>>
    /\ target_apple_count = SNAKE_DEFAULT_APPLE_COUNT
    /\ pc = "poll" /\ phase = "menu" /\ paused = FALSE
    /\ accumulator_ms = 0 /\ tick_ms = SNAKE_BASE_TICK_MS /\ since = 0
    /\ events = <<>> /\ down = {}

\* What is more than the cap makes no difference.
Turns == {Lesser(t, SNAKE_FRAME_TIME_CAP_MS + 1) : t \in Frames}

-----------------------------------------------------------------------------
(* The player, through the kernel's log, which forgets its oldest event      *)

Put(key, pressed) ==
    /\ events' = Append(IF Len(events) = MaxEvents THEN Tail(events) ELSE events,
                        [key |-> key, pressed |-> pressed])
    /\ UNCHANGED <<model, target_apple_count, input, pc, game>>

Press(key) == down' = down \cup {key} /\ Put(key, TRUE)      \* or repeat
Release(key) == key \in down /\ down' = down \ {key} /\ Put(key, FALSE)
Player == pc # "exit" /\ \E key \in Keys : Press(key) \/ Release(key)

-----------------------------------------------------------------------------
(* snake_input_poll: until SYS_poll finds nothing                            *)

PollEvent ==
    /\ pc = "poll" /\ at = "play" /\ events # <<>>
    /\ events' = Tail(events)
    /\ Take(Head(events).key, Head(events).pressed)
    /\ UNCHANGED <<model, target_apple_count, pc, game, down>>

PollDone ==
    /\ pc = "poll" /\ at = "play" /\ events = <<>> /\ pc' = "act"
    /\ UNCHANGED <<model, target_apple_count, input, game, player>>

-----------------------------------------------------------------------------
(* What the keys ask for                                                     *)

Asked(action) == action \in pending_actions

\* Mutant: the key is only looked for while a game is on.
QuitInGame ==
    /\ pc = "act" /\ phase = "game" /\ Asked("quit") /\ pc' = "exit"
    /\ UNCHANGED <<model, target_apple_count, input, game, player>>

Quit ==
    /\ pc = "act" /\ Asked("quit") /\ pc' = "exit"
    /\ UNCHANGED <<model, target_apple_count, input, game, player>>

\* snake_start_game: a new game, with the input and the clock started over.
snake_start_game ==
    /\ snake_reset_game
    /\ snake_input_init(RIGHT)
    /\ phase' = "game" /\ paused' = FALSE /\ accumulator_ms' = 0
    /\ since' \in {0} \cup Turns                              \* the screen is drawn
    /\ pc' = "poll"
    /\ UNCHANGED <<tick_ms, player>>

\* Mutant: no upper limit.
AdjustedUnlimited(n) == IF Asked("inc") THEN n + 1 ELSE n
Adjusted(n) ==
    LET fewer == IF Asked("dec") /\ n > 1 THEN n - 1 ELSE n
    IN  IF Asked("inc") /\ fewer < SNAKE_MAX_APPLES THEN fewer + 1 ELSE fewer

Menu ==
    /\ pc = "act" /\ phase = "menu" /\ ~Asked("quit")
    /\ target_apple_count' = Adjusted(target_apple_count)
    /\ IF Asked("restart") \/ Asked("confirm")
       THEN snake_start_game
       ELSE /\ pending_actions' = pending_actions \ {"dec", "inc"}
            /\ pc' = "sleep"
            /\ UNCHANGED <<model, held_keys, committed_dir, turn_queue_enabled, turn_queue,
                           game, player>>

GameOver ==
    /\ pc = "act" /\ phase = "game_over" /\ ~Asked("quit")
    /\ UNCHANGED target_apple_count
    /\ IF Asked("restart") \/ Asked("confirm")
       THEN snake_start_game
       ELSE pc' = "sleep" /\ UNCHANGED <<model, input, game, player>>

RestartGame ==
    /\ pc = "act" /\ phase = "game" /\ ~Asked("quit") /\ Asked("restart")
    /\ snake_start_game
    /\ UNCHANGED target_apple_count

-----------------------------------------------------------------------------
(* A turn of the game: pause, time, ticks                                    *)

TogglePause ==
    /\ paused' = IF Asked("pause") THEN ~paused ELSE paused
    /\ pending_actions' = pending_actions \ {"restart", "pause"}
    /\ IF Asked("pause")
       THEN snake_input_set_turn_queue_enabled(paused)
       ELSE UNCHANGED <<turn_queue_enabled, turn_queue>>
    /\ UNCHANGED <<held_keys, committed_dir>>

\* The time this turn of the loop is given, at most SNAKE_FRAME_TIME_CAP_MS.
elapsed_ms == Lesser(IF Asked("pause") THEN 0 ELSE since, SNAKE_FRAME_TIME_CAP_MS)

\* Mutant: the time that was left over is dropped.
PlayTimeForgets ==
    /\ pc = "act" /\ phase = "game" /\ ~Asked("quit") /\ ~Asked("restart")
    /\ pc' = "ticks"
    /\ TogglePause
    /\ tick_ms' = IF SPEED \in held_keys THEN SNAKE_FAST_TICK_MS ELSE SNAKE_BASE_TICK_MS
    /\ since' = 0
    /\ accumulator_ms' = IF paused' THEN 0 ELSE elapsed_ms
    /\ UNCHANGED <<model, target_apple_count, phase, player>>

PlayTime ==
    /\ pc = "act" /\ phase = "game" /\ ~Asked("quit") /\ ~Asked("restart")
    /\ pc' = "ticks"
    /\ TogglePause
    /\ tick_ms' = IF SPEED \in held_keys THEN SNAKE_FAST_TICK_MS ELSE SNAKE_BASE_TICK_MS
    /\ since' = 0
    /\ accumulator_ms' = (IF Asked("pause") THEN 0 ELSE accumulator_ms)
                         + (IF paused' THEN 0 ELSE elapsed_ms)
    /\ UNCHANGED <<model, target_apple_count, phase, player>>

Due == ~paused /\ alive /\ accumulator_ms >= tick_ms

\* Mutant: the loop stops at a death that is not noted.
TickNowSilent ==
    /\ pc = "ticks" /\ at = "play" /\ Due
    /\ Tick(Popped(dir))
    /\ snake_input_pop_turn(dir)
    /\ accumulator_ms' = IF alive' THEN accumulator_ms - tick_ms ELSE accumulator_ms
    /\ UNCHANGED <<held_keys, pending_actions, turn_queue_enabled, paused, tick_ms, since,
                   phase, pc, player>>

\* One turn of the tick loop; the apples an eaten one calls for come before the
\* next.
TickNow ==
    /\ pc = "ticks" /\ at = "play" /\ Due
    /\ Tick(Popped(dir))
    /\ snake_input_pop_turn(dir)
    /\ accumulator_ms' = IF alive' THEN accumulator_ms - tick_ms ELSE accumulator_ms
    /\ phase' = IF alive' THEN phase ELSE "game_over"
    /\ pc' = IF alive' THEN pc ELSE "sleep"
    /\ UNCHANGED <<held_keys, pending_actions, turn_queue_enabled, paused, tick_ms, since,
                   player>>

TicksDone ==
    /\ pc = "ticks" /\ at = "play" /\ ~Due /\ pc' = "sleep"
    /\ UNCHANGED <<model, target_apple_count, input, game, player>>

\* The loops that place obstacles and apples.
Place ==
    /\ snake_model_spawn_obstacle \/ snake_fill_apples
    /\ UNCHANGED <<input, pc, game, player>>

\* snake_runtime_present and SYS_sleep: the time a turn of the loop takes.
Sleep ==
    /\ pc = "sleep" /\ pc' = "poll"
    /\ \E t \in Turns : since' = Lesser(since + t, SNAKE_FRAME_TIME_CAP_MS + 1)
    /\ UNCHANGED <<model, target_apple_count, input, phase, paused, accumulator_ms, tick_ms,
                   player>>

Loop == PollEvent \/ PollDone \/ Quit \/ Menu \/ GameOver \/ RestartGame \/ PlayTime
        \/ TickNow \/ TicksDone \/ Place \/ Sleep

GameNext == Player \/ Loop

GameSpec == GameInit /\ [][GameNext]_allvars

\* The program runs on, and no one types faster than it reads the keys.
GameFairSpec == GameSpec /\ WF_allvars(Loop) /\ SF_allvars(PollDone)

-----------------------------------------------------------------------------
(* Properties                                                               *)

Pcs == {"poll", "act", "ticks", "sleep", "exit"}

GameTypeOK ==
    /\ pc \in Pcs /\ phase \in {"menu", "game", "game_over"} /\ paused \in BOOLEAN
    /\ target_apple_count \in 1..SNAKE_MAX_APPLES
    /\ tick_ms \in {SNAKE_BASE_TICK_MS, SNAKE_FAST_TICK_MS}
    /\ accumulator_ms \in 0..(SNAKE_BASE_TICK_MS + SNAKE_FRAME_TIME_CAP_MS - 1)
    /\ since \in Nat
    /\ held_keys \subseteq Keys /\ down \subseteq Keys
    /\ turn_queue \in Seq(Dirs) /\ Len(turn_queue) <= SNAKE_INPUT_TURN_QUEUE_CAPACITY
    /\ Len(events) <= MaxEvents

\* However fast the keys come, across pauses, overflows of the queue and new
\* games, the snake never turns around in a tick (snake.md).
NeverReverses == [][pc = "ticks" => ~opposite(dir', dir)]_allvars

\* A pause leaves no turn waiting and no time to make up for: the snake resumes
\* where it stood.
PauseIsClean == paused => turn_queue = <<>> /\ accumulator_ms = 0

\* The game-over screen is shown exactly when the snake is dead.
DeadIsOver == pc # "ticks" => (alive <=> phase # "game_over")

\* A game that is on goes on: short turns of the loop add up to a tick, at either
\* speed, after a pause and after a new game; the snake stays where it is only
\* while the player pauses, starts over or leaves.
GameGoesOn ==
    \A c \in Cells :
        (phase = "game" /\ ~paused /\ body[1] = c)
            ~> (body[1] # c \/ paused \/ phase # "game" \/ Asked("restart") \/ Asked("quit"))

\* The key that leaves the game always does, whatever else was pressed with it.
QuitLeaves == ("quit" \in pending_actions) ~> (pc = "exit")

\* The snake is fast if and only if the space bar is held (snake.md).
FastIffHeld ==
    (phase = "game" /\ pc = "act" /\ events = <<>>) => (SPEED \in held_keys <=> SPEED \in down)
=============================================================================
