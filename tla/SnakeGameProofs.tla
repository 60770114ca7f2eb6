--------------------------- MODULE SnakeGameProofs --------------------------
(***************************************************************************)
(* The game loop for every field, every speed and any number of keys in     *)
(* flight: the snake never turns around, a pause keeps nothing, the field   *)
(* holds what SnakeProofs and SnakeScreenProofs show of it, and the program *)
(* as a whole plays by the rules of the game.                               *)
(***************************************************************************)
EXTENDS SnakeGame, SnakeScreenProofs

\* The turns that wait form a path without a reversal, from the direction of the
\* last tick on.
Chain ==
    /\ turn_queue # <<>> => ~opposite(turn_queue[1], committed_dir)
    /\ \A i \in 1..(Len(turn_queue) - 1) : ~opposite(turn_queue[i + 1], turn_queue[i])

InputOK ==
    /\ held_keys \subseteq Keys /\ down \subseteq Keys
    /\ turn_queue_enabled \in BOOLEAN /\ committed_dir \in Dirs
    /\ turn_queue \in Seq(Dirs) /\ Len(turn_queue) <= SNAKE_INPUT_TURN_QUEUE_CAPACITY
    /\ events \in Seq([key : Keys, pressed : BOOLEAN]) /\ Len(events) <= MaxEvents

\* The direction committed to is the snake's until it dies: a tick that kills pops
\* the turn and leaves the snake as it was.
PhaseOK ==
    /\ pc \in Pcs /\ phase \in {"menu", "game", "game_over"} /\ paused \in BOOLEAN
    /\ pc = "ticks" => phase = "game"
    /\ alive <=> phase # "game_over"
    /\ alive => committed_dir = dir
    /\ paused => turn_queue = <<>> /\ turn_queue_enabled = FALSE /\ accumulator_ms = 0

\* Between the turns of the loop less than a tick is left over.
TimeOK ==
    /\ since \in Nat /\ tick_ms \in {SNAKE_BASE_TICK_MS, SNAKE_FAST_TICK_MS}
    /\ accumulator_ms \in 0..(SNAKE_BASE_TICK_MS + SNAKE_FRAME_TIME_CAP_MS - 1)
    /\ pc # "ticks" /\ alive => accumulator_ms < SNAKE_BASE_TICK_MS

GInv == Inv /\ Chain /\ InputOK /\ PhaseOK /\ TimeOK

-----------------------------------------------------------------------------
LEMMA Times ==
    /\ SNAKE_BASE_TICK_MS \in Nat /\ SNAKE_FAST_TICK_MS \in Nat /\ SNAKE_FRAME_TIME_CAP_MS \in Nat
    /\ 0 < SNAKE_FAST_TICK_MS /\ SNAKE_FAST_TICK_MS < SNAKE_BASE_TICK_MS
    /\ SNAKE_DEFAULT_APPLE_COUNT \in 1..SNAKE_MAX_APPLES
    /\ SNAKE_INPUT_TURN_QUEUE_CAPACITY \in Nat \ {0} /\ MaxEvents \in Nat \ {0}
<1>1. /\ SNAKE_BASE_TICK_MS \in Nat /\ SNAKE_FAST_TICK_MS \in 1..(SNAKE_BASE_TICK_MS - 1)
      /\ SNAKE_FRAME_TIME_CAP_MS \in 0..(SNAKE_FAST_TICK_MS - 1)
  BY GameAssumption
<1> QED BY <1>1, GameAssumption, InputAssumption

LEMMA SumBelow ==
    ASSUME NEW b \in Nat, NEW c \in Nat, NEW m \in 0..(b - 1), NEW n \in 0..c
    PROVE  m + n \in 0..(b + c - 1)
OBVIOUS

LEMMA TurnsAreTimes == Turns \subseteq Nat
<1>1. Frames \subseteq Nat
  BY GameAssumption
<1> QED BY <1>1, Times DEF Turns, Lesser

LEMMA NewFieldInv ==
    ASSUME snake_reset_game, NEW n, target_apple_count' = n, n \in 1..SNAKE_MAX_APPLES
    PROVE  Inv'
<1>1. /\ body' \in Seq(Cells) /\ body' # <<>> /\ Distinct(body') /\ occupancy' = Cellset(body')
  BY CenterBodyIsPath DEF snake_reset_game
<1>2. growth_points' \in Seq(Cells) /\ Len(growth_points') <= SNAKE_MAX_LENGTH
  BY FieldSize DEF snake_reset_game
<1>3. Apart'
  BY DEF snake_reset_game, Apart
<1> QED BY <1>1, <1>2, <1>3 DEF snake_reset_game, Inv, Dirs

LEMMA GameInitInv == GameInit => GInv
<1> SUFFICES ASSUME GameInit PROVE GInv
  OBVIOUS
<1>1. Inv
  <2>1. /\ body \in Seq(Cells) /\ body # <<>> /\ Distinct(body) /\ occupancy = Cellset(body)
    BY CenterBodyIsPath DEF GameInit
  <2>2. growth_points \in Seq(Cells) /\ Len(growth_points) <= SNAKE_MAX_LENGTH
    BY FieldSize DEF GameInit
  <2>3. Apart
    BY DEF GameInit, Apart
  <2> QED BY <2>1, <2>2, <2>3, Times DEF GameInit, Inv, Dirs
<1>2. Chain
  BY DEF GameInit, Chain
<1>3. InputOK
  BY Times DEF GameInit, InputOK, Dirs
<1>4. PhaseOK
  BY DEF GameInit, PhaseOK, Pcs
<1>5. TimeOK
  BY Times DEF GameInit, TimeOK
<1> QED BY <1>1, <1>2, <1>3, <1>4, <1>5 DEF GInv

-----------------------------------------------------------------------------
(* The queue of turns                                                        *)

\* A turn is queued only if it does not reverse the one before it.
LEMMA ChainGrows ==
    ASSUME Chain, InputOK, NEW d \in Dirs, turn_queue' = Enqueued(d),
           UNCHANGED committed_dir
    PROVE  /\ Chain'
           /\ turn_queue' \in Seq(Dirs) /\ Len(turn_queue') <= SNAKE_INPUT_TURN_QUEUE_CAPACITY
           /\ turn_queue_enabled = FALSE => turn_queue' = turn_queue
<1>1. CASE turn_queue' = turn_queue
  BY <1>1 DEF Chain, InputOK
<1>2. CASE turn_queue' # turn_queue
  <2>1. /\ turn_queue_enabled /\ ~opposite(d, tail_dir)
        /\ Len(turn_queue) < SNAKE_INPUT_TURN_QUEUE_CAPACITY
        /\ turn_queue' = Append(turn_queue, d)
    BY <1>2 DEF Enqueued
  <2>2. PICK n \in Nat : n = Len(turn_queue) /\ turn_queue \in Seq(Dirs)
    BY DEF InputOK
  <2>3. /\ turn_queue' \in Seq(Dirs) /\ Len(turn_queue') = n + 1 /\ turn_queue'[n + 1] = d
        /\ \A i \in 1..n : turn_queue'[i] = turn_queue[i]
    BY <2>1, <2>2, AppendProperties
  <2>4. ASSUME turn_queue' # <<>> PROVE ~opposite(turn_queue'[1], committed_dir)
    <3>1. CASE n = 0
      BY <2>1, <2>2, <2>3, <3>1, EmptySeq DEF tail_dir
    <3>2. CASE n # 0
      <4>1. turn_queue # <<>> /\ 1 \in 1..n
        BY <2>2, <3>2
      <4> QED BY <2>3, <4>1 DEF Chain
    <3> QED BY <3>1, <3>2
  <2>5. ASSUME NEW i \in 1..n PROVE ~opposite(turn_queue'[i + 1], turn_queue'[i])
    <3>1. CASE i = n
      <4>1. turn_queue # <<>>
        BY <2>2, <3>1
      <4>2. tail_dir = turn_queue[n]
        BY <2>2, <4>1 DEF tail_dir
      <4> QED BY <2>1, <2>3, <3>1, <4>2
    <3>2. CASE i # n
      <4>1. i \in 1..(n - 1) /\ i + 1 \in 1..n
        BY <3>2
      <4>2. ~opposite(turn_queue[i + 1], turn_queue[i])
        BY <2>2, <4>1 DEF Chain
      <4> QED BY <2>3, <4>1, <4>2
    <3> QED BY <3>1, <3>2
  <2>6. (n + 1) - 1 = n
    BY <2>2
  <2>7. Chain'
    BY <2>3, <2>4, <2>5, <2>6 DEF Chain
  <2>8. Len(turn_queue') <= SNAKE_INPUT_TURN_QUEUE_CAPACITY
    BY <2>1, <2>2, <2>3, Times
  <2> QED BY <2>1, <2>3, <2>7, <2>8
<1> QED BY <1>1, <1>2

\* The turn taken does not reverse the snake, and the rest goes on from it.
LEMMA ChainPops ==
    ASSUME Chain, InputOK, committed_dir = dir, snake_input_pop_turn(dir)
    PROVE  /\ Chain' /\ Popped(dir) \in Dirs /\ committed_dir' = Popped(dir)
           /\ turn_queue' \in Seq(Dirs) /\ Len(turn_queue') <= SNAKE_INPUT_TURN_QUEUE_CAPACITY
           /\ ~opposite(Popped(dir), dir)
<1>1. CASE turn_queue = <<>>
  <2>1. UNCHANGED <<turn_queue, committed_dir>> /\ Popped(dir) = dir
    BY <1>1 DEF snake_input_pop_turn, Popped
  <2>2. ~opposite(dir, dir)
    BY DEF opposite, InputOK, Dirs, UP, RIGHT, DOWN, LEFT
  <2> QED BY <2>1, <2>2 DEF Chain, InputOK
<1>2. CASE turn_queue # <<>>
  <2>1. turn_queue' = Tail(turn_queue) /\ committed_dir' = Head(turn_queue) /\ Popped(dir) = Head(turn_queue)
    BY <1>2 DEF snake_input_pop_turn, Popped
  <2>2. PICK n \in Nat : n = Len(turn_queue) /\ turn_queue \in Seq(Dirs)
    BY DEF InputOK
  <2>3. /\ Head(turn_queue) = turn_queue[1] /\ Head(turn_queue) \in Dirs
        /\ turn_queue' \in Seq(Dirs) /\ Len(turn_queue') = n - 1
        /\ \A i \in 1..(n - 1) : turn_queue'[i] = turn_queue[i + 1]
    BY <1>2, <2>1, <2>2, HeadTailProperties
  <2>4. ASSUME turn_queue' # <<>> PROVE ~opposite(turn_queue'[1], committed_dir')
    <3>1. n - 1 # 0
      BY <2>3, <2>4, EmptySeq
    <3>2. 1 \in 1..(n - 1) /\ 1 + 1 = 2
      BY <2>2, <2>3, <3>1
    <3> QED BY <2>1, <2>2, <2>3, <3>2 DEF Chain
  <2>5. ASSUME NEW i \in 1..((n - 1) - 1) PROVE ~opposite(turn_queue'[i + 1], turn_queue'[i])
    <3>1. i \in 1..(n - 1) /\ i + 1 \in 1..(n - 1)
      OBVIOUS
    <3>2. turn_queue'[i] = turn_queue[i + 1] /\ turn_queue'[i + 1] = turn_queue[(i + 1) + 1]
      BY <2>3, <3>1
    <3>3. ~opposite(turn_queue[(i + 1) + 1], turn_queue[i + 1])
      BY <2>2, <3>1 DEF Chain
    <3> QED BY <3>2, <3>3
  <2>6. Chain'
    BY <2>3, <2>4, <2>5 DEF Chain
  <2>7. ~opposite(Popped(dir), dir)
    BY <1>2, <2>1, <2>3 DEF Chain
  <2>8. Len(turn_queue') <= SNAKE_INPUT_TURN_QUEUE_CAPACITY
    <3>1. n <= SNAKE_INPUT_TURN_QUEUE_CAPACITY
      BY <2>2 DEF InputOK
    <3> QED BY <2>3, <3>1, Times
  <2> QED BY <2>1, <2>3, <2>6, <2>7, <2>8
<1> QED BY <1>1, <1>2

-----------------------------------------------------------------------------
(* One action at a time                                                      *)

LEMMA SameField == Inv /\ UNCHANGED <<model, target_apple_count>> => Inv'
BY DEF model, Inv, Apart

LEMMA SameInput ==
    ASSUME Chain, InputOK, UNCHANGED <<input, player>>
    PROVE  Chain' /\ InputOK'
BY DEF Chain, InputOK, input, player

LEMMA PlayerInv == GInv /\ Player => GInv'
<1> SUFFICES ASSUME GInv, Player PROVE GInv'
  OBVIOUS
<1>1. PICK key \in Keys, pressed \in BOOLEAN :
          Put(key, pressed) /\ (down' = down \cup {key} \/ down' = down \ {key})
  BY DEF Player, Press, Release
<1>2. UNCHANGED <<model, target_apple_count, input, pc, game>>
  BY <1>1 DEF Put
<1>3. events' \in Seq([key : Keys, pressed : BOOLEAN]) /\ Len(events') <= MaxEvents
  <2> DEFINE Events == [key : Keys, pressed : BOOLEAN]
             e == [key |-> key, pressed |-> pressed]
             kept == IF Len(events) = MaxEvents THEN Tail(events) ELSE events
  <2>1. e \in Events
    OBVIOUS
  <2>2. events' = Append(kept, e)
    BY <1>1 DEF Put
  <2>3. events \in Seq(Events) /\ Len(events) <= MaxEvents
    BY DEF GInv, InputOK
  <2> HIDE DEF e, Events
  <2>4. kept \in Seq(Events) /\ Len(kept) < MaxEvents /\ Len(kept) \in Nat
    <3>1. CASE Len(events) = MaxEvents
      <4>1. events # <<>>
        BY <3>1, Times
      <4>2. Tail(events) \in Seq(Events) /\ Len(Tail(events)) = Len(events) - 1
        BY <2>3, <4>1, HeadTailProperties
      <4>3. Len(Tail(events)) \in Nat
        BY <4>2
      <4> QED BY <3>1, <4>2, <4>3, Times
    <3>2. CASE Len(events) # MaxEvents
      <4>1. Len(events) \in Nat
        BY <2>3
      <4> QED BY <2>3, <3>2, <4>1, Times
    <3> QED BY <3>1, <3>2
  <2> HIDE DEF kept
  <2>5. Append(kept, e) \in Seq(Events) /\ Len(Append(kept, e)) = Len(kept) + 1
    BY <2>1, <2>4, AppendProperties
  <2>6. Len(events') <= MaxEvents
    BY <2>2, <2>4, <2>5, Times
  <2> QED BY <2>2, <2>5, <2>6 DEF Events
<1>4. Inv'
  BY <1>2, SameField DEF GInv
<1>5. Chain' /\ InputOK'
  BY <1>1, <1>2, <1>3 DEF GInv, Chain, InputOK, input
<1>6. PhaseOK' /\ TimeOK'
  BY <1>2 DEF GInv, PhaseOK, TimeOK, input, game, model
<1> QED BY <1>4, <1>5, <1>6 DEF GInv

LEMMA PollInv == GInv /\ (PollEvent \/ PollDone) => GInv'
<1> SUFFICES ASSUME GInv, PollEvent \/ PollDone PROVE GInv'
  OBVIOUS
<1>1. CASE PollEvent
  <2>1. PICK key \in Keys, pressed \in BOOLEAN : Take(key, pressed)
    <3>1. Head(events) \in [key : Keys, pressed : BOOLEAN]
      BY <1>1, HeadTailProperties DEF PollEvent, GInv, InputOK
    <3>2. Take(Head(events).key, Head(events).pressed)
      BY <1>1 DEF PollEvent
    <3> QED BY <3>1, <3>2
  <2>2. UNCHANGED <<model, target_apple_count, pc, game, down>>
    BY <1>1 DEF PollEvent
  <2>3. events' \in Seq([key : Keys, pressed : BOOLEAN]) /\ Len(events') <= MaxEvents
    <3> DEFINE Events == [key : Keys, pressed : BOOLEAN]
    <3>1. events \in Seq(Events) /\ Len(events) <= MaxEvents /\ events # <<>> /\ events' = Tail(events)
      BY <1>1 DEF PollEvent, GInv, InputOK
    <3> HIDE DEF Events
    <3>2. events' \in Seq(Events) /\ Len(events') = Len(events) - 1 /\ Len(events) \in Nat
      BY <3>1, HeadTailProperties
    <3>3. Len(events') <= MaxEvents
      BY <3>1, <3>2, Times
    <3> QED BY <3>2, <3>3 DEF Events
  <2>4. held_keys' \subseteq Keys
    BY <2>1 DEF Take, GInv, InputOK
  <2>5. UNCHANGED <<committed_dir, turn_queue_enabled>>
    BY <2>1 DEF Take
  <2>6. /\ Chain' /\ turn_queue' \in Seq(Dirs)
        /\ Len(turn_queue') <= SNAKE_INPUT_TURN_QUEUE_CAPACITY
        /\ turn_queue_enabled = FALSE => turn_queue' = turn_queue
    <3>1. CASE pressed /\ key \in DOMAIN DirOf
      <4>1. turn_queue' = Enqueued(DirOf[key]) /\ DirOf[key] \in Dirs
        BY <2>1, <3>1, GameAssumption DEF Take
      <4> QED BY <2>5, <4>1, ChainGrows DEF GInv
    <3>2. CASE ~(pressed /\ key \in DOMAIN DirOf)
      <4>1. turn_queue' = turn_queue
        BY <2>1, <3>2 DEF Take
      <4> QED BY <2>5, <4>1 DEF GInv, Chain, InputOK
    <3> QED BY <3>1, <3>2
  <2>7. Inv'
    BY <2>2, SameField DEF GInv
  <2>8. InputOK'
    BY <2>2, <2>3, <2>4, <2>5, <2>6 DEF GInv, InputOK
  <2>9. PhaseOK'
    BY <2>2, <2>5, <2>6 DEF GInv, PhaseOK, game, model
  <2>10. TimeOK'
    BY <2>2 DEF GInv, TimeOK, game, model
  <2> QED BY <2>6, <2>7, <2>8, <2>9, <2>10 DEF GInv
<1>2. CASE PollDone
  <2>1. UNCHANGED <<model, target_apple_count, input, game, player>> /\ pc = "poll" /\ pc' = "act"
    BY <1>2 DEF PollDone
  <2>2. PhaseOK' /\ TimeOK'
    BY <2>1 DEF GInv, PhaseOK, TimeOK, input, game, model, Pcs
  <2> QED BY <2>1, <2>2, SameField, SameInput DEF GInv
<1> QED BY <1>1, <1>2

\* A new game starts with nothing left of the last one.
LEMMA StartInv ==
    ASSUME GInv, snake_start_game, NEW n, target_apple_count' = n, n \in 1..SNAKE_MAX_APPLES
    PROVE  GInv'
<1>1. Inv'
  BY NewFieldInv DEF snake_start_game
<1>2. /\ held_keys' = {} /\ committed_dir' = RIGHT /\ turn_queue_enabled' = TRUE
      /\ turn_queue' = <<>> /\ UNCHANGED <<tick_ms, player>>
  BY DEF snake_start_game, snake_input_init
<1>3. /\ phase' = "game" /\ paused' = FALSE /\ accumulator_ms' = 0
      /\ since' \in {0} \cup Turns /\ pc' = "poll" /\ dir' = RIGHT /\ alive' = TRUE
  BY DEF snake_start_game, snake_reset_game
<1>4. Chain' /\ InputOK'
  BY <1>2, Times DEF GInv, Chain, InputOK, player, Dirs
<1>5. PhaseOK'
  BY <1>2, <1>3 DEF PhaseOK, Pcs
<1>6. TimeOK'
  <2>1. since' \in Nat
    BY <1>3, TurnsAreTimes
  <2> QED BY <1>2, <1>3, <2>1, Times DEF GInv, TimeOK
<1> QED BY <1>1, <1>4, <1>5, <1>6 DEF GInv

LEMMA AdjustedInRange ==
    ASSUME NEW n \in 1..SNAKE_MAX_APPLES
    PROVE  Adjusted(n) \in 1..SNAKE_MAX_APPLES
<1>1. SNAKE_MAX_APPLES \in Nat
  BY FieldAssumption
<1> QED BY <1>1 DEF Adjusted

LEMMA ScreensInv == GInv /\ (Quit \/ Menu \/ GameOver \/ RestartGame) => GInv'
<1> SUFFICES ASSUME GInv, Quit \/ Menu \/ GameOver \/ RestartGame PROVE GInv'
  OBVIOUS
<1>1. target_apple_count \in 1..SNAKE_MAX_APPLES
  BY DEF GInv, Inv
<1>2. CASE Quit
  <2>1. UNCHANGED <<model, target_apple_count, input, game, player>> /\ pc = "act" /\ pc' = "exit"
    BY <1>2 DEF Quit
  <2>2. PhaseOK' /\ TimeOK'
    BY <2>1 DEF GInv, PhaseOK, TimeOK, input, game, model, Pcs
  <2> QED BY <2>1, <2>2, SameField, SameInput DEF GInv
<1>3. CASE Menu
  <2>1. target_apple_count' \in 1..SNAKE_MAX_APPLES
    BY <1>1, <1>3, AdjustedInRange DEF Menu
  <2>2. CASE snake_start_game
    BY <2>1, <2>2, StartInv
  <2>3. CASE ~snake_start_game
    <3>1. /\ UNCHANGED <<model, held_keys, committed_dir, turn_queue_enabled, turn_queue, game, player>>
          /\ pc = "act" /\ pc' = "sleep"
      BY <1>3, <2>3 DEF Menu
    <3>2. Inv'
      BY <2>1, <3>1 DEF GInv, Inv, Apart, model
    <3>3. Chain' /\ InputOK'
      BY <3>1 DEF GInv, Chain, InputOK, player
    <3>4. PhaseOK' /\ TimeOK'
      BY <3>1 DEF GInv, PhaseOK, TimeOK, game, model, Pcs
    <3> QED BY <3>2, <3>3, <3>4 DEF GInv
  <2> QED BY <2>2, <2>3
<1>4. CASE GameOver
  <2>1. CASE snake_start_game
    BY <1>1, <1>4, <2>1, StartInv DEF GameOver
  <2>2. CASE ~snake_start_game
    <3>1. UNCHANGED <<model, target_apple_count, input, game, player>> /\ pc = "act" /\ pc' = "sleep"
      BY <1>4, <2>2 DEF GameOver
    <3>2. PhaseOK' /\ TimeOK'
      BY <3>1 DEF GInv, PhaseOK, TimeOK, input, game, model, Pcs
    <3> QED BY <3>1, <3>2, SameField, SameInput DEF GInv
  <2> QED BY <2>1, <2>2
<1>5. CASE RestartGame
  BY <1>1, <1>5, StartInv DEF RestartGame
<1> QED BY <1>2, <1>3, <1>4, <1>5

\* Pausing empties the queue and stops the clock; resuming does not make up for time.
LEMMA PlayInv == GInv /\ PlayTime => GInv'
<1> SUFFICES ASSUME GInv, PlayTime PROVE GInv'
  OBVIOUS
<1>1. UNCHANGED <<model, target_apple_count, phase, player, held_keys, committed_dir>>
  BY DEF PlayTime, TogglePause
<1>2. pc = "act" /\ pc' = "ticks" /\ phase = "game"
  BY DEF PlayTime
<1>3. Inv'
  BY <1>1, SameField DEF GInv
<1>4. /\ turn_queue' \in {turn_queue, <<>>} /\ turn_queue_enabled' \in BOOLEAN /\ paused' \in BOOLEAN
      /\ paused' => turn_queue' = <<>> /\ turn_queue_enabled' = FALSE
  <2>1. paused \in BOOLEAN /\ turn_queue_enabled \in BOOLEAN
        /\ (paused => turn_queue = <<>> /\ turn_queue_enabled = FALSE)
    BY DEF GInv, PhaseOK, InputOK
  <2>2. CASE Asked("pause")
    <3>1. paused' = ~paused /\ turn_queue_enabled' = paused
          /\ turn_queue' = IF paused THEN turn_queue ELSE <<>>
      BY <2>2 DEF PlayTime, TogglePause, snake_input_set_turn_queue_enabled
    <3> QED BY <2>1, <3>1
  <2>3. CASE ~Asked("pause")
    <3>1. paused' = paused /\ turn_queue_enabled' = turn_queue_enabled /\ turn_queue' = turn_queue
      BY <2>3 DEF PlayTime, TogglePause
    <3> QED BY <2>1, <3>1
  <2> QED BY <2>2, <2>3
<1>5. Chain'
  <2>1. CASE turn_queue' = turn_queue
    BY <1>1, <2>1 DEF GInv, Chain
  <2>2. CASE turn_queue' = <<>>
    BY <2>2 DEF Chain
  <2> QED BY <1>4, <2>1, <2>2
<1>6. InputOK'
  <2>1. turn_queue' \in Seq(Dirs) /\ Len(turn_queue') <= SNAKE_INPUT_TURN_QUEUE_CAPACITY
    <3>1. CASE turn_queue' = turn_queue
      BY <3>1 DEF GInv, InputOK
    <3>2. CASE turn_queue' = <<>>
      BY <3>2, Times
    <3> QED BY <1>4, <3>1, <3>2
  <2> QED BY <1>1, <1>4, <2>1 DEF GInv, InputOK, player
<1>7. /\ accumulator_ms' \in 0..(SNAKE_BASE_TICK_MS + SNAKE_FRAME_TIME_CAP_MS - 1)
      /\ paused' => accumulator_ms' = 0
  <2>1. elapsed_ms \in 0..SNAKE_FRAME_TIME_CAP_MS
    <3>1. since \in Nat
      BY DEF GInv, TimeOK
    <3> QED BY <3>1, Times DEF elapsed_ms, Lesser
  <2>2. accumulator_ms \in 0..(SNAKE_BASE_TICK_MS - 1)
    <3>1. alive
      BY <1>2 DEF GInv, PhaseOK
    <3>2. /\ accumulator_ms \in 0..(SNAKE_BASE_TICK_MS + SNAKE_FRAME_TIME_CAP_MS - 1)
          /\ accumulator_ms < SNAKE_BASE_TICK_MS
      BY <1>2, <3>1 DEF GInv, TimeOK
    <3> QED BY <3>2, Times
  <2>3. PICK a \in 0..(SNAKE_BASE_TICK_MS - 1), e \in 0..SNAKE_FRAME_TIME_CAP_MS :
            /\ accumulator_ms' = a + e
            /\ a = (IF Asked("pause") THEN 0 ELSE accumulator_ms)
            /\ e = (IF paused' THEN 0 ELSE elapsed_ms)
    <3>1. accumulator_ms' = (IF Asked("pause") THEN 0 ELSE accumulator_ms)
                            + (IF paused' THEN 0 ELSE elapsed_ms)
      BY DEF PlayTime
    <3> QED BY <2>1, <2>2, <3>1, Times
  <2>4. paused' => a = 0 /\ e = 0
    <3>1. CASE Asked("pause")
      BY <2>3, <3>1
    <3>2. CASE ~Asked("pause")
      <4>1. paused' = paused
        BY <3>2 DEF PlayTime, TogglePause
      <4>2. paused => accumulator_ms = 0
        BY DEF GInv, PhaseOK
      <4> QED BY <2>3, <3>2, <4>1, <4>2
    <3> QED BY <3>1, <3>2
  <2>5. a + e \in 0..(SNAKE_BASE_TICK_MS + SNAKE_FRAME_TIME_CAP_MS - 1)
    BY Times, SumBelow
  <2>6. paused' => a + e = 0
    BY <2>4
  <2> QED BY <2>3, <2>5, <2>6
<1>8. PhaseOK'
  BY <1>1, <1>2, <1>4, <1>7 DEF GInv, PhaseOK, Pcs, model
<1>9. TimeOK'
  <2>1. tick_ms' \in {SNAKE_BASE_TICK_MS, SNAKE_FAST_TICK_MS} /\ since' = 0
    BY DEF PlayTime
  <2> QED BY <1>2, <1>7, <2>1 DEF TimeOK
<1> QED BY <1>3, <1>5, <1>6, <1>8, <1>9 DEF GInv

LEMMA TickNowInv == GInv /\ TickNow => GInv' /\ ~opposite(dir', dir)
<1> SUFFICES ASSUME GInv, TickNow PROVE GInv' /\ ~opposite(dir', dir)
  OBVIOUS
<1>1. /\ pc = "ticks" /\ paused = FALSE /\ alive /\ accumulator_ms >= tick_ms /\ phase = "game"
      /\ committed_dir = dir
  BY DEF TickNow, Due, GInv, PhaseOK
<1>2. /\ Chain' /\ Popped(dir) \in Dirs /\ committed_dir' = Popped(dir)
      /\ turn_queue' \in Seq(Dirs) /\ Len(turn_queue') <= SNAKE_INPUT_TURN_QUEUE_CAPACITY
      /\ ~opposite(Popped(dir), dir)
  BY <1>1, ChainPops DEF GInv, TickNow
<1>3. UNCHANGED <<held_keys, pending_actions, turn_queue_enabled, paused, tick_ms, since, player>>
  BY DEF TickNow
<1>4. PICK d \in Dirs : d = Popped(dir) /\ Tick(d)
  BY <1>2 DEF TickNow
<1>5. Inv'
  BY <1>4, TickInv DEF GInv
<1>6. (alive' = FALSE /\ dir' = dir) \/ (alive' = alive /\ dir' = d)
  BY <1>4 DEF Tick
<1>7. InputOK'
  BY <1>2, <1>3, <1>4 DEF GInv, InputOK, player
<1>8. alive' \in BOOLEAN
  BY <1>5 DEF Inv
<1>9. /\ phase' = IF alive' THEN phase ELSE "game_over"
      /\ pc' = IF alive' THEN pc ELSE "sleep"
      /\ accumulator_ms' = IF alive' THEN accumulator_ms - tick_ms ELSE accumulator_ms
  BY DEF TickNow
<1>10. PhaseOK'
  BY <1>1, <1>2, <1>3, <1>4, <1>6, <1>8, <1>9 DEF PhaseOK, Pcs
<1>11. TimeOK'
  <2>1. /\ accumulator_ms \in 0..(SNAKE_BASE_TICK_MS + SNAKE_FRAME_TIME_CAP_MS - 1)
        /\ tick_ms \in {SNAKE_BASE_TICK_MS, SNAKE_FAST_TICK_MS} /\ since \in Nat
    BY DEF GInv, TimeOK
  <2>2. accumulator_ms' \in 0..(SNAKE_BASE_TICK_MS + SNAKE_FRAME_TIME_CAP_MS - 1)
    BY <1>1, <1>9, <2>1, Times
  <2>3. pc' # "ticks" => ~alive'
    BY <1>1, <1>9
  <2> QED BY <1>3, <2>1, <2>2, <2>3 DEF TimeOK
<1>12. ~opposite(dir', dir)
  <2>1. ~opposite(dir, dir)
    <3>1. dir \in Dirs
      BY DEF GInv, Inv
    <3> QED BY <3>1 DEF opposite, Dirs, UP, RIGHT, DOWN, LEFT
  <2> QED BY <1>2, <1>4, <1>6, <2>1
<1> QED BY <1>2, <1>5, <1>7, <1>10, <1>11, <1>12 DEF GInv

LEMMA RestInv == GInv /\ (TicksDone \/ Place \/ Sleep) => GInv'
<1> SUFFICES ASSUME GInv, TicksDone \/ Place \/ Sleep PROVE GInv'
  OBVIOUS
<1>1. CASE TicksDone
  <2>1. /\ UNCHANGED <<model, target_apple_count, input, game, player>>
        /\ pc = "ticks" /\ pc' = "sleep" /\ ~Due
    BY <1>1 DEF TicksDone
  <2>2. alive => accumulator_ms < SNAKE_BASE_TICK_MS
    <3> SUFFICES ASSUME alive PROVE accumulator_ms < SNAKE_BASE_TICK_MS
      OBVIOUS
    <3>1. /\ accumulator_ms \in 0..(SNAKE_BASE_TICK_MS + SNAKE_FRAME_TIME_CAP_MS - 1)
          /\ tick_ms \in {SNAKE_BASE_TICK_MS, SNAKE_FAST_TICK_MS}
          /\ paused \in BOOLEAN /\ (paused => accumulator_ms = 0)
      BY DEF GInv, TimeOK, PhaseOK
    <3>2. paused \/ ~(accumulator_ms >= tick_ms)
      BY <2>1, <3>1 DEF Due
    <3>3. ~(accumulator_ms >= tick_ms) => accumulator_ms < SNAKE_BASE_TICK_MS
      BY <3>1, Times
    <3>4. 0 < SNAKE_BASE_TICK_MS
      BY Times
    <3> QED BY <3>1, <3>2, <3>3, <3>4
  <2>3. PhaseOK'
    BY <2>1 DEF GInv, PhaseOK, input, game, model, Pcs
  <2>4. TimeOK'
    BY <2>1, <2>2 DEF GInv, TimeOK, game, model
  <2> QED BY <2>1, <2>3, <2>4, SameField, SameInput DEF GInv
<1>2. CASE Place
  <2>1. UNCHANGED <<input, pc, game, player>>
    BY <1>2 DEF Place
  <2>2. Inv'
    BY <1>2, PlacingInv DEF Place, GInv
  <2>3. UNCHANGED <<dir, alive>>
    BY <1>2 DEF Place, snake_model_spawn_obstacle, snake_fill_apples
  <2>4. PhaseOK' /\ TimeOK'
    BY <2>1, <2>3 DEF GInv, PhaseOK, TimeOK, input, game
  <2> QED BY <2>1, <2>2, <2>4, SameInput DEF GInv
<1>3. CASE Sleep
  <2>1. /\ UNCHANGED <<model, target_apple_count, input, phase, paused, accumulator_ms, tick_ms, player>>
        /\ pc = "sleep" /\ pc' = "poll"
    BY <1>3 DEF Sleep
  <2>2. since' \in Nat
    <3>1. PICK t \in Turns : since' = Lesser(since + t, SNAKE_FRAME_TIME_CAP_MS + 1)
      BY <1>3 DEF Sleep
    <3>2. t \in Nat /\ since \in Nat
      BY TurnsAreTimes DEF GInv, TimeOK
    <3> QED BY <3>1, <3>2, Times DEF Lesser
  <2>3. PhaseOK'
    BY <2>1 DEF GInv, PhaseOK, input, model, Pcs
  <2>4. TimeOK'
    BY <2>1, <2>2 DEF GInv, TimeOK, model
  <2> QED BY <2>1, <2>3, <2>4, SameField, SameInput DEF GInv
<1> QED BY <1>1, <1>2, <1>3

LEMMA GameNextInv == GInv /\ [GameNext]_allvars => GInv'
<1>1. GInv /\ UNCHANGED allvars => GInv'
  <2> SUFFICES ASSUME GInv, UNCHANGED allvars PROVE GInv'
    OBVIOUS
  <2>1. UNCHANGED <<model, target_apple_count, input, player, pc, game>>
    BY DEF allvars, model, input, player, game
  <2>2. PhaseOK' /\ TimeOK'
    BY <2>1 DEF GInv, PhaseOK, TimeOK, input, game, model
  <2> QED BY <2>1, <2>2, SameField, SameInput DEF GInv
<1> QED BY <1>1, PlayerInv, PollInv, ScreensInv, PlayInv, TickNowInv, RestInv DEF GameNext, Loop

LEMMA GameInvariance == GameSpec => []GInv
<1> QED BY GameInitInv, GameNextInv, PTL DEF GameSpec

-----------------------------------------------------------------------------
(* What follows                                                              *)

\* The types of the loop, the bounds on the time left over and on the queues among them.
THEOREM GameTypeCorrect == GameSpec => []GameTypeOK
<1>1. GInv => GameTypeOK
  BY DEF GInv, Inv, InputOK, PhaseOK, TimeOK, GameTypeOK
<1> QED BY <1>1, GameInvariance, PTL

\* However many keys come and however long the queue of turns is, across pauses and
\* new games, no tick turns the snake around.
THEOREM NeverTurnsAround == GameSpec => NeverReverses
<1>1. GInv /\ [GameNext]_allvars => [pc = "ticks" => ~opposite(dir', dir)]_allvars
  <2> SUFFICES ASSUME GInv, GameNext, pc = "ticks" PROVE ~opposite(dir', dir)
    OBVIOUS
  <2>1. TickNow \/ dir' = dir
    BY DEF GameNext, Loop, Player, Press, Release, Put, PollEvent, PollDone, Quit, Menu,
           GameOver, RestartGame, PlayTime, TicksDone, Place, Sleep, model,
           snake_model_spawn_obstacle, snake_fill_apples
  <2>2. ~opposite(dir, dir)
    <3>1. dir \in Dirs
      BY DEF GInv, Inv
    <3> QED BY <3>1 DEF opposite, Dirs, UP, RIGHT, DOWN, LEFT
  <2> QED BY <2>1, <2>2, TickNowInv
<1> QED BY <1>1, GameInvariance, PTL DEF GameSpec, NeverReverses

\* At any speed, a paused game has no turn waiting and no time to make up for.
THEOREM PauseKeepsNothing == GameSpec => []PauseIsClean
<1>1. GInv => PauseIsClean
  BY DEF GInv, PhaseOK, PauseIsClean
<1> QED BY <1>1, GameInvariance, PTL

\* The game-over screen is up if and only if the snake is dead.
THEOREM DeadIsGameOver == GameSpec => []DeadIsOver
<1>1. GInv => DeadIsOver
  BY DEF GInv, PhaseOK, DeadIsOver
<1> QED BY <1>1, GameInvariance, PTL

\* The field is as sound in the loop, with its menu, pauses and new games, as on its
\* own.
THEOREM FieldInTheLoop == GameSpec => [](OccupancyIsBody /\ FreeCellsCounted)
<1>1. GInv => OccupancyIsBody /\ FreeCellsCounted
  BY FreeCells DEF GInv, Inv, OccupancyIsBody, Distinct, length
<1> QED BY <1>1, GameInvariance, PTL

-----------------------------------------------------------------------------
(* The field in the loop                                                     *)

\* What the loop does to the field: a step of the field's own specification, a new
\* game, from the menu too, or nothing, while the menu may change the number of apples.
FieldStep ==
    \/ [Next]_vars /\ (phase = "menu" => phase' = "menu")
    \/ snake_reset_game /\ phase' = "game"
    \/ UNCHANGED model /\ phase = "menu" /\ phase' = "menu"

LEMMA LoopSteps == GInv /\ [GameNext]_allvars => FieldStep
<1> SUFFICES ASSUME GInv, [GameNext]_allvars PROVE FieldStep
  OBVIOUS
<1>1. ASSUME UNCHANGED <<model, target_apple_count, phase>> PROVE FieldStep
  BY <1>1 DEF FieldStep, model, vars
<1>2. ASSUME snake_start_game PROVE FieldStep
  BY <1>2 DEF FieldStep, snake_start_game
<1>3. CASE Player \/ PollEvent \/ PollDone \/ Quit \/ TicksDone
  BY <1>1, <1>3 DEF Player, Press, Release, Put, PollEvent, PollDone, Quit, TicksDone, game
<1>4. CASE Menu
  <2>1. CASE ~snake_start_game
    BY <1>4, <2>1 DEF Menu, FieldStep, game
  <2> QED BY <1>2, <2>1
<1>5. CASE GameOver
  BY <1>1, <1>2, <1>5 DEF GameOver, game
<1>6. CASE RestartGame
  BY <1>2, <1>6 DEF RestartGame
<1>7. CASE PlayTime \/ Sleep
  BY <1>1, <1>7 DEF PlayTime, Sleep
<1>8. CASE TickNow
  <2>1. phase = "game" /\ committed_dir = dir /\ phase' \in {"game", "game_over"}
    BY <1>8 DEF TickNow, Due, GInv, PhaseOK
  <2>2. Popped(dir) \in Dirs /\ ~opposite(Popped(dir), dir)
    BY <1>8, <2>1, ChainPops DEF GInv, TickNow
  <2>3. Turn
    <3>1. (Popped(dir) - dir) % 4 # 2 /\ Tick(Popped(dir))
      BY <1>8, <2>2 DEF TickNow, opposite
    <3> QED BY <2>2, <3>1 DEF Turn
  <2> QED BY <2>1, <2>3 DEF FieldStep, Next
<1>9. CASE Place
  BY <1>9 DEF Place, FieldStep, Next, game
<1>10. CASE UNCHANGED allvars
  BY <1>1, <1>10 DEF allvars, model
<1> QED BY <1>3, <1>4, <1>5, <1>6, <1>7, <1>8, <1>9, <1>10 DEF GameNext, Loop

LEMMA BothInv == GInv /\ [GameNext]_allvars => Inv /\ Inv' /\ FieldStep
<1>1. GInv => Inv
  BY DEF GInv
<1>2. GInv' => Inv'
  BY DEF GInv
<1> QED BY <1>1, <1>2, GameNextInv, LoopSteps

LEMMA LoopGrowing ==
    ASSUME SNAKE_INITIAL_LENGTH >= 2
    PROVE  Inv /\ Inv' /\ Growing /\ FieldStep => Growing'
<1> SUFFICES ASSUME Inv, Inv', Growing, FieldStep PROVE Growing'
  OBVIOUS
<1>1. CASE [Next]_vars
  BY <1>1, NextGrowing
<1>2. CASE snake_reset_game
  <2>1. body' = CenterBody /\ growth_points' = <<>> /\ score' = 0
    BY <1>2 DEF snake_reset_game
  <2> QED BY <2>1, EmptyGrowing DEF Growing, length
<1>3. CASE UNCHANGED model
  BY <1>3 DEF model, Growing, length
<1> QED BY <1>1, <1>2, <1>3 DEF FieldStep

LEMMA LoopPlays == Inv /\ Inv' /\ Growing /\ FieldStep => [Rules!Next]_Rules!vars
<1> SUFFICES ASSUME Inv, Inv', Growing, FieldStep PROVE [Rules!Next]_Rules!vars
  OBVIOUS
<1>1. CASE [Next]_vars
  BY <1>1, StepPlays
<1>2. CASE snake_reset_game
  <2>1. Len(body') > 0
    BY EmptySeq DEF Inv
  <2>2. growth_points' = <<>> /\ apples' = {} /\ obstacles' = {} /\ alive' = TRUE
    BY <1>2 DEF snake_reset_game
  <2> QED BY <2>1, <2>2 DEF Rules!Restart, Rules!Next
<1>3. CASE UNCHANGED model
  BY <1>3 DEF model, Rules!vars
<1> QED BY <1>1, <1>2, <1>3 DEF FieldStep

LEMMA GameInitGrowing ==
    ASSUME SNAKE_INITIAL_LENGTH >= 2
    PROVE  GameInit => Growing
BY EmptyGrowing DEF GameInit, Growing, length

\* Once a game has been started.
LoopFilled == phase # "menu" => Filled

LEMMA NextLoopFilled == Inv /\ Inv' /\ LoopFilled /\ FieldStep => LoopFilled'
<1> SUFFICES ASSUME Inv, Inv', LoopFilled, FieldStep, phase' # "menu" PROVE Filled'
  BY DEF LoopFilled
<1>1. CASE [Next]_vars /\ (phase = "menu" => phase' = "menu")
  BY <1>1, NextFilled DEF LoopFilled
<1>2. CASE snake_reset_game
  <2>1. (Inv => Limits)'
    BY Target, PTL
  <2>2. apples' = {} /\ at' = "obstacles" /\ Cardinality(apples') = 0
    BY <1>2, FS_EmptySet DEF snake_reset_game
  <2> QED BY <2>1, <2>2 DEF Filled, Limits
<1> QED BY <1>1, <1>2 DEF FieldStep

\* With a snake of at least two cells at the start: every point scored in the loop, with
\* its pauses, new games and deaths in the middle of several ticks, is a cell the snake
\* has grown by or has still ahead of its tail.
THEOREM GrowthInTheLoop ==
    ASSUME SNAKE_INITIAL_LENGTH >= 2
    PROVE  GameSpec => []GrowthKept
<1> QED BY GameInitGrowing, LoopGrowing, BothInv, GameInvariance, KeptInv, PTL DEF GameSpec

\* The whole program, keys, queues, clock and menu included, plays by the rules of the
\* game: no step of it changes the field in a way the rules do not allow.
THEOREM LoopPlaysByTheRules ==
    ASSUME SNAKE_INITIAL_LENGTH >= 2
    PROVE  GameSpec => PlaysByTheRules
<1>1. GameInit => Rules!Init
  <2> SUFFICES ASSUME GameInit PROVE Rules!Init
    OBVIOUS
  <2>1. Len(body) > 0
    BY CenterBodyIsPath, EmptySeq DEF GameInit
  <2> QED BY <2>1 DEF GameInit, Rules!Init
<1> QED BY <1>1, GameInitGrowing, LoopGrowing, BothInv, GameInvariance, LoopPlays, PTL
        DEF GameSpec, PlaysByTheRules, Rules!Spec

\* From the first game on, with whatever number of apples the menu was left: whenever
\* the loop that places apples has ended there are as many as were asked for or still fit.
THEOREM ApplesInTheLoop == GameSpec => [](phase # "menu" => ApplesRestored)
<1>1. GameInit => LoopFilled
  BY DEF GameInit, LoopFilled
<1>2. LoopFilled => (phase # "menu" => ApplesRestored)
  BY DEF LoopFilled, Filled, ApplesRestored
<1> QED BY <1>1, <1>2, NextLoopFilled, BothInv, GameInvariance, PTL DEF GameSpec
=============================================================================
