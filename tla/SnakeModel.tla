----------------------------- MODULE SnakeModel -----------------------------
(***************************************************************************)
(* user/snake_game/snake_model.c with the parts of user/snake.c that drive  *)
(* it: the field, the snake with its occupancy map, the queue of eaten      *)
(* apples the tail has not reached, and the random placing of apples and    *)
(* obstacles one at a time.  The body array is a sequence, head first; the  *)
(* pseudo-random number is any number.                                      *)
(***************************************************************************)
EXTENDS Integers, Sequences, FiniteSets

CONSTANTS
    SNAKE_FIELD_WIDTH, SNAKE_FIELD_HEIGHT,
    SNAKE_INITIAL_LENGTH, SNAKE_TARGET_OBSTACLE_COUNT, SNAKE_MAX_APPLES

ASSUME FieldAssumption ==
    /\ SNAKE_FIELD_WIDTH \in Nat \ {0} /\ SNAKE_FIELD_HEIGHT \in Nat \ {0}
    /\ SNAKE_INITIAL_LENGTH \in 1..SNAKE_FIELD_WIDTH
    /\ SNAKE_TARGET_OBSTACLE_COUNT \in Nat /\ SNAKE_MAX_APPLES \in Nat \ {0}

VARIABLES
    dir, body, occupancy,
    growth_points,       \* from growth_head on, growth_count long
    apples, obstacles,   \* as sets: the order of the arrays decides nothing
    score,
    target_apple_count,
    alive,
    at                   \* "obstacles", "apples": the loops that place them; "play"

model == <<dir, body, occupancy, growth_points, apples, obstacles, score, alive, at>>
vars == <<dir, body, occupancy, growth_points, apples, obstacles, score, alive, at,
          target_apple_count>>

UP == 0
RIGHT == 1
DOWN == 2
LEFT == 3
Dirs == {UP, RIGHT, DOWN, LEFT}

Cells == (0..(SNAKE_FIELD_WIDTH - 1)) \X (0..(SNAKE_FIELD_HEIGHT - 1))
SNAKE_MAX_LENGTH == SNAKE_FIELD_WIDTH * SNAKE_FIELD_HEIGHT

Delta(d) == CASE d = UP -> <<0, -1>> [] d = RIGHT -> <<1, 0>>
              [] d = DOWN -> <<0, 1>> [] d = LEFT -> <<-1, 0>>
\* Mutant: the remainder of C, which keeps the sign.
WrappedInC(x, y) ==
    <<IF x < 0 THEN x ELSE x % SNAKE_FIELD_WIDTH, IF y < 0 THEN y ELSE y % SNAKE_FIELD_HEIGHT>>
Wrapped(x, y) == <<x % SNAKE_FIELD_WIDTH, y % SNAKE_FIELD_HEIGHT>>   \* wrap_coord
Neighbour(c, d) == Wrapped(c[1] + Delta(d)[1], c[2] + Delta(d)[2])

Cellset(path) == {path[i] : i \in DOMAIN path}
length == Len(body)
tail == body[length]

-----------------------------------------------------------------------------
(* Placing apples and obstacles                                             *)

Free == Cells \ (occupancy \cup obstacles \cup apples)      \* snake_model_cell_is_free

\* Mutant: the obstacles are forgotten.
free_cells_NoObstacles == SNAKE_MAX_LENGTH - length - Cardinality(apples)
free_cells ==
    SNAKE_MAX_LENGTH - length - Cardinality(apples) - Cardinality(obstacles)

\* Free cells before c in the order of the scan.
Rank(c) == Cardinality({f \in Free : f[2] < c[2] \/ (f[2] = c[2] /\ f[1] < c[1])})

\* The number drawn is below free_cells; the scan stops at the free cell of that
\* rank, or falls off the field.
Picks == {c \in Free : Rank(c) < free_cells}
PickFails == free_cells <= 0 \/ Cardinality(Free) < free_cells

Lesser(m, n) == IF m < n THEN m ELSE n
snake_effective_apple_target ==
    LET free_for_apples == SNAKE_MAX_LENGTH - length - Cardinality(obstacles)
    IN  Lesser(target_apple_count,
               Lesser(SNAKE_MAX_APPLES, IF free_for_apples < 0 THEN 0 ELSE free_for_apples))

snake_model_spawn_obstacle ==
    /\ at = "obstacles"
    /\ IF Cardinality(obstacles) < SNAKE_TARGET_OBSTACLE_COUNT
       THEN \/ \E c \in Picks : obstacles' = obstacles \cup {c} /\ at' = at
            \/ PickFails /\ at' = "apples" /\ UNCHANGED obstacles
       ELSE at' = "apples" /\ UNCHANGED obstacles
    /\ UNCHANGED <<dir, body, occupancy, growth_points, apples, score, alive,
                   target_apple_count>>

\* Mutant: one apple at most is placed.
snake_fill_apples_Once ==
    /\ at = "apples" /\ at' = "play"
    /\ IF Cardinality(apples) < snake_effective_apple_target
       THEN \E c \in Picks : apples' = apples \cup {c}
       ELSE UNCHANGED apples
    /\ UNCHANGED <<dir, body, occupancy, growth_points, obstacles, score, alive,
                   target_apple_count>>

\* One turn of the loop of snake_fill_apples.
snake_fill_apples ==
    /\ at = "apples"
    /\ IF Cardinality(apples) < snake_effective_apple_target
       THEN \/ \E c \in Picks : apples' = apples \cup {c} /\ at' = at
            \/ PickFails /\ at' = "play" /\ UNCHANGED apples
       ELSE at' = "play" /\ UNCHANGED apples
    /\ UNCHANGED <<dir, body, occupancy, growth_points, obstacles, score, alive,
                   target_apple_count>>

-----------------------------------------------------------------------------
(* A new game: snake_model_init_center, then the two loops                  *)

CenterBody ==
    [i \in 1..SNAKE_INITIAL_LENGTH |->
        Wrapped(SNAKE_FIELD_WIDTH \div 2 - (i - 1), SNAKE_FIELD_HEIGHT \div 2)]

snake_reset_game ==
    /\ dir' = RIGHT /\ body' = CenterBody /\ occupancy' = Cellset(CenterBody)
    /\ growth_points' = <<>> /\ apples' = {} /\ obstacles' = {} /\ score' = 0
    /\ alive' = TRUE /\ at' = "obstacles"

-----------------------------------------------------------------------------
(* A tick: snake_model_step, then snake_model_try_consume_apple             *)

\* Mutants: growth is looked for in a snake one cell too long; any move onto the
\* tail is allowed; the tail's mark is cleared after the head's is set; the cell of an
\* eaten apple is forgotten.
should_grow_TooLong ==
    /\ growth_points # <<>> /\ length > 2 /\ length < SNAKE_MAX_LENGTH
    /\ body[length - 1] = Head(growth_points)
Dies_TailAlwaysFree(next) == next \in obstacles \/ (next \in occupancy /\ next # tail)
Marks_ClearLast(next) ==
    IF growth_points # <<>> /\ length > 1 /\ length < SNAKE_MAX_LENGTH
       /\ body[length - 1] = Head(growth_points)
    THEN occupancy \cup {next} ELSE (occupancy \cup {next}) \ {tail}
Enqueue_Lost(queue, point) == queue

\* The tail would come to the cell of the apple eaten first.
should_grow ==
    /\ growth_points # <<>> /\ length > 1 /\ length < SNAKE_MAX_LENGTH
    /\ body[length - 1] = Head(growth_points)

Dies(next) ==
    next \in obstacles \/ (next \in occupancy /\ (next # tail \/ should_grow))

Marks(next) == (IF should_grow THEN occupancy ELSE occupancy \ {tail}) \cup {next}

\* snake_model_enqueue_growth_point
Enqueue(queue, point) ==
    IF Len(queue) < SNAKE_MAX_LENGTH THEN Append(queue, point) ELSE queue

Advance(next) ==
    /\ body' = <<next>> \o (IF should_grow THEN body ELSE SubSeq(body, 1, length - 1))
    /\ occupancy' = Marks(next)
    /\ LET left == IF should_grow THEN Tail(growth_points) ELSE growth_points
       IN  IF next \in apples
           THEN /\ apples' = apples \ {next} /\ score' = score + 1
                /\ growth_points' = Enqueue(left, next)
                /\ at' = "apples"
           ELSE growth_points' = left /\ UNCHANGED <<apples, score, at>>

Tick(d) ==
    LET next == Neighbour(body[1], d)
    IN  /\ at = "play" /\ alive
        /\ IF Dies(next)
           THEN /\ alive' = FALSE
                /\ UNCHANGED <<dir, body, occupancy, growth_points, apples, score, at>>
           ELSE Advance(next) /\ dir' = d /\ alive' = alive
        /\ UNCHANGED <<obstacles, target_apple_count>>

-----------------------------------------------------------------------------
(* The model on its own: the player turns left or right or goes on, starts   *)
(* over at any time, and chooses the number of apples before the first game. *)

Init ==
    /\ dir = RIGHT /\ body = CenterBody /\ occupancy = Cellset(CenterBody)
    /\ growth_points = <<>> /\ apples = {} /\ obstacles = {} /\ score = 0
    /\ alive = TRUE /\ at = "obstacles"
    /\ target_apple_count \in 1..SNAKE_MAX_APPLES

Restart == at = "play" /\ snake_reset_game /\ UNCHANGED target_apple_count

Turn == \E d \in Dirs : (d - dir) % 4 # 2 /\ Tick(d)

Next == snake_model_spawn_obstacle \/ snake_fill_apples \/ Turn \/ Restart

Spec == Init /\ [][Next]_vars

-----------------------------------------------------------------------------
(* Properties                                                               *)

TypeOK ==
    /\ dir \in Dirs /\ alive \in BOOLEAN /\ at \in {"obstacles", "apples", "play"}
    /\ body \in Seq(Cells) /\ length \in 1..SNAKE_MAX_LENGTH
    /\ occupancy \subseteq Cells /\ apples \subseteq Cells /\ obstacles \subseteq Cells
    /\ growth_points \in Seq(Cells) /\ Len(growth_points) <= SNAKE_MAX_LENGTH
    /\ score \in Nat /\ target_apple_count \in 1..SNAKE_MAX_APPLES

\* The map the collision test reads marks exactly the cells of the snake, and no
\* cell is in the snake twice, after any mixture of moves, growth and following
\* the tail.
OccupancyIsBody ==
    /\ occupancy = Cellset(body)
    /\ \A i, j \in 1..length : body[i] = body[j] => i = j

\* Snake, apples and obstacles never share a cell, so that the number of free
\* cells, which the random choice relies on, is computed right.
FreeCellsCounted ==
    /\ apples \cap occupancy = {} /\ obstacles \cap (occupancy \cup apples) = {}
    /\ free_cells = Cardinality(Free)

Index(c) == CHOOSE i \in 1..length : body[i] = c

\* The cells of eaten apples still to be reached lie ahead of the tail on the
\* snake, in the order in which it will come to them: no growth is passed by.
GrowthAhead ==
    length < SNAKE_MAX_LENGTH =>
        /\ Cellset(growth_points) \subseteq Cellset(SubSeq(body, 1, length - 1))
        /\ \A i, j \in DOMAIN growth_points :
               i < j => Index(growth_points[i]) > Index(growth_points[j])

\* Every point scored is a cell the snake has grown by or will grow by, and none of
\* these is passed by.
GrowthKept == GrowthAhead /\ score = (length - SNAKE_INITIAL_LENGTH) + Len(growth_points)

\* While the game is on there are as many apples as were asked for, or as fit.
ApplesRestored ==
    at = "play" => Cardinality(apples) = snake_effective_apple_target

\* Every apple eaten makes the snake longer, unless it dies, fills the field, or
\* the game starts over.
ApplesGrow ==
    \A n \in 1..(SNAKE_MAX_LENGTH - SNAKE_INITIAL_LENGTH) :
        (score = n) ~> (length >= SNAKE_INITIAL_LENGTH + n \/ ~alive \/ score < n
                        \/ length = SNAKE_MAX_LENGTH)

Rules == INSTANCE SnakeRules
         WITH snake <- body, eaten <- growth_points, walls <- obstacles,
              Longest <- SNAKE_MAX_LENGTH

\* The array, the map and the queue together play by the rules of the game.
PlaysByTheRules == Rules!Spec
=============================================================================
