----------------------------- MODULE SnakeProofs -----------------------------
(***************************************************************************)
(* snake_model.c on every field: the map the collision test reads is the    *)
(* snake, and the number of free cells the random choice relies on is       *)
(* right.                                                                   *)
(***************************************************************************)
EXTENDS SnakeScreen, SequenceTheorems, FunctionTheorems, FiniteSetTheorems, TLAPS

\* No cell is in the snake twice.
Distinct(path) == \A i, j \in 1..Len(path) : path[i] = path[j] => i = j

Apart ==
    apples \cap occupancy = {} /\ obstacles \cap (occupancy \cup apples) = {}

Inv ==
    /\ dir \in Dirs /\ alive \in BOOLEAN /\ at \in {"obstacles", "apples", "play"}
    /\ body \in Seq(Cells) /\ body # <<>> /\ Distinct(body) /\ occupancy = Cellset(body)
    /\ apples \subseteq Cells /\ obstacles \subseteq Cells /\ Apart
    /\ growth_points \in Seq(Cells) /\ Len(growth_points) <= SNAKE_MAX_LENGTH
    /\ score \in Nat /\ target_apple_count \in 1..SNAKE_MAX_APPLES

-----------------------------------------------------------------------------
(* The field                                                                 *)

LEMMA FieldSize ==
    /\ SNAKE_FIELD_WIDTH \in Nat \ {0} /\ SNAKE_FIELD_HEIGHT \in Nat \ {0}
    /\ SNAKE_MAX_LENGTH \in Nat \ {0}
<1>1. SNAKE_FIELD_WIDTH \in Nat \ {0} /\ SNAKE_FIELD_HEIGHT \in Nat \ {0}
  BY FieldAssumption
<1> QED BY <1>1, SMT DEF SNAKE_MAX_LENGTH

LEMMA FieldFinite == IsFiniteSet(Cells) /\ Cardinality(Cells) = SNAKE_MAX_LENGTH
<1> DEFINE X == 0..(SNAKE_FIELD_WIDTH - 1)
           Y == 0..(SNAKE_FIELD_HEIGHT - 1)
<1>1. /\ IsFiniteSet(X) /\ Cardinality(X) = SNAKE_FIELD_WIDTH
      /\ IsFiniteSet(Y) /\ Cardinality(Y) = SNAKE_FIELD_HEIGHT
  <2>1. 0 \in Int /\ SNAKE_FIELD_WIDTH - 1 \in Int /\ SNAKE_FIELD_HEIGHT - 1 \in Int
    BY FieldSize
  <2>2. /\ IsFiniteSet(X) /\ Cardinality(X) = IF 0 > SNAKE_FIELD_WIDTH - 1 THEN 0 ELSE (SNAKE_FIELD_WIDTH - 1) - 0 + 1
        /\ IsFiniteSet(Y) /\ Cardinality(Y) = IF 0 > SNAKE_FIELD_HEIGHT - 1 THEN 0 ELSE (SNAKE_FIELD_HEIGHT - 1) - 0 + 1
    BY <2>1, FS_Interval
  <2> QED BY <2>2, FieldSize
<1> HIDE DEF X, Y
<1>2. IsFiniteSet(X \X Y) /\ Cardinality(X \X Y) = SNAKE_FIELD_WIDTH * SNAKE_FIELD_HEIGHT
  BY <1>1, FS_Product
<1> QED BY <1>2 DEF X, Y, Cells, SNAKE_MAX_LENGTH

LEMMA Remainders ==
    ASSUME NEW w \in Nat \ {0}, NEW x \in Int
    PROVE  x % w \in 0..(w - 1) /\ \E q \in Int : x = w * q + (x % w)
<1>1. x % w \in 0..(w - 1)
  OBVIOUS
<1>2. x \div w \in Int /\ x = w * (x \div w) + (x % w)
  BY Z3
<1> QED BY <1>1, <1>2

\* Two numbers less than w apart have different remainders.
LEMMA SameRemainder ==
    ASSUME NEW w \in Nat \ {0}, NEW x \in Int, NEW y \in Int, x % w = y % w, x - y < w, y - x < w
    PROVE  x = y
<1>1. PICK p \in Int, q \in Int, r \in Int : x = w * p + r /\ y = w * q + r
  <2>1. PICK p \in Int : x = w * p + (x % w)
    BY Remainders
  <2>2. PICK q \in Int : y = w * q + (y % w)
    BY Remainders
  <2>3. x % w \in Int
    BY Remainders
  <2> QED BY <2>1, <2>2, <2>3
<1>2. PICK k \in Int : k = p - q
  OBVIOUS
<1>3. x - y = w * k
  BY <1>1, <1>2, SMT
<1>4. k >= 1 => w * k >= w
  BY SMT
<1>5. k <= 0 - 1 => w * k <= 0 - w
  BY SMT
<1>6. k = 0
  BY <1>3, <1>4, <1>5
<1> QED BY <1>3, <1>6, SMT

LEMMA WrappedIsCell == \A x, y \in Int : Wrapped(x, y) \in Cells
BY FieldSize, Remainders DEF Wrapped, Cells

LEMMA NeighbourIsCell ==
    ASSUME NEW c \in Cells, NEW d \in Dirs
    PROVE  Neighbour(c, d) \in Cells
<1>1. c[1] \in Int /\ c[2] \in Int
  BY DEF Cells
<1>2. Delta(d)[1] \in Int /\ Delta(d)[2] \in Int
  BY DEF Dirs, Delta, UP, RIGHT, DOWN, LEFT
<1>3. c[1] + Delta(d)[1] \in Int /\ c[2] + Delta(d)[2] \in Int
  BY <1>1, <1>2
<1> QED BY <1>3, WrappedIsCell DEF Neighbour

-----------------------------------------------------------------------------
(* Paths of cells                                                            *)

LEMMA CellsOf ==
    ASSUME NEW path \in Seq(Cells)
    PROVE  /\ Cellset(path) \subseteq Cells
           /\ \A c : c \in Cellset(path) <=> \E i \in 1..Len(path) : path[i] = c
<1>1. DOMAIN path = 1..Len(path) /\ \A i \in 1..Len(path) : path[i] \in Cells
  OBVIOUS
<1> QED BY <1>1, Zenon DEF Cellset

\* A path that does not cross itself has as many cells as its length.
LEMMA PathSize ==
    ASSUME NEW path \in Seq(Cells), Distinct(path)
    PROVE  IsFiniteSet(Cellset(path)) /\ Cardinality(Cellset(path)) = Len(path)
<1>1. Len(path) \in Nat /\ DOMAIN path = 1..Len(path)
  OBVIOUS
<1>2. path \in Bijection(1..Len(path), Cellset(path))
  <2>1. path \in [1..Len(path) -> Cellset(path)]
    BY <1>1, CellsOf
  <2>2. path \in Injection(1..Len(path), Cellset(path))
    <3>1. \A i, j \in 1..Len(path) : path[i] = path[j] => i = j
      BY DEF Distinct
    <3> QED BY <2>1, <3>1, Fun_IsInj
  <2>3. path \in Surjection(1..Len(path), Cellset(path))
    BY <2>1, CellsOf DEF Surjection
  <2> QED BY <2>2, <2>3 DEF Bijection
<1>3. ExistsBijection(1..Len(path), Cellset(path))
  BY <1>2 DEF ExistsBijection
<1> QED BY <1>1, <1>3, FS_CountingElements, FS_NatBijection

\* The path without its last cell.
LEMMA Shortened ==
    ASSUME NEW path \in Seq(Cells), path # <<>>, Distinct(path),
           NEW front, front = SubSeq(path, 1, Len(path) - 1)
    PROVE  /\ front \in Seq(Cells) /\ Len(front) = Len(path) - 1 /\ Distinct(front)
           /\ \A i \in 1..Len(front) : front[i] = path[i]
           /\ Cellset(front) = Cellset(path) \ {path[Len(path)]}
<1>1. PICK n \in Nat : n = Len(path) /\ n > 0 /\ DOMAIN path = 1..n
  <2>1. Len(path) \in Nat /\ Len(path) # 0
    BY EmptySeq
  <2> QED BY <2>1
<1>2. /\ front \in Seq(Cells) /\ Len(front) = n - 1
      /\ \A i \in 1..(n - 1) : front[i] = path[i]
  <2>1. 1 \in Int /\ n - 1 \in Int /\ \A i \in 1..(n - 1) : path[i] \in Cells
    BY <1>1
  <2>2. /\ front \in Seq(Cells) /\ Len(front) = IF 1 <= n - 1 THEN (n - 1) - 1 + 1 ELSE 0
        /\ \A i \in 1..((n - 1) - 1 + 1) : front[i] = path[1 + i - 1]
    BY <1>1, <2>1, SubSeqProperties
  <2>3. (n - 1) - 1 + 1 = n - 1 /\ \A i \in 1..(n - 1) : 1 + i - 1 = i
    BY <1>1
  <2>4. Len(front) = n - 1
    BY <1>1, <2>2
  <2> QED BY <2>2, <2>3, <2>4
<1>3. DOMAIN front = 1..(n - 1)
  BY <1>2
<1>4. Distinct(front)
  BY <1>1, <1>2 DEF Distinct
<1>5. Cellset(front) = Cellset(path) \ {path[n]}
  <2>1. ASSUME NEW i \in 1..(n - 1) PROVE path[i] \in Cellset(path) /\ path[i] # path[n]
    <3>1. i \in 1..n /\ n \in 1..n /\ i # n
      BY <1>1
    <3> QED BY <1>1, <3>1, CellsOf DEF Distinct
  <2>2. ASSUME NEW i \in 1..n, path[i] # path[n] PROVE i \in 1..(n - 1)
    BY <1>1, <2>2
  <2>3. \A c : c \in Cellset(front) <=> \E i \in 1..(n - 1) : path[i] = c
    <3>1. Len(front) = n - 1 /\ front \in Seq(Cells)
      BY <1>2
    <3>2. \A c : c \in Cellset(front) <=> \E i \in 1..(n - 1) : front[i] = c
      BY <3>1, CellsOf, Zenon
    <3> QED BY <1>2, <3>2
  <2>4. \A c : c \in Cellset(path) <=> \E i \in 1..n : path[i] = c
    BY <1>1, CellsOf
  <2> QED BY <2>1, <2>2, <2>3, <2>4
<1> QED BY <1>1, <1>2, <1>4, <1>5

\* The path with a new first cell.
LEMMA Extended ==
    ASSUME NEW path \in Seq(Cells), Distinct(path), NEW c \in Cells, c \notin Cellset(path),
           NEW longer, longer = <<c>> \o path
    PROVE  /\ longer \in Seq(Cells) /\ longer # <<>> /\ Len(longer) = Len(path) + 1
           /\ longer[1] = c /\ \A i \in 1..Len(path) : longer[i + 1] = path[i]
           /\ Distinct(longer) /\ Cellset(longer) = Cellset(path) \cup {c}
<1>1. PICK n \in Nat : n = Len(path) /\ DOMAIN path = 1..n
  OBVIOUS
<1>2. <<c>> \in Seq(Cells) /\ Len(<<c>>) = 1 /\ <<c>>[1] = c
  OBVIOUS
<1> DEFINE first == <<c>>
<1> HIDE DEF first
<1>3. /\ longer \in Seq(Cells) /\ Len(longer) = Len(first) + n
      /\ \A i \in 1..(Len(first) + n) : longer[i] = IF i <= Len(first) THEN first[i] ELSE path[i - Len(first)]
  BY <1>1, <1>2, ConcatProperties DEF first
<1>4. Len(longer) = n + 1 /\ \A i \in 1..(n + 1) : longer[i] = IF i <= 1 THEN c ELSE path[i - 1]
  <2>1. Len(first) = 1 /\ first[1] = c
    BY <1>2 DEF first
  <2> QED BY <1>1, <1>3, <2>1
<1>5. longer[1] = c /\ \A i \in 1..n : longer[i + 1] = path[i]
  <2>1. 1 \in 1..(n + 1) /\ \A i \in 1..n : i + 1 \in 1..(n + 1) /\ ~(i + 1 <= 1) /\ (i + 1) - 1 = i
    OBVIOUS
  <2> QED BY <1>4, <2>1
<1>6. Distinct(longer)
  <2> SUFFICES ASSUME NEW i \in 1..(n + 1), NEW j \in 1..(n + 1), longer[i] = longer[j] PROVE i = j
    BY <1>4 DEF Distinct
  <2>1. \A k \in 1..n : path[k] # c
    BY <1>1 DEF Cellset
  <2>2. CASE i = 1 \/ j = 1
    BY <1>4, <2>1, <2>2
  <2>3. CASE i # 1 /\ j # 1
    <3>1. i - 1 \in 1..n /\ j - 1 \in 1..n /\ path[i - 1] = path[j - 1]
      BY <1>4, <2>3
    <3>2. i - 1 = j - 1
      BY <1>1, <3>1 DEF Distinct
    <3> QED BY <3>2
  <2> QED BY <2>2, <2>3
<1>7. Cellset(longer) = Cellset(path) \cup {c}
  <2>1. \A d : d \in Cellset(longer) <=> \E i \in 1..(n + 1) : longer[i] = d
    <3>1. Len(longer) = n + 1 /\ longer \in Seq(Cells)
      BY <1>3, <1>4
    <3> QED BY <3>1, CellsOf, Zenon
  <2>2. \A d : d \in Cellset(path) <=> \E i \in 1..n : path[i] = d
    BY <1>1, CellsOf
  <2>3. \A i \in 1..(n + 1) : i = 1 \/ (i - 1 \in 1..n /\ longer[i] = path[i - 1])
    BY <1>4
  <2>4. 1 \in 1..(n + 1) /\ \A i \in 1..n : i + 1 \in 1..(n + 1)
    OBVIOUS
  <2>5. ASSUME NEW d \in Cellset(longer) PROVE d \in Cellset(path) \cup {c}
    BY <1>5, <2>1, <2>2, <2>3, ZenonT(60)
  <2>6. ASSUME NEW d \in Cellset(path) PROVE d \in Cellset(longer)
    BY <1>5, <2>1, <2>2, <2>4
  <2>7. c \in Cellset(longer)
    BY <1>5, <2>1, <2>4
  <2> QED BY <2>5, <2>6, <2>7
<1>8. longer # <<>>
  BY <1>4
<1>9. Len(longer) = Len(path) + 1 /\ \A i \in 1..Len(path) : longer[i + 1] = path[i]
  BY <1>1, <1>4, <1>5
<1> QED BY <1>3, <1>5, <1>6, <1>7, <1>8, <1>9

-----------------------------------------------------------------------------
(* The invariant                                                             *)

LEMMA CenterBodyIsPath ==
    /\ CenterBody \in Seq(Cells) /\ CenterBody # <<>> /\ Distinct(CenterBody)
    /\ Len(CenterBody) = SNAKE_INITIAL_LENGTH
<1>1. SNAKE_INITIAL_LENGTH \in 1..SNAKE_FIELD_WIDTH /\ SNAKE_INITIAL_LENGTH \in Nat
  BY FieldAssumption
<1>2. PICK x \in Int, y \in Int : x = SNAKE_FIELD_WIDTH \div 2 /\ y = SNAKE_FIELD_HEIGHT \div 2
  BY FieldSize
<1>3. CenterBody = [i \in 1..SNAKE_INITIAL_LENGTH |-> Wrapped(x - (i - 1), y)]
  BY <1>2 DEF CenterBody
<1>4. \A i \in 1..SNAKE_INITIAL_LENGTH : x - (i - 1) \in Int /\ CenterBody[i] = Wrapped(x - (i - 1), y)
  BY <1>3
<1>5. CenterBody \in [1..SNAKE_INITIAL_LENGTH -> Cells]
  BY <1>2, <1>3, <1>4, WrappedIsCell
<1>6. CenterBody \in Seq(Cells) /\ Len(CenterBody) = SNAKE_INITIAL_LENGTH
  BY <1>1, <1>5
<1>7. CenterBody # <<>>
  BY <1>1, <1>6
<1>8. ASSUME NEW i \in 1..SNAKE_INITIAL_LENGTH, NEW j \in 1..SNAKE_INITIAL_LENGTH,
             CenterBody[i] = CenterBody[j]
      PROVE  i = j
  <2>1. (x - (i - 1)) % SNAKE_FIELD_WIDTH = (x - (j - 1)) % SNAKE_FIELD_WIDTH
    BY <1>4, <1>8 DEF Wrapped
  <2>2. /\ x - (i - 1) \in Int /\ x - (j - 1) \in Int
        /\ (x - (i - 1)) - (x - (j - 1)) < SNAKE_FIELD_WIDTH
        /\ (x - (j - 1)) - (x - (i - 1)) < SNAKE_FIELD_WIDTH
    BY <1>1, <1>2, FieldSize
  <2>3. x - (i - 1) = x - (j - 1)
    BY <2>1, <2>2, SameRemainder, FieldSize
  <2> QED BY <1>2, <2>3
<1> QED BY <1>6, <1>7, <1>8 DEF Distinct

LEMMA InitInv == Init => Inv
<1> SUFFICES ASSUME Init PROVE Inv
  OBVIOUS
<1>1. /\ body \in Seq(Cells) /\ body # <<>> /\ Distinct(body) /\ occupancy = Cellset(body)
  BY CenterBodyIsPath DEF Init
<1>2. growth_points \in Seq(Cells) /\ Len(growth_points) <= SNAKE_MAX_LENGTH
  BY FieldSize DEF Init
<1>3. Apart
  BY DEF Init, Apart
<1> QED BY <1>1, <1>2, <1>3 DEF Init, Inv, Dirs

\* What a new game leaves.
LEMMA RestartInv == Inv /\ Restart => Inv'
<1> SUFFICES ASSUME Inv, Restart PROVE Inv'
  OBVIOUS
<1>1. /\ body' \in Seq(Cells) /\ body' # <<>> /\ Distinct(body') /\ occupancy' = Cellset(body')
  BY CenterBodyIsPath DEF Restart, snake_reset_game
<1>2. growth_points' \in Seq(Cells) /\ Len(growth_points') <= SNAKE_MAX_LENGTH
  BY FieldSize DEF Restart, snake_reset_game
<1>3. Apart'
  BY DEF Restart, snake_reset_game, Apart
<1> QED BY <1>1, <1>2, <1>3 DEF Restart, snake_reset_game, Inv, Dirs

LEMMA PlacingInv == Inv /\ (snake_model_spawn_obstacle \/ snake_fill_apples) => Inv'
<1> SUFFICES ASSUME Inv, snake_model_spawn_obstacle \/ snake_fill_apples PROVE Inv'
  OBVIOUS
<1>1. Picks \subseteq Cells \ (occupancy \cup obstacles \cup apples)
  BY DEF Picks, Free
<1>2. CASE snake_model_spawn_obstacle
  <2>1. obstacles' = obstacles \/ \E c \in Picks : obstacles' = obstacles \cup {c}
    BY <1>2 DEF snake_model_spawn_obstacle
  <2>2. at' \in {"obstacles", "apples"}
    BY <1>2 DEF snake_model_spawn_obstacle
  <2>3. UNCHANGED <<dir, body, occupancy, growth_points, apples, score, alive, target_apple_count>>
    BY <1>2 DEF snake_model_spawn_obstacle
  <2>4. obstacles' \subseteq Cells /\ Apart'
    BY <1>1, <2>1, <2>3 DEF Inv, Apart
  <2> QED BY <2>2, <2>3, <2>4 DEF Inv
<1>3. CASE snake_fill_apples
  <2>1. apples' = apples \/ \E c \in Picks : apples' = apples \cup {c}
    BY <1>3 DEF snake_fill_apples
  <2>2. at' \in {"apples", "play"}
    BY <1>3 DEF snake_fill_apples
  <2>3. UNCHANGED <<dir, body, occupancy, growth_points, obstacles, score, alive, target_apple_count>>
    BY <1>3 DEF snake_fill_apples
  <2>4. apples' \subseteq Cells /\ Apart'
    BY <1>1, <2>1, <2>3 DEF Inv, Apart
  <2> QED BY <2>2, <2>3, <2>4 DEF Inv
<1> QED BY <1>2, <1>3

\* Where the snake gets to when it does not die.
LEMMA AdvanceBody ==
    ASSUME Inv, NEW next \in Cells, ~Dies(next), Advance(next)
    PROVE  /\ body' \in Seq(Cells) /\ body' # <<>> /\ Distinct(body') /\ occupancy' = Cellset(body')
           /\ next \notin obstacles
           /\ occupancy' \subseteq occupancy \cup {next}
<1>1. PICK rest : /\ rest = IF should_grow THEN body ELSE SubSeq(body, 1, length - 1)
                  /\ body' = <<next>> \o rest
  BY DEF Advance
<1>2. /\ rest \in Seq(Cells) /\ Distinct(rest) /\ next \notin Cellset(rest)
      /\ Cellset(rest) = IF should_grow THEN occupancy ELSE occupancy \ {tail}
  <2>1. CASE should_grow
    BY <1>1, <2>1 DEF Inv, Dies
  <2>2. CASE ~should_grow
    <3>1. /\ rest \in Seq(Cells) /\ Distinct(rest)
          /\ Cellset(rest) = Cellset(body) \ {body[Len(body)]}
      BY <1>1, <2>2, Shortened DEF Inv, length
    <3> QED BY <2>2, <3>1 DEF Inv, Dies, tail, length
  <2> QED BY <2>1, <2>2
<1>3. /\ body' \in Seq(Cells) /\ body' # <<>> /\ Distinct(body')
      /\ Cellset(body') = Cellset(rest) \cup {next}
  <2>1. rest \in Seq(Cells) /\ Distinct(rest) /\ next \notin Cellset(rest)
    BY <1>2
  <2>2. body' = <<next>> \o rest
    BY <1>1
  <2> QED BY <2>1, <2>2, Extended
<1>4. occupancy' = Cellset(body')
  BY <1>2, <1>3 DEF Advance, Marks
<1>5. next \notin obstacles
  BY DEF Dies
<1> QED BY <1>2, <1>3, <1>4, <1>5

LEMMA TickInv ==
    ASSUME Inv, NEW d \in Dirs, Tick(d)
    PROVE  Inv'
<1> DEFINE next == Neighbour(body[1], d)
<1>1. next \in Cells
  <2>1. body[1] \in Cells
    BY EmptySeq DEF Inv
  <2> QED BY <2>1, NeighbourIsCell
<1> HIDE DEF next
<1>2. CASE Dies(next)
  <2>1. /\ alive' = FALSE
        /\ UNCHANGED <<dir, body, occupancy, growth_points, apples, score, at, obstacles,
                       target_apple_count>>
    BY <1>2 DEF Tick, next
  <2> QED BY <2>1 DEF Inv, Apart
<1>3. CASE ~Dies(next)
  <2>1. Advance(next) /\ dir' = d /\ alive' = alive /\ UNCHANGED <<obstacles, target_apple_count>>
    BY <1>3 DEF Tick, next
  <2>2. /\ body' \in Seq(Cells) /\ body' # <<>> /\ Distinct(body') /\ occupancy' = Cellset(body')
        /\ next \notin obstacles /\ occupancy' \subseteq occupancy \cup {next}
    BY <1>1, <1>3, <2>1, AdvanceBody
  <2> DEFINE left == IF should_grow THEN Tail(growth_points) ELSE growth_points
  <2>3. left \in Seq(Cells) /\ Len(left) <= SNAKE_MAX_LENGTH
    <3>1. CASE should_grow
      <4>1. growth_points # <<>> /\ left = Tail(growth_points) /\ growth_points \in Seq(Cells)
            /\ Len(growth_points) <= SNAKE_MAX_LENGTH
        BY <3>1 DEF should_grow, Inv
      <4>2. left \in Seq(Cells) /\ Len(left) = Len(growth_points) - 1 /\ Len(growth_points) \in Nat
        BY <4>1, HeadTailProperties
      <4> QED BY <4>1, <4>2, FieldSize
    <3>2. CASE ~should_grow
      BY <3>2 DEF Inv
    <3> QED BY <3>1, <3>2
  <2>4. /\ IF next \in apples
           THEN /\ apples' = apples \ {next} /\ score' = score + 1
                /\ growth_points' = Enqueue(left, next)
                /\ at' = "apples"
           ELSE growth_points' = left /\ UNCHANGED <<apples, score, at>>
    BY <2>1 DEF Advance
  <2> HIDE DEF left
  <2>5. growth_points' \in Seq(Cells) /\ Len(growth_points') <= SNAKE_MAX_LENGTH
    <3>1. Append(left, next) \in Seq(Cells) /\ Len(Append(left, next)) = Len(left) + 1
          /\ Len(left) \in Nat
      BY <1>1, <2>3, AppendProperties
    <3>2. growth_points' = left \/ (growth_points' = Append(left, next) /\ Len(left) < SNAKE_MAX_LENGTH)
      BY <2>4 DEF Enqueue
    <3> QED BY <2>3, <3>1, <3>2, FieldSize
  <2>6. apples' \subseteq Cells /\ Apart'
    BY <2>1, <2>2, <2>4 DEF Inv, Apart
  <2>7. score' \in Nat /\ at' \in {"obstacles", "apples", "play"}
    BY <2>4 DEF Inv
  <2> QED BY <2>1, <2>2, <2>5, <2>6, <2>7 DEF Inv
<1> QED BY <1>2, <1>3

LEMMA NextInv == Inv /\ [Next]_vars => Inv'
<1> SUFFICES ASSUME Inv, [Next]_vars PROVE Inv'
  OBVIOUS
<1>1. CASE Turn
  BY <1>1, TickInv DEF Turn
<1>2. CASE UNCHANGED vars
  BY <1>2 DEF vars, Inv, Apart
<1> QED BY <1>1, <1>2, PlacingInv, RestartInv DEF Next

LEMMA Invariance == Spec => []Inv
<1> QED BY InitInv, NextInv, PTL DEF Spec

\* On every field, after any mixture of moves, growth and following the tail: the map
\* the collision test reads marks the cells of the snake and no others, each once.
THEOREM MapIsSnake == Spec => []OccupancyIsBody
<1>1. Inv => OccupancyIsBody
  BY DEF Inv, OccupancyIsBody, Distinct, length
<1> QED BY <1>1, Invariance, PTL

\* The number the random choice draws from is the number of free cells there are.
LEMMA FreeCells == Inv => FreeCellsCounted
<1> SUFFICES ASSUME Inv PROVE FreeCellsCounted
  OBVIOUS
<1>1. /\ IsFiniteSet(occupancy) /\ Cardinality(occupancy) = length /\ length \in Nat
      /\ occupancy \subseteq Cells
  BY PathSize, CellsOf DEF Inv, length
<1>2. IsFiniteSet(apples) /\ IsFiniteSet(obstacles)
  BY FieldFinite, FS_Subset DEF Inv
<1>3. /\ Cardinality(apples) \in Nat /\ Cardinality(obstacles) \in Nat
      /\ Cardinality({}) = 0 /\ Cardinality(Cells) \in Nat
  BY <1>2, FieldFinite, FS_CardinalityType, FS_EmptySet
<1>4. /\ IsFiniteSet(occupancy \cup obstacles)
      /\ Cardinality(occupancy \cup obstacles) = length + Cardinality(obstacles)
  <2>1. occupancy \cap obstacles = {}
    BY DEF Inv, Apart
  <2>2. /\ IsFiniteSet(occupancy \cup obstacles)
        /\ Cardinality(occupancy \cup obstacles)
               = Cardinality(occupancy) + Cardinality(obstacles) - Cardinality(occupancy \cap obstacles)
    BY <1>1, <1>2, FS_Union
  <2>3. Cardinality(occupancy \cap obstacles) = 0
    BY <1>3, <2>1
  <2> QED BY <1>1, <1>3, <2>2, <2>3
<1> DEFINE taken == occupancy \cup obstacles \cup apples
<1>5. Cardinality(taken) = length + Cardinality(obstacles) + Cardinality(apples)
  <2>1. (occupancy \cup obstacles) \cap apples = {}
    BY DEF Inv, Apart
  <2>2. Cardinality(taken) = Cardinality(occupancy \cup obstacles) + Cardinality(apples)
                            - Cardinality((occupancy \cup obstacles) \cap apples)
    BY <1>2, <1>4, FS_Union
  <2>3. Cardinality((occupancy \cup obstacles) \cap apples) = 0
    BY <1>3, <2>1
  <2> QED BY <1>1, <1>3, <1>4, <2>2, <2>3
<1>6. Cardinality(Cells \ taken) = Cardinality(Cells) - Cardinality(taken)
  <2>1. Cells \cap taken = taken
    BY <1>1 DEF Inv
  <2>2. Cardinality(Cells \ taken) = Cardinality(Cells) - Cardinality(Cells \cap taken)
    BY FieldFinite, FS_Difference
  <2> QED BY <2>1, <2>2
<1>7. Free = Cells \ taken
  BY DEF Free
<1> HIDE DEF taken
<1>8. Cardinality(Free) = SNAKE_MAX_LENGTH - length - Cardinality(apples) - Cardinality(obstacles)
  BY <1>1, <1>3, <1>5, <1>6, <1>7, FieldFinite
<1> QED BY <1>8 DEF Inv, Apart, FreeCellsCounted, free_cells

THEOREM FreeCellsAreCounted == Spec => []FreeCellsCounted
<1> QED BY FreeCells, Invariance, PTL

\* All of the types: the snake is never longer than the field has cells.
THEOREM TypeCorrect == Spec => []TypeOK
<1>1. Inv => TypeOK
  <2> SUFFICES ASSUME Inv PROVE TypeOK
    OBVIOUS
  <2>1. /\ Cardinality(occupancy) = length /\ occupancy \subseteq Cells
    BY PathSize, CellsOf DEF Inv, length
  <2>2. Cardinality(occupancy) <= SNAKE_MAX_LENGTH
    BY <2>1, FieldFinite, FS_Subset
  <2>3. length \in 1..SNAKE_MAX_LENGTH
    <3>1. length \in Nat /\ length # 0
      BY EmptySeq DEF Inv, length
    <3> QED BY <2>1, <2>2, <3>1, FieldSize
  <2> QED BY <2>1, <2>3 DEF Inv, TypeOK
<1> QED BY <1>1, Invariance, PTL

-----------------------------------------------------------------------------
(* Growth.  A point of the queue is passed by when the tail leaves its cell. *)

\* The queue's cells lie on the path ahead of its last cell, the first ones nearest
\* to it.
OnPath(path, queue) ==
    /\ \A k \in 1..Len(queue) : \E i \in 1..(Len(path) - 1) : path[i] = queue[k]
    /\ \A k, m \in 1..Len(queue) : \A i, j \in 1..Len(path) :
           k < m /\ path[i] = queue[k] /\ path[j] = queue[m] => i > j

Growing ==
    /\ length >= 2
    /\ length < SNAKE_MAX_LENGTH => OnPath(body, growth_points)
    /\ score = (length - SNAKE_INITIAL_LENGTH) + Len(growth_points)

LEMMA OnExtended ==
    ASSUME NEW path \in Seq(Cells), Distinct(path), NEW c \in Cells, c \notin Cellset(path),
           NEW longer, longer = <<c>> \o path, NEW queue \in Seq(Cells), OnPath(path, queue)
    PROVE  OnPath(longer, queue)
<1>1. /\ Len(longer) = Len(path) + 1 /\ Len(path) \in Nat
      /\ longer[1] = c /\ \A i \in 1..Len(path) : longer[i + 1] = path[i]
  BY Extended
<1>2. PICK n \in Nat : n = Len(path) /\ Len(longer) = n + 1
  BY <1>1
<1>3. ASSUME NEW k \in 1..Len(queue)
      PROVE  (\E i \in 1..n : longer[i] = queue[k]) /\ queue[k] # c
  <2>1. PICK i \in 1..(n - 1) : path[i] = queue[k]
    BY <1>2 DEF OnPath
  <2>2. i \in 1..n /\ i + 1 \in 1..n
    OBVIOUS
  <2> QED BY <1>1, <1>2, <2>1, <2>2, CellsOf
<1>4. ASSUME NEW k \in 1..Len(queue), NEW m \in 1..Len(queue),
             NEW i \in 1..(n + 1), NEW j \in 1..(n + 1),
             k < m, longer[i] = queue[k], longer[j] = queue[m]
      PROVE  i > j
  <2>1. i # 1 /\ j # 1
    BY <1>1, <1>3, <1>4
  <2>2. i - 1 \in 1..n /\ j - 1 \in 1..n /\ (i - 1) + 1 = i /\ (j - 1) + 1 = j
    BY <2>1
  <2>3. path[i - 1] = queue[k] /\ path[j - 1] = queue[m]
    BY <1>1, <1>2, <1>4, <2>2
  <2>4. i - 1 > j - 1
    BY <1>2, <1>4, <2>2, <2>3 DEF OnPath
  <2> QED BY <2>4
<1>5. \A k \in 1..Len(queue) : \E i \in 1..((n + 1) - 1) : longer[i] = queue[k]
  <2>1. (n + 1) - 1 = n
    OBVIOUS
  <2> QED BY <1>3, <2>1
<1> QED BY <1>2, <1>4, <1>5 DEF OnPath

\* The cell of the apple just eaten is where the head is.
LEMMA OnEnqueued ==
    ASSUME NEW path \in Seq(Cells), Distinct(path), Len(path) >= 2,
           NEW queue \in Seq(Cells), OnPath(path, queue),
           \A k \in 1..Len(queue) : queue[k] # path[1],
           NEW longer, longer = Append(queue, path[1])
    PROVE  OnPath(path, longer)
<1>1. PICK n \in Nat : n = Len(queue)
  OBVIOUS
<1>2. path[1] \in Cells /\ 1 \in 1..Len(path) /\ 1 \in 1..(Len(path) - 1)
  OBVIOUS
<1>3. Len(longer) = n + 1 /\ longer[n + 1] = path[1] /\ \A k \in 1..n : longer[k] = queue[k]
  BY <1>1, <1>2, AppendProperties
<1>4. ASSUME NEW k \in 1..(n + 1) PROVE \E i \in 1..(Len(path) - 1) : path[i] = longer[k]
  <2>1. k = n + 1 \/ k \in 1..n
    OBVIOUS
  <2> QED BY <1>1, <1>2, <1>3, <2>1, SMTT(30) DEF OnPath
<1>5. ASSUME NEW k \in 1..(n + 1), NEW m \in 1..(n + 1), NEW i \in 1..Len(path), NEW j \in 1..Len(path),
             k < m, path[i] = longer[k], path[j] = longer[m]
      PROVE  i > j
  <2>1. k \in 1..n
    BY <1>5
  <2>2. CASE m = n + 1
    <3>1. j = 1 /\ path[i] # path[1]
      BY <1>1, <1>2, <1>3, <1>5, <2>1, <2>2 DEF Distinct
    <3>2. i # 1
      BY <3>1
    <3> QED BY <3>1, <3>2
  <2>3. CASE m # n + 1
    <3>1. m \in 1..n
      BY <2>3
    <3> QED BY <1>1, <1>3, <1>5, <2>1, <3>1 DEF OnPath
  <2> QED BY <2>2, <2>3
<1> QED BY <1>3, <1>4, <1>5, ZenonT(60) DEF OnPath

LEMMA OnDequeued ==
    ASSUME NEW path, NEW queue \in Seq(Cells), queue # <<>>, OnPath(path, queue)
    PROVE  OnPath(path, Tail(queue))
<1>1. PICK n \in Nat : n = Len(queue)
  OBVIOUS
<1>2. /\ Tail(queue) \in Seq(Cells) /\ Len(Tail(queue)) = n - 1
      /\ \A k \in 1..(n - 1) : Tail(queue)[k] = queue[k + 1]
  BY <1>1, HeadTailProperties
<1>3. \A k \in 1..(n - 1) : k + 1 \in 1..n
  OBVIOUS
<1>4. ASSUME NEW k \in 1..(n - 1) PROVE \E i \in 1..(Len(path) - 1) : path[i] = Tail(queue)[k]
  BY <1>1, <1>2, <1>3 DEF OnPath
<1>5. ASSUME NEW k \in 1..(n - 1), NEW m \in 1..(n - 1), NEW i \in 1..Len(path), NEW j \in 1..Len(path),
             k < m, path[i] = Tail(queue)[k], path[j] = Tail(queue)[m]
      PROVE  i > j
  <2>1. k + 1 \in 1..n /\ m + 1 \in 1..n /\ k + 1 < m + 1
    BY <1>5
  <2>2. path[i] = queue[k + 1] /\ path[j] = queue[m + 1]
    BY <1>2, <1>5
  <2> QED BY <1>1, <2>1, <2>2 DEF OnPath
<1> QED BY <1>2, <1>4, <1>5 DEF OnPath

\* The tail may leave its cell while the one before it is not the first of the queue.
LEMMA OnShortened ==
    ASSUME NEW path \in Seq(Cells), Len(path) >= 2, Distinct(path),
           NEW queue \in Seq(Cells), OnPath(path, queue),
           queue = <<>> \/ path[Len(path) - 1] # queue[1],
           NEW front, front = SubSeq(path, 1, Len(path) - 1)
    PROVE  OnPath(front, queue)
<1>1. PICK n \in Nat : n = Len(path) /\ n >= 2
  OBVIOUS
<1>2. Len(front) = n - 1 /\ \A i \in 1..(n - 1) : front[i] = path[i]
  BY <1>1, Shortened, EmptySeq
<1>3. ASSUME NEW k \in 1..Len(queue) PROVE \E i \in 1..((n - 1) - 1) : front[i] = queue[k]
  <2>1. PICK i \in 1..(n - 1) : path[i] = queue[k]
    BY <1>1 DEF OnPath
  <2>2. i # n - 1
    <3>1. queue # <<>> /\ Len(queue) \in Nat /\ 1 \in 1..Len(queue)
      BY EmptySeq
    <3>2. k # 1 => 1 < k
      OBVIOUS
    <3>3. PICK j \in 1..(n - 1) : path[j] = queue[1]
      BY <1>1, <3>1 DEF OnPath
    <3>4. i \in 1..n /\ j \in 1..n
      OBVIOUS
    <3>5. CASE k = 1
      BY <1>1, <2>1, <3>1, <3>5
    <3>6. CASE k # 1
      <4>1. j > i
        BY <1>1, <2>1, <3>1, <3>2, <3>3, <3>4, <3>6 DEF OnPath
      <4> QED BY <4>1
    <3> QED BY <3>5, <3>6
  <2>3. i \in 1..((n - 1) - 1)
    BY <2>2
  <2> QED BY <1>2, <2>1, <2>3
<1>4. ASSUME NEW k \in 1..Len(queue), NEW m \in 1..Len(queue),
             NEW i \in 1..(n - 1), NEW j \in 1..(n - 1),
             k < m, front[i] = queue[k], front[j] = queue[m]
      PROVE  i > j
  <2>1. i \in 1..n /\ j \in 1..n
    BY <1>1
  <2>2. front[i] = path[i] /\ front[j] = path[j]
    BY <1>2
  <2>3. path[i] = queue[k] /\ path[j] = queue[m]
    BY <1>4, <2>2
  <2> QED BY <1>1, <1>4, <2>1, <2>3 DEF OnPath
<1> QED BY <1>2, <1>3, <1>4 DEF OnPath

\* The queue is shorter than the snake.
LEMMA QueueIsShort ==
    ASSUME NEW path \in Seq(Cells), Distinct(path), Len(path) >= 1,
           NEW queue \in Seq(Cells), OnPath(path, queue)
    PROVE  Len(queue) <= Len(path) - 1
<1> DEFINE n == Len(queue)
           p == Len(path) - 1
           f == [k \in 1..n |-> CHOOSE i \in 1..p : path[i] = queue[k]]
<1>1. n \in Nat /\ p \in Nat
  OBVIOUS
<1>2. \A k \in 1..n : f[k] \in 1..p /\ path[f[k]] = queue[k]
  BY DEF OnPath
<1>3. \A k, m \in 1..n : k < m => f[k] > f[m]
  <2>1. 1..p \subseteq 1..Len(path)
    BY <1>1
  <2> QED BY <1>2, <2>1, SMTT(40) DEF OnPath
<1>4. f \in [1..n -> 1..p]
  BY <1>2
<1>5. \A k, m \in 1..n : f[k] = f[m] => k = m
  <2> SUFFICES ASSUME NEW k \in 1..n, NEW m \in 1..n, f[k] = f[m], k # m PROVE FALSE
    OBVIOUS
  <2>1. k < m \/ m < k
    OBVIOUS
  <2>2. PICK x \in Int : x = f[k] /\ x = f[m]
    BY <1>2, SMTT(60)
  <2>3. f[k] > f[m] \/ f[m] > f[k]
    BY <1>3, <2>1
  <2> HIDE DEF f
  <2>4. x > x
    BY <2>2, <2>3
  <2> QED BY <2>4
<1> HIDE DEF f
<1>6. ExistsInjection(1..n, 1..p)
  BY <1>4, <1>5, Fun_IsInj DEF ExistsInjection
<1> QED BY <1>1, <1>6, Fun_NatInjLeq

LEMMA CellsAhead ==
    ASSUME NEW path \in Seq(Cells), NEW queue \in Seq(Cells), OnPath(path, queue),
           NEW c, c \notin Cellset(path)
    PROVE  \A k \in 1..Len(queue) : queue[k] # c
<1> SUFFICES ASSUME NEW k \in 1..Len(queue) PROVE queue[k] # c
  OBVIOUS
<1>1. PICK i \in 1..(Len(path) - 1) : path[i] = queue[k]
  BY DEF OnPath
<1>2. i \in 1..Len(path)
  OBVIOUS
<1> QED BY <1>1, <1>2, CellsOf

\* Where the snake has the points after a move, before an apple is counted.
LEMMA Moved ==
    ASSUME Inv, Growing, length < SNAKE_MAX_LENGTH, NEW next \in Cells, ~Dies(next), Advance(next),
           NEW left, left = IF should_grow THEN Tail(growth_points) ELSE growth_points
    PROVE  /\ left \in Seq(Cells) /\ OnPath(body', left)
           /\ \A k \in 1..Len(left) : left[k] # next
           /\ body'[1] = next
           /\ Len(body') = IF should_grow THEN length + 1 ELSE length
<1>1. /\ body \in Seq(Cells) /\ body # <<>> /\ Distinct(body) /\ occupancy = Cellset(body)
      /\ growth_points \in Seq(Cells) /\ OnPath(body, growth_points) /\ Len(body) >= 2
      /\ body[Len(body)] = tail
  BY DEF Inv, Growing, length, tail
<1>2. CASE should_grow
  <2>1. growth_points # <<>> /\ left = Tail(growth_points) /\ body' = <<next>> \o body
    BY <1>2 DEF should_grow, Advance
  <2>2. left \in Seq(Cells) /\ OnPath(body, left)
    BY <1>1, <2>1, HeadTailProperties, OnDequeued
  <2>3. next \notin Cellset(body)
    BY <1>1, <1>2 DEF Dies
  <2>4. OnPath(body', left) /\ body'[1] = next /\ Len(body') = Len(body) + 1
    BY <1>1, <2>1, <2>2, <2>3, Extended, OnExtended, ZenonT(60)
  <2>5. \A k \in 1..Len(left) : left[k] # next
    BY <1>1, <2>2, <2>3, CellsAhead
  <2> QED BY <1>2, <2>2, <2>4, <2>5 DEF length
<1>3. CASE ~should_grow
  <2>1. PICK front : front = SubSeq(body, 1, Len(body) - 1)
    OBVIOUS
  <2>2. left = growth_points /\ body' = <<next>> \o front
    BY <1>3, <2>1 DEF Advance, length
  <2>3. /\ front \in Seq(Cells) /\ Len(front) = Len(body) - 1 /\ Distinct(front)
        /\ Cellset(front) = Cellset(body) \ {tail}
    BY <1>1, <2>1, Shortened
  <2>4. growth_points = <<>> \/ body[Len(body) - 1] # growth_points[1]
    <3>1. growth_points # <<>> => Head(growth_points) = growth_points[1]
      BY <1>1
    <3>2. length > 1
      BY <1>1 DEF length
    <3> QED BY <1>3, <3>1, <3>2 DEF should_grow, length
  <2>5. OnPath(front, left)
    BY <1>1, <2>1, <2>2, <2>4, OnShortened
  <2>6. next \notin Cellset(front)
    BY <1>1, <1>3, <2>3 DEF Dies
  <2>7. OnPath(body', left) /\ body'[1] = next /\ Len(body') = Len(front) + 1
    <3>1. /\ front \in Seq(Cells) /\ Distinct(front) /\ left \in Seq(Cells)
          /\ body' = <<next>> \o front
      BY <1>1, <2>2, <2>3
    <3>2. body'[1] = next /\ Len(body') = Len(front) + 1
      BY <2>6, <3>1, Extended
    <3>3. OnPath(body', left)
      BY <2>5, <2>6, <3>1, OnExtended
    <3> QED BY <3>2, <3>3
  <2>8. \A k \in 1..Len(left) : left[k] # next
    BY <1>1, <2>2, <2>3, <2>5, <2>6, CellsAhead
  <2>9. Len(body') = Len(body)
    BY <1>1, <2>3, <2>7
  <2> QED BY <1>1, <1>3, <2>2, <2>7, <2>8, <2>9 DEF length
<1> QED BY <1>2, <1>3

\* A full field has no apples.
LEMMA FullField == Inv /\ ~(length < SNAKE_MAX_LENGTH) => apples = {}
<1> SUFFICES ASSUME Inv, ~(length < SNAKE_MAX_LENGTH) PROVE apples = {}
  OBVIOUS
<1>1. occupancy \subseteq Cells /\ Cardinality(occupancy) = length /\ length \in Nat
  BY PathSize, CellsOf DEF Inv, length
<1>2. Cardinality(occupancy) <= SNAKE_MAX_LENGTH
      /\ (Cardinality(occupancy) = SNAKE_MAX_LENGTH => occupancy = Cells)
  BY <1>1, FieldFinite, FS_Subset
<1>3. occupancy = Cells
  BY <1>1, <1>2, FieldSize
<1> QED BY <1>3 DEF Inv, Apart

\* Points and length after a move.
LEMMA AdvanceGrowing ==
    ASSUME Inv, Growing, NEW next \in Cells, ~Dies(next), Advance(next), Inv'
    PROVE  Growing'
<1> DEFINE left == IF should_grow THEN Tail(growth_points) ELSE growth_points
<1>1. IF next \in apples
      THEN score' = score + 1 /\ growth_points' = Enqueue(left, next)
      ELSE growth_points' = left /\ score' = score
  BY DEF Advance
<1>2. PICK n \in Nat, g \in Nat : n = length /\ g = Len(growth_points) /\ n >= 2
  BY DEF Inv, Growing, length
<1>3. score = (n - SNAKE_INITIAL_LENGTH) + g /\ SNAKE_INITIAL_LENGTH \in Nat /\ score \in Nat
  BY <1>2, FieldAssumption DEF Growing, Inv
<1>4. body' \in Seq(Cells) /\ Distinct(body') /\ length' = Len(body')
  BY DEF Inv, length
<1>5. CASE n < SNAKE_MAX_LENGTH
  <2>1. /\ left \in Seq(Cells) /\ OnPath(body', left) /\ \A k \in 1..Len(left) : left[k] # next
        /\ body'[1] = next /\ length' = IF should_grow THEN n + 1 ELSE n
    BY <1>2, <1>4, <1>5, Moved
  <2>2. Len(left) = IF should_grow THEN g - 1 ELSE g
    <3>1. CASE should_grow
      <4>1. growth_points # <<>> /\ growth_points \in Seq(Cells)
        BY <3>1 DEF should_grow, Inv
      <4> QED BY <1>2, <3>1, <4>1, HeadTailProperties
    <3>2. CASE ~should_grow
      BY <1>2, <3>2
    <3> QED BY <3>1, <3>2
  <2> HIDE DEF left
  <2>3. length' >= 2 /\ length' <= SNAKE_MAX_LENGTH /\ length' \in Nat
    BY <1>2, <1>5, <2>1, FieldSize
  <2>4. length' + Len(left) = n + g /\ Len(left) \in Nat
    BY <1>2, <2>1, <2>2
  <2>5. CASE next \in apples
    <3>1. Len(left) <= Len(body') - 1
      <4>1. body' \in Seq(Cells) /\ Distinct(body') /\ Len(body') >= 1
        BY <1>4, <2>3
      <4> QED BY <2>1, <4>1, QueueIsShort
    <3>2. Len(left) < SNAKE_MAX_LENGTH
      BY <1>4, <2>3, <2>4, <3>1, FieldSize
    <3>3. growth_points' = Append(left, next) /\ score' = score + 1
      BY <1>1, <2>5, <3>2 DEF Enqueue
    <3>4. Len(growth_points') = Len(left) + 1
      BY <2>1, <3>3, AppendProperties
    <3>5. OnPath(body', growth_points')
      BY <1>4, <2>1, <2>3, <3>3, OnEnqueued
    <3>6. score' = (length' - SNAKE_INITIAL_LENGTH) + Len(growth_points')
      BY <1>2, <1>3, <2>3, <2>4, <3>3, <3>4, SMTT(60)
    <3> QED BY <2>3, <3>5, <3>6 DEF Growing
  <2>6. CASE next \notin apples
    <3>1. growth_points' = left /\ score' = score
      BY <1>1, <2>6
    <3>2. score' = (length' - SNAKE_INITIAL_LENGTH) + Len(growth_points')
      BY <1>2, <1>3, <2>3, <2>4, <3>1
    <3> QED BY <2>1, <2>3, <3>1, <3>2 DEF Growing
  <2> QED BY <2>5, <2>6
<1>6. CASE ~(n < SNAKE_MAX_LENGTH)
  <2>1. next \notin apples /\ ~should_grow
    BY <1>2, <1>6, FullField DEF should_grow
  <2>2. growth_points' = growth_points /\ score' = score /\ body' = <<next>> \o SubSeq(body, 1, length - 1)
    BY <1>1, <2>1 DEF Advance
  <2>3. length' = n
    <3>1. PICK front : front = SubSeq(body, 1, Len(body) - 1)
      OBVIOUS
    <3>2. front \in Seq(Cells) /\ Len(front) = Len(body) - 1 /\ Distinct(front)
          /\ Cellset(front) = occupancy \ {tail}
      BY <3>1, Shortened DEF Inv, tail, length
    <3>3. next \notin Cellset(front)
      BY <2>1, <3>2 DEF Dies
    <3>4. Len(body') = Len(front) + 1
      BY <2>2, <3>1, <3>2, <3>3, Extended DEF length
    <3> QED BY <1>2, <1>4, <3>2, <3>4 DEF length
  <2> QED BY <1>2, <1>3, <1>6, <2>2, <2>3 DEF Growing
<1> QED BY <1>5, <1>6

LEMMA EmptyGrowing ==
    ASSUME SNAKE_INITIAL_LENGTH >= 2
    PROVE  /\ OnPath(CenterBody, <<>>) /\ Len(CenterBody) >= 2 /\ Len(<<>>) = 0
           /\ 0 = (Len(CenterBody) - SNAKE_INITIAL_LENGTH) + Len(<<>>)
<1>1. SNAKE_INITIAL_LENGTH \in Nat /\ Len(CenterBody) = SNAKE_INITIAL_LENGTH /\ Len(<<>>) = 0
  BY FieldAssumption, CenterBodyIsPath
<1> QED BY <1>1 DEF OnPath

LEMMA NextGrowing ==
    ASSUME SNAKE_INITIAL_LENGTH >= 2
    PROVE  Inv /\ Inv' /\ Growing /\ [Next]_vars => Growing'
<1> SUFFICES ASSUME Inv, Inv', Growing, [Next]_vars PROVE Growing'
  OBVIOUS
<1>1. CASE UNCHANGED <<body, growth_points, score>>
  BY <1>1 DEF Growing, length
<1>2. CASE Restart
  <2>1. body' = CenterBody /\ growth_points' = <<>> /\ score' = 0
    BY <1>2 DEF Restart, snake_reset_game
  <2> QED BY <2>1, EmptyGrowing DEF Growing, length
<1>3. CASE Turn
  <2>1. PICK d \in Dirs : Tick(d)
    BY <1>3 DEF Turn
  <2> DEFINE next == Neighbour(body[1], d)
  <2>2. next \in Cells
    <3>1. body[1] \in Cells
      BY EmptySeq DEF Inv
    <3> QED BY <3>1, NeighbourIsCell
  <2>3. CASE Dies(next)
    BY <1>1, <2>1, <2>3 DEF Tick
  <2>4. CASE ~Dies(next)
    <3>1. Advance(next)
      BY <2>1, <2>4 DEF Tick
    <3> HIDE DEF next
    <3> QED BY <2>2, <2>4, <3>1, AdvanceGrowing
  <2> QED BY <2>3, <2>4
<1>4. CASE UNCHANGED vars
  BY <1>1, <1>4 DEF vars
<1>5. CASE snake_model_spawn_obstacle
  BY <1>1, <1>5 DEF snake_model_spawn_obstacle
<1>6. CASE snake_fill_apples
  BY <1>1, <1>6 DEF snake_fill_apples
<1> QED BY <1>2, <1>3, <1>4, <1>5, <1>6 DEF Next

\* The place of a cell of the snake is the only one it is at.
LEMMA IndexIsPlace ==
    ASSUME Inv, NEW i \in 1..length
    PROVE  Index(body[i]) = i
<1>1. \A j \in 1..length : body[j] = body[i] => j = i
  BY DEF Inv, Distinct, length
<1>2. Index(body[i]) \in 1..length /\ body[Index(body[i])] = body[i]
  BY DEF Index
<1> QED BY <1>1, <1>2

LEMMA KeptInv == Inv /\ Growing => GrowthKept
<1> SUFFICES ASSUME Inv, Growing PROVE GrowthKept
  OBVIOUS
<1>1. PICK n \in Nat : n = length /\ n >= 2 /\ n = Len(body)
  BY DEF Inv, Growing, length
<1> DEFINE queue == growth_points
           front == SubSeq(body, 1, n - 1)
<1>2. queue \in Seq(Cells)
  BY DEF Inv
<1>3. /\ front \in Seq(Cells) /\ Len(front) = n - 1
      /\ \A i \in 1..(n - 1) : front[i] = body[i]
  <2>1. body \in Seq(Cells) /\ body # <<>> /\ Distinct(body) /\ Len(body) = n
    BY <1>1 DEF Inv
  <2> HIDE DEF front
  <2>2. front = SubSeq(body, 1, Len(body) - 1)
    BY <2>1 DEF front
  <2>3. front \in Seq(Cells) /\ Len(front) = Len(body) - 1 /\ \A i \in 1..Len(front) : front[i] = body[i]
    BY <2>1, <2>2, Shortened
  <2> QED BY <2>1, <2>3
<1> HIDE DEF front
<1>4. ASSUME length < SNAKE_MAX_LENGTH
      PROVE  Cellset(queue) \subseteq Cellset(front)
  <2>1. \A k \in 1..Len(queue) : \E i \in 1..(n - 1) : body[i] = queue[k]
    BY <1>1, <1>4 DEF Growing, OnPath
  <2>2. \A c : c \in Cellset(queue) <=> \E k \in 1..Len(queue) : queue[k] = c
    BY <1>2, CellsOf
  <2>3. \A c : c \in Cellset(front) <=> \E i \in 1..(n - 1) : front[i] = c
    BY <1>3, CellsOf
  <2> QED BY <1>3, <2>1, <2>2, <2>3
<1>5. ASSUME length < SNAKE_MAX_LENGTH, NEW k \in DOMAIN queue, NEW m \in DOMAIN queue, k < m
      PROVE  Index(queue[k]) > Index(queue[m])
  <2>1. k \in 1..Len(queue) /\ m \in 1..Len(queue)
    BY <1>2
  <2>2. PICK i \in 1..(n - 1) : body[i] = queue[k]
    BY <1>1, <1>5, <2>1 DEF Growing, OnPath
  <2>3. PICK j \in 1..(n - 1) : body[j] = queue[m]
    BY <1>1, <1>5, <2>1 DEF Growing, OnPath
  <2>4. i \in 1..n /\ j \in 1..n
    BY <1>1
  <2>5. i > j
    BY <1>1, <1>5, <2>1, <2>2, <2>3, <2>4 DEF Growing, OnPath
  <2>6. Index(queue[k]) = i /\ Index(queue[m]) = j
    <3>1. Index(body[i]) = i /\ Index(body[j]) = j
      BY <1>1, <2>4, IndexIsPlace
    <3> QED BY <2>2, <2>3, <3>1
  <2> QED BY <2>5, <2>6
<1>6. GrowthAhead
  BY <1>1, <1>4, <1>5 DEF GrowthAhead, front
<1> QED BY <1>6 DEF GrowthKept, Growing

\* With a snake of at least two cells at the start, as the program has it: every point
\* scored is a cell the snake has grown by or has still ahead of its tail.
THEOREM GrowthIsKept ==
    ASSUME SNAKE_INITIAL_LENGTH >= 2
    PROVE  Spec => []GrowthKept
<1>1. Init => Growing
  BY EmptyGrowing DEF Init, Growing, length
<1>2. Inv /\ Inv' /\ Growing /\ [Next]_vars => Growing'
  BY NextGrowing
<1> QED BY <1>1, <1>2, Invariance, KeptInv, PTL DEF Spec

-----------------------------------------------------------------------------
(* The rules of the game                                                     *)

LEMMA SameRules ==
    ASSUME Inv
    PROVE  /\ Rules!Grows <=> should_grow
           /\ Rules!Rest = IF should_grow THEN body ELSE SubSeq(body, 1, length - 1)
           /\ Cellset(Rules!Rest) = IF should_grow THEN occupancy ELSE occupancy \ {tail}
           /\ Rules!Cellset(Rules!Rest) = Cellset(Rules!Rest)
           /\ Rules!Cellset(body) = occupancy
<1>1. Len(body) > 1 <=> 1 < Len(body)
  BY DEF Inv
<1>2. Rules!Grows <=> should_grow
  BY <1>1 DEF Rules!Grows, should_grow, length
<1>3. Rules!Rest = IF should_grow THEN body ELSE SubSeq(body, 1, length - 1)
  BY <1>2 DEF Rules!Rest, Rules!But, length
<1>4. \A path : Rules!Cellset(path) = Cellset(path)
  BY DEF Rules!Cellset, Cellset
<1>5. Cellset(body) = occupancy
  BY DEF Inv
<1>6. Cellset(SubSeq(body, 1, length - 1)) = occupancy \ {tail}
  <2>1. PICK front : front = SubSeq(body, 1, Len(body) - 1)
    OBVIOUS
  <2>2. Cellset(front) = Cellset(body) \ {body[Len(body)]}
    BY <2>1, Shortened DEF Inv
  <2> QED BY <1>5, <2>1, <2>2 DEF length, tail
<1>7. Cellset(Rules!Rest) = IF should_grow THEN occupancy ELSE occupancy \ {tail}
  BY <1>3, <1>5, <1>6
<1> QED BY <1>2, <1>3, <1>4, <1>5, <1>7

\* An apple eaten always finds room in the queue.
LEMMA RoomInQueue ==
    ASSUME Inv, Growing, NEW next \in apples, ~Dies(next), Advance(next), Inv',
           NEW left, left = IF should_grow THEN Tail(growth_points) ELSE growth_points
    PROVE  left \in Seq(Cells) /\ Len(left) < SNAKE_MAX_LENGTH
<1>1. next \in Cells /\ length < SNAKE_MAX_LENGTH
  BY FullField DEF Inv
<1>2. PICK n \in Nat : n = length /\ n >= 2
  BY DEF Inv, Growing, length
<1>3. /\ left \in Seq(Cells) /\ OnPath(body', left)
      /\ Len(body') = IF should_grow THEN length + 1 ELSE length
  BY <1>1, Moved
<1>4. PICK m \in Nat : m = Len(body') /\ m >= 1 /\ m <= SNAKE_MAX_LENGTH
  BY <1>1, <1>2, <1>3, FieldSize
<1>5. Len(left) <= m - 1
  <2>1. body' \in Seq(Cells) /\ Distinct(body') /\ Len(body') >= 1
    BY <1>4 DEF Inv
  <2> QED BY <1>3, <1>4, <2>1, QueueIsShort
<1>6. Len(left) \in Nat
  BY <1>3
<1> QED BY <1>3, <1>4, <1>5, <1>6, FieldSize

LEMMA TickPlays ==
    ASSUME Inv, Inv', Growing, NEW d \in Dirs, Tick(d)
    PROVE  Rules!Move(d) \/ Rules!Die(d)
<1> DEFINE next == Neighbour(body[1], d)
<1>1. next \in Cells
  <2>1. body[1] \in Cells
    BY EmptySeq DEF Inv
  <2> QED BY <2>1, NeighbourIsCell
<1>2. Dies(next) <=> next \in obstacles \cup Rules!Cellset(Rules!Rest)
  BY SameRules DEF Dies
<1>3. CASE Dies(next)
  <2>1. alive /\ alive' = FALSE /\ UNCHANGED <<body, growth_points, apples, obstacles>>
    BY <1>3 DEF Tick
  <2> QED BY <1>2, <1>3, <2>1 DEF Rules!Die
<1>4. CASE ~Dies(next)
  <2>1. Advance(next) /\ alive /\ alive' = alive /\ obstacles' = obstacles
    BY <1>4 DEF Tick
  <2>2. body' = <<next>> \o Rules!Rest
    BY <2>1, SameRules DEF Advance
  <2> DEFINE left == IF Rules!Grows THEN Tail(growth_points) ELSE growth_points
  <2>3. left = IF should_grow THEN Tail(growth_points) ELSE growth_points
    BY SameRules
  <2>4. left \in Seq(Cells)
    <3>1. should_grow => growth_points # <<>> /\ growth_points \in Seq(Cells)
      BY DEF should_grow, Inv
    <3> QED BY <2>3, <3>1, HeadTailProperties DEF Inv
  <2>5. IF next \in apples
        THEN apples' = apples \ {next} /\ growth_points' = Enqueue(left, next)
        ELSE growth_points' = left /\ apples' = apples
    BY <2>1, <2>3 DEF Advance
  <2> HIDE DEF left, next
  <2>6. growth_points' = left \o (IF next \in apples THEN <<next>> ELSE <<>>)
    <3>1. CASE next \in apples
      <4>1. Len(left) < SNAKE_MAX_LENGTH
        BY <1>4, <2>1, <2>3, <3>1, RoomInQueue
      <4>2. growth_points' = Append(left, next)
        BY <2>5, <3>1, <4>1 DEF Enqueue
      <4> QED BY <1>1, <2>4, <3>1, <4>2, AppendIsConcat
    <3>2. CASE next \notin apples
      BY <2>4, <2>5, <3>2, ConcatEmptySeq
    <3> QED BY <3>1, <3>2
  <2>7. apples' = apples \ {next}
    BY <2>5
  <2>8. next \notin obstacles \cup Rules!Cellset(Rules!Rest)
    BY <1>2, <1>4
  <2> QED BY <2>1, <2>2, <2>6, <2>7, <2>8 DEF Rules!Move, left, next
<1> QED BY <1>3, <1>4

LEMMA StepPlays ==
    Inv /\ Inv' /\ Growing /\ [Next]_vars => [Rules!Next]_Rules!vars
<1> SUFFICES ASSUME Inv, Inv', Growing, [Next]_vars PROVE [Rules!Next]_Rules!vars
  OBVIOUS
<1>1. \A c \in Picks : c \in Cells /\ Rules!Free(c)
  BY SameRules DEF Picks, Free, Rules!Free
<1>2. CASE snake_model_spawn_obstacle
  <2>1. UNCHANGED <<body, growth_points, apples, alive>>
    BY <1>2 DEF snake_model_spawn_obstacle
  <2>2. obstacles' = obstacles \/ \E c \in Picks : obstacles' = obstacles \cup {c}
    BY <1>2 DEF snake_model_spawn_obstacle
  <2>3. obstacles' = obstacles \/ \E c \in Cells : Rules!Build(c)
    BY <1>1, <2>1, <2>2 DEF Rules!Build
  <2> QED BY <2>1, <2>3 DEF Rules!Next, Rules!vars
<1>3. CASE snake_fill_apples
  <2>1. UNCHANGED <<body, growth_points, obstacles, alive>>
    BY <1>3 DEF snake_fill_apples
  <2>2. apples' = apples \/ \E c \in Picks : apples' = apples \cup {c}
    BY <1>3 DEF snake_fill_apples
  <2>3. apples' = apples \/ \E c \in Cells : Rules!Grow(c)
    BY <1>1, <2>1, <2>2 DEF Rules!Grow
  <2> QED BY <2>1, <2>3 DEF Rules!Next, Rules!vars
<1>4. CASE Turn
  BY <1>4, TickPlays DEF Turn, Rules!Next
<1>5. CASE Restart
  <2>1. Len(body') > 0
    BY EmptySeq DEF Inv
  <2>2. growth_points' = <<>> /\ apples' = {} /\ obstacles' = {} /\ alive' = TRUE
    BY <1>5 DEF Restart, snake_reset_game
  <2> QED BY <2>1, <2>2 DEF Rules!Restart, Rules!Next
<1>6. CASE UNCHANGED vars
  BY <1>6 DEF vars, Rules!vars
<1> QED BY <1>2, <1>3, <1>4, <1>5, <1>6 DEF Next

\* The array, the map and the queue, on a field of any size, with a snake of at least two
\* cells at the start, do what the rules of the game say.
THEOREM GameIsPlayed ==
    ASSUME SNAKE_INITIAL_LENGTH >= 2
    PROVE  Spec => PlaysByTheRules
<1>1. Init => Growing
  BY EmptyGrowing DEF Init, Growing, length
<1>2. Inv /\ Inv' /\ Growing /\ [Next]_vars => Growing'
  BY NextGrowing
<1>3. Init => Rules!Init
  <2> SUFFICES ASSUME Init PROVE Rules!Init
    OBVIOUS
  <2>1. Len(body) > 0
    BY CenterBodyIsPath, EmptySeq DEF Init
  <2> QED BY <2>1 DEF Init, Rules!Init
<1> QED BY <1>1, <1>2, <1>3, Invariance, StepPlays, PTL DEF Spec, PlaysByTheRules, Rules!Spec

\* Drawing changes nothing of the game.
THEOREM DrawingOnlyDraws == ScreenSpec => Spec
<1>1. ScreenInit => Init
  BY DEF ScreenInit
<1>2. [ScreenNext]_svars => [Next]_vars
  BY DEF ScreenNext, NewGame, PlaceObstacle, PlaceApple, TickAndDraw, PauseResume, Next, vars, svars
<1> QED BY <1>1, <1>2, PTL DEF ScreenSpec, Spec
=============================================================================
