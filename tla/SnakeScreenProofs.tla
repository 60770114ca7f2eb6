--------------------------- MODULE SnakeScreenProofs -------------------------
(***************************************************************************)
(* On every field: the apples asked for are there whenever the game goes    *)
(* on, and the incremental drawing shows what drawing everything would.     *)
(***************************************************************************)
EXTENDS SnakeProofs

-----------------------------------------------------------------------------
(* Apples                                                                    *)

\* Never more apples than there is a use and room for, and while the game is on no fewer.
Filled ==
    /\ at = "obstacles" => apples = {}
    /\ Cardinality(apples) <= snake_effective_apple_target
    /\ at = "play" => Cardinality(apples) = snake_effective_apple_target

Room == SNAKE_MAX_LENGTH - length - Cardinality(obstacles)

\* The three limits, in numbers, and what is left when the apples are placed.
Limits ==
    /\ Room \in Nat /\ Cardinality(apples) \in Nat /\ snake_effective_apple_target \in Nat
    /\ Cardinality(apples) <= Room /\ free_cells = Room - Cardinality(apples)
    /\ snake_effective_apple_target <= target_apple_count
    /\ snake_effective_apple_target <= SNAKE_MAX_APPLES
    /\ snake_effective_apple_target <= Room
    /\ \/ snake_effective_apple_target = target_apple_count
       \/ snake_effective_apple_target = SNAKE_MAX_APPLES
       \/ snake_effective_apple_target = Room

LEMMA Target == Inv => Limits
<1> SUFFICES ASSUME Inv PROVE Limits
  OBVIOUS
<1>1. /\ IsFiniteSet(apples) /\ IsFiniteSet(obstacles) /\ IsFiniteSet(Free)
  <2>1. apples \subseteq Cells /\ obstacles \subseteq Cells /\ Free \subseteq Cells
    BY DEF Inv, Free
  <2> QED BY <2>1, FieldFinite, FS_Subset
<1>2. /\ Cardinality(apples) \in Nat /\ Cardinality(obstacles) \in Nat /\ Cardinality(Free) \in Nat
  BY <1>1, FS_CardinalityType
<1>3. length \in Nat /\ SNAKE_MAX_LENGTH \in Nat /\ SNAKE_MAX_APPLES \in Nat
  BY FieldSize, FieldAssumption, LenProperties DEF Inv, length
<1>4. target_apple_count \in Nat
  BY <1>3 DEF Inv
<1>5. Room \in Int /\ free_cells = Room - Cardinality(apples)
  BY <1>2, <1>3 DEF Room, free_cells
<1>6. Cardinality(apples) <= Room
  BY <1>2, <1>5, FreeCells DEF FreeCellsCounted
<1>7. snake_effective_apple_target = Lesser(target_apple_count, Lesser(SNAKE_MAX_APPLES, Room))
  BY <1>2, <1>5, <1>6 DEF snake_effective_apple_target, Room
<1> HIDE DEF Room
<1> QED BY <1>2, <1>3, <1>4, <1>5, <1>6, <1>7 DEF Lesser, Limits

\* The loop that places apples ends only when they are all there: a free cell is found
\* whenever one more is called for.
LEMMA FillFilled ==
    ASSUME Inv, Filled, snake_fill_apples
    PROVE  Filled'
<1>1. /\ at = "apples" /\ UNCHANGED <<body, obstacles, target_apple_count>>
      /\ IF Cardinality(apples) < snake_effective_apple_target
         THEN \/ \E c \in Picks : apples' = apples \cup {c} /\ at' = at
              \/ PickFails /\ at' = "play" /\ UNCHANGED apples
         ELSE at' = "play" /\ UNCHANGED apples
  BY DEF snake_fill_apples
<1>2. snake_effective_apple_target' = snake_effective_apple_target
  BY <1>1 DEF snake_effective_apple_target, length
<1>3. Cardinality(apples) <= snake_effective_apple_target
  BY DEF Filled
<1>4. CASE Cardinality(apples) < snake_effective_apple_target
  <2>1. ~PickFails
    BY <1>4, Target, FreeCells DEF Limits, PickFails, FreeCellsCounted
  <2>2. PICK c \in Picks : apples' = apples \cup {c} /\ at' = at
    BY <1>1, <1>4, <2>1
  <2>3. c \notin apples
    BY DEF Picks, Free
  <2>4. IsFiniteSet(apples)
    BY FieldFinite, FS_Subset DEF Inv
  <2>5. Cardinality(apples') = Cardinality(apples) + 1
    BY <2>2, <2>3, <2>4, FS_AddElement
  <2>6. Cardinality(apples)' <= snake_effective_apple_target'
    BY <1>2, <1>4, <2>5, Target DEF Limits
  <2> QED BY <1>1, <2>2, <2>6 DEF Filled
<1>5. CASE ~(Cardinality(apples) < snake_effective_apple_target)
  <2>1. Cardinality(apples) = snake_effective_apple_target
    BY <1>3, <1>5, Target DEF Limits
  <2> QED BY <1>1, <1>2, <1>5, <2>1 DEF Filled
<1> QED BY <1>4, <1>5

\* A move that eats leaves one apple less, one that only grows leaves as many as still fit.
LEMMA AdvanceFilled ==
    ASSUME Inv, Inv', Filled, at = "play", NEW next \in Cells, Advance(next),
           UNCHANGED <<obstacles, target_apple_count>>
    PROVE  Filled'
<1>1. length' = length \/ length' = length + 1
  <2>1. CASE should_grow
    <3>1. body' = <<next>> \o body
      BY <2>1 DEF Advance
    <3> QED BY <3>1 DEF length, Inv
  <2>2. CASE ~should_grow
    <3>1. PICK front : front = SubSeq(body, 1, Len(body) - 1)
      OBVIOUS
    <3>2. body' = <<next>> \o front
      BY <2>2, <3>1 DEF Advance, length
    <3>3. front \in Seq(Cells) /\ Len(front) = Len(body) - 1 /\ Len(body) \in Nat
      BY <3>1, Shortened, LenProperties DEF Inv
    <3> QED BY <3>2, <3>3 DEF length
  <2> QED BY <2>1, <2>2
<1>2. /\ length \in Nat /\ Cardinality(obstacles) \in Nat
  <2>1. IsFiniteSet(obstacles)
    BY FieldFinite, FS_Subset DEF Inv
  <2> QED BY <2>1, FS_CardinalityType, LenProperties DEF Inv, length
<1>3. Room' = Room \/ Room' = Room - 1
  BY <1>1, <1>2, FieldSize DEF Room
<1>4. Limits /\ Limits'
  <2>1. (Inv => Limits) /\ (Inv => Limits)'
    BY Target, PTL
  <2> QED BY <2>1
<1>5. Cardinality(apples) = snake_effective_apple_target
  BY DEF Filled
<1>6. target_apple_count \in Nat /\ SNAKE_MAX_APPLES \in Nat
  BY FieldAssumption DEF Inv
<1>7. CASE next \in apples
  <2>1. apples' = apples \ {next} /\ at' = "apples"
    BY <1>7 DEF Advance
  <2>2. IsFiniteSet(apples)
    BY FieldFinite, FS_Subset DEF Inv
  <2>3. Cardinality(apples') = Cardinality(apples) - 1
    BY <1>7, <2>1, <2>2, FS_RemoveElement
  <2>4. Cardinality(apples') <= snake_effective_apple_target'
    BY <1>3, <1>4, <1>5, <1>6, <2>3 DEF Limits
  <2> QED BY <2>1, <2>4 DEF Filled
<1>8. CASE next \notin apples
  <2>1. apples' = apples /\ at' = at
    BY <1>8 DEF Advance
  <2>2. Cardinality(apples') = snake_effective_apple_target'
    BY <1>3, <1>4, <1>5, <1>6, <2>1 DEF Limits
  <2>3. Cardinality(apples') <= snake_effective_apple_target'
    BY <1>4, <2>2 DEF Limits
  <2> QED BY <2>1, <2>2, <2>3 DEF Filled
<1> QED BY <1>7, <1>8

LEMMA NextFilled == Inv /\ Inv' /\ Filled /\ [Next]_vars => Filled'
<1> SUFFICES ASSUME Inv, Inv', Filled, [Next]_vars PROVE Filled'
  OBVIOUS
<1>1. Limits /\ Limits'
  <2>1. (Inv => Limits) /\ (Inv => Limits)'
    BY Target, PTL
  <2> QED BY <2>1
<1>2. CASE apples' = {} /\ at' \in {"obstacles", "apples"}
  <2>1. Cardinality(apples') = 0
    BY <1>2, FS_EmptySet
  <2> QED BY <1>1, <1>2, <2>1 DEF Filled, Limits
<1>3. CASE UNCHANGED <<at, apples, body, obstacles, target_apple_count>>
  <2>1. snake_effective_apple_target' = snake_effective_apple_target
    BY <1>3 DEF snake_effective_apple_target, length
  <2> QED BY <1>3, <2>1 DEF Filled
<1>4. CASE snake_model_spawn_obstacle
  BY <1>2, <1>4 DEF snake_model_spawn_obstacle, Filled
<1>5. CASE Restart
  BY <1>2, <1>5 DEF Restart, snake_reset_game
<1>6. CASE Turn
  <2>1. PICK d \in Dirs : Tick(d)
    BY <1>6 DEF Turn
  <2>2. PICK next : next = Neighbour(body[1], d)
    OBVIOUS
  <2>3. CASE Dies(next)
    BY <1>3, <2>1, <2>2, <2>3 DEF Tick
  <2>4. CASE ~Dies(next)
    <3>1. at = "play" /\ Advance(next) /\ UNCHANGED <<obstacles, target_apple_count>>
      BY <2>1, <2>2, <2>4 DEF Tick
    <3>2. next \in Cells
      <4>1. body[1] \in Cells
        BY EmptySeq DEF Inv
      <4> QED BY <2>2, <4>1, NeighbourIsCell
    <3> QED BY <3>1, <3>2, AdvanceFilled
  <2> QED BY <2>3, <2>4
<1>7. CASE UNCHANGED vars
  BY <1>3, <1>7 DEF vars
<1> QED BY <1>4, <1>5, <1>6, <1>7, FillFilled DEF Next

\* On every field, and however little room the snake leaves: whenever the loop that places
\* apples has ended there are as many as were asked for or still fit.
THEOREM ApplesAreRestored == Spec => []ApplesRestored
<1>1. Init => Filled
  <2> SUFFICES ASSUME Init PROVE Filled
    OBVIOUS
  <2>1. Limits
    BY InitInv, Target
  <2>2. apples = {} /\ at = "obstacles" /\ Cardinality(apples) = 0
    BY FS_EmptySet DEF Init
  <2> QED BY <2>1, <2>2 DEF Filled, Limits
<1>2. Filled => ApplesRestored
  BY DEF Filled, ApplesRestored
<1> QED BY <1>1, <1>2, NextFilled, Invariance, PTL DEF Spec

-----------------------------------------------------------------------------
(* Drawing                                                                   *)

Under(c) == IF c \in occupancy THEN BODY ELSE Left(c)

\* The field drawn in full, and by the cells that have changed, cell by cell.
LEMMA FullAt ==
    \A c \in Cells :
        snake_render_full[c] = IF c = body[1] THEN dir ELSE IF c = tail THEN TAIL
                               ELSE IF c \notin occupancy /\ c \in apples THEN APPLE
                               ELSE Under(c)
BY Zenon DEF snake_render_full, Ends, Drawn, clear, Under, Left

LEMMA StepAt ==
    ASSUME NEW fb, NEW head, NEW last
    PROVE  \A c \in Cells :
               snake_render_step(fb, head, last)[c]
               = IF c = body[1] THEN dir ELSE IF c = tail THEN TAIL ELSE IF c = head THEN BODY
                 ELSE IF c = last THEN Left(c) ELSE IF c \in apples THEN APPLE ELSE fb[c]
BY Zenon DEF snake_render_step, Ends, Drawn

LEMMA NextFullAt ==
    \A c \in Cells :
        snake_render_full'[c] = IF c = body'[1] THEN dir' ELSE IF c = tail' THEN TAIL
                                ELSE IF c \notin occupancy' /\ c \in apples' THEN APPLE
                                ELSE Under(c)'
BY Zenon DEF snake_render_full, Ends, Drawn, clear, Under, Left, Cells

LEMMA NextStepAt ==
    ASSUME NEW fb, NEW head, NEW last
    PROVE  \A c \in Cells :
               snake_render_step(fb, head, last)'[c]
               = IF c = body'[1] THEN dir' ELSE IF c = tail' THEN TAIL ELSE IF c = head THEN BODY
                 ELSE IF c = last THEN Left(c)' ELSE IF c \in apples' THEN APPLE ELSE fb[c]
BY Zenon DEF snake_render_step, Ends, Drawn, Cells

\* What is on the screen while the apples that an eaten one calls for are placed: the snake
\* as it was before that tick, and of the apples some.
Picture ==
    /\ prev_head \in occupancy
    /\ prev_tail \in occupancy => prev_tail \in {tail, body[1]}
    /\ \A c \in Cells \ {body[1], tail, prev_head, prev_tail} :
           c \in apples \/ framebuffer[c] = Under(c)

\* While the game is on only an apple may be missing on the screen.
ScreenInv ==
    /\ at = "play" => \A c \in Cells : c \in apples \/ framebuffer[c] = snake_render_full[c]
    /\ at = "apples" /\ prev_head # NoCell => Picture
    /\ at = "obstacles" => prev_head = NoCell
    /\ at = "play" => prev_head = NoCell

\* The cells of the snake that a move changes.
LEMMA MovedCells ==
    ASSUME Inv, length >= 2, NEW next \in Cells, ~Dies(next), Advance(next)
    PROVE  /\ body'[1] = next /\ body[1] # next
           /\ body[1] \in occupancy /\ tail \in occupancy
           /\ occupancy' = (IF should_grow THEN occupancy ELSE occupancy \ {tail}) \cup {next}
           /\ should_grow => tail' = tail
           /\ body[1] # tail
<1>1. /\ body \in Seq(Cells) /\ Len(body) \in Nat /\ Len(body) >= 2 /\ Distinct(body)
      /\ occupancy = Cellset(body)
  BY DEF Inv, length
<1>2. body[1] # tail /\ body[1] \in occupancy /\ tail \in occupancy
  <2>1. 1 \in 1..Len(body) /\ Len(body) \in 1..Len(body) /\ 1 # Len(body)
    <3>1. PICK n \in Nat : n = Len(body) /\ n >= 2
      BY <1>1
    <3>2. 1 \in 1..n /\ n \in 1..n /\ 1 # n
      BY <3>1
    <3> QED BY <3>1, <3>2
  <2> QED BY <1>1, <2>1, CellsOf DEF Distinct, tail, length
<1>3. body[1] # next
  BY <1>2 DEF Dies
<1>4. PICK rest : /\ rest = IF should_grow THEN body ELSE SubSeq(body, 1, Len(body) - 1)
                  /\ body' = <<next>> \o rest
  BY DEF Advance, length
<1>5. rest \in Seq(Cells) /\ (should_grow => rest = body)
  BY <1>1, <1>4, Shortened
<1>6. body'[1] = next
  BY <1>4, <1>5
<1>7. should_grow => tail' = tail
  <2> SUFFICES ASSUME should_grow PROVE tail' = tail
    OBVIOUS
  <2>1. body' = <<next>> \o body
    BY <1>4, <1>5
  <2>2. Len(body') = Len(body) + 1 /\ body'[Len(body) + 1] = body[Len(body)]
    BY <1>1, <2>1
  <2> QED BY <2>2 DEF tail, length
<1> QED BY <1>2, <1>3, <1>6, <1>7 DEF Advance, Marks

\* A tick that does not eat: what is drawn over the old picture makes the new one.
LEMMA TickFollows ==
    ASSUME Inv, Inv', length >= 2, NEW next \in Cells, ~Dies(next), Advance(next), at = "play",
           UNCHANGED <<obstacles, apples>>,
           \A c \in Cells : c \in apples \/ framebuffer[c] = snake_render_full[c],
           NEW fb, NEW head, NEW last, fb = framebuffer, head = body[1], last = tail,
           framebuffer' = snake_render_step(fb, head, last)'
    PROVE  \A c \in Cells : framebuffer'[c] = snake_render_full'[c]
<1> SUFFICES ASSUME NEW c \in Cells PROVE framebuffer'[c] = snake_render_full'[c]
  OBVIOUS
<1>1. framebuffer'[c] = IF c = body'[1] THEN dir' ELSE IF c = tail' THEN TAIL ELSE IF c = head THEN BODY
                        ELSE IF c = last THEN Left(c)' ELSE IF c \in apples' THEN APPLE ELSE fb[c]
  BY NextStepAt
<1>2. snake_render_full'[c] = IF c = body'[1] THEN dir' ELSE IF c = tail' THEN TAIL
                              ELSE IF c \notin occupancy' /\ c \in apples' THEN APPLE ELSE Under(c)'
  BY NextFullAt
<1>3. snake_render_full[c] = IF c = body[1] THEN dir ELSE IF c = tail THEN TAIL
                             ELSE IF c \notin occupancy /\ c \in apples THEN APPLE ELSE Under(c)
  BY FullAt
<1>4. /\ body'[1] = next /\ body[1] # next /\ body[1] \in occupancy /\ tail \in occupancy
      /\ occupancy' = (IF should_grow THEN occupancy ELSE occupancy \ {tail}) \cup {next}
      /\ should_grow => tail' = tail
      /\ body[1] # tail
  BY MovedCells
<1>5. apples \cap occupancy = {} /\ apples' = apples /\ apples' \cap occupancy' = {}
  BY DEF Inv, Apart
<1>6. Left(c)' = Left(c)
  BY DEF Left
<1>7. Under(c)' = (IF c \in occupancy' THEN BODY ELSE Left(c)) /\ Under(c) = (IF c \in occupancy THEN BODY ELSE Left(c))
  BY <1>6 DEF Under
<1>8. c \in apples \/ fb[c] = snake_render_full[c]
  OBVIOUS
<1>9. CASE c = body'[1] \/ c = tail'
  BY <1>1, <1>2, <1>9
<1>10. CASE c # body'[1] /\ c # tail' /\ c = head
  BY <1>1, <1>2, <1>4, <1>7, <1>10
<1>11. CASE c # body'[1] /\ c # tail' /\ c # head /\ c = last
  <2>1. c \notin occupancy'
    BY <1>4, <1>11
  <2>2. c \notin apples'
    BY <1>4, <1>5, <1>11
  <2> QED BY <1>1, <1>2, <1>6, <1>7, <1>11, <2>1, <2>2
<1>12. CASE c \notin {body'[1], tail', head, last}
  <2>1. c \in occupancy' <=> c \in occupancy
    BY <1>4, <1>12
  <2> QED BY <1>1, <1>2, <1>3, <1>5, <1>7, <1>8, <1>12, <2>1
<1> QED BY <1>9, <1>10, <1>11, <1>12

\* A tick that eats leaves the old picture.
LEMMA TickPicture ==
    ASSUME Inv, Inv', length >= 2, NEW next \in Cells, ~Dies(next), Advance(next), next \in apples,
           UNCHANGED <<obstacles, framebuffer>>, prev_head' = body[1], prev_tail' = tail,
           \A c \in Cells : c \in apples \/ framebuffer[c] = snake_render_full[c]
    PROVE  Picture'
<1>1. /\ body'[1] = next /\ body[1] # next /\ body[1] \in occupancy /\ tail \in occupancy
      /\ occupancy' = (IF should_grow THEN occupancy ELSE occupancy \ {tail}) \cup {next}
      /\ should_grow => tail' = tail
      /\ body[1] # tail
  BY MovedCells
<1>2. apples' = apples \ {next}
  BY DEF Advance
<1>3. ASSUME NEW c \in Cells, c \notin {body'[1], tail', prev_head', prev_tail'}, c \notin apples'
      PROVE  framebuffer'[c] = Under(c)'
  <2>1. c \notin apples /\ c # body[1] /\ c # tail
    BY <1>1, <1>2, <1>3
  <2>2. framebuffer[c] = Under(c)
    BY <2>1, FullAt
  <2>3. c \in occupancy' <=> c \in occupancy
    BY <1>1, <1>3, <2>1
  <2> QED BY <2>2, <2>3 DEF Under, Left
<1>4. prev_head' \in occupancy'
  BY <1>1
<1>5. prev_tail' \in occupancy' => prev_tail' \in {tail', body'[1]}
  BY <1>1
<1> QED BY <1>3, <1>4, <1>5 DEF Picture, Cells

\* When the last apple is there the tick is drawn; one on the cell the tail left is wiped.
LEMMA EatFollows ==
    ASSUME Inv', Picture, UNCHANGED <<dir, body, occupancy, obstacles, apples>>,
           NEW fb, NEW head, NEW last, fb = framebuffer, head = prev_head, last = prev_tail,
           framebuffer' = snake_render_step(fb, head, last)'
    PROVE  \A c \in Cells : \/ framebuffer'[c] = snake_render_full'[c]
                            \/ c = prev_tail /\ c \in apples'
<1> SUFFICES ASSUME NEW c \in Cells, ~(c = prev_tail /\ c \in apples')
             PROVE framebuffer'[c] = snake_render_full'[c]
  OBVIOUS
<1>1. framebuffer'[c] = IF c = body'[1] THEN dir' ELSE IF c = tail' THEN TAIL ELSE IF c = head THEN BODY
                        ELSE IF c = last THEN Left(c)' ELSE IF c \in apples' THEN APPLE ELSE fb[c]
  BY NextStepAt
<1>2. snake_render_full'[c] = IF c = body'[1] THEN dir' ELSE IF c = tail' THEN TAIL
                              ELSE IF c \notin occupancy' /\ c \in apples' THEN APPLE ELSE Under(c)'
  BY NextFullAt
<1>3. tail' = tail /\ Left(c)' = Left(c) /\ Under(c)' = Under(c)
  BY DEF tail, length, Left, Under
<1>4. apples' \cap occupancy' = {}
  BY DEF Inv, Apart
<1>5. CASE c = body'[1] \/ c = tail'
  BY <1>1, <1>2, <1>5
<1>6. CASE c # body'[1] /\ c # tail' /\ c = head
  BY <1>1, <1>2, <1>3, <1>6 DEF Picture, Under
<1>7. CASE c # body'[1] /\ c # tail' /\ c # head /\ c = last
  BY <1>1, <1>2, <1>3, <1>7 DEF Picture, Under
<1>8. CASE c \notin {body'[1], tail', head, last}
  BY <1>1, <1>2, <1>3, <1>4, <1>8 DEF Picture
<1> QED BY <1>5, <1>6, <1>7, <1>8

Follows ==
    at' = "play" =>
        \A c \in Cells :
            framebuffer'[c] = snake_render_full'[c]
            \/ (at = "apples" /\ c = prev_tail /\ c \in apples')

LEMMA PlaceFollows ==
    ASSUME Inv', ScreenInv, PlaceApple
    PROVE  Follows /\ ScreenInv'
<1>1. /\ at = "apples" /\ at' \in {"apples", "play"}
      /\ UNCHANGED <<dir, body, occupancy, obstacles>>
      /\ apples \subseteq apples' /\ (at' = "play" => apples' = apples)
  BY DEF PlaceApple, snake_fill_apples
<1>2. CASE at' = "apples"
  <2>1. UNCHANGED <<framebuffer, prev_head, prev_tail>>
    BY <1>2 DEF PlaceApple, screen
  <2>2. Picture => Picture'
    <3>1. tail' = tail /\ \A c : Under(c)' = Under(c)
      BY <1>1 DEF tail, length, Under, Left
    <3>2. body'[1] = body[1]
      BY <1>1
    <3> QED BY <1>1, <2>1, <3>1, <3>2 DEF Picture, Cells
  <2> QED BY <1>1, <1>2, <2>1, <2>2 DEF ScreenInv, Follows
<1>3. CASE at' = "play"
  <2>1. prev_head' = NoCell
    BY <1>3 DEF PlaceApple
  <2>2. CASE prev_head = NoCell
    <3>1. framebuffer' = snake_render_full'
      BY <1>3, <2>2 DEF PlaceApple
    <3> QED BY <1>1, <1>3, <2>1, <3>1 DEF ScreenInv, Follows
  <2>3. CASE prev_head # NoCell
    <3>1. PICK fb \in {framebuffer}, head \in {prev_head}, last \in {prev_tail} :
              framebuffer' = snake_render_step(fb, head, last)'
      BY <1>3, <2>3 DEF PlaceApple
    <3>2. Picture /\ apples' = apples
      BY <1>1, <1>3, <2>3 DEF ScreenInv
    <3>3. \A c \in Cells : framebuffer'[c] = snake_render_full'[c] \/ (c = prev_tail /\ c \in apples')
      BY <1>1, <3>1, <3>2, EatFollows
    <3>4. Follows
      BY <1>1, <3>3 DEF Follows
    <3>5. ScreenInv'
      BY <1>3, <2>1, <3>3 DEF ScreenInv, Cells
    <3> QED BY <3>4, <3>5
  <2> QED BY <2>2, <2>3
<1> QED BY <1>1, <1>2, <1>3

LEMMA DrawFollows ==
    ASSUME Inv, Inv', length >= 2, ScreenInv, TickAndDraw
    PROVE  Follows /\ ScreenInv'
<1>1. PICK d \in Dirs : Tick(d)
  BY DEF TickAndDraw, Turn
<1>2. at = "play" /\ UNCHANGED obstacles
  BY <1>1 DEF Tick
<1>3. /\ prev_head = NoCell
      /\ \A c \in Cells : c \in apples \/ framebuffer[c] = snake_render_full[c]
  BY <1>2 DEF ScreenInv
<1>4. PICK next : next = Neighbour(body[1], d)
  OBVIOUS
<1>5. next \in Cells
  <2>1. body[1] \in Cells
    BY EmptySeq DEF Inv
  <2> QED BY <1>4, <2>1, NeighbourIsCell
<1>6. CASE Dies(next)
  <2>1. alive' = FALSE /\ at' = "play"
    BY <1>1, <1>2, <1>4, <1>6 DEF Tick
  <2>2. framebuffer' = snake_render_full' /\ prev_head' = NoCell
    BY <1>3, <2>1 DEF TickAndDraw
  <2> QED BY <2>1, <2>2 DEF ScreenInv, Follows
<1>7. CASE ~Dies(next)
  <2>1. Advance(next) /\ alive' = alive /\ alive
    BY <1>1, <1>4, <1>7 DEF Tick
  <2>2. CASE next \in apples
    <3>1. at' = "apples"
      BY <2>1, <2>2 DEF Advance
    <3>2. prev_head' = body[1] /\ prev_tail' = tail /\ UNCHANGED framebuffer
      BY <3>1 DEF TickAndDraw
    <3>3. Picture'
      BY <1>2, <1>3, <1>5, <1>7, <2>1, <2>2, <3>2, TickPicture
    <3> QED BY <3>1, <3>3 DEF ScreenInv, Follows
  <2>3. CASE next \notin apples
    <3>1. at' = "play" /\ apples' = apples
      BY <1>2, <2>1, <2>3 DEF Advance
    <3>2. PICK fb \in {framebuffer}, head \in {body[1]}, last \in {tail} :
              framebuffer' = snake_render_step(fb, head, last)'
      BY <2>1, <3>1 DEF TickAndDraw
    <3>3. \A c \in Cells : framebuffer'[c] = snake_render_full'[c]
      BY <1>2, <1>3, <1>5, <1>7, <2>1, <3>1, <3>2, TickFollows
    <3>4. prev_head' = NoCell
      BY <1>3, <3>1 DEF TickAndDraw
    <3>5. ScreenInv'
      BY <3>1, <3>3, <3>4 DEF ScreenInv, Cells
    <3> QED BY <3>3, <3>5 DEF Follows
  <2> QED BY <2>2, <2>3
<1> QED BY <1>6, <1>7

LEMMA NextFollows ==
    ASSUME Inv, Inv', length >= 2, ScreenInv, [ScreenNext]_svars
    PROVE  (Follows \/ UNCHANGED svars) /\ ScreenInv'
<1>1. CASE NewGame
  <2>1. at' = "obstacles" /\ prev_head' = prev_head /\ at = "play"
    BY <1>1 DEF NewGame, Restart, snake_reset_game
  <2> QED BY <2>1 DEF ScreenInv, Follows
<1>2. CASE PlaceObstacle
  <2>1. at = "obstacles" /\ at' \in {"obstacles", "apples"} /\ prev_head' = prev_head
    BY <1>2 DEF PlaceObstacle, snake_model_spawn_obstacle, screen
  <2> QED BY <2>1 DEF ScreenInv, Follows
<1>3. CASE PauseResume
  <2>1. at = "play" /\ at' = "play" /\ UNCHANGED <<dir, body, occupancy, apples, obstacles, prev_head>>
        /\ framebuffer' = snake_render_full
    BY <1>3 DEF PauseResume, vars
  <2>2. snake_render_full' = snake_render_full
    <3>1. \A fb : Ends(fb)' = Ends(fb)
      BY <2>1 DEF Ends, Drawn, tail, length
    <3> QED BY <2>1 DEF snake_render_full, Ends, Drawn, tail, length
  <2>3. \A c \in Cells : framebuffer'[c] = snake_render_full'[c]
    BY <2>1, <2>2
  <2>4. prev_head' = NoCell
    BY <2>1 DEF ScreenInv
  <2> QED BY <2>1, <2>3, <2>4 DEF ScreenInv, Follows
<1>4. CASE UNCHANGED svars
  <2>1. UNCHANGED <<dir, body, occupancy, apples, obstacles, at, framebuffer, prev_head, prev_tail>>
    BY <1>4 DEF svars
  <2>2. \A c \in Cells : snake_render_full'[c] = snake_render_full[c]
    BY <2>1, FullAt, NextFullAt DEF Under, Left, tail, length
  <2>3. Picture => Picture'
    BY <2>1 DEF Picture, Under, Left, tail, length, Cells
  <2>4. ScreenInv'
    BY <2>1, <2>2, <2>3 DEF ScreenInv, Cells
  <2> QED BY <1>4, <2>4
<1> QED BY <1>1, <1>2, <1>3, <1>4, PlaceFollows, DrawFollows DEF ScreenNext

\* On every field, for a snake of two cells or more: drawing only what a tick has changed
\* shows what drawing everything would, but for an apple on the cell the tail has left.
THEOREM DrawingFollows ==
    ASSUME SNAKE_INITIAL_LENGTH >= 2
    PROVE  ScreenSpec => ScreenFollows
<1>1. ScreenInit => ScreenInv
  BY DEF ScreenInit, Init, ScreenInv
<1>2. Init => Growing
  BY EmptyGrowing DEF Init, Growing, length
<1>3. Inv /\ Inv' /\ Growing /\ [Next]_vars => Growing'
  BY NextGrowing
<1>4. Inv /\ Inv' /\ Growing /\ ScreenInv /\ [ScreenNext]_svars => ScreenInv' /\ [Follows]_svars
  BY NextFollows DEF Growing
<1>5. [Follows]_svars =>
      [at' = "play" =>
           \A c \in Cells :
               framebuffer'[c] = snake_render_full'[c]
               \/ (at = "apples" /\ c = prev_tail /\ c \in apples')]_svars
  BY DEF Follows
<1> QED BY <1>1, <1>2, <1>3, <1>4, <1>5, Invariance, DrawingOnlyDraws, PTL
        DEF ScreenSpec, Spec, ScreenFollows
=============================================================================
