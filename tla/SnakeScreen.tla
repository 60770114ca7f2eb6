----------------------------- MODULE SnakeScreen ----------------------------
(***************************************************************************)
(* user/snake_game/snake_render.c and the calls user/snake.c makes to it: a *)
(* new game, a resumed game and a death draw the whole field, a tick only   *)
(* the cells it has changed, after the apples an eaten one calls for have   *)
(* been placed.  A cell shows one piece, the head its direction; the score  *)
(* and the panels over the field are left out.                              *)
(***************************************************************************)
EXTENDS SnakeModel

VARIABLES
    framebuffer,            \* the piece at each cell
    prev_head, prev_tail    \* where the snake was before the tick that ate an apple,
                            \* while apples are placed; NoCell in a new game

screen == <<framebuffer, prev_head, prev_tail>>
svars == <<dir, body, occupancy, growth_points, apples, obstacles, score, alive, at,
           target_apple_count, framebuffer, prev_head, prev_tail>>

\* A head is shown as its direction, 0 to 3.
BACKGROUND == 4
BODY == 5
TAIL == 6
APPLE == 7
OBSTACLE == 8
Pieces == Dirs \cup {BACKGROUND, BODY, TAIL, APPLE, OBSTACLE}
NoCell == <<>>

clear == [c \in Cells |-> BACKGROUND]
Drawn(fb, cells, piece) == [c \in Cells |-> IF c \in cells THEN piece ELSE fb[c]]

\* The head over the tail, and both over the rest.
Ends(fb) == Drawn(Drawn(fb, {tail}, TAIL), {body[1]}, dir)

snake_render_full ==
    Ends(Drawn(Drawn(Drawn(clear, obstacles, OBSTACLE), apples, APPLE), occupancy, BODY))

Left(c) == IF c \in obstacles THEN OBSTACLE ELSE BACKGROUND

\* Mutant: the cell that the tail has left is wiped last.
StepWipesLast(fb, head, last) ==
    Drawn(Ends(Drawn(Drawn(fb, apples, APPLE), {head}, BODY)), {last}, Left(last))

snake_render_step(fb, head, last) ==
    Ends(Drawn(Drawn(Drawn(fb, apples, APPLE), {last}, Left(last)), {head}, BODY))

-----------------------------------------------------------------------------
ScreenInit == Init /\ framebuffer = clear /\ prev_head = NoCell /\ prev_tail = NoCell

\* The old picture will be drawn over in full: it is forgotten here.
NewGame == Restart /\ framebuffer' = clear /\ UNCHANGED <<prev_head, prev_tail>>

PlaceObstacle == snake_model_spawn_obstacle /\ UNCHANGED screen

\* After the last apple the new game, or the tick, is drawn.
PlaceApple ==
    /\ snake_fill_apples
    /\ IF at' = "apples" THEN UNCHANGED screen
       ELSE /\ prev_head' = NoCell /\ prev_tail' = NoCell
            /\ IF prev_head = NoCell THEN framebuffer' = snake_render_full'
               ELSE \E fb \in {framebuffer}, head \in {prev_head}, last \in {prev_tail} :
                        framebuffer' = snake_render_step(fb, head, last)'

\* A tick; if it eats an apple, others are placed before it is drawn.
TickAndDraw ==
    /\ Turn
    /\ IF at' = "apples"
       THEN prev_head' = body[1] /\ prev_tail' = tail /\ UNCHANGED framebuffer
       ELSE /\ UNCHANGED <<prev_head, prev_tail>>
            /\ IF ~alive' THEN framebuffer' = snake_render_full'
               ELSE \E fb \in {framebuffer}, head \in {body[1]}, last \in {tail} :
                        framebuffer' = snake_render_step(fb, head, last)'

\* The game is paused and goes on.
PauseResume ==
    /\ at = "play" /\ alive
    /\ framebuffer' = snake_render_full
    /\ UNCHANGED <<vars, prev_head, prev_tail>>

ScreenNext == NewGame \/ PlaceObstacle \/ PlaceApple \/ TickAndDraw \/ PauseResume

ScreenSpec == ScreenInit /\ [][ScreenNext]_svars

\* The loops end and the game loop ticks for as long as the game is on.
ScreenFairSpec == ScreenSpec /\ WF_svars(PlaceObstacle \/ PlaceApple \/ TickAndDraw)

-----------------------------------------------------------------------------
(* Properties                                                               *)

\* Drawing only what a tick has changed shows what drawing everything would: no
\* piece of the snake is left behind, none is missing after growth, a meal or a
\* step onto the tail's cell.  Only an apple placed on the cell that the tail has
\* just left is not seen, until the next tick draws it.
ScreenFollows ==
    [][at' = "play" =>
           \A c \in Cells :
               framebuffer'[c] = snake_render_full'[c]
               \/ (at = "apples" /\ c = prev_tail /\ c \in apples')]_svars
=============================================================================
