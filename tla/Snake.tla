------------------------------- MODULE Snake -------------------------------
(***************************************************************************)
(* The two snake games of the client: SnakeGameModal.jsx, a dialog that    *)
(* opens and closes, and ChillOutSnakeLounge.jsx, a section of the poll    *)
(* pages.  They share their rules and the localStorage key of the record.  *)
(*                                                                         *)
(* A tick of the interval is one step, with the rendering that follows it; *)
(* keys and arrow buttons come between ticks, any number of them.  What a  *)
(* player sees is the picture on the canvas, which is not drawn by every   *)
(* step: it shows a snake and a piece of food.  Colours and the speed of   *)
(* the ticks are left out.                                                 *)
(***************************************************************************)
EXTENDS Integers, Sequences

CONSTANTS
    Games,        \* the games there are, of {"modal", "lounge"}
    Side,         \* tileCount: 16 in the modal, 18 in the lounge
    Start,        \* the snake of a new game, head first
    Idle,         \* the snake and the food shown before the first game
    IdleFood,
    Gain,         \* points for a piece of food: 20 in the modal, 15 in the lounge
    FirstRecord,  \* the high score shown when none is stored: 560 and 420
    MaxRecord     \* bound of the model: the highest record of another tab, 0 for no other tab

Cells == (0 .. Side - 1) \X (0 .. Side - 1)

Up == <<0, -1>>
Down == <<0, 1>>
Left == <<-1, 0>>
Right == <<1, 0>>
Directions == {Up, Down, Left, Right}

\* The cell next to a cell.
Beside(cell, d) == <<cell[1] + d[1], cell[2] + d[2]>>

OnSnake(cell, s) == \E i \in 1 .. Len(s) : s[i] = cell

\* A snake is whole: on the board, nowhere twice on a cell, each cell beside the next.
Whole(s) ==
    /\ \A i, j \in 1 .. Len(s) : s[i] = s[j] => i = j
    /\ \A i \in 1 .. Len(s) - 1 : \E d \in Directions : s[i] = Beside(s[i + 1], d)

ASSUME BoardAssumption ==
    /\ Side \in Nat
    /\ Start \in Seq(Cells) /\ Len(Start) = 3 /\ Whole(Start)
    /\ Start[1] = Beside(Start[2], Up)
    /\ Idle \in Seq(Cells) /\ Len(Idle) = 3 /\ Whole(Idle)
    /\ IdleFood \in Cells /\ ~OnSnake(IdleFood, Idle)
    /\ \E cell \in Cells : ~OnSnake(cell, Start)

ASSUME ScoreAssumption ==
    /\ Gain \in Nat \ {0} /\ FirstRecord \in Nat /\ MaxRecord \in Nat
    /\ Games \subseteq {"modal", "lounge"}

VARIABLES
    game,         \* which of the two it is; never changes
    snake, direction, nextDirection, food,     \* gameState.current
    isPlaying, isGameOver, score, highScore,   \* the component's state
    isOpen,       \* the modal's property; the lounge is always open
    stored,       \* localStorage pollx_snake_high, 0 when there is none
    others,       \* another tab has stored since this one read or stored last
    drawn,        \* the snake and the food on the canvas, while there is one
    hung          \* generateFood is looking for a free cell and there is none

vars == <<game, snake, direction, nextDirection, food, isPlaying, isGameOver, score,
          highScore, isOpen, stored, others, drawn, hung>>

\* The first paint: the modal's when it opens, the lounge's while no game is on.
Paint == drawn' = [snake |-> snake', food |-> food']

\* A tick paints the snake as it has moved, with the food read when the tick began.
DrawTick == drawn' = [snake |-> snake', food |-> food]

StoredRecord(record) == IF record = 0 THEN FirstRecord ELSE record

Init ==
    /\ game \in Games
    /\ snake = Idle /\ direction = Up /\ nextDirection = Up /\ food = IdleFood
    /\ isPlaying = FALSE /\ isGameOver = FALSE
    /\ score = 0 /\ stored = 0 /\ highScore = StoredRecord(stored) /\ others = FALSE
    /\ isOpen = (game = "lounge")
    /\ drawn = [snake |-> snake, food |-> food] /\ hung = FALSE

\* Mutant of GenerateFood: any cell will do.
GenerateFoodAnywhere(s) == food' \in Cells /\ hung' = FALSE

\* generateFood draws cells until one is free; on a full board it draws for ever.
GenerateFood(s) ==
    LET free == {cell \in Cells : ~OnSnake(cell, s)}
    IN  \/ food' \in free /\ hung' = FALSE
        \/ free = {} /\ hung' = TRUE /\ UNCHANGED food

\* resetGame and startGame.
NewGame ==
    /\ snake' = Start /\ direction' = Up /\ nextDirection' = Up
    /\ GenerateFood(Start)
    /\ score' = 0 /\ isGameOver' = FALSE /\ isPlaying' = TRUE
    /\ UNCHANGED <<game, highScore, isOpen, stored, others, drawn>>

\* By button, or in the lounge by the space bar; the modal can also start again midway.
StartGame == ~hung /\ isOpen /\ (game = "lounge" => ~isPlaying) /\ NewGame

\* Mutant of MayTurn: compares with the key pressed last, not with the snake's course.
MayTurnFromNext(d) ==
    IF d \in {Up, Down} THEN nextDirection[2] = 0 ELSE nextDirection[1] = 0

\* A turn must be across the direction of the last tick.
MayTurn(d) == IF d \in {Up, Down} THEN direction[2] = 0 ELSE direction[1] = 0

\* A key or an arrow button.  The lounge listens whether a game is on or not.
ChangeDirection(d) ==
    /\ ~hung /\ isOpen /\ MayTurn(d)
    /\ nextDirection' = d
    /\ UNCHANGED <<game, snake, direction, food, isPlaying, isGameOver, score, highScore,
                   isOpen, stored, others, drawn, hung>>

Ahead == Beside(snake[1], nextDirection)

\* Mutant of OffBoard: the far walls are one cell too far.
OffBoardLate(cell) == cell[1] < 0 \/ cell[1] > Side \/ cell[2] < 0 \/ cell[2] > Side

\* Wall collision.
OffBoard(cell) == cell[1] < 0 \/ cell[1] >= Side \/ cell[2] < 0 \/ cell[2] >= Side

\* Wall collision, or the snake is there (its tail has not moved yet).
Blocked(cell) == OffBoard(cell) \/ OnSnake(cell, snake)

Ticking == ~hung /\ isPlaying /\ direction' = nextDirection

\* The tick that ends the game paints nothing; the lounge paints when it is over.
Collide ==
    /\ Ticking
    /\ Blocked(Ahead)
    /\ isGameOver' = TRUE /\ isPlaying' = FALSE
    /\ UNCHANGED <<game, snake, nextDirection, food, score, highScore, isOpen, stored, others,
                   hung>>
    /\ IF game = "lounge" THEN Paint ELSE UNCHANGED drawn

\* Mutant of NewRecord: a better score is shown and not stored.
NewRecordShownOnly(points) ==
    /\ highScore' = IF points > highScore THEN points ELSE highScore
    /\ UNCHANGED <<stored, others>>

\* A score above the high score is shown and stored.
NewRecord(points) ==
    IF points > highScore THEN highScore' = points /\ stored' = points /\ others' = FALSE
                          ELSE UNCHANGED <<highScore, stored, others>>

Eat ==
    /\ Ticking
    /\ ~Blocked(Ahead) /\ Ahead = food
    /\ snake' = <<Ahead>> \o snake
    /\ score' = score + Gain
    /\ NewRecord(score + Gain)
    /\ GenerateFood(<<Ahead>> \o snake)
    /\ IF hung' THEN UNCHANGED drawn ELSE DrawTick
    /\ UNCHANGED <<game, nextDirection, isPlaying, isGameOver, isOpen>>

\* Mutant of Moved: the tail is not taken off.
MovedGrowing(s, head) == <<head>> \o s

\* The snake one cell on.
Moved(s, head) == <<head>> \o SubSeq(s, 1, Len(s) - 1)

Move ==
    /\ Ticking
    /\ ~Blocked(Ahead) /\ Ahead # food
    /\ snake' = Moved(snake, Ahead)
    /\ DrawTick
    /\ UNCHANGED <<game, nextDirection, food, isPlaying, isGameOver, score, highScore,
                   isOpen, stored, others, hung>>

\* The modal is opened; the game in it is the one that was left.
Open ==
    /\ game = "modal" /\ ~isOpen /\ ~hung /\ isOpen' = TRUE
    /\ UNCHANGED <<game, snake, direction, nextDirection, food, isPlaying, isGameOver,
                   score, highScore, stored, others, hung>>
    /\ Paint

\* The modal is closed, which stops the game.
Close ==
    /\ game = "modal" /\ isOpen /\ ~hung /\ isOpen' = FALSE
    /\ isPlaying' = FALSE
    /\ UNCHANGED <<game, snake, direction, nextDirection, food, isGameOver, score,
                   highScore, stored, others, drawn, hung>>

\* The page is left, or its tab is ended when it hangs, and a new component is mounted.
Remount ==
    /\ snake' = Idle /\ direction' = Up /\ nextDirection' = Up /\ food' = IdleFood
    /\ isPlaying' = FALSE /\ isGameOver' = FALSE /\ score' = 0
    /\ highScore' = StoredRecord(stored) /\ others' = FALSE
    /\ isOpen' = (game = "lounge") /\ Paint /\ hung' = FALSE
    /\ UNCHANGED <<game, stored>>

\* A game in another tab stores its record, which beats the record that tab read.
OtherTabStores ==
    /\ stored' \in {r \in FirstRecord + 1 .. MaxRecord : r # stored}
    /\ others' = TRUE
    /\ UNCHANGED <<game, snake, direction, nextDirection, food, isPlaying, isGameOver,
                   score, highScore, isOpen, drawn, hung>>

Next ==
    \/ StartGame \/ (\E d \in Directions : ChangeDirection(d))
    \/ Collide \/ Eat \/ Move
    \/ Open \/ Close \/ Remount \/ OtherTabStores

Spec == Init /\ [][Next]_vars

-----------------------------------------------------------------------------
\* The variables keep to their types.
TypeOK ==
    /\ game \in Games
    /\ snake \in Seq(Cells) /\ Len(snake) >= 3
    /\ direction \in Directions /\ nextDirection \in Directions
    /\ food \in Cells
    /\ isPlaying \in BOOLEAN /\ isGameOver \in BOOLEAN /\ isOpen \in BOOLEAN /\ hung \in BOOLEAN
    /\ others \in BOOLEAN
    /\ score \in Nat /\ highScore \in Nat /\ stored \in Nat
    /\ drawn \in [snake : Seq(Cells), food : Cells]

\* Whatever keys are pressed, the snake stays in one piece without crossing itself, it
\* has grown by what was eaten, and the food lies on a free cell (tick and generateFood).
SnakeIsWhole ==
    /\ Whole(snake)
    /\ score = Gain * (Len(snake) - 3)
    /\ ~hung => ~OnSnake(food, snake)

\* Two keys between two ticks cannot turn the snake back into its own neck: a game
\* ends at a wall or at the body, never at the second cell.
NeckIsSafe == isPlaying => Ahead # snake[2]

\* The high score shown is no less than the score, and it is what a new page would read
\* from localStorage, unless another tab has stored since this one read or stored it:
\* the two tabs overwrite each other's records, whichever is the better.
BestIsKept == score <= highScore /\ (~others => highScore = StoredRecord(stored))

\* The picture is never more than the food behind: once the snake of a game has moved,
\* it is drawn where it is, and the food drawn is the food or what the head has just
\* eaten.  Until its first tick a new game shows the picture of the one before.
PictureFollows ==
    isOpen /\ ~hung => \/ snake = Start
                       \/ drawn.snake = snake /\ drawn.food \in {food, snake[1]}

\* The lounge's picture is right whenever no game is on.
PictureAtRest ==
    game = "lounge" /\ ~isPlaying => drawn = [snake |-> snake, food |-> food]

\* The game can always place another piece of food.  The code does not have this: on
\* a full board generateFood never returns, and the page hangs.
NeverHangs == ~hung
=============================================================================
