---------------------------- MODULE SnakeProofs ----------------------------
(***************************************************************************)
(* What holds of the snake games for a board of any size, any first snake, *)
(* any points and any record.                                              *)
(***************************************************************************)
EXTENDS Snake, SequenceTheorems, TLAPS

-----------------------------------------------------------------------------
(* How the snake grows and moves.                                          *)

\* One cell more in front.
LEMMA Grown ==
    ASSUME NEW s \in Seq(Cells), NEW head \in Cells
    PROVE  LET t == <<head>> \o s
           IN  /\ t \in Seq(Cells) /\ Len(t) = Len(s) + 1
               /\ t[1] = head /\ \A i \in 1 .. Len(s) : t[i + 1] = s[i]
  <1> DEFINE h == <<head>>
             t == h \o s
  <1>1. h \in Seq(Cells) /\ Len(h) = 1 /\ h[1] = head
    OBVIOUS
  <1>2. Len(s) \in Nat
    BY LenProperties
  <1> HIDE DEF h
  <1>3. /\ t \in Seq(Cells) /\ Len(t) = Len(h) + Len(s)
        /\ \A i \in 1 .. Len(h) + Len(s) : t[i] = IF i <= Len(h) THEN h[i] ELSE s[i - Len(h)]
    BY <1>1, ConcatProperties
  <1> HIDE DEF t
  <1>4. t[1] = head
    BY <1>1, <1>2, <1>3
  <1>5. ASSUME NEW i \in 1 .. Len(s) PROVE t[i + 1] = s[i]
    <2>1. i + 1 \in 1 .. Len(h) + Len(s) /\ ~(i + 1 <= Len(h)) /\ i + 1 - Len(h) = i
      BY <1>1, <1>2
    <2> QED BY <1>3, <2>1
  <1> QED
    BY <1>1, <1>2, <1>3, <1>4, <1>5 DEF t, h

\* The last cell less.
LEMMA Cut ==
    ASSUME NEW s \in Seq(Cells), Len(s) >= 1
    PROVE  LET t == SubSeq(s, 1, Len(s) - 1)
           IN  /\ t \in Seq(Cells) /\ Len(t) = Len(s) - 1
               /\ \A i \in 1 .. Len(s) - 1 : t[i] = s[i]
  <1> DEFINE t == SubSeq(s, 1, Len(s) - 1)
  <1>1. Len(s) \in Nat /\ \A i \in 1 .. Len(s) - 1 : s[i] \in Cells
    BY LenProperties, ElementOfSeq
  <1>2. /\ t \in Seq(Cells)
        /\ Len(t) = IF 1 <= Len(s) - 1 THEN Len(s) - 1 - 1 + 1 ELSE 0
        /\ \A i \in 1 .. Len(s) - 1 - 1 + 1 : t[i] = s[1 + i - 1]
    BY <1>1, SubSeqProperties
  <1> HIDE DEF t
  <1>3. Len(t) = Len(s) - 1
    <2>1. Len(t) = IF 1 <= Len(s) - 1 THEN Len(s) - 1 - 1 + 1 ELSE 0
      BY <1>2
    <2>2. \A n \in Nat : n >= 1 => (IF 1 <= n - 1 THEN n - 1 - 1 + 1 ELSE 0) = n - 1
      OBVIOUS
    <2>3. Len(s) \in Nat
      BY <1>1
    <2> QED BY <2>1, <2>2, <2>3
  <1>4. ASSUME NEW i \in 1 .. Len(s) - 1 PROVE t[i] = s[i]
    <2>1. i \in 1 .. Len(s) - 1 - 1 + 1 /\ 1 + i - 1 = i
      BY <1>1
    <2> QED BY <1>2, <2>1
  <1> QED
    BY <1>2, <1>3, <1>4 DEF t

\* A whole snake stays whole when it grows onto a free cell beside its head.
LEMMA GrownWhole ==
    ASSUME NEW s \in Seq(Cells), Len(s) >= 1, Whole(s),
           NEW d \in Directions, Beside(s[1], d) \in Cells, ~OnSnake(Beside(s[1], d), s)
    PROVE  Whole(<<Beside(s[1], d)>> \o s)
  <1> DEFINE head == Beside(s[1], d)
             t == <<head>> \o s
  <1>1. /\ Len(s) \in Nat /\ Len(t) = Len(s) + 1 /\ t[1] = head
        /\ \A i \in 1 .. Len(s) : t[i + 1] = s[i]
    BY Grown, LenProperties
  <1>2. \A i \in 1 .. Len(s) : s[i] # head
    BY DEF OnSnake
  <1> HIDE DEF t, head
  <1>3. ASSUME NEW i \in 1 .. Len(t), i # 1
        PROVE  i - 1 \in 1 .. Len(s) /\ t[i] = s[i - 1]
    <2>1. i - 1 \in 1 .. Len(s) /\ (i - 1) + 1 = i
      BY <1>1, <1>3
    <2> QED BY <1>1, <2>1
  <1>4. ASSUME NEW i \in 1 .. Len(t), NEW j \in 1 .. Len(t), t[i] = t[j]
        PROVE  i = j
    <2>1. CASE i = 1 /\ j # 1
      BY <2>1, <1>1, <1>2, <1>3, <1>4
    <2>2. CASE i # 1 /\ j = 1
      BY <2>2, <1>1, <1>2, <1>3, <1>4
    <2>3. CASE i # 1 /\ j # 1
      <3>1. i - 1 = j - 1
        BY <2>3, <1>3, <1>4 DEF Whole
      <3> QED BY <3>1
    <2> QED BY <2>1, <2>2, <2>3
  <1>5. ASSUME NEW i \in 1 .. Len(t) - 1
        PROVE  \E e \in Directions : t[i] = Beside(t[i + 1], e)
    <2>1. CASE i = 1
      <3>1. t[1] = Beside(t[2], d)
        <4>1. t[1 + 1] = s[1]
          BY <1>1
        <4> QED BY <4>1, <1>1 DEF head
      <3> QED BY <2>1, <3>1
    <2>2. CASE i # 1
      <3>1. /\ i - 1 \in 1 .. Len(s) - 1 /\ t[i] = s[i - 1]
            /\ (i - 1) + 1 \in 1 .. Len(s) /\ t[i + 1] = s[(i - 1) + 1]
        BY <2>2, <1>1, <1>3
      <3>2. PICK e \in Directions : s[i - 1] = Beside(s[(i - 1) + 1], e)
        BY <3>1 DEF Whole
      <3> QED BY <3>1, <3>2
    <2> QED BY <2>1, <2>2
  <1> QED
    BY <1>4, <1>5 DEF Whole, t, head

\* A snake without its tail is whole, and covers no more cells.
LEMMA CutWhole ==
    ASSUME NEW s \in Seq(Cells), Len(s) >= 1, Whole(s)
    PROVE  /\ Whole(SubSeq(s, 1, Len(s) - 1))
           /\ \A c : OnSnake(c, SubSeq(s, 1, Len(s) - 1)) => OnSnake(c, s)
  <1> DEFINE t == SubSeq(s, 1, Len(s) - 1)
  <1>1. /\ Len(s) \in Nat /\ Len(t) = Len(s) - 1
        /\ \A i \in 1 .. Len(s) - 1 : t[i] = s[i]
    BY Cut, LenProperties
  <1> HIDE DEF t
  <1>2. ASSUME NEW i \in 1 .. Len(t), NEW j \in 1 .. Len(t), t[i] = t[j]
        PROVE  i = j
    BY <1>1, <1>2 DEF Whole
  <1>3. ASSUME NEW i \in 1 .. Len(t) - 1
        PROVE  \E e \in Directions : t[i] = Beside(t[i + 1], e)
    <2>1. /\ i \in 1 .. Len(s) - 1 /\ t[i] = s[i] /\ t[i + 1] = s[i + 1]
      BY <1>1
    <2> QED BY <2>1 DEF Whole
  <1>4. ASSUME NEW c, OnSnake(c, t) PROVE OnSnake(c, s)
    <2>1. PICK i \in 1 .. Len(t) : t[i] = c
      BY <1>4 DEF OnSnake
    <2>2. i \in 1 .. Len(s) /\ s[i] = c
      BY <1>1, <2>1
    <2> QED BY <2>2 DEF OnSnake
  <1> QED
    BY <1>2, <1>3, <1>4 DEF Whole, t

-----------------------------------------------------------------------------
(* Types, and the snake itself.                                            *)

\* The cell ahead is beside the head; a free one is on the board.
LEMMA AheadBeside ==
    ASSUME TypeOK
    PROVE  /\ Ahead = Beside(snake[1], nextDirection)
           /\ snake[1] \in Cells /\ snake[2] \in Cells
           /\ ~Blocked(Ahead) => Ahead \in Cells /\ ~OnSnake(Ahead, snake)
  <1>1. Len(snake) \in Nat /\ 1 \in 1 .. Len(snake) /\ 2 \in 1 .. Len(snake)
    BY LenProperties DEF TypeOK
  <1>2. snake[1] \in Cells /\ snake[2] \in Cells
    BY <1>1, ElementOfSeq DEF TypeOK
  <1>3. PICK x \in 0 .. Side - 1, y \in 0 .. Side - 1 : snake[1] = <<x, y>>
    BY <1>2 DEF Cells
  <1>4. Ahead = <<x + nextDirection[1], y + nextDirection[2]>>
    BY <1>3 DEF Ahead, Beside
  <1>5. nextDirection[1] \in Int /\ nextDirection[2] \in Int
    BY DEF TypeOK, Directions, Up, Down, Left, Right
  <1>6. ~OffBoard(Ahead) => Ahead \in Cells
    <2>1. /\ Side \in Nat /\ x + nextDirection[1] \in Int /\ y + nextDirection[2] \in Int
          /\ Ahead[1] = x + nextDirection[1] /\ Ahead[2] = y + nextDirection[2]
      BY <1>3, <1>4, <1>5, BoardAssumption
    <2>2. ~OffBoard(Ahead) => /\ x + nextDirection[1] \in 0 .. Side - 1
                              /\ y + nextDirection[2] \in 0 .. Side - 1
      BY <2>1 DEF OffBoard
    <2> QED BY <1>4, <2>2 DEF Cells
  <1> QED
    BY <1>2, <1>6 DEF Ahead, Blocked

\* Drawing food finds a cell of the board, free unless the search never ends.
LEMMA FoodPlaced ==
    ASSUME TypeOK, NEW s, GenerateFood(s)
    PROVE  food' \in Cells /\ hung' \in BOOLEAN /\ (~hung' => ~OnSnake(food', s))
  BY DEF TypeOK, GenerateFood

\* A picture is a snake and a piece of food.
LEMMA PictureTyped ==
    /\ TypeOK /\ snake' \in Seq(Cells) /\ food' \in Cells /\ Paint
           => drawn' \in [snake : Seq(Cells), food : Cells]
    /\ TypeOK /\ snake' \in Seq(Cells) /\ DrawTick
           => drawn' \in [snake : Seq(Cells), food : Cells]
  BY DEF TypeOK, Paint, DrawTick

\* The inductive invariant: types, the whole snake, and the neck, which is behind the
\* head as seen in the direction of the last tick; only turns across it are pending.
Course ==
    isPlaying => /\ snake[1] = Beside(snake[2], direction)
                 /\ \/ nextDirection = direction
                    \/ direction[1] = 0 /\ nextDirection[2] = 0
                    \/ direction[2] = 0 /\ nextDirection[1] = 0

GameInv == TypeOK /\ SnakeIsWhole /\ Course

\* A snake of three cells has eaten nothing.
LEMMA NothingEaten == \A s : Len(s) = 3 => 0 = Gain * (Len(s) - 3)
  BY ScoreAssumption

\* The first state.
LEMMA GameInvInit == Init => GameInv
<1> SUFFICES ASSUME Init
             PROVE  GameInv
  OBVIOUS
<1>1. TypeOK
  <2>1. snake \in Seq(Cells) /\ Len(snake) >= 3 /\ food \in Cells
    BY BoardAssumption DEF Init
  <2>2. isOpen \in BOOLEAN
    BY Zenon DEF Init
  <2>3. drawn \in [snake : Seq(Cells), food : Cells]
    BY <2>1 DEF Init
  <2> QED BY <2>1, <2>2, <2>3, ScoreAssumption DEF Init, TypeOK, StoredRecord, Directions
<1>2. score = Gain * (Len(snake) - 3)
  BY BoardAssumption, NothingEaten DEF Init
<1>3. Whole(snake) /\ ~OnSnake(food, snake)
  BY BoardAssumption DEF Init
<1>4. Course
  BY DEF Init, Course
<1> QED
  BY <1>1, <1>2, <1>3, <1>4 DEF GameInv, SnakeIsWhole

\* What does not touch the snake, the food and the score leaves it whole.
LEMMA SnakeUntouched ==
    ASSUME SnakeIsWhole, UNCHANGED <<snake, score, food, hung>>
    PROVE  SnakeIsWhole'
<1>1. snake' = snake /\ score' = score /\ food' = food /\ hung' = hung
  OBVIOUS
<1>2. Whole(snake') /\ (~hung' => ~OnSnake(food', snake'))
  BY <1>1 DEF SnakeIsWhole
<1>3. score' = Gain * (Len(snake') - 3)
  BY <1>1 DEF SnakeIsWhole
<1> QED
  BY <1>2, <1>3 DEF SnakeIsWhole

\* One case per action.
LEMMA GameInvKept == GameInv /\ [Next]_vars => GameInv'
<1> SUFFICES ASSUME GameInv, [Next]_vars
             PROVE  GameInv'
  OBVIOUS
<1> USE BoardAssumption, ScoreAssumption DEF GameInv
<1>1. CASE StartGame
  <2>1. food' \in Cells /\ hung' \in BOOLEAN /\ (~hung' => ~OnSnake(food', Start))
    BY <1>1, FoodPlaced DEF StartGame, NewGame
  <2>2. TypeOK'
    <3>1. snake' \in Seq(Cells) /\ Len(snake') >= 3
      <4>1. snake' = Start
        BY <1>1 DEF StartGame, NewGame
      <4>2. Start \in Seq(Cells) /\ Len(Start) = 3
        BY BoardAssumption
      <4> QED BY ONLY <4>1, <4>2, SMT
    <3> QED BY <1>1, <2>1, <3>1 DEF TypeOK, StartGame, NewGame, Directions
  <2>3. SnakeIsWhole'
    <3>1. snake' = Start /\ score' = 0
      BY <1>1 DEF StartGame, NewGame
    <3>2. score' = Gain * (Len(snake') - 3)
      BY <3>1, NothingEaten
    <3>3. Whole(snake')
      BY <3>1
    <3> QED BY <2>1, <3>1, <3>2, <3>3 DEF SnakeIsWhole
  <2>4. Course'
    BY <1>1 DEF Course, StartGame, NewGame
  <2> QED BY <2>2, <2>3, <2>4
<1>2. ASSUME NEW d \in Directions, ChangeDirection(d)
      PROVE  GameInv'
  <2>1. TypeOK' /\ SnakeIsWhole'
    BY <1>2, SnakeUntouched DEF TypeOK, ChangeDirection
  <2>2. Course'
    BY <1>2 DEF Course, TypeOK, ChangeDirection, MayTurn, Directions, Up, Down, Left, Right
  <2> QED BY <2>1, <2>2
<1>3. CASE Collide
  <2>1. SnakeIsWhole'
    BY <1>3, SnakeUntouched DEF Collide
  <2>2. TypeOK'
    <3>1. drawn' \in [snake : Seq(Cells), food : Cells]
      BY <1>3, PictureTyped DEF Collide, TypeOK
    <3> QED BY <1>3, <3>1 DEF Collide, Ticking, TypeOK
  <2> QED BY <1>3, <2>1, <2>2 DEF Collide, Course
<1>4. CASE Eat
  <2> DEFINE grown == <<Ahead>> \o snake
  <2>1. Ahead \in Cells /\ ~OnSnake(Ahead, snake) /\ Ahead = Beside(snake[1], nextDirection)
    BY <1>4, AheadBeside DEF Eat
  <2>2. /\ grown \in Seq(Cells) /\ Len(grown) = Len(snake) + 1
        /\ grown[1] = Ahead /\ \A i \in 1 .. Len(snake) : grown[i + 1] = snake[i]
    BY <2>1, Grown DEF TypeOK
  <2>3. Whole(grown)
    BY <2>1, GrownWhole DEF TypeOK, SnakeIsWhole
  <2>4. Len(snake) \in Nat /\ grown[2] = snake[1]
    <3>1. Len(snake) \in Nat /\ 1 \in 1 .. Len(snake)
      BY LenProperties DEF TypeOK
    <3>2. grown[1 + 1] = snake[1]
      BY <2>2, <3>1
    <3> QED BY <3>1, <3>2
  <2>5. food' \in Cells /\ hung' \in BOOLEAN /\ (~hung' => ~OnSnake(food', grown))
    BY <1>4, FoodPlaced DEF Eat
  <2> HIDE DEF grown
  <2>6. snake' = grown
    BY <1>4 DEF Eat, grown
  <2>7. TypeOK'
    <3>1. snake' \in Seq(Cells) /\ Len(snake') >= 3
      BY <2>2, <2>4, <2>6 DEF TypeOK
    <3>2. drawn' \in [snake : Seq(Cells), food : Cells]
      BY <1>4, <3>1, PictureTyped DEF Eat, TypeOK
    <3>3. highScore' \in Nat /\ stored' \in Nat /\ score' \in Nat
      BY <1>4 DEF TypeOK, Eat, NewRecord
    <3>4. others' \in BOOLEAN
      BY <1>4, Zenon DEF TypeOK, Eat, NewRecord
    <3> QED BY <1>4, <2>5, <3>1, <3>2, <3>3, <3>4 DEF TypeOK, Eat, Ticking
  <2>8. SnakeIsWhole'
    <3>1. score' = Gain * (Len(snake') - 3)
      BY <1>4, <2>2, <2>4, <2>6 DEF SnakeIsWhole, Eat
    <3> QED BY <2>3, <2>5, <2>6, <3>1 DEF SnakeIsWhole
  <2>9. Course'
    BY <1>4, <2>1, <2>2, <2>4, <2>6 DEF Course, Eat, Ticking
  <2> QED BY <2>7, <2>8, <2>9
<1>5. CASE Move
  <2> DEFINE cut == SubSeq(snake, 1, Len(snake) - 1)
             moved == <<Ahead>> \o cut
  <2>1. Ahead \in Cells /\ ~OnSnake(Ahead, snake) /\ Ahead = Beside(snake[1], nextDirection)
    BY <1>5, AheadBeside DEF Move
  <2>2. Len(snake) \in Nat /\ Len(snake) >= 3
    BY LenProperties DEF TypeOK
  <2>3. /\ cut \in Seq(Cells) /\ Len(cut) = Len(snake) - 1
        /\ \A i \in 1 .. Len(snake) - 1 : cut[i] = snake[i]
    BY <2>2, Cut DEF TypeOK
  <2>4. Whole(cut) /\ \A c : OnSnake(c, cut) => OnSnake(c, snake)
    BY <2>2, CutWhole DEF TypeOK, SnakeIsWhole
  <2> HIDE DEF cut
  <2>5. cut[1] = snake[1] /\ Len(cut) >= 1 /\ 1 \in 1 .. Len(cut)
    BY <2>2, <2>3
  <2>6. /\ moved \in Seq(Cells) /\ Len(moved) = Len(cut) + 1
        /\ moved[1] = Ahead /\ \A i \in 1 .. Len(cut) : moved[i + 1] = cut[i]
    BY <2>1, <2>3, Grown
  <2>7. Whole(moved)
    BY <2>1, <2>3, <2>4, <2>5, GrownWhole DEF TypeOK
  <2>8. moved[2] = snake[1]
    <3>1. moved[1 + 1] = cut[1]
      BY <2>5, <2>6
    <3> QED BY <2>5, <3>1
  <2>9. ~OnSnake(food, moved)
    <3> SUFFICES ASSUME NEW i \in 1 .. Len(moved), moved[i] = food
                 PROVE  FALSE
      BY DEF OnSnake
    <3>1. CASE i = 1
      BY <1>5, <2>6, <3>1 DEF Move
    <3>2. CASE i # 1
      <4>1. i - 1 \in 1 .. Len(cut) /\ (i - 1) + 1 = i
        BY <2>2, <2>3, <2>6, <3>2
      <4>2. cut[i - 1] = food
        BY <2>6, <4>1
      <4>3. OnSnake(food, cut)
        BY <4>1, <4>2 DEF OnSnake
      <4> QED BY <1>5, <2>4, <4>3 DEF SnakeIsWhole, Move, Ticking
    <3> QED BY <3>1, <3>2
  <2> HIDE DEF moved
  <2>10. snake' = moved
    BY <1>5 DEF Move, Moved, moved, cut
  <2>11. TypeOK'
    <3>1. snake' \in Seq(Cells) /\ Len(snake') >= 3
      BY <2>2, <2>3, <2>6, <2>10
    <3>2. drawn' \in [snake : Seq(Cells), food : Cells]
      BY <1>5, <3>1, PictureTyped DEF Move
    <3> QED BY <1>5, <3>1, <3>2 DEF TypeOK, Move, Ticking
  <2>12. SnakeIsWhole'
    <3>1. Len(snake') = Len(snake) /\ score' = score
      BY <1>5, <2>2, <2>3, <2>6, <2>10 DEF Move
    <3>2. score' = Gain * (Len(snake') - 3)
      BY <3>1 DEF SnakeIsWhole
    <3>3. ~OnSnake(food', snake')
      BY <1>5, <2>9, <2>10 DEF Move
    <3> QED BY <2>7, <2>10, <3>2, <3>3 DEF SnakeIsWhole
  <2>13. Course'
    BY <1>5, <2>1, <2>6, <2>8, <2>10 DEF Course, Move, Ticking
  <2> QED BY <2>11, <2>12, <2>13
<1>6. CASE Open \/ Close
  <2>1. SnakeIsWhole'
    BY <1>6, SnakeUntouched DEF Open, Close
  <2>2. TypeOK'
    <3>1. CASE Open
      <4>1. drawn' \in [snake : Seq(Cells), food : Cells]
        BY <3>1, PictureTyped DEF Open, TypeOK
      <4> QED BY <3>1, <4>1 DEF Open, TypeOK
    <3>2. CASE Close
      BY <3>2 DEF Close, TypeOK
    <3> QED BY <1>6, <3>1, <3>2
  <2> QED BY <1>6, <2>1, <2>2 DEF Open, Close, Course
<1>7. CASE Remount
  <2>1. TypeOK'
    <3>1. snake' \in Seq(Cells) /\ Len(snake') >= 3 /\ food' \in Cells
      <4>1. snake' = Idle /\ food' = IdleFood
        BY <1>7 DEF Remount
      <4> QED BY <4>1
    <3>2. isOpen' \in BOOLEAN
      BY <1>7, Zenon DEF Remount
    <3>3. drawn' \in [snake : Seq(Cells), food : Cells]
      BY <1>7, <3>1, PictureTyped DEF Remount
    <3> QED BY <1>7, <3>1, <3>2, <3>3 DEF Remount, TypeOK, StoredRecord, Directions
  <2>2. snake' = Idle /\ score' = 0 /\ food' = IdleFood
    BY <1>7 DEF Remount
  <2>3. score' = Gain * (Len(snake') - 3)
    BY <2>2, NothingEaten
  <2>4. Whole(snake') /\ ~OnSnake(food', snake')
    BY <2>2
  <2>5. Course'
    BY <1>7 DEF Remount, Course
  <2> QED BY <2>1, <2>3, <2>4, <2>5 DEF SnakeIsWhole
<1>8. CASE OtherTabStores
  <2>1. SnakeIsWhole'
    BY <1>8, SnakeUntouched DEF OtherTabStores
  <2> QED BY <1>8, <2>1 DEF OtherTabStores, TypeOK, Course
<1>9. CASE UNCHANGED vars
  <2>1. SnakeIsWhole'
    BY <1>9, SnakeUntouched DEF vars
  <2> QED BY <1>9, <2>1 DEF vars, TypeOK, Course
<1> QED
  BY <1>1, <1>2, <1>3, <1>4, <1>5, <1>6, <1>7, <1>8, <1>9 DEF Next

\* The inductive invariant holds.
LEMMA GameInvHolds == Spec => []GameInv
  BY GameInvInit, GameInvKept, PTL DEF Spec

\* The variables keep to their types: the snake stays on the board.
THEOREM TypeCorrect == Spec => []TypeOK
<1>1. GameInv => TypeOK
  BY DEF GameInv
<1> QED BY <1>1, GameInvHolds, PTL

\* The snake stays whole on any board, and the food off it.
THEOREM WholeHolds == Spec => []SnakeIsWhole
<1>1. GameInv => SnakeIsWhole
  BY DEF GameInv
<1> QED BY <1>1, GameInvHolds, PTL

\* No keys turn the snake into its neck.
THEOREM NeckHolds == Spec => []NeckIsSafe
<1>1. GameInv => NeckIsSafe
  <2> SUFFICES ASSUME TypeOK, Course, isPlaying
               PROVE  Ahead # snake[2]
    BY DEF GameInv, NeckIsSafe
  <2>1. snake[1] \in Cells /\ snake[2] \in Cells /\ Ahead = Beside(snake[1], nextDirection)
    BY AheadBeside
  <2>2. PICK x \in 0 .. Side - 1, y \in 0 .. Side - 1 : snake[2] = <<x, y>>
    BY <2>1 DEF Cells
  <2>3. x \in Int /\ y \in Int
    BY BoardAssumption
  <2>4. snake[1] = <<x + direction[1], y + direction[2]>>
    BY <2>2 DEF Course, Beside
  <2>5. Ahead = <<x + direction[1] + nextDirection[1], y + direction[2] + nextDirection[2]>>
    BY <2>1, <2>4 DEF Beside
  <2>6. direction[1] + nextDirection[1] # 0 \/ direction[2] + nextDirection[2] # 0
    BY DEF Course, TypeOK, Directions, Up, Down, Left, Right
  <2>7. /\ direction[1] \in Int /\ direction[2] \in Int
        /\ nextDirection[1] \in Int /\ nextDirection[2] \in Int
    BY DEF TypeOK, Directions, Up, Down, Left, Right
  <2> QED BY <2>2, <2>3, <2>5, <2>6, <2>7
<1> QED BY <1>1, GameInvHolds, PTL

-----------------------------------------------------------------------------
(* The record.                                                             *)

\* The high score shown is at least the score, and with one tab it is the one stored.
THEOREM BestHolds == Spec => []BestIsKept
<1>1. Init => BestIsKept
  BY ScoreAssumption DEF Init, BestIsKept, StoredRecord
<1>2. GameInv /\ BestIsKept /\ [Next]_vars => BestIsKept'
  <2> SUFFICES ASSUME TypeOK, BestIsKept, [Next]_vars
               PROVE  BestIsKept'
    BY DEF GameInv
  <2> USE ScoreAssumption DEF BestIsKept, StoredRecord, TypeOK
  <2>1. CASE StartGame
    BY <2>1 DEF StartGame, NewGame
  <2>2. ASSUME NEW d \in Directions, ChangeDirection(d)
        PROVE  BestIsKept'
    BY <2>2 DEF ChangeDirection
  <2>3. CASE Collide
    BY <2>3 DEF Collide
  <2>4. CASE Eat
    BY <2>4 DEF Eat, NewRecord
  <2>5. CASE Move
    BY <2>5 DEF Move
  <2>6. CASE Open \/ Close
    BY <2>6 DEF Open, Close
  <2>7. CASE Remount
    BY <2>7 DEF Remount
  <2>8. CASE OtherTabStores
    BY <2>8 DEF OtherTabStores
  <2>9. CASE UNCHANGED vars
    BY <2>9 DEF vars
  <2> QED
    BY <2>1, <2>2, <2>3, <2>4, <2>5, <2>6, <2>7, <2>8, <2>9 DEF Next
<1> QED
  BY <1>1, <1>2, GameInvHolds, PTL DEF Spec

-----------------------------------------------------------------------------
(* The picture.                                                            *)

\* The canvas is at most the food behind the game.
THEOREM PictureHolds == Spec => [](PictureFollows /\ PictureAtRest)
<1> DEFINE Picture == PictureFollows /\ PictureAtRest
<1>1. Init => Picture
  BY DEF Init, PictureFollows, PictureAtRest
<1>2. GameInv /\ Picture /\ [Next]_vars => Picture'
  <2> SUFFICES ASSUME TypeOK, Picture, [Next]_vars
               PROVE  Picture'
    BY DEF GameInv
  <2> USE DEF PictureFollows, PictureAtRest
  <2>1. CASE StartGame
    BY <2>1 DEF StartGame, NewGame
  <2>2. ASSUME NEW d \in Directions, ChangeDirection(d)
        PROVE  Picture'
    BY <2>2 DEF ChangeDirection
  <2>3. CASE Collide
    BY <2>3 DEF Collide, Paint
  <2>4. CASE Eat
    <3>1. snake' = <<Ahead>> \o snake /\ Ahead \in Cells /\ food = Ahead /\ isPlaying'
      BY <2>4, AheadBeside DEF Eat, Ticking
    <3>2. snake'[1] = food
      BY <3>1, Grown DEF TypeOK
    <3>3. ~hung' => drawn'.snake = snake' /\ drawn'.food = food
      BY <2>4 DEF Eat, DrawTick
    <3> QED BY <3>1, <3>2, <3>3
  <2>5. CASE Move
    BY <2>5 DEF Move, Ticking, DrawTick
  <2>6. CASE Open
    BY <2>6 DEF Open, Paint
  <2>7. CASE Close
    BY <2>7 DEF Close
  <2>8. CASE Remount
    BY <2>8 DEF Remount, Paint
  <2>9. CASE OtherTabStores
    BY <2>9 DEF OtherTabStores
  <2>10. CASE UNCHANGED vars
    BY <2>10 DEF vars
  <2> QED
    BY <2>1, <2>2, <2>3, <2>4, <2>5, <2>6, <2>7, <2>8, <2>9, <2>10 DEF Next
<1> QED
  BY <1>1, <1>2, GameInvHolds, PTL DEF Spec
=============================================================================
