------------------------------ MODULE MCSnake ------------------------------
(* Snake on a board of nine cells, small enough to be filled.              *)
EXTENDS Snake

MCStart == <<<<1, 0>>, <<1, 1>>, <<1, 2>>>>
MCIdle == <<<<2, 0>>, <<2, 1>>, <<2, 2>>>>
MCIdleFood == <<0, 0>>
=============================================================================
