------------------------------ MODULE MCQueueMoves ------------------------------
(* An instance of QueueMoves for TLC.                                         *)
EXTENDS QueueMoves

(* The first row sorts behind the second and the third, which tie.            *)
Ranks == <<2, 1, 1, 3>>
===============================================================================
