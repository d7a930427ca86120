--------------------------- MODULE MCLeaderboard ---------------------------
(***************************************************************************)
(* An instance of Leaderboard for TLC.                                     *)
(***************************************************************************)
EXTENDS Leaderboard

\* Records that differ in the score only, in the time only and in the name only.
MCRows == {[name |-> 1, score |-> 2, play |-> 1], [name |-> 1, score |-> 1, play |-> 1],
           [name |-> 2, score |-> 1, play |-> 1], [name |-> 1, score |-> 1, play |-> 2]}
MCRequests == -1 .. 3
=============================================================================
