--------------------------- MODULE MCGameSession ---------------------------
(***************************************************************************)
(* Instances of GameSession for TLC.                                       *)
(***************************************************************************)
EXTENDS GameSessionProps, TLC

\* One road and a crossing one; an office where they meet.
MCRoads == {[a |-> Pt(0, 0), b |-> Pt(20, 0)], [a |-> Pt(20, 0), b |-> Pt(20, 20)]}
MCSpawn == {Pt(0, 0)}
MCOffices == {Pt(20, 0)}
MCRoadPoints == {Pt(0, 0), Pt(20, 10)}
MCLootValue == [t \in {"key", "wallet"} |-> IF t = "key" THEN 1 ELSE 2]

\* Tokens are interchangeable in every safety property.
TokenSymmetry == Permutations(Tokens)

\* Probability 1/2 per base interval.
MCChance == [w \in 0 .. 3 |-> CASE w = 0 -> 0 [] w = 1 -> 4 [] w = 2 -> 6 [] w = 3 -> 7]
=============================================================================
