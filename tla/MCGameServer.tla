---------------------------- MODULE MCGameServer ----------------------------
(***************************************************************************)
(* Instances of GameServer for TLC.                                        *)
(***************************************************************************)
EXTENDS GameServerProps, TLC

\* One short road; a dog crosses it in two ticks.
MCRoads == {[a |-> Pt(0, 0), b |-> Pt(20, 0)]}
MCSpawn == {Pt(0, 0)}
MCRoadPoints == {Pt(10, 0)}
MCOffices == {Pt(20, 0)}
MCLootValue == [t \in LootTypes |-> 1]

\* Probability 1 after one unit of time.
MCChance == [w \in 0 .. 1 |-> w]

TokenSymmetry == Permutations(Tokens)
=============================================================================
