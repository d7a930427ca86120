---------------------------- MODULE MCCafeteria ----------------------------
(***************************************************************************)
(* An instance of Cafeteria for TLC.                                        *)
(***************************************************************************)
EXTENDS Cafeteria

\* One ingredient of every round but the last.
MCLateTimers == {<<2, "sausage">>, <<7, "bread">>, <<12, "sausage">>}

MCIngredients == (1 .. NumOrders) \X {"sausage", "bread"}
=============================================================================
