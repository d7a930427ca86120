---------------------------- MODULE MCBookypedia ----------------------------
(* Two users; names, titles and users are interchangeable. *)
EXTENDS Bookypedia, TLC

MCSymmetry == Permutations(Users) \cup Permutations(Names) \cup Permutations(Titles)
=============================================================================
