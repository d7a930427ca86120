------------------------------ MODULE LootLife ------------------------------
(***************************************************************************)
(* What a session promises about lost objects, with the map, the dogs and  *)
(* the ticks forgotten.  An object appears on the map once; one player     *)
(* with room for it may take it; from that player it can only go to an     *)
(* office or, when the player retires, nowhere; and there it stays.        *)
(***************************************************************************)
EXTENDS Naturals, FiniteSets

CONSTANTS
  Ids,       \* of the objects that may ever appear
  Holders,   \* the players
  Room       \* how many objects a player can hold

VARIABLE where     \* the place of every object

Unborn  == <<"unborn">>
OnMap   == <<"map">>
Bag(t)  == <<"bag", t>>
Office  == <<"office">>
Nowhere == <<"nowhere">>

Init == where = [i \in Ids |-> Unborn]

Appear(new) ==
  /\ \A i \in new : where[i] = Unborn
  /\ where' = [i \in Ids |-> IF i \in new THEN OnMap ELSE where[i]]

Take(i, t) ==
  /\ where[i] = OnMap
  /\ Cardinality({j \in Ids : where[j] = Bag(t)}) < Room
  /\ where' = [where EXCEPT ![i] = Bag(t)]

\* All that the players of ts hold goes to one place.
Leave(ts, place) ==
  where' = [i \in Ids |-> IF \E t \in ts : where[i] = Bag(t) THEN place ELSE where[i]]

Next ==
  \/ \E new \in SUBSET Ids : Appear(new)
  \/ \E i \in Ids, t \in Holders : Take(i, t)
  \/ \E t \in Holders : Leave({t}, Office)
  \/ \E ts \in SUBSET Holders : Leave(ts, Nowhere)

Spec == Init /\ [][Next]_where
=============================================================================
