----------------------------- MODULE GameScreen -----------------------------
(***************************************************************************)
(* What the game's client shows, and how a list of players and a state     *)
(* change it (game.js of leave_game/precode: _updatePlayersList,           *)
(* _applyDesiredState and what they call).                                 *)
(*                                                                         *)
(* A screen has the fields                                                 *)
(*   cur      the places in currentState.players                           *)
(*   dogs     the name that is shown for every place in this.players       *)
(*   data     for every place the copies in data.bag, which a player of    *)
(*            currentState and one of this.players share                   *)
(*   lost     lostObjects, the copies that lie on the map                  *)
(*   falling  disappearingLoot, the copies that fall for a second          *)
(*   scene    all the copies that are in the scene, so drawn               *)
(***************************************************************************)
EXTENDS Naturals, Sequences, FiniteSets

CONSTANTS
  Persons,     \* who may play
  Loot,        \* the lost objects
  MaxCopies    \* bound: copies of one lost object

ASSUME ScreenAssumption == MaxCopies \in Nat /\ IsFiniteSet(Persons)

Copies == 1 .. MaxCopies
None   == 0
Blank  == [x \in Loot |-> None]
Slots  == 1 .. Cardinality(Persons)

\* What a reply tells: the bags by the places of their players, what lies on the
\* map, and the names.
NoView == [bags |-> <<>>, lost |-> {}, names |-> <<>>]

EmptyScreen ==
  [cur |-> {}, dogs |-> <<>>, data |-> [i \in Slots |-> Blank],
   lost |-> Blank, falling |-> Blank, scene |-> [x \in Loot |-> {}]]

Falling(scr) == {x \in Loot : scr.falling[x] # None}

\* The copies that some part of the client's state refers to.
Known(scr, x) ==
  ({scr.lost[x], scr.falling[x]} \cup {scr.data[i][x] : i \in Slots}) \ {None}

\* A copy of x that does not exist yet, and whether there is one.
New(scr, x) == CHOOSE c \in Copies : c \notin scr.scene[x] \cup Known(scr, x)
CanCreate(scr) == \A x \in Loot : Copies \ (scr.scene[x] \cup Known(scr, x)) # {}

\* old_players[id].data, or an empty bag.
Kept(scr, i) == IF i \in scr.cur THEN scr.data[i] ELSE Blank

\* The place whose player must be given a copy of x.
Wants(scr, view, i, x) == i \in DOMAIN view.bags /\ x \in view.bags[i] /\ Kept(scr, i)[x] = None
Abandoned(scr, view, x) == scr.lost[x] # None /\ x \notin view.lost
IsTaken(scr, view, x) == \E i \in Slots : Wants(scr, view, i, x)
Found(scr, view, x) == IF Abandoned(scr, view, x) THEN scr.lost[x] ELSE New(scr, x)

\* _processLostObjects
LostAfter(scr, view) ==
  [x \in Loot |-> IF x \notin view.lost THEN None
                  ELSE IF scr.lost[x] # None THEN scr.lost[x] ELSE New(scr, x)]

\* The bags after _attachLootToPlayers, and what remains of players who left.
Bag_NeverEmptied(scr, view, i) ==
  IF i \notin DOMAIN view.bags THEN IF i \in DOMAIN scr.dogs THEN scr.data[i] ELSE Blank
  ELSE [x \in Loot |-> IF Wants(scr, view, i, x) THEN Found(scr, view, x) ELSE Kept(scr, i)[x]]
Bag(scr, view, i) ==
  IF i \notin DOMAIN view.bags THEN IF i \in DOMAIN scr.dogs THEN scr.data[i] ELSE Blank
  ELSE [x \in Loot |-> IF Wants(scr, view, i, x) THEN Found(scr, view, x)
                       ELSE IF x \in view.bags[i] THEN Kept(scr, i)[x] ELSE None]

\* The places whose player loses x: at most one, since one bag had it before.
Droppers(scr, view, x) ==
  {i \in Slots \cap DOMAIN view.bags : Kept(scr, i)[x] # None /\ x \notin view.bags[i]}

\* _dropLoot, from a bag and then for what nobody took: a copy that falls already
\* is forgotten.
FallingAfter_OnlyFromBags(scr, view) ==
  [x \in Loot |->
     LET from == Droppers(scr, view, x)
     IN IF from = {} THEN scr.falling[x]
        ELSE scr.data[CHOOSE i \in from : TRUE][x]]
FallingAfter_TakenToo(scr, view) ==
  [x \in Loot |->
     LET from == Droppers(scr, view, x)
     IN IF Abandoned(scr, view, x) THEN scr.lost[x]
        ELSE IF from = {} THEN scr.falling[x]
        ELSE scr.data[CHOOSE i \in from : TRUE][x]]
FallingAfter(scr, view) ==
  [x \in Loot |->
     LET from == Droppers(scr, view, x)
     IN IF Abandoned(scr, view, x) /\ ~IsTaken(scr, view, x) THEN scr.lost[x]
        ELSE IF from = {} THEN scr.falling[x]
        ELSE scr.data[CHOOSE i \in from : TRUE][x]]

\* _createLoot puts a copy into the scene; nothing here takes one out.
SceneAfter(scr, view) ==
  [x \in Loot |->
     IF \/ x \in view.lost /\ scr.lost[x] = None
        \/ IsTaken(scr, view, x) /\ ~Abandoned(scr, view, x)
     THEN scr.scene[x] \cup {New(scr, x)} ELSE scr.scene[x]]

\* _applyDesiredState
Applied(scr, view) ==
  [cur     |-> DOMAIN view.bags,
   dogs    |-> scr.dogs,
   data    |-> [i \in Slots |-> Bag(scr, view, i)],
   lost    |-> LostAfter(scr, view),
   falling |-> FallingAfter(scr, view),
   scene   |-> SceneAfter(scr, view)]

\* _updatePlayersList: who is shown already keeps the name; of who is not listed
\* any more the dog and the copies in the bag leave the scene.
Listed(scr, names) ==
  LET deleted == DOMAIN scr.dogs \ DOMAIN names
  IN [cur     |-> scr.cur,
      dogs    |-> [i \in DOMAIN names |-> IF i \in DOMAIN scr.dogs THEN scr.dogs[i] ELSE names[i]],
      data    |-> [i \in Slots |-> IF i \in DOMAIN names \cup scr.cur THEN scr.data[i] ELSE Blank],
      lost    |-> scr.lost,
      falling |-> scr.falling,
      scene   |-> [x \in Loot |-> scr.scene[x] \ {scr.data[i][x] : i \in deleted}]]

\* _processDisappearingLoot, when the second of the objects gone is over.
Expired(scr, gone) ==
  [cur     |-> scr.cur,
   dogs    |-> scr.dogs,
   data    |-> scr.data,
   lost    |-> scr.lost,
   falling |-> [x \in Loot |-> IF x \in gone THEN None ELSE scr.falling[x]],
   scene   |-> [x \in Loot |-> IF x \in gone THEN scr.scene[x] \ {scr.falling[x]}
                              ELSE scr.scene[x]]]
=============================================================================
