--------------------------- MODULE GameClientProps ---------------------------
(***************************************************************************)
(* What a player may rely on when looking at the screen.                   *)
(***************************************************************************)
EXTENDS GameClient

\* A copy is in one place: on the map, falling, or in one bag.  The expiry of a
\* falling copy, or the end of a dog, would otherwise take an object away that is
\* shown somewhere else (_attachLootToPlayers, _dropLoot, _deletePlayer).
OneObjectPerPlace ==
  \A x \in Loot :
    /\ screen.lost[x] # None => screen.lost[x] # screen.falling[x]
    /\ \A i \in Slots : screen.data[i][x] # None =>
         /\ screen.data[i][x] \notin {screen.lost[x], screen.falling[x]}
         /\ \A j \in Slots \ {i} : screen.data[i][x] # screen.data[j][x]

\* Nothing is drawn that the client has forgotten and would never remove, and what
\* it remembers is drawn, as long as the replies of each kind come in order and
\* nobody has retired (_createLoot, _dropLoot, _processDisappearingLoot).
NoGhosts ==
  overtaken \cap {"state", "players"} = {} /\ retired = {}
    => \A x \in Loot : screen.scene[x] = Known(screen, x)

\* The names beside the scores are those of the dogs at these places, until
\* somebody retires who joined earlier (_addPlayer keeps the first name it sees).
NamesAreRight ==
  \A i \in DOMAIN screen.dogs :
    (\A j \in 1 .. i : joined[j] \notin retired) => screen.dogs[i] = joined[i]

\* When all the reports of keys have reached the server, one after the other, the
\* dog of this player runs where the last of the pressed keys points.
HeadingFollowsKeys ==
  /\ InGame(Me) /\ "action" \notin overtaken \cup failed /\ page = "game"
  /\ \A k \in DOMAIN calls : calls[k].kind = "action" => calls[k].status # "sent"
  => heading = LastKey(pressed)

\* The screen shows the session: the dogs, what they carry and what lies around.
ShowsSession ==
  /\ screen.cur = DOMAIN order
  /\ {x \in Loot : screen.lost[x] # None} = StateView.lost
  /\ \A i \in DOMAIN order :
       {x \in Loot : screen.data[i][x] # None} = StateView.bags[i]

\* Once the session rests, the screen of a running client shows it, whatever came
\* too late or never before.
ScreenCatchesUp == <>[](page = "records" \/ ~Started \/ ShowsSession)

\* A client that has started and whose player retires shows the records.
RetiredSeeRecords == Started /\ Me \in retired ~> page = "records"
=============================================================================
