-------------------------- MODULE GameSessionProps --------------------------
(***************************************************************************)
(* What must be true of a session: the type invariant, the safety          *)
(* invariants, the action properties and the abstract life of the lost     *)
(* objects.                                                                *)
(***************************************************************************)
EXTENDS GameSession

\* The types of all variables.
TypeOK ==
  /\ dogs \in Seq(Tokens) /\ retired \subseteq Tokens
  /\ pos \in [Tokens -> Point] /\ vel \in [Tokens -> Point]
  /\ players \subseteq Tokens
  /\ bag \in [Tokens -> Seq(Item)]
  /\ score \in [Tokens -> Int]
  /\ idle \in [Tokens -> Nat] /\ play \in [Tokens -> Nat]
  /\ lost \subseteq Lost /\ IsFiniteSet(lost) /\ nextId \in Nat /\ waited \in 0 .. MaxWait
  /\ phase \in {"Idle", "Gather"} /\ delta \in Nat
  /\ events \subseteq Event
  /\ handed \subseteq [token : Tokens, score : Int, play : Nat]
  /\ ledger \in [delivered : SUBSET Delivery, forfeited : SUBSET Item]

OnMap      == {o.id : o \in lost}
Carried(t) == {bag[t][i].id : i \in DOMAIN bag[t]}
Delivered  == {d.id : d \in ledger.delivered}
Forfeited  == {i.id : i \in ledger.forfeited}

\* A lost object is in one place only: the same id is never on the map twice,
\* in two bags, twice in a bag, or in a bag and still on the map, and what was
\* delivered to an office or went away with a retired player never comes back.
LootInOnePlace ==
  /\ \A o, q \in lost : o.id = q.id => o = q
  /\ \A t \in Tokens : \A i, j \in DOMAIN bag[t] : bag[t][i].id = bag[t][j].id => i = j
  /\ \A t, u \in Tokens : t # u => Carried(t) \cap Carried(u) = {}
  /\ \A t \in Tokens : Carried(t) \cap (OnMap \cup Delivered \cup Forfeited) = {}
  /\ OnMap \cap (Delivered \cup Forfeited) = {} /\ Delivered \cap Forfeited = {}

\* No lost object disappears: every id handed out so far is on the map, in a
\* bag, delivered, or forfeited by a retirement.
LootAccounted ==
  OnMap \cup (UNION {Carried(t) : t \in Tokens}) \cup Delivered \cup Forfeited = 0 .. nextId - 1

\* Where an object is, by its id.
PlaceOf(i) ==
  IF i >= nextId THEN <<"unborn">>
  ELSE IF i \in OnMap THEN <<"map">>
  ELSE IF \E t \in Tokens : i \in Carried(t)
  THEN <<"bag", CHOOSE t \in Tokens : i \in Carried(t)>>
  ELSE IF i \in Delivered THEN <<"office">> ELSE <<"nowhere">>

\* The life of the lost objects is the one LootLife describes: the session, with
\* its ticks and its order of events, implements it.
Loot == INSTANCE LootLife WITH
  Ids <- 0 .. MaxLoot - 1, Holders <- Tokens, Room <- BagCapacity,
  where <- [i \in 0 .. MaxLoot - 1 |-> PlaceOf(i)]
LootLives == Loot!Spec

\* No bag ever holds more than the map's bag capacity, however many objects
\* and offices a dog passes in one tick.
BagsWithinCapacity == \A t \in Tokens : Len(bag[t]) <= BagCapacity

\* Every dog that has not retired stands on some road, wherever the ticks and
\* the players' moves took it.
DogsOnRoads == \A t \in Joined \ retired : OnSomeRoad(pos[t])

\* The players of the session are exactly the dogs without the retired flag:
\* no dog runs on without a player, and no player is left with a retired dog.
PlayersAreLiveDogs == players = Joined \ retired

DeliveredBy(t) == {d \in ledger.delivered : d.by = t}
Paid(deliveries) == MapThenSumSet(LAMBDA d : LootValue[d.type], deliveries)

\* A player's score is the value of what the player has delivered to offices:
\* nothing is paid twice, and nothing that reached an office goes unpaid.
ScoresFromDeliveries == \A t \in players : score[t] = Paid(DeliveredBy(t))

\* Whoever a tick hands over for the record table is no longer in the session,
\* and has played at least the retirement time (a play time cannot be shorter
\* than the idle time that ended it).
RetireesHaveServed ==
  \A r \in handed : r.token \notin players /\ r.play >= Lesser(RetirementTime, PlayCap)

\* While an earlier passer of an object has not been served, no later one gets it.
FirstComeFirstServed ==
  [][\A o \in lost : o \notin lost' =>
       \A e \in events \ events', f \in events' : f.loot = o.id => ~Earlier(f, e)]_vars

\* New loot never outnumbers the looters, although the generator rounds up;
\* only the retirement of players can leave more objects than players.
LootWithinLooters ==
  [][Cardinality(lost') > Cardinality(lost) => Cardinality(lost') <= Cardinality(players)]_vars

\* Retirement is final: a retired dog never moves again, and its token never
\* finds a player again.
RetirementIsFinal ==
  [][\A t \in retired : t \in retired' /\ t \notin players' /\ pos'[t] = pos[t]]_vars
=============================================================================
