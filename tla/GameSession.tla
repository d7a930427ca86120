---------------------------- MODULE GameSession ----------------------------
(***************************************************************************)
(* One session of the game server: the players of one map, their dogs, the *)
(* lost objects on its roads and the three requests that change them,      *)
(* join, action and tick (state_serialization/solution/src: model.h,       *)
(* model.cpp and the handlers of request_handler.h that call them).        *)
(*                                                                         *)
(* A player is named by its token; tokens are 128 random bits and are      *)
(* taken to be unique.  The deque dogs_ only ever grows; the deque         *)
(* players_ is in the same order, so it is kept as the set of its members. *)
(* GameSession::Tick is the sequence TickBegin, Gather..., TickEnd, under  *)
(* the program counter phase; no request runs inside it, because requests  *)
(* and manual ticks share the strand of the listener.                      *)
(***************************************************************************)
EXTENDS RoadMotion, CollisionDetector, LootGenerator, Sequences, FiniteSetsExt

CONSTANTS
  Tokens,           \* the tokens GenerateToken may return
  SpawnPoints,      \* where AddDog may put a dog
  RoadPoints,       \* what GetRandomRoadPoint may return
  Offices,          \* the positions of the map's offices
  DogSpeed,         \* distance per unit of time
  BagCapacity,
  LootTypes,        \* empty when loot_type_count_ is 0
  LootValue,        \* the value of each type of loot
  RetirementTime,   \* dog_retirement_time_ms_
  Deltas,           \* the time deltas of the ticks
  MaxLoot,          \* bound: lost objects generated in all
  PlayCap           \* bound: where the play time saturates; no guard reads it

ASSUME SessionAssumption ==
  /\ IsFiniteSet(Tokens)   \* a token has 32 hexadecimal digits
  /\ SpawnPoints \subseteq Point /\ \A p \in SpawnPoints : OnSomeRoad(p)
  /\ RoadPoints \subseteq Point
  /\ Offices \subseteq Point
  /\ DogSpeed \in Nat
  /\ BagCapacity \in Nat
  /\ LootValue \in [LootTypes -> Int]
  /\ RetirementTime \in Nat \ {0}
  /\ Deltas \subseteq Nat
  /\ MaxLoot \in Nat /\ PlayCap \in Nat

VARIABLES
  dogs,        \* Map::dogs_, as the sequence of their players' tokens
  retired,     \* the dogs whose retired_ flag is set
  players,     \* GameSession::players_
  pos, vel,    \* position and speed of every dog
  bag,         \* the bag of every player, a sequence of [id, type]
  score, idle, play,
  lost,        \* lost_objects_, a set of [id, type, pos]
  nextId,      \* next_lost_object_id_
  waited,      \* LootGenerator::time_without_loot_
  phase,       \* how far a tick has come
  delta,       \* the time delta of the running tick
  events,      \* the gathering events it has still to handle
  handed,      \* the RetiredPlayerInfo the last tick returned
  ledger       \* history: who delivered which item, and what retirement lost

dogVars    == <<dogs, retired, pos, vel>>
playerVars == <<players, bag, score, idle, play>>
lootVars   == <<lost, nextId, waited>>
tickVars   == <<phase, delta, events, handed>>
vars       == <<dogVars, playerVars, lootVars, tickVars, ledger>>

NoLoot    == -1
Item      == [id : Nat, type : LootTypes]
Lost      == [id : Nat, type : LootTypes, pos : Point]
Event     == [who : Tokens, loot : Nat \cup {NoLoot}, at : Point, proj : Int, len : Int]
Delivery  == [id : Nat, type : LootTypes, by : Tokens]

Joined == Range(dogs)

BagItem(o) == [id |-> o.id, type |-> o.type]

Init ==
  /\ dogs = <<>> /\ retired = {} /\ players = {}
  /\ pos = [t \in Tokens |-> Pt(0, 0)] /\ vel = [t \in Tokens |-> Still]
  /\ bag = [t \in Tokens |-> <<>>]
  /\ score = [t \in Tokens |-> 0]
  /\ idle = [t \in Tokens |-> 0] /\ play = [t \in Tokens |-> 0]
  /\ lost = {} /\ nextId = 0 /\ waited = 0
  /\ phase = "Idle" /\ delta = 0 /\ events = {} /\ handed = {}
  /\ ledger = [delivered |-> {}, forfeited |-> {}]

-----------------------------------------------------------------------------
(* Requests *)

\* Map::AddDog: a standing dog at the end of the deque.
AddDog(t, p) ==
  /\ dogs' = Append(dogs, t)
  /\ pos' = [pos EXCEPT ![t] = p]
  /\ vel' = [vel EXCEPT ![t] = Still]

\* POST /api/v1/game/join: a new token, a new dog, a new player.
Join(t, p) ==
  /\ phase = "Idle" /\ t \notin Joined
  /\ AddDog(t, p)
  /\ players' = players \cup {t}
  /\ UNCHANGED <<retired, bag, score, idle, play, lootVars, tickVars, ledger>>

Moves == {"L", "R", "U", "D", ""}

Velocity(move) ==
  CASE move = "L" -> Pt(-DogSpeed, 0)
    [] move = "R" -> Pt(DogSpeed, 0)
    [] move = "U" -> Pt(0, -DogSpeed)
    [] move = "D" -> Pt(0, DogSpeed)
    [] move = ""  -> Still

\* POST /api/v1/game/player/action, for a token that FindPlayerByToken knows.
Action(t, move) ==
  /\ phase = "Idle" /\ t \in players
  /\ vel' = [vel EXCEPT ![t] = Velocity(move)]
  /\ UNCHANGED <<dogs, retired, pos, playerVars, lootVars, tickVars, ledger>>

-----------------------------------------------------------------------------
(* GameSession::Tick *)

\* The loot that is on the map once LootGenerator::Generate has returned n.
LootPlaced(n) ==
  \E drop \in [nextId .. nextId + n - 1 -> LootTypes \X RoadPoints] :
    lost' = lost \cup {[id |-> i, type |-> drop[i][1], pos |-> drop[i][2]] :
                         i \in DOMAIN drop}

GenerateLoot(dt) ==
  IF LootTypes = {} THEN UNCHANGED lootVars
  ELSE LET w == Waited(waited, dt)
           n == Generated(w, Cardinality(lost), Cardinality(players))
       IN /\ nextId + n <= MaxLoot
          /\ LootPlaced(n)
          /\ nextId' = nextId + n
          /\ waited' = WaitAfter(w, n)

Runs(t) == t \in Joined \ retired /\ vel[t] # Still

MoveDogs(dt) ==
  LET moved == [t \in Tokens |-> IF Runs(t) THEN MoveDog(pos[t], vel[t], dt)
                                            ELSE [pos |-> pos[t], vel |-> vel[t]]]
  IN /\ pos' = [t \in Tokens |-> moved[t].pos]
     /\ vel' = [t \in Tokens |-> moved[t].vel]

\* SessionGatheringProvider: players from where they were to where they are.
Gatherers == {[who |-> t, from |-> pos[t], to |-> pos'[t], width |-> DogHalfWidth] :
                t \in players}
Items == {[loot |-> o.id, at |-> o.pos, width |-> LootHalfWidth] : o \in lost'}
         \cup {[loot |-> NoLoot, at |-> p, width |-> OfficeHalfWidth] : p \in Offices}

TickBegin(dt) ==
  /\ phase = "Idle"
  /\ GenerateLoot(dt)
  /\ MoveDogs(dt)
  /\ events' = FindGatherEvents(Gatherers, Items)
  /\ phase' = "Gather" /\ delta' = dt /\ handed' = {}
  /\ UNCHANGED <<dogs, retired, playerVars, ledger>>

HasBagSpace(t) == Len(bag[t]) < BagCapacity

\* A gathering event at a lost object: the object, if it is still there,
\* goes into the bag, if there is room.
PickUp_SpaceCheckedLate(e) ==
  /\ lost' = {o \in lost : o.id # e.loot}
  /\ IF HasBagSpace(e.who) /\ \E o \in lost : o.id = e.loot
     THEN LET object == CHOOSE o \in lost : o.id = e.loot
          IN bag' = [bag EXCEPT ![e.who] = Append(@, BagItem(object))]
     ELSE bag' = bag
  /\ UNCHANGED <<score, ledger>>
PickUp(e) ==
  IF HasBagSpace(e.who) /\ \E o \in lost : o.id = e.loot
  THEN LET object == CHOOSE o \in lost : o.id = e.loot
       IN /\ bag' = [bag EXCEPT ![e.who] = Append(@, BagItem(object))]
          /\ lost' = lost \ {object}
          /\ UNCHANGED <<score, ledger>>
  ELSE UNCHANGED <<bag, lost, score, ledger>>

\* The value of a bag: std::accumulate over its items.
BagValue(items) == MapThenSumSet(LAMBDA i : LootValue[items[i].type], DOMAIN items)

\* A gathering event at an office: Player::ReturnBag.
ReturnBag_KeepsBag(e) ==
  /\ score' = [score EXCEPT ![e.who] = @ + BagValue(bag[e.who])]
  /\ ledger' = [ledger EXCEPT !.delivered = @ \cup
                  {[id |-> i.id, type |-> i.type, by |-> e.who] : i \in Range(bag[e.who])}]
  /\ UNCHANGED <<bag, lost>>
ReturnBag(e) ==
  /\ score' = [score EXCEPT ![e.who] = @ + BagValue(bag[e.who])]
  /\ bag' = [bag EXCEPT ![e.who] = <<>>]
  /\ ledger' = [ledger EXCEPT !.delivered = @ \cup
                  {[id |-> i.id, type |-> i.type, by |-> e.who] : i \in Range(bag[e.who])}]
  /\ UNCHANGED lost

\* The events are handled in the order of their times.
Due_Unsorted(e) == e \in events
Due(e) == e \in events /\ \A f \in events : ~Earlier(f, e)

Gather(e) ==
  /\ phase = "Gather" /\ Due(e)
  /\ events' = events \ {e}
  /\ IF e.loot # NoLoot THEN PickUp(e) ELSE ReturnBag(e)
  /\ UNCHANGED <<dogVars, players, idle, play, nextId, waited, phase, delta, handed>>

\* Play and idle time, by what the dog does at the end of the tick.
IdleAfter_NotAdded(t) == IF vel[t] = Still THEN delta ELSE 0
IdleAfter(t) == IF vel[t] = Still THEN idle[t] + delta ELSE 0
PlayAfter_MovingOnly(t) == IF vel[t] = Still THEN play[t] ELSE Lesser(play[t] + delta, PlayCap)
PlayAfter(t) == Lesser(play[t] + delta, PlayCap)

\* Who has stood too long; their dogs are flagged, their players erased.
Retiring == {t \in players : IdleAfter(t) >= RetirementTime}

RetireDogs == retired' = retired \cup Retiring

ErasePlayers_Forgotten == UNCHANGED players
ErasePlayers == players' = players \ Retiring

TickEnd ==
  /\ phase = "Gather" /\ events = {}
  /\ RetireDogs /\ ErasePlayers
  /\ idle' = [t \in Tokens |-> IF t \in players \ Retiring THEN IdleAfter(t) ELSE 0]
  /\ play' = [t \in Tokens |-> IF t \in players \ Retiring THEN PlayAfter(t) ELSE 0]
  /\ bag' = [t \in Tokens |-> IF t \in Retiring THEN <<>> ELSE bag[t]]
  /\ score' = [t \in Tokens |-> IF t \in Retiring THEN 0 ELSE score[t]]
  /\ handed' = {[token |-> t, score |-> score[t], play |-> PlayAfter(t)] : t \in Retiring}
  /\ ledger' = [ledger EXCEPT !.forfeited = @ \cup UNION {Range(bag[t]) : t \in Retiring}]
  /\ phase' = "Idle" /\ delta' = 0
  /\ UNCHANGED <<dogs, pos, vel, lootVars, events>>

TickStep == (\E e \in events : Gather(e)) \/ TickEnd

Next ==
  \/ \E t \in Tokens, p \in SpawnPoints : Join(t, p)
  \/ \E t \in Tokens, move \in Moves : Action(t, move)
  \/ \E dt \in Deltas : TickBegin(dt)
  \/ TickStep

Spec == Init /\ [][Next]_vars
=============================================================================
