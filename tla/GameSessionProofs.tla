-------------------------- MODULE GameSessionProofs --------------------------
(***************************************************************************)
(* Theorems about GameSession for every map, every number of players and   *)
(* every value of the other constants: the types; where the dogs and the   *)
(* lost objects are; what becomes of players, scores and objects; in which *)
(* order a tick serves; that a session implements the abstract life of its *)
(* lost objects; how far the dogs run, and what they collect.              *)
(***************************************************************************)
EXTENDS GameSessionProps, Geometry, FoldFacts, FiniteSetTheorems, SequenceTheorems, TLAPS

-----------------------------------------------------------------------------
(* The geometry *)

\* A stop is a point of the road that provides it.
LEMMA ClampOnRoad ==
  ASSUME NEW road \in [a : Point, b : Point], NEW aim \in Point
  PROVE  /\ ClampToRoad(RoadRect(road), aim) \in Point
         /\ IsOnRoad(RoadRect(road), ClampToRoad(RoadRect(road), aim))
<1> DEFINE r == RoadRect(road)
<1>1. /\ r.minX \in Int /\ r.maxX \in Int /\ r.minX <= r.maxX
      /\ r.minY \in Int /\ r.maxY \in Int /\ r.minY <= r.maxY
  BY DEF RoadRect, Lesser, Greater, RoadHalfWidth, Point
<1> HIDE DEF r
<1>2. /\ ClampToRoad(r, aim) \in Point
      /\ IsOnRoad(r, ClampToRoad(r, aim))
  BY <1>1 DEF ClampToRoad, IsOnRoad, Clamp, Pt, Point
<1>3. QED BY <1>2 DEF r

\* Moving keeps the types, and never takes a dog off the roads.
LEMMA MoveDogProperties ==
  ASSUME NEW p \in Point, NEW v \in Point, NEW dt \in Int
  PROVE  /\ MoveDog(p, v, dt) \in [pos : Point, vel : Point]
         /\ OnSomeRoad(p) => OnSomeRoad(MoveDog(p, v, dt).pos)
<1> DEFINE aim == Aim(p, v, dt)
<1>1. aim \in Point
  BY DEF Aim, Pt, Point
<1>2. Still \in Point
  BY DEF Still, Pt, Point
<1> HIDE DEF aim
<1>3. \A q \in Stops(p, aim) : q \in Point /\ OnSomeRoad(q)
  <2>1. SUFFICES ASSUME NEW road \in Roads
                 PROVE  /\ ClampToRoad(RoadRect(road), aim) \in Point
                        /\ OnSomeRoad(ClampToRoad(RoadRect(road), aim))
    BY DEF Stops
  <2>2. road \in [a : Point, b : Point]
    BY RoadsAssumption
  <2>3. QED BY <1>1, <2>2, ClampOnRoad DEF OnSomeRoad
<1>4. CASE v = Still
  BY <1>4, <1>2 DEF MoveDog
<1>5. CASE v # Still /\ ~ \E q \in Stops(p, aim) : Best(p, aim, q)
  BY <1>5, <1>2 DEF MoveDog, aim
<1>6. CASE v # Still /\ \E q \in Stops(p, aim) : Best(p, aim, q)
  <2> DEFINE best == CHOOSE q \in Stops(p, aim) : Best(p, aim, q)
  <2>1. best \in Stops(p, aim)
    BY <1>6
  <2>2. MoveDog(p, v, dt) = [pos |-> best, vel |-> IF best = aim THEN v ELSE Still]
    BY <1>6 DEF MoveDog, aim
  <2> HIDE DEF best
  <2>3. QED BY <2>1, <2>2, <1>2, <1>3
<1>7. QED BY <1>4, <1>5, <1>6

-----------------------------------------------------------------------------
(* The loot generator and the collision detector *)

\* The generator returns a count, and its clock stays within the table.
LEMMA GeneratedType ==
  ASSUME NEW w \in 0 .. MaxWait, NEW dt \in Nat, NEW loot \in Nat, NEW looters \in Nat
  PROVE  /\ Waited(w, dt) \in 0 .. MaxWait
         /\ Generated(w, loot, looters) \in Nat
         /\ WaitAfter(w, Generated(w, loot, looters)) \in 0 .. MaxWait
<1>1. MaxWait \in Nat /\ ChanceUnit \in Nat \ {0} /\ Chance[w] \in Nat
  BY ChanceAssumption
<1>2. Shortage(loot, looters) \in Nat
  BY DEF Shortage
<1>3. \A m, n \in Nat : m * n \in Nat
  OBVIOUS
<1>4. \A m \in Nat, n \in Nat \ {0} : m \div n \in Nat
  OBVIOUS
<1>5. 2 * Shortage(loot, looters) * Chance[w] + ChanceUnit \in Nat
  <2>1. 2 * Shortage(loot, looters) \in Nat
    BY <1>2
  <2>2. 2 * Shortage(loot, looters) * Chance[w] \in Nat
    BY <2>1, <1>1, <1>3
  <2>3. QED BY <2>2, <1>1
<1>6. 2 * ChanceUnit \in Nat \ {0}
  BY <1>1
<1>7. Generated(w, loot, looters) \in Nat
  BY <1>4, <1>5, <1>6 DEF Generated
<1>8. QED BY <1>1, <1>7 DEF Waited, WaitAfter

\* What the detector reports are events of the gatherers with the items.
LEMMA FindGatherEventsType ==
  ASSUME NEW gatherers, NEW items,
         \A g \in gatherers : g.who \in Tokens /\ g.from \in Point /\ g.to \in Point,
         \A i \in items : i.loot \in Nat \cup {NoLoot} /\ i.at \in Point
  PROVE  FindGatherEvents(gatherers, items) \subseteq Event
<1>1. SUFFICES ASSUME NEW g \in gatherers, NEW i \in items
               PROVE  LET r == TryCollectPoint(g.from, g.to, i.at)
                      IN [who |-> g.who, loot |-> i.loot, at |-> i.at,
                          proj |-> r.proj, len |-> r.len] \in Event
  BY DEF FindGatherEvents
<1>2. \A u, v \in Point : Dot(u, v) \in Int /\ Minus(u, v) \in Point
  BY DEF Dot, Minus, Point
<1>3. /\ TryCollectPoint(g.from, g.to, i.at).proj \in Int
      /\ TryCollectPoint(g.from, g.to, i.at).len \in Int
  BY <1>2 DEF TryCollectPoint
<1>4. QED BY <1>3 DEF Event

-----------------------------------------------------------------------------
(* The types *)

\* The value of a bag is a sum over its places.
LEMMA BagValueIsSum ==
  ASSUME NEW s \in Seq(Item)
  PROVE  /\ IsFiniteSet(DOMAIN s)
         /\ \A i \in DOMAIN s : LootValue[s[i].type] \in Int
         /\ BagValue(s) = SumOf([i \in DOMAIN s |-> LootValue[s[i].type]], DOMAIN s)
<1>0. s \in [DOMAIN s -> Item]
  OBVIOUS
<1> DEFINE S == DOMAIN s
           f == [i \in S |-> LootValue[s[i].type]]
           h == CHOOSE h : h = [T \in SUBSET S |-> IF T = {} THEN 0
                                 ELSE LootValue[s[First(T)].type] + h[T \ {First(T)}]]
<1>1. BagValue(s) = h[S]
  BY DEF BagValue, MapThenSumSet, MapThenFoldSet, First
<1>2. IsFiniteSet(S)
  <2>1. S = 1 .. Len(s) /\ Len(s) \in Nat
    OBVIOUS
  <2>2. QED BY <2>1, FS_Interval
<1>3. \A i \in S : f[i] = LootValue[s[i].type] /\ f[i] \in Int
  <2>1. \A i \in DOMAIN s : s[i].type \in LootTypes
    BY <1>0 DEF Item
  <2>2. \A i \in S : LootValue[s[i].type] \in Int
    BY <2>1, SessionAssumption
  <2>3. QED BY <2>2
<1>4. \A T \in SUBSET S : T # {} => f[First(T)] = LootValue[s[First(T)].type]
  BY <1>3 DEF First
<1> HIDE DEF f
<1>5. PICK k \in [SUBSET S -> Int] : SumsUp(k, f, S)
  BY <1>2, <1>3, SumExists
<1>6. k = [T \in SUBSET S |-> IF T = {} THEN 0
                               ELSE LootValue[s[First(T)].type] + k[T \ {First(T)}]]
  BY <1>4, <1>5 DEF SumsUp
<1>7. h = [T \in SUBSET S |-> IF T = {} THEN 0
                               ELSE LootValue[s[First(T)].type] + h[T \ {First(T)}]]
  BY <1>6
<1> HIDE DEF h
<1>8. SumsUp(h, f, S)
  BY <1>4, <1>7 DEF SumsUp
<1>9. BagValue(s) = SumOf(f, S)
  BY <1>1, <1>2, <1>3, <1>8, SumIs
<1>10. QED BY <1>2, <1>3, <1>9 DEF f

LEMMA BagValueType ==
  ASSUME NEW s \in Seq(Item)
  PROVE  BagValue(s) \in Int
<1> DEFINE f == [i \in DOMAIN s |-> LootValue[s[i].type]]
<1>1. IsFiniteSet(DOMAIN s) /\ (\A i \in DOMAIN s : f[i] \in Int) /\ BagValue(s) = SumOf(f, DOMAIN s)
  BY BagValueIsSum
<1> HIDE DEF f
<1>2. QED BY <1>1, SumType

LEMMA InitTyping == Init => TypeOK
<1>1. SUFFICES ASSUME Init PROVE TypeOK
  OBVIOUS
<1>2. IsFiniteSet({})
  BY FS_EmptySet
<1>3. <<>> \in Seq(Tokens) /\ <<>> \in Seq(Item)
  OBVIOUS
<1>4. Pt(0, 0) \in Point /\ Still \in Point
  BY DEF Pt, Point, Still
<1>5. 0 \in 0 .. MaxWait
  BY ChanceAssumption
<1>6. QED BY <1>1, <1>2, <1>3, <1>4, <1>5 DEF Init, TypeOK

LEMMA JoinTyping ==
  ASSUME TypeOK, NEW t \in Tokens, NEW p \in SpawnPoints, Join(t, p)
  PROVE  TypeOK'
<1>1. p \in Point /\ Still \in Point
  BY SessionAssumption DEF Still, Pt, Point
<1>2. /\ dogs' \in Seq(Tokens)
      /\ pos' \in [Tokens -> Point] /\ vel' \in [Tokens -> Point]
      /\ players' \subseteq Tokens
  BY <1>1 DEF Join, AddDog, TypeOK
<1>3. QED BY <1>2 DEF Join, TypeOK, lootVars, tickVars

LEMMA ActionTyping ==
  ASSUME TypeOK, NEW t \in Tokens, NEW move \in Moves, Action(t, move)
  PROVE  TypeOK'
<1>1. Velocity(move) \in Point
  <2>1. DogSpeed \in Int /\ -DogSpeed \in Int
    BY SessionAssumption
  <2>2. \A x, y \in Int : Pt(x, y) \in Point
    BY DEF Pt, Point
  <2>3. Still \in Point
    BY <2>2 DEF Still
  <2>4. \/ Velocity(move) = Pt(-DogSpeed, 0) \/ Velocity(move) = Pt(DogSpeed, 0)
        \/ Velocity(move) = Pt(0, -DogSpeed) \/ Velocity(move) = Pt(0, DogSpeed)
        \/ Velocity(move) = Still
    BY DEF Velocity, Moves
  <2>5. QED BY <2>1, <2>2, <2>3, <2>4
<1>2. vel' \in [Tokens -> Point]
  BY <1>1 DEF Action, TypeOK
<1>3. QED BY <1>2 DEF Action, TypeOK, playerVars, lootVars, tickVars

\* Placing loot adds finitely many objects with fresh ids.
LEMMA LootPlacedProperties ==
  ASSUME TypeOK, NEW n \in Nat, LootPlaced(n)
  PROVE  /\ lost' \subseteq Lost /\ IsFiniteSet(lost')
         /\ lost \subseteq lost'
         /\ \A o \in lost' \ lost : o.id \in nextId .. nextId + n - 1
         /\ \A i \in nextId .. nextId + n - 1 : \E o \in lost' : o.id = i
         /\ \A o, q \in lost' \ lost : o.id = q.id => o = q
<1>1. PICK drop \in [nextId .. nextId + n - 1 -> LootTypes \X RoadPoints] :
        lost' = lost \cup {[id |-> i, type |-> drop[i][1], pos |-> drop[i][2]] :
                             i \in DOMAIN drop}
  BY DEF LootPlaced
<1>2. nextId \in Nat /\ lost \subseteq Lost /\ IsFiniteSet(lost)
  BY DEF TypeOK
<1> DEFINE ids == nextId .. nextId + n - 1
           obj(i) == [id |-> i, type |-> drop[i][1], pos |-> drop[i][2]]
           fresh == {obj(i) : i \in ids}
<1>3. ids \subseteq Nat /\ DOMAIN drop = ids
  BY <1>1, <1>2
<1>4. \A i \in ids : obj(i) \in Lost /\ obj(i).id = i
  BY <1>1, <1>3, SessionAssumption DEF Lost
<1>5. IsFiniteSet(fresh)
  <2>1. IsFiniteSet(ids)
    BY <1>2, FS_Interval
  <2>2. [i \in ids |-> obj(i)] \in Surjection(ids, fresh)
    BY DEF Surjection
  <2>3. QED BY <2>1, <2>2, FS_Surjection
<1>6. lost' = lost \cup fresh
  BY <1>1, <1>3
<1>7. IsFiniteSet(lost')
  BY <1>2, <1>5, <1>6, FS_Union
<1>8. fresh \subseteq Lost /\ \A o \in fresh : o.id \in ids /\ o = obj(o.id)
  BY <1>4
<1>9. \A i \in ids : \E o \in fresh : o.id = i
  BY <1>4
<1> HIDE DEF fresh, obj
<1>10. QED BY <1>2, <1>6, <1>7, <1>8, <1>9

\* Generating loot keeps the types, and adds objects with fresh ids only.
LEMMA GenerateLootProperties ==
  ASSUME TypeOK, NEW dt \in Deltas, GenerateLoot(dt)
  PROVE  /\ lost' \subseteq Lost /\ IsFiniteSet(lost')
         /\ nextId' \in Nat /\ nextId <= nextId'
         /\ waited' \in 0 .. MaxWait
         /\ lost \subseteq lost'
         /\ \A o \in lost' \ lost : o.id \in nextId .. nextId' - 1
         /\ \A i \in nextId .. nextId' - 1 : \E o \in lost' : o.id = i
         /\ \A o, q \in lost' \ lost : o.id = q.id => o = q
<1>1. CASE LootTypes = {}
  BY <1>1 DEF GenerateLoot, TypeOK, lootVars
<1>2. CASE LootTypes # {}
  <2> DEFINE w == Waited(waited, dt)
             n == Generated(w, Cardinality(lost), Cardinality(players))
  <2>1. Cardinality(lost) \in Nat /\ Cardinality(players) \in Nat
    BY SessionAssumption, FS_Subset, FS_CardinalityType DEF TypeOK
  <2>2. waited \in 0 .. MaxWait /\ dt \in Nat /\ nextId \in Nat
    BY SessionAssumption DEF TypeOK
  <2>3. w \in 0 .. MaxWait
    BY <2>1, <2>2, GeneratedType
  <2>4. n \in Nat /\ WaitAfter(w, n) \in 0 .. MaxWait
    <3> HIDE DEF w
    <3>1. QED BY <2>1, <2>2, <2>3, GeneratedType
  <2>5. LootPlaced(n) /\ nextId' = nextId + n /\ waited' = WaitAfter(w, n)
    BY <1>2 DEF GenerateLoot
  <2> HIDE DEF n, w
  <2>6. QED BY <2>2, <2>4, <2>5, LootPlacedProperties
<1>3. QED BY <1>1, <1>2

\* Moving the dogs keeps the types, the standing dogs, and the dogs on the roads.
LEMMA MoveDogsProperties ==
  ASSUME TypeOK, NEW dt \in Deltas, MoveDogs(dt)
  PROVE  /\ pos' \in [Tokens -> Point] /\ vel' \in [Tokens -> Point]
         /\ \A t \in Tokens : OnSomeRoad(pos[t]) => OnSomeRoad(pos'[t])
         /\ \A t \in Tokens : ~Runs(t) => pos'[t] = pos[t] /\ vel'[t] = vel[t]
<1> DEFINE moved(t) == IF Runs(t) THEN MoveDog(pos[t], vel[t], dt)
                                  ELSE [pos |-> pos[t], vel |-> vel[t]]
<1>1. \A t \in Tokens : pos[t] \in Point /\ vel[t] \in Point
  BY DEF TypeOK
<1>2. dt \in Int
  BY SessionAssumption
<1>3. ASSUME NEW t \in Tokens
      PROVE  /\ moved(t) \in [pos : Point, vel : Point]
             /\ OnSomeRoad(pos[t]) => OnSomeRoad(moved(t).pos)
             /\ ~Runs(t) => moved(t).pos = pos[t] /\ moved(t).vel = vel[t]
  <2>1. CASE Runs(t)
    BY <2>1, <1>1, <1>2, MoveDogProperties
  <2>2. CASE ~Runs(t)
    BY <2>2, <1>1
  <2>3. QED BY <2>1, <2>2
<1>4. /\ pos' = [t \in Tokens |-> moved(t).pos]
      /\ vel' = [t \in Tokens |-> moved(t).vel]
  BY DEF MoveDogs
<1> HIDE DEF moved
<1>5. QED BY <1>3, <1>4

LEMMA TickBeginTyping ==
  ASSUME TypeOK, NEW dt \in Deltas, TickBegin(dt)
  PROVE  TypeOK'
<1>1. GenerateLoot(dt) /\ MoveDogs(dt)
  BY DEF TickBegin
<1>2. /\ lost' \subseteq Lost /\ IsFiniteSet(lost') /\ nextId' \in Nat
      /\ waited' \in 0 .. MaxWait
  BY <1>1, GenerateLootProperties
<1>3. pos' \in [Tokens -> Point] /\ vel' \in [Tokens -> Point]
  BY <1>1, MoveDogsProperties
<1>4. \A g \in Gatherers : g.who \in Tokens /\ g.from \in Point /\ g.to \in Point
  BY <1>3 DEF Gatherers, TypeOK
<1>5. \A i \in Items : i.loot \in Nat \cup {NoLoot} /\ i.at \in Point
  BY <1>2, SessionAssumption DEF Items, Lost
<1>6. events' \subseteq Event
  <2>1. FindGatherEvents(Gatherers, Items) \subseteq Event
    BY <1>4, <1>5, FindGatherEventsType
  <2>2. QED BY <2>1 DEF TickBegin
<1>7. delta' \in Nat
  BY SessionAssumption DEF TickBegin
<1>8. QED BY <1>2, <1>3, <1>6, <1>7 DEF TickBegin, TypeOK, playerVars

\* What a pick-up takes from the map is what it puts into the bag.
LEMMA PickUpProperties ==
  ASSUME TypeOK, NEW e \in events, PickUp(e)
  PROVE  \/ UNCHANGED <<bag, lost, score, ledger>>
         \/ \E object \in lost :
              /\ object.id = e.loot
              /\ Len(bag[e.who]) < BagCapacity
              /\ bag' = [bag EXCEPT ![e.who] = Append(@, BagItem(object))]
              /\ BagItem(object) \in Item
              /\ lost' = lost \ {object}
              /\ UNCHANGED <<score, ledger>>
<1>1. CASE HasBagSpace(e.who) /\ \E o \in lost : o.id = e.loot
  <2> DEFINE object == CHOOSE o \in lost : o.id = e.loot
  <2>1. object \in lost /\ object.id = e.loot
    BY <1>1
  <2>2. /\ bag' = [bag EXCEPT ![e.who] = Append(@, BagItem(object))]
        /\ lost' = lost \ {object}
        /\ UNCHANGED <<score, ledger>>
    BY <1>1 DEF PickUp
  <2> HIDE DEF object
  <2>3. BagItem(object) \in Item
    BY <2>1 DEF BagItem, Item, Lost, TypeOK
  <2>4. QED BY <1>1, <2>1, <2>2, <2>3 DEF HasBagSpace
<1>2. CASE ~(HasBagSpace(e.who) /\ \E o \in lost : o.id = e.loot)
  BY <1>2 DEF PickUp
<1>3. QED BY <1>1, <1>2

LEMMA GatherTyping ==
  ASSUME TypeOK, NEW e \in events, Gather(e)
  PROVE  TypeOK'
<1>1. e.who \in Tokens
  BY DEF TypeOK, Event
<1> DEFINE Typed == /\ bag' \in [Tokens -> Seq(Item)]
                    /\ lost' \subseteq Lost /\ IsFiniteSet(lost')
                    /\ score' \in [Tokens -> Int]
                    /\ ledger' \in [delivered : SUBSET Delivery, forfeited : SUBSET Item]
<1>2. Typed
  <2>1. CASE e.loot # NoLoot
    <3>1. PickUp(e)
      BY <2>1 DEF Gather
    <3>2. CASE UNCHANGED <<bag, lost, score, ledger>>
      BY <3>2 DEF TypeOK
    <3>3. ASSUME NEW object \in lost,
                 bag' = [bag EXCEPT ![e.who] = Append(@, BagItem(object))],
                 BagItem(object) \in Item,
                 lost' = lost \ {object},
                 UNCHANGED <<score, ledger>>
          PROVE  Typed
      <4>1. IsFiniteSet(lost')
        BY <3>3, FS_RemoveElement DEF TypeOK
      <4>2. bag' \in [Tokens -> Seq(Item)]
        BY <3>3, <1>1 DEF TypeOK
      <4>3. QED BY <3>3, <4>1, <4>2 DEF TypeOK
    <3>4. QED BY <3>1, <3>2, <3>3, PickUpProperties
  <2>2. CASE e.loot = NoLoot
    <3>1. ReturnBag(e)
      BY <2>2 DEF Gather
    <3>2. \A i \in Range(bag[e.who]) :
             [id |-> i.id, type |-> i.type, by |-> e.who] \in Delivery
      <4>1. bag[e.who] \in Seq(Item)
        BY <1>1 DEF TypeOK
      <4>2. Range(bag[e.who]) \subseteq Item
        BY <4>1 DEF Range
      <4>3. QED BY <4>2, <1>1 DEF Item, Delivery
    <3>3. ledger' \in [delivered : SUBSET Delivery, forfeited : SUBSET Item]
      BY <3>1, <3>2 DEF ReturnBag, TypeOK
    <3>4. bag' \in [Tokens -> Seq(Item)]
      BY <3>1, <1>1 DEF ReturnBag, TypeOK
    <3>5. score' \in [Tokens -> Int]
      <4>1. BagValue(bag[e.who]) \in Int
        <5>1. bag[e.who] \in Seq(Item)
          BY <1>1 DEF TypeOK
        <5>2. QED BY <5>1, BagValueType
      <4>2. score' = [score EXCEPT ![e.who] = @ + BagValue(bag[e.who])] /\ score \in [Tokens -> Int]
        BY <3>1 DEF ReturnBag, TypeOK
      <4>3. QED BY <1>1, <4>1, <4>2
    <3>6. QED BY <3>1, <3>3, <3>4, <3>5 DEF ReturnBag, TypeOK
  <2>3. QED BY <2>1, <2>2
<1>3. QED BY <1>2 DEF Gather, TypeOK, dogVars

LEMMA TickEndTyping ==
  ASSUME TypeOK, TickEnd
  PROVE  TypeOK'
<1>1. \A t \in Tokens : IdleAfter(t) \in Nat /\ PlayAfter(t) \in Nat
  BY SessionAssumption DEF IdleAfter, PlayAfter, Lesser, TypeOK
<1>2. Retiring \subseteq players
  BY DEF Retiring
<1>3. /\ idle' \in [Tokens -> Nat] /\ play' \in [Tokens -> Nat]
      /\ score' \in [Tokens -> Int]
  BY <1>1 DEF TickEnd, TypeOK
<1>4. bag' \in [Tokens -> Seq(Item)]
  BY DEF TickEnd, TypeOK
<1>5. ledger' \in [delivered : SUBSET Delivery, forfeited : SUBSET Item]
  <2>1. UNION {Range(bag[t]) : t \in Retiring} \subseteq Item
    BY <1>2 DEF TypeOK, Range
  <2>2. QED BY <2>1 DEF TickEnd, TypeOK
<1>6. handed' \subseteq [token : Tokens, score : Int, play : Nat]
  BY <1>1, <1>2 DEF TickEnd, TypeOK
<1>7. retired' \subseteq Tokens /\ players' \subseteq Tokens
  BY <1>2 DEF TickEnd, RetireDogs, ErasePlayers, TypeOK
<1>8. QED BY <1>3, <1>4, <1>5, <1>6, <1>7 DEF TickEnd, TypeOK, lootVars

\* Every variable keeps its type in every behaviour of a session.
THEOREM Typing == Spec => []TypeOK
<1>1. TypeOK /\ [Next]_vars => TypeOK'
  <2>1. SUFFICES ASSUME TypeOK, [Next]_vars PROVE TypeOK'
    OBVIOUS
  <2>2. ASSUME NEW t \in Tokens, NEW p \in SpawnPoints, Join(t, p) PROVE TypeOK'
    BY <2>1, <2>2, JoinTyping
  <2>3. ASSUME NEW t \in Tokens, NEW move \in Moves, Action(t, move) PROVE TypeOK'
    BY <2>1, <2>3, ActionTyping
  <2>4. ASSUME NEW dt \in Deltas, TickBegin(dt) PROVE TypeOK'
    BY <2>1, <2>4, TickBeginTyping
  <2>5. ASSUME NEW e \in events, Gather(e) PROVE TypeOK'
    BY <2>1, <2>5, GatherTyping
  <2>6. CASE TickEnd
    BY <2>1, <2>6, TickEndTyping
  <2>7. CASE UNCHANGED vars
    BY <2>1, <2>7 DEF vars, dogVars, playerVars, lootVars, tickVars, TypeOK
  <2>8. QED BY <2>1, <2>2, <2>3, <2>4, <2>5, <2>6, <2>7 DEF Next, TickStep
<1>2. QED BY InitTyping, <1>1, PTL DEF Spec

-----------------------------------------------------------------------------
(* The dogs *)

\* Retired dogs were dogs, and the rest have players and stand on roads.
DogsInv == TypeOK /\ retired \subseteq Joined /\ PlayersAreLiveDogs /\ DogsOnRoads

LEMMA JoinDogs ==
  ASSUME DogsInv, NEW t \in Tokens, NEW p \in SpawnPoints, Join(t, p)
  PROVE  DogsInv'
<1>1. TypeOK'
  BY JoinTyping DEF DogsInv
<1>2. dogs' = Append(dogs, t) /\ dogs \in Seq(Tokens)
  BY DEF Join, AddDog, DogsInv, TypeOK
<1>3. Joined' = Joined \cup {t}
  BY <1>2 DEF Joined, Range
<1>4. t \notin Joined /\ retired' = retired /\ players' = players \cup {t}
  BY DEF Join
<1>5. retired' \subseteq Joined' /\ PlayersAreLiveDogs'
  BY <1>3, <1>4 DEF DogsInv, PlayersAreLiveDogs
<1>6. DogsOnRoads'
  <2>1. pos' = [pos EXCEPT ![t] = p] /\ pos \in [Tokens -> Point]
    BY DEF Join, AddDog, DogsInv, TypeOK
  <2>2. OnSomeRoad(p)
    BY SessionAssumption
  <2>3. SUFFICES ASSUME NEW u \in Joined' \ retired' PROVE OnSomeRoad(pos'[u])
    BY DEF DogsOnRoads
  <2>4. CASE u = t
    BY <2>1, <2>2, <2>4
  <2>5. CASE u # t
    <3>1. u \in Joined \ retired
      BY <1>3, <1>4, <2>5
    <3>2. pos'[u] = pos[u]
      BY <2>1, <2>5
    <3>3. QED BY <3>1, <3>2 DEF DogsInv, DogsOnRoads
  <2>6. QED BY <2>4, <2>5
<1>7. QED BY <1>1, <1>5, <1>6 DEF DogsInv

LEMMA TickBeginDogs ==
  ASSUME DogsInv, NEW dt \in Deltas, TickBegin(dt)
  PROVE  DogsInv'
<1>1. TypeOK'
  BY TickBeginTyping DEF DogsInv
<1>2. \A t \in Tokens : OnSomeRoad(pos[t]) => OnSomeRoad(pos'[t])
  BY MoveDogsProperties DEF TickBegin, DogsInv
<1>3. UNCHANGED <<dogs, retired, players>>
  BY DEF TickBegin, playerVars
<1>4. Joined' = Joined /\ Joined \subseteq Tokens
  BY <1>3 DEF Joined, Range, DogsInv, TypeOK
<1>5. DogsOnRoads'
  BY <1>2, <1>3, <1>4 DEF DogsInv, DogsOnRoads
<1>6. QED BY <1>1, <1>3, <1>4, <1>5 DEF DogsInv, PlayersAreLiveDogs

LEMMA TickEndDogs ==
  ASSUME DogsInv, TickEnd
  PROVE  DogsInv'
<1>1. TypeOK'
  BY TickEndTyping DEF DogsInv
<1>2. /\ Retiring \subseteq players
      /\ retired' = retired \cup Retiring /\ players' = players \ Retiring
      /\ UNCHANGED <<dogs, pos>>
  BY DEF TickEnd, RetireDogs, ErasePlayers, Retiring
<1>3. Joined' = Joined
  BY <1>2 DEF Joined, Range
<1>4. QED
  BY <1>1, <1>2, <1>3 DEF DogsInv, PlayersAreLiveDogs, DogsOnRoads

LEMMA DogsInvInit == Init => DogsInv
<1>1. SUFFICES ASSUME Init PROVE DogsInv
  OBVIOUS
<1>2. Joined = {} /\ retired = {} /\ players = {}
  <2>1. DOMAIN <<>> = {}
    OBVIOUS
  <2>2. QED BY <1>1, <2>1 DEF Init, Joined, Range
<1>3. QED BY <1>1, <1>2, InitTyping DEF DogsInv, PlayersAreLiveDogs, DogsOnRoads

LEMMA DogsInvStep == DogsInv /\ [Next]_vars => DogsInv'
<1>1. SUFFICES ASSUME DogsInv, [Next]_vars PROVE DogsInv'
  OBVIOUS
<1>2. ASSUME NEW t \in Tokens, NEW p \in SpawnPoints, Join(t, p) PROVE DogsInv'
  BY <1>1, <1>2, JoinDogs
<1>3. ASSUME NEW dt \in Deltas, TickBegin(dt) PROVE DogsInv'
  BY <1>1, <1>3, TickBeginDogs
<1>4. CASE TickEnd
  BY <1>1, <1>4, TickEndDogs
<1>5. ASSUME TypeOK', UNCHANGED <<dogs, retired, players, pos>> PROVE DogsInv'
  <2>1. Joined' = Joined
    BY <1>5 DEF Joined, Range
  <2>2. QED BY <1>1, <1>5, <2>1 DEF DogsInv, PlayersAreLiveDogs, DogsOnRoads
<1>6. ASSUME NEW t \in Tokens, NEW move \in Moves, Action(t, move) PROVE DogsInv'
  BY <1>1, <1>5, <1>6, ActionTyping DEF DogsInv, Action, playerVars
<1>7. ASSUME NEW e \in events, Gather(e) PROVE DogsInv'
  BY <1>1, <1>5, <1>7, GatherTyping DEF DogsInv, Gather, dogVars
<1>8. CASE UNCHANGED vars
  <2>1. TypeOK'
    BY <1>1, <1>8 DEF DogsInv, TypeOK, vars, dogVars, playerVars, lootVars, tickVars
  <2>2. QED BY <1>5, <1>8, <2>1 DEF vars, dogVars, playerVars
<1>9. QED
  BY <1>1, <1>2, <1>3, <1>4, <1>6, <1>7, <1>8 DEF Next, TickStep

\* Players and live dogs are the same, and live dogs stand on roads.
THEOREM DogsAreSafe == Spec => [](PlayersAreLiveDogs /\ DogsOnRoads)
<1>1. DogsInv => PlayersAreLiveDogs /\ DogsOnRoads
  BY DEF DogsInv
<1>2. QED BY DogsInvInit, DogsInvStep, <1>1, PTL DEF Spec

-----------------------------------------------------------------------------
(* The lost objects *)

\* Bags within their capacity, and every id handed out in exactly one place.
LootInv == TypeOK /\ BagsWithinCapacity /\ LootInOnePlace /\ LootAccounted

\* What a bag holds, when an object is added at its end.
LEMMA CarriedAppend ==
  ASSUME NEW s \in Seq(Item), NEW x \in Item
  PROVE  /\ Len(Append(s, x)) = Len(s) + 1
         /\ DOMAIN Append(s, x) = DOMAIN s \cup {Len(s) + 1}
         /\ Len(s) + 1 \notin DOMAIN s
         /\ \A i \in DOMAIN s : Append(s, x)[i] = s[i]
         /\ Append(s, x)[Len(s) + 1] = x
  OBVIOUS

LEMMA TickBeginLoot ==
  ASSUME LootInv, NEW dt \in Deltas, TickBegin(dt)
  PROVE  LootInv'
<1>1. TypeOK'
  BY TickBeginTyping DEF LootInv
<1>2. /\ nextId' \in Nat /\ nextId \in Nat /\ nextId <= nextId'
      /\ lost \subseteq lost'
      /\ \A o \in lost' \ lost : o.id \in nextId .. nextId' - 1
      /\ \A i \in nextId .. nextId' - 1 : \E o \in lost' : o.id = i
      /\ \A o, q \in lost' \ lost : o.id = q.id => o = q
  BY GenerateLootProperties DEF LootInv, TickBegin, TypeOK
<1>3. OnMap' = OnMap \cup (nextId .. nextId' - 1)
  <2>1. \A o \in lost : o.id \in OnMap
    BY DEF OnMap
  <2>2. \A o \in lost' : o.id \in OnMap'
    BY DEF OnMap
  <2>3. \A i \in OnMap : \E o \in lost : o.id = i
    BY DEF OnMap
  <2>4. \A i \in OnMap' : \E o \in lost' : o.id = i
    BY DEF OnMap
  <2> DEFINE fresh == nextId .. nextId' - 1
  <2>5. /\ \A o \in lost' \ lost : o.id \in fresh
        /\ \A i \in fresh : \E o \in lost' : o.id = i
    BY <1>2
  <2> HIDE DEF fresh
  <2>6. OnMap' = OnMap \cup fresh
    BY <1>2, <2>1, <2>2, <2>3, <2>4, <2>5
  <2>7. QED BY <2>6 DEF fresh
<1>4. bag' = bag /\ ledger' = ledger
  BY DEF TickBegin, playerVars
<1>5. \A t \in Tokens : Carried(t)' = Carried(t)
  BY <1>4 DEF Carried
<1>6. Delivered' = Delivered /\ Forfeited' = Forfeited
  BY <1>4 DEF Delivered, Forfeited
<1>7. /\ OnMap \subseteq 0 .. nextId - 1
      /\ Delivered \subseteq 0 .. nextId - 1 /\ Forfeited \subseteq 0 .. nextId - 1
      /\ \A t \in Tokens : Carried(t) \subseteq 0 .. nextId - 1
  BY DEF LootInv, LootAccounted
<1>8. (nextId .. nextId' - 1) \cap (0 .. nextId - 1) = {}
  <2>1. \A i \in nextId .. nextId' - 1 : i \in Int /\ nextId <= i
    BY <1>2
  <2>2. \A i \in 0 .. nextId - 1 : i \in Int /\ i < nextId
    BY <1>2
  <2>3. ASSUME NEW i \in nextId .. nextId' - 1, i \in 0 .. nextId - 1 PROVE FALSE
    BY <1>2, <2>1, <2>2, <2>3
  <2>4. QED BY <2>3
<1>9. \A o, q \in lost' : o.id = q.id => o = q
  <2>1. \A o \in lost : o.id \in 0 .. nextId - 1
    BY <1>7 DEF OnMap
  <2>2. \A o, q \in lost : o.id = q.id => o = q
    BY DEF LootInv, LootInOnePlace
  <2>3. QED BY <1>2, <1>8, <2>1, <2>2
<1>10. LootInOnePlace'
  <2>1. \A t \in Tokens : \A i, j \in DOMAIN bag'[t] : bag'[t][i].id = bag'[t][j].id => i = j
    BY <1>4 DEF LootInv, LootInOnePlace
  <2>2. \A t, u \in Tokens : t # u => Carried(t)' \cap Carried(u)' = {}
    BY <1>5 DEF LootInv, LootInOnePlace
  <2>3. \A t \in Tokens : Carried(t)' \cap (OnMap' \cup Delivered' \cup Forfeited') = {}
    BY <1>3, <1>5, <1>6, <1>7, <1>8 DEF LootInv, LootInOnePlace
  <2>4. /\ OnMap' \cap (Delivered' \cup Forfeited') = {}
        /\ Delivered' \cap Forfeited' = {}
    BY <1>3, <1>6, <1>7, <1>8 DEF LootInv, LootInOnePlace
  <2>5. QED BY <1>9, <2>1, <2>2, <2>3, <2>4 DEF LootInOnePlace
<1>11. LootAccounted'
  <2>1. UNION {Carried(t)' : t \in Tokens} = UNION {Carried(t) : t \in Tokens}
    BY <1>5
  <2>2. 0 .. nextId' - 1 = (0 .. nextId - 1) \cup (nextId .. nextId' - 1)
    BY <1>2
  <2>3. QED BY <1>3, <1>6, <2>1, <2>2 DEF LootInv, LootAccounted
<1>12. BagsWithinCapacity'
  BY <1>4 DEF LootInv, BagsWithinCapacity
<1>13. QED BY <1>1, <1>10, <1>11, <1>12 DEF LootInv

\* A step that leaves the objects, the bags and the ledger alone keeps it all.
LEMMA LootFrame ==
  ASSUME LootInv, TypeOK', UNCHANGED <<lost, bag, ledger, nextId>>
  PROVE  LootInv'
<1>1. /\ OnMap' = OnMap /\ Delivered' = Delivered /\ Forfeited' = Forfeited
      /\ \A t \in Tokens : Carried(t)' = Carried(t)
  BY DEF OnMap, Carried, Delivered, Forfeited
<1>2. LootInOnePlace'
  BY <1>1 DEF LootInv, LootInOnePlace
<1>3. LootAccounted'
  <2>1. UNION {Carried(t)' : t \in Tokens} = UNION {Carried(t) : t \in Tokens}
    BY <1>1
  <2>2. QED BY <1>1, <2>1 DEF LootInv, LootAccounted
<1>4. BagsWithinCapacity'
  BY DEF LootInv, BagsWithinCapacity
<1>5. QED BY <1>2, <1>3, <1>4 DEF LootInv

\* A pick-up moves one id from the map into one bag.
LEMMA PickUpLoot ==
  ASSUME LootInv, NEW e \in events, Gather(e), PickUp(e)
  PROVE  LootInv'
<1>1. TypeOK' /\ e.who \in Tokens /\ nextId' = nextId
  BY GatherTyping DEF LootInv, TypeOK, Event, Gather
<1>2. CASE UNCHANGED <<bag, lost, score, ledger>>
  BY <1>1, <1>2, LootFrame
<1>3. ASSUME NEW object \in lost,
             Len(bag[e.who]) < BagCapacity,
             bag' = [bag EXCEPT ![e.who] = Append(@, BagItem(object))],
             BagItem(object) \in Item,
             lost' = lost \ {object}, ledger' = ledger
      PROVE  LootInv'
  <2> DEFINE w == e.who
             x == BagItem(object)
             s == bag[w]
  <2>1. s \in Seq(Item) /\ bag \in [Tokens -> Seq(Item)] /\ w \in Tokens /\ x \in Item
    BY <1>1, <1>3 DEF LootInv, TypeOK
  <2>2. bag'[w] = Append(s, x) /\ \A t \in Tokens : t # w => bag'[t] = bag[t]
    BY <1>3, <2>1
  <2>3. x.id = object.id /\ object.id \in OnMap
    BY DEF BagItem, OnMap
  <2> HIDE DEF x, s, w
  <2>4. /\ Carried(w)' = Carried(w) \cup {object.id}
        /\ \A t \in Tokens : t # w => Carried(t)' = Carried(t)
    <3>1. /\ DOMAIN bag'[w] = DOMAIN s \cup {Len(s) + 1}
          /\ \A i \in DOMAIN s : bag'[w][i] = s[i]
          /\ bag'[w][Len(s) + 1] = x
      BY <2>1, <2>2, CarriedAppend
    <3>2. s = bag[w]
      BY DEF s
    <3>3. Carried(w)' = Carried(w) \cup {object.id}
      BY <2>3, <3>1, <3>2 DEF Carried
    <3>4. QED BY <2>2, <3>3 DEF Carried
  <2>5. OnMap' = OnMap \ {object.id}
    <3>1. \A o, q \in lost : o.id = q.id => o = q
      BY DEF LootInv, LootInOnePlace
    <3>2. QED BY <1>3, <3>1 DEF OnMap
  <2>6. Delivered' = Delivered /\ Forfeited' = Forfeited
    BY <1>3 DEF Delivered, Forfeited
  <2>7. object.id \notin Carried(w)
    BY <2>1, <2>3 DEF LootInv, LootInOnePlace
  <2>8. LootInOnePlace'
    <3>1. \A o, q \in lost' : o.id = q.id => o = q
      BY <1>3 DEF LootInv, LootInOnePlace
    <3>2. \A t \in Tokens : \A i, j \in DOMAIN bag'[t] : bag'[t][i].id = bag'[t][j].id => i = j
      <4>1. ASSUME NEW t \in Tokens, t # w
            PROVE  \A i, j \in DOMAIN bag'[t] : bag'[t][i].id = bag'[t][j].id => i = j
        BY <2>2, <4>1 DEF LootInv, LootInOnePlace
      <4>2. \A i, j \in DOMAIN bag'[w] : bag'[w][i].id = bag'[w][j].id => i = j
        <5>1. s = bag[w]
          BY DEF s
        <5>2. \A i \in DOMAIN s : s[i].id # object.id
          BY <2>7, <5>1 DEF Carried
        <5>3. \A i, j \in DOMAIN s : s[i].id = s[j].id => i = j
          BY <2>1, <5>1 DEF LootInv, LootInOnePlace
        <5>4. QED BY <2>1, <2>2, <2>3, <5>2, <5>3, CarriedAppend
      <4>3. QED BY <4>1, <4>2
    <3>3. \A t, u \in Tokens : t # u => Carried(t)' \cap Carried(u)' = {}
      BY <2>1, <2>3, <2>4 DEF LootInv, LootInOnePlace
    <3>4. \A t \in Tokens : Carried(t)' \cap (OnMap' \cup Delivered' \cup Forfeited') = {}
      BY <2>1, <2>3, <2>4, <2>5, <2>6 DEF LootInv, LootInOnePlace
    <3>5. /\ OnMap' \cap (Delivered' \cup Forfeited') = {}
          /\ Delivered' \cap Forfeited' = {}
      BY <2>5, <2>6 DEF LootInv, LootInOnePlace
    <3>6. QED BY <3>1, <3>2, <3>3, <3>4, <3>5 DEF LootInOnePlace
  <2>9. LootAccounted'
    <3>1. UNION {Carried(t)' : t \in Tokens}
            = (UNION {Carried(t) : t \in Tokens}) \cup {object.id}
      BY <2>1, <2>4
    <3>2. QED BY <1>1, <2>3, <2>5, <2>6, <3>1 DEF LootInv, LootAccounted
  <2>10. BagsWithinCapacity'
    <3>1. Len(s) < BagCapacity /\ Len(s) \in Nat /\ BagCapacity \in Nat
      BY <1>3, <2>1, SessionAssumption DEF s, w
    <3>2. Len(bag'[w]) <= BagCapacity
      BY <2>1, <2>2, <3>1, CarriedAppend
    <3>3. QED BY <2>2, <3>2 DEF LootInv, BagsWithinCapacity
  <2>11. QED BY <1>1, <2>8, <2>9, <2>10 DEF LootInv
<1>4. QED BY <1>2, <1>3, PickUpProperties DEF LootInv

\* A visit to an office moves a whole bag to what has been delivered.
LEMMA ReturnBagLoot ==
  ASSUME LootInv, NEW e \in events, Gather(e), ReturnBag(e)
  PROVE  LootInv'
<1> DEFINE w == e.who
<1>1. TypeOK' /\ w \in Tokens /\ nextId' = nextId /\ lost' = lost
  BY GatherTyping DEF LootInv, TypeOK, Event, Gather, ReturnBag
<1>2. /\ bag'[w] = <<>> /\ \A t \in Tokens : t # w => bag'[t] = bag[t]
      /\ ledger'.forfeited = ledger.forfeited
      /\ ledger'.delivered = ledger.delivered \cup
           {[id |-> i.id, type |-> i.type, by |-> w] : i \in Range(bag[w])}
  BY <1>1 DEF ReturnBag, LootInv, TypeOK
<1> HIDE DEF w
<1>3. DOMAIN <<>> = {} /\ Len(<<>>) = 0
  OBVIOUS
<1>4. /\ Carried(w)' = {}
      /\ \A t \in Tokens : t # w => Carried(t)' = Carried(t)
  BY <1>2, <1>3 DEF Carried
<1>5. Delivered' = Delivered \cup Carried(w)
  <2> DEFINE new == {[id |-> i.id, type |-> i.type, by |-> w] : i \in Range(bag[w])}
  <2>1. {d.id : d \in new} = Carried(w)
    <3>1. /\ \A d \in new : \E i \in Range(bag[w]) : d.id = i.id
          /\ \A i \in Range(bag[w]) : \E d \in new : d.id = i.id
      <4> DEFINE f(i) == [id |-> i.id, type |-> i.type, by |-> w]
      <4>1. \A i : f(i).id = i.id
        OBVIOUS
      <4>2. new = {f(i) : i \in Range(bag[w])}
        OBVIOUS
      <4> HIDE DEF f, new
      <4>3. QED BY <4>1, <4>2
    <3> HIDE DEF new
    <3>2. \A i \in Range(bag[w]) : i.id \in Carried(w)
      BY DEF Carried, Range
    <3>3. \A k \in Carried(w) : \E i \in Range(bag[w]) : i.id = k
      BY DEF Carried, Range
    <3>4. QED BY <3>1, <3>2, <3>3
  <2>2. ledger'.delivered = ledger.delivered \cup new
    BY <1>2
  <2> HIDE DEF new
  <2>3. QED BY <2>1, <2>2 DEF Delivered
<1>6. OnMap' = OnMap /\ Forfeited' = Forfeited
  BY <1>1, <1>2 DEF OnMap, Forfeited
<1>7. LootInOnePlace'
  <2>1. \A o, q \in lost' : o.id = q.id => o = q
    BY <1>1 DEF LootInv, LootInOnePlace
  <2>2. \A t \in Tokens : \A i, j \in DOMAIN bag'[t] : bag'[t][i].id = bag'[t][j].id => i = j
    BY <1>2, <1>3 DEF LootInv, LootInOnePlace
  <2>3. \A t, u \in Tokens : t # u => Carried(t)' \cap Carried(u)' = {}
    BY <1>1, <1>4 DEF LootInv, LootInOnePlace
  <2>4. \A t \in Tokens : Carried(t)' \cap (OnMap' \cup Delivered' \cup Forfeited') = {}
    BY <1>1, <1>4, <1>5, <1>6 DEF LootInv, LootInOnePlace
  <2>5. /\ OnMap' \cap (Delivered' \cup Forfeited') = {}
        /\ Delivered' \cap Forfeited' = {}
    BY <1>1, <1>5, <1>6 DEF LootInv, LootInOnePlace
  <2>6. QED BY <2>1, <2>2, <2>3, <2>4, <2>5 DEF LootInOnePlace
<1>8. LootAccounted'
  <2>1. (UNION {Carried(t)' : t \in Tokens}) \cup Carried(w) = UNION {Carried(t) : t \in Tokens}
    BY <1>1, <1>4
  <2>2. QED BY <1>1, <1>5, <1>6, <2>1 DEF LootInv, LootAccounted
<1>9. BagsWithinCapacity'
  BY <1>2, <1>3, SessionAssumption DEF LootInv, BagsWithinCapacity
<1>10. QED BY <1>1, <1>7, <1>8, <1>9 DEF LootInv

\* Retirement moves the bags of those who retire to what has been forfeited.
LEMMA TickEndLoot ==
  ASSUME LootInv, TickEnd
  PROVE  LootInv'
<1>1. TypeOK' /\ nextId' = nextId /\ lost' = lost
  BY TickEndTyping DEF LootInv, TickEnd, lootVars
<1>2. Retiring \subseteq Tokens
  BY DEF LootInv, TypeOK, Retiring
<1>3. /\ \A t \in Retiring : bag'[t] = <<>>
      /\ \A t \in Tokens \ Retiring : bag'[t] = bag[t]
      /\ ledger'.delivered = ledger.delivered
      /\ ledger'.forfeited = ledger.forfeited \cup UNION {Range(bag[t]) : t \in Retiring}
  BY <1>2 DEF TickEnd, LootInv, TypeOK
<1>4. DOMAIN <<>> = {} /\ Len(<<>>) = 0
  OBVIOUS
<1> DEFINE gone == UNION {Carried(t) : t \in Retiring}
<1>5. /\ \A t \in Retiring : Carried(t)' = {}
      /\ \A t \in Tokens \ Retiring : Carried(t)' = Carried(t)
  BY <1>3, <1>4 DEF Carried
<1>6. Forfeited' = Forfeited \cup gone
  <2>1. \A t \in Retiring : \A i \in Range(bag[t]) : i.id \in Carried(t)
    BY DEF Carried, Range
  <2>2. \A t \in Retiring : \A k \in Carried(t) : \E i \in Range(bag[t]) : i.id = k
    BY DEF Carried, Range
  <2>3. QED BY <1>3, <2>1, <2>2 DEF Forfeited
<1>7. OnMap' = OnMap /\ Delivered' = Delivered
  BY <1>1, <1>3 DEF OnMap, Delivered
<1>8. LootInOnePlace'
  <2>1. \A o, q \in lost' : o.id = q.id => o = q
    BY <1>1 DEF LootInv, LootInOnePlace
  <2>2. \A t \in Tokens : \A i, j \in DOMAIN bag'[t] : bag'[t][i].id = bag'[t][j].id => i = j
    BY <1>3, <1>4 DEF LootInv, LootInOnePlace
  <2>3. \A t, u \in Tokens : t # u => Carried(t)' \cap Carried(u)' = {}
    BY <1>2, <1>5 DEF LootInv, LootInOnePlace
  <2>4. \A t \in Tokens : Carried(t)' \cap (OnMap' \cup Delivered' \cup Forfeited') = {}
    BY <1>2, <1>5, <1>6, <1>7 DEF LootInv, LootInOnePlace
  <2>5. /\ OnMap' \cap (Delivered' \cup Forfeited') = {}
        /\ Delivered' \cap Forfeited' = {}
    BY <1>2, <1>6, <1>7 DEF LootInv, LootInOnePlace
  <2>6. QED BY <2>1, <2>2, <2>3, <2>4, <2>5 DEF LootInOnePlace
<1>9. LootAccounted'
  <2>1. (UNION {Carried(t)' : t \in Tokens}) \cup gone = UNION {Carried(t) : t \in Tokens}
    BY <1>2, <1>5
  <2> HIDE DEF gone
  <2>2. QED BY <1>1, <1>6, <1>7, <2>1 DEF LootInv, LootAccounted
<1>10. BagsWithinCapacity'
  BY <1>3, <1>4, SessionAssumption DEF LootInv, BagsWithinCapacity
<1>11. QED BY <1>1, <1>8, <1>9, <1>10 DEF LootInv

LEMMA LootInvInit == Init => LootInv
<1>1. SUFFICES ASSUME Init PROVE LootInv
  OBVIOUS
<1>2. DOMAIN <<>> = {} /\ Len(<<>>) = 0 /\ 0 .. 0 - 1 = {}
  OBVIOUS
<1>3. \A t \in Tokens : bag[t] = <<>> /\ Carried(t) = {}
  BY <1>1, <1>2 DEF Init, Carried
<1>4. OnMap = {} /\ Delivered = {} /\ Forfeited = {} /\ lost = {} /\ nextId = 0
  BY <1>1 DEF Init, OnMap, Delivered, Forfeited
<1>5. QED
  BY <1>1, <1>2, <1>3, <1>4, InitTyping, SessionAssumption
  DEF LootInv, BagsWithinCapacity, LootInOnePlace, LootAccounted

LEMMA LootInvStep == LootInv /\ [Next]_vars => LootInv'
<1>1. SUFFICES ASSUME LootInv, [Next]_vars PROVE LootInv'
  OBVIOUS
<1>2. ASSUME NEW dt \in Deltas, TickBegin(dt) PROVE LootInv'
  BY <1>1, <1>2, TickBeginLoot
<1>3. ASSUME NEW e \in events, Gather(e) PROVE LootInv'
  <2>1. PickUp(e) \/ ReturnBag(e)
    BY <1>3 DEF Gather
  <2>2. QED BY <1>1, <1>3, <2>1, PickUpLoot, ReturnBagLoot
<1>4. CASE TickEnd
  BY <1>1, <1>4, TickEndLoot
<1>5. ASSUME TypeOK', UNCHANGED <<lost, bag, ledger, nextId>> PROVE LootInv'
  BY <1>1, <1>5, LootFrame
<1>6. ASSUME NEW t \in Tokens, NEW p \in SpawnPoints, Join(t, p) PROVE LootInv'
  BY <1>1, <1>5, <1>6, JoinTyping DEF LootInv, Join, lootVars
<1>7. ASSUME NEW t \in Tokens, NEW move \in Moves, Action(t, move) PROVE LootInv'
  BY <1>1, <1>5, <1>7, ActionTyping DEF LootInv, Action, playerVars, lootVars
<1>8. CASE UNCHANGED vars
  <2>1. TypeOK'
    BY <1>1, <1>8 DEF LootInv, TypeOK, vars, dogVars, playerVars, lootVars, tickVars
  <2>2. QED BY <1>5, <1>8, <2>1 DEF vars, playerVars, lootVars
<1>9. QED
  BY <1>1, <1>2, <1>3, <1>4, <1>6, <1>7, <1>8 DEF Next, TickStep

\* Through every tick, however many dogs pass an object, every id handed out
\* is in exactly one place, and no bag outgrows its capacity.
THEOREM LootIsSafe == Spec => [](LootInOnePlace /\ LootAccounted /\ BagsWithinCapacity)
<1>1. LootInv => LootInOnePlace /\ LootAccounted /\ BagsWithinCapacity
  BY DEF LootInv
<1>2. QED BY LootInvInit, LootInvStep, <1>1, PTL DEF Spec

-----------------------------------------------------------------------------
(* Retirement *)

\* A dog that has retired stays so, has no player, and stays where it is.
LEMMA RetiredStays ==
  ASSUME DogsInv, [Next]_vars, NEW t \in retired
  PROVE  t \in retired' /\ t \notin players' /\ pos'[t] = pos[t]
<1>1. t \in Tokens /\ t \in Joined /\ t \notin players
  BY DEF DogsInv, TypeOK, PlayersAreLiveDogs
<1>2. ASSUME NEW u \in Tokens, NEW p \in SpawnPoints, Join(u, p)
      PROVE  t \in retired' /\ t \notin players' /\ pos'[t] = pos[t]
  <2>1. u \notin Joined /\ players' = players \cup {u} /\ pos' = [pos EXCEPT ![u] = p]
    BY <1>2 DEF Join, AddDog
  <2>2. retired' = retired /\ pos \in [Tokens -> Point]
    BY <1>2 DEF Join, DogsInv, TypeOK
  <2>3. QED BY <1>1, <2>1, <2>2
<1>3. ASSUME NEW dt \in Deltas, TickBegin(dt)
      PROVE  t \in retired' /\ t \notin players' /\ pos'[t] = pos[t]
  <2>1. ~Runs(t)
    BY DEF Runs
  <2>2. pos'[t] = pos[t]
    BY <1>1, <1>3, <2>1, MoveDogsProperties DEF TickBegin, DogsInv
  <2>3. QED BY <1>1, <1>3, <2>2 DEF TickBegin, playerVars
<1>4. CASE TickEnd
  BY <1>1, <1>4 DEF TickEnd, RetireDogs, ErasePlayers
<1>5. ASSUME UNCHANGED <<retired, players, pos>>
      PROVE  t \in retired' /\ t \notin players' /\ pos'[t] = pos[t]
  BY <1>1, <1>5
<1>6. ASSUME NEW u \in Tokens, NEW move \in Moves, Action(u, move)
      PROVE  UNCHANGED <<retired, players, pos>>
  BY <1>6 DEF Action, playerVars
<1>7. ASSUME NEW e \in events, Gather(e) PROVE UNCHANGED <<retired, players, pos>>
  BY <1>7 DEF Gather, dogVars
<1>8. CASE UNCHANGED vars
  BY <1>5, <1>8 DEF vars, dogVars, playerVars
<1>9. QED BY <1>2, <1>3, <1>4, <1>5, <1>6, <1>7, <1>8 DEF Next, TickStep

LEMMA DogsInvAlways == Spec => []DogsInv
BY DogsInvInit, DogsInvStep, PTL DEF Spec

\* A player who retired never comes back, and the dog stays where it is.
THEOREM RetirementStays == Spec => RetirementIsFinal
<1>1. DogsInv /\ [Next]_vars
        => [\A t \in retired : t \in retired' /\ t \notin players' /\ pos'[t] = pos[t]]_vars
  BY RetiredStays
<1>2. QED BY <1>1, DogsInvAlways, PTL DEF Spec, RetirementIsFinal

-----------------------------------------------------------------------------
(* Whoever retires has served *)

\* Nobody has idled longer than played, up to the cap of the play time, and
\* the retired of the last tick have played for the retirement time.
IdleWithinPlay == \A t \in Tokens : Lesser(idle[t], PlayCap) <= play[t]
HandedServed ==
  \A r \in handed : r.token \in retired /\ r.play >= Lesser(RetirementTime, PlayCap)
ServedInv == DogsInv /\ IdleWithinPlay /\ HandedServed

\* Adding to both times, or starting the idle time afresh, keeps their order.
LEMMA LesserAdds ==
  ASSUME NEW cap \in Nat, NEW i \in Nat, NEW p \in Nat, NEW d \in Nat,
         Lesser(i, cap) <= p
  PROVE  /\ Lesser(i + d, cap) <= Lesser(p + d, cap)
         /\ Lesser(0, cap) <= Lesser(p + d, cap)
         /\ \A m \in Nat : i + d >= m => Lesser(m, cap) <= Lesser(p + d, cap)
BY DEF Lesser

LEMMA TickEndServed ==
  ASSUME ServedInv, TickEnd
  PROVE  IdleWithinPlay' /\ HandedServed'
<1>1. /\ idle \in [Tokens -> Nat] /\ play \in [Tokens -> Nat] /\ delta \in Nat
      /\ PlayCap \in Nat /\ RetirementTime \in Nat \ {0}
  BY SessionAssumption DEF ServedInv, DogsInv, TypeOK
<1>2. ASSUME NEW t \in Tokens
      PROVE  /\ Lesser(IdleAfter(t), PlayCap) <= PlayAfter(t)
             /\ IdleAfter(t) >= RetirementTime
                  => PlayAfter(t) >= Lesser(RetirementTime, PlayCap)
  <2>1. Lesser(idle[t], PlayCap) <= play[t] /\ idle[t] \in Nat /\ play[t] \in Nat
    BY <1>1 DEF ServedInv, IdleWithinPlay
  <2>2. /\ Lesser(idle[t] + delta, PlayCap) <= Lesser(play[t] + delta, PlayCap)
        /\ Lesser(0, PlayCap) <= Lesser(play[t] + delta, PlayCap)
        /\ \A m \in Nat : idle[t] + delta >= m
             => Lesser(m, PlayCap) <= Lesser(play[t] + delta, PlayCap)
    BY <1>1, <2>1, LesserAdds
  <2>3. CASE vel[t] = Still
    <3>1. IdleAfter(t) = idle[t] + delta /\ PlayAfter(t) = Lesser(play[t] + delta, PlayCap)
      BY <2>3 DEF IdleAfter, PlayAfter
    <3>2. Lesser(play[t] + delta, PlayCap) \in Nat /\ Lesser(RetirementTime, PlayCap) \in Nat
      BY <1>1, <2>1 DEF Lesser
    <3>3. idle[t] + delta >= RetirementTime
            => Lesser(RetirementTime, PlayCap) <= Lesser(play[t] + delta, PlayCap)
      BY <1>1, <2>2
    <3>4. QED BY <2>2, <3>1, <3>2, <3>3
  <2>4. CASE vel[t] # Still
    <3>1. IdleAfter(t) = 0 /\ PlayAfter(t) = Lesser(play[t] + delta, PlayCap)
      BY <2>4 DEF IdleAfter, PlayAfter
    <3>2. ~(0 >= RetirementTime)
      BY <1>1
    <3>3. QED BY <2>2, <3>1, <3>2
  <2>5. QED BY <2>3, <2>4
<1>3. /\ retired' = retired \cup Retiring /\ Retiring \subseteq Tokens
      /\ idle' = [t \in Tokens |-> IF t \in players \ Retiring THEN IdleAfter(t) ELSE 0]
      /\ play' = [t \in Tokens |-> IF t \in players \ Retiring THEN PlayAfter(t) ELSE 0]
      /\ handed' = {[token |-> t, score |-> score[t], play |-> PlayAfter(t)] : t \in Retiring}
  BY DEF TickEnd, RetireDogs, Retiring, ServedInv, DogsInv, TypeOK
<1>4. IdleWithinPlay'
  <2>1. Lesser(0, PlayCap) <= 0
    BY <1>1 DEF Lesser
  <2>2. \A t \in Tokens : Lesser(idle'[t], PlayCap) <= play'[t]
    BY <1>2, <1>3, <2>1
  <2>3. QED BY <2>2 DEF IdleWithinPlay
<1>5. HandedServed'
  <2>1. SUFFICES ASSUME NEW r \in handed'
                 PROVE  r.token \in retired' /\ r.play >= Lesser(RetirementTime, PlayCap)
    BY DEF HandedServed
  <2>2. PICK t \in Retiring : r = [token |-> t, score |-> score[t], play |-> PlayAfter(t)]
    BY <1>3
  <2>3. t \in Tokens /\ IdleAfter(t) >= RetirementTime
    BY <1>3 DEF Retiring
  <2>4. r.token = t /\ r.play = PlayAfter(t)
    BY <2>2
  <2>5. QED BY <1>2, <1>3, <2>3, <2>4
<1>6. QED BY <1>4, <1>5

LEMMA ServedInvStep == ServedInv /\ [Next]_vars => ServedInv'
<1>1. SUFFICES ASSUME ServedInv, [Next]_vars PROVE ServedInv'
  OBVIOUS
<1>2. DogsInv'
  BY <1>1, DogsInvStep DEF ServedInv
<1>3. ASSUME UNCHANGED <<idle, play>>, handed' \in {handed, {}}, retired \subseteq retired'
      PROVE  IdleWithinPlay' /\ HandedServed'
  BY <1>1, <1>3 DEF ServedInv, IdleWithinPlay, HandedServed
<1>4. retired \subseteq retired'
  BY <1>1, RetiredStays DEF ServedInv
<1>5. ASSUME NEW t \in Tokens, NEW p \in SpawnPoints, Join(t, p)
      PROVE  UNCHANGED <<idle, play, handed>>
  BY <1>5 DEF Join, tickVars
<1>6. ASSUME NEW t \in Tokens, NEW move \in Moves, Action(t, move)
      PROVE  UNCHANGED <<idle, play, handed>>
  BY <1>6 DEF Action, playerVars, tickVars
<1>7. ASSUME NEW dt \in Deltas, TickBegin(dt)
      PROVE  UNCHANGED <<idle, play>> /\ handed' = {}
  BY <1>7 DEF TickBegin, playerVars
<1>8. ASSUME NEW e \in events, Gather(e)
      PROVE  UNCHANGED <<idle, play, handed>>
  BY <1>8 DEF Gather
<1>9. CASE TickEnd
  BY <1>1, <1>2, <1>9, TickEndServed DEF ServedInv
<1>10. CASE UNCHANGED vars
  BY <1>2, <1>3, <1>4, <1>10 DEF vars, playerVars, tickVars, ServedInv
<1>11. QED
  BY <1>1, <1>2, <1>3, <1>4, <1>5, <1>6, <1>7, <1>8, <1>9, <1>10
  DEF Next, TickStep, ServedInv

\* Whoever a tick hands over for the records has left and has played at least
\* the retirement time, whatever the ticks and however the dogs ran and stood.
THEOREM RetirementIsDeserved == Spec => []RetireesHaveServed
<1>1. Init => ServedInv
  <2>1. SUFFICES ASSUME Init PROVE ServedInv
    OBVIOUS
  <2>2. Lesser(0, PlayCap) <= 0
    BY SessionAssumption DEF Lesser
  <2>3. IdleWithinPlay /\ HandedServed
    BY <2>1, <2>2 DEF Init, IdleWithinPlay, HandedServed
  <2>4. QED BY <2>1, <2>3, DogsInvInit DEF ServedInv
<1>2. ServedInv => RetireesHaveServed
  BY DEF ServedInv, DogsInv, PlayersAreLiveDogs, HandedServed, RetireesHaveServed
<1>3. QED BY <1>1, <1>2, ServedInvStep, PTL DEF Spec

-----------------------------------------------------------------------------
(* A session implements the abstract life of its lost objects *)

Ids     == 0 .. MaxLoot - 1
LifeInv == LootInv /\ nextId <= MaxLoot

\* The place of an object says in which of the sets of the session its id is.
IsLocated(i) ==
  /\ PlaceOf(i) = Loot!Unborn <=> i >= nextId
  /\ PlaceOf(i) = Loot!OnMap <=> i \in OnMap
  /\ \A t \in Tokens : PlaceOf(i) = Loot!Bag(t) <=> i \in Carried(t)
  /\ PlaceOf(i) = Loot!Office <=> i \in Delivered
  /\ PlaceOf(i) = Loot!Nowhere <=> i \in Forfeited
AllLocated == \A i \in Nat : IsLocated(i)

LEMMA PlacesDiffer ==
  /\ Loot!Unborn # Loot!OnMap /\ Loot!Unborn # Loot!Office /\ Loot!Unborn # Loot!Nowhere
  /\ Loot!OnMap # Loot!Office /\ Loot!OnMap # Loot!Nowhere /\ Loot!Office # Loot!Nowhere
  /\ \A t \in Tokens : Loot!Bag(t) \notin {Loot!Unborn, Loot!OnMap, Loot!Office, Loot!Nowhere}
  /\ \A t, u \in Tokens : Loot!Bag(t) = Loot!Bag(u) => t = u
BY DEF Loot!Unborn, Loot!OnMap, Loot!Office, Loot!Nowhere, Loot!Bag

\* The places as the session computes them, under their names.
LEMMA PlaceOfCases ==
  \A i : PlaceOf(i) =
    IF i >= nextId THEN Loot!Unborn
    ELSE IF i \in OnMap THEN Loot!OnMap
    ELSE IF \E t \in Tokens : i \in Carried(t)
    THEN Loot!Bag(CHOOSE t \in Tokens : i \in Carried(t))
    ELSE IF i \in Delivered THEN Loot!Office ELSE Loot!Nowhere
BY DEF PlaceOf, Loot!Unborn, Loot!OnMap, Loot!Office, Loot!Nowhere, Loot!Bag

LEMMA Located == LootInv => AllLocated
<1>1. SUFFICES ASSUME LootInv, NEW i \in Nat PROVE IsLocated(i)
  BY DEF AllLocated
<1>2. nextId \in Nat
  BY <1>1 DEF LootInv, TypeOK
<1>3. i < nextId <=> \/ i \in OnMap \/ \E t \in Tokens : i \in Carried(t)
                     \/ i \in Delivered \/ i \in Forfeited
  BY <1>1, <1>2 DEF LootInv, LootAccounted
<1>4. /\ \A t, u \in Tokens : i \in Carried(t) /\ i \in Carried(u) => t = u
      /\ \A t \in Tokens : i \in Carried(t) => i \notin OnMap /\ i \notin Delivered /\ i \notin Forfeited
      /\ i \in OnMap => i \notin Delivered /\ i \notin Forfeited
      /\ ~(i \in Delivered /\ i \in Forfeited)
  BY <1>1 DEF LootInv, LootInOnePlace
<1>5. i >= nextId <=> ~(i < nextId)
  BY <1>2
<1>6. CASE i >= nextId
  <2>1. PlaceOf(i) = Loot!Unborn
    BY <1>6, PlaceOfCases
  <2>2. QED BY <1>3, <1>5, <1>6, <2>1, PlacesDiffer DEF IsLocated
<1>7. CASE i \in OnMap
  <2>1. PlaceOf(i) = Loot!OnMap
    BY <1>3, <1>5, <1>7, PlaceOfCases
  <2>2. QED BY <1>3, <1>4, <1>5, <1>7, <2>1, PlacesDiffer DEF IsLocated
<1>8. ASSUME NEW t \in Tokens, i \in Carried(t) PROVE IsLocated(i)
  <2> DEFINE holder == CHOOSE u \in Tokens : i \in Carried(u)
  <2>1. holder \in Tokens /\ i \in Carried(holder)
    BY <1>8
  <2>2. holder = t
    BY <1>4, <1>8, <2>1
  <2>3. PlaceOf(i) = Loot!Bag(holder)
    BY <1>3, <1>4, <1>5, <1>8, PlaceOfCases
  <2> HIDE DEF holder
  <2>4. QED BY <1>3, <1>4, <1>5, <1>8, <2>2, <2>3, PlacesDiffer DEF IsLocated
<1>9. CASE i \in Delivered
  <2>1. PlaceOf(i) = Loot!Office
    BY <1>3, <1>4, <1>5, <1>9, PlaceOfCases
  <2>2. QED BY <1>3, <1>4, <1>5, <1>9, <2>1, PlacesDiffer DEF IsLocated
<1>10. CASE i \in Forfeited
  <2>1. PlaceOf(i) = Loot!Nowhere
    BY <1>3, <1>4, <1>5, <1>10, PlaceOfCases
  <2>2. QED BY <1>3, <1>4, <1>5, <1>10, <2>1, PlacesDiffer DEF IsLocated
<1>11. QED BY <1>3, <1>5, <1>6, <1>7, <1>8, <1>9, <1>10

LEMMA LocatedNext == LootInv' => AllLocated'
BY Located, PTL

LEMMA Between ==
  ASSUME NEW m \in Nat, NEW n \in Nat, NEW i \in Nat
  PROVE  i \in m .. n - 1 <=> i >= m /\ ~(i >= n)
OBVIOUS

LEMMA BetweenAll ==
  ASSUME NEW m \in Nat, NEW n \in Nat, NEW top \in Nat, n <= top
  PROVE  m .. n - 1 \subseteq 0 .. top - 1
OBVIOUS

\* Every id is in one of five places.
LEMMA Somewhere ==
  ASSUME LootInv, NEW i \in Nat
  PROVE  \/ i >= nextId \/ i \in OnMap \/ \E t \in Tokens : i \in Carried(t)
         \/ i \in Delivered \/ i \in Forfeited
<1>1. nextId \in Nat
  BY DEF LootInv, TypeOK
<1>2. i \in 0 .. nextId - 1 <=> i >= 0 /\ ~(i >= nextId)
  BY <1>1, Between
<1>3. i >= 0
  OBVIOUS
<1>4. QED BY <1>2, <1>3 DEF LootInv, LootAccounted

LEMMA SomewhereNext ==
  ASSUME LootInv', NEW i \in Nat
  PROVE  \/ i >= nextId' \/ i \in OnMap' \/ \E t \in Tokens : i \in Carried(t)'
         \/ i \in Delivered' \/ i \in Forfeited'
<1>1. nextId' \in Nat
  BY DEF LootInv, TypeOK
<1>2. i \in 0 .. nextId' - 1 <=> i >= 0 /\ ~(i >= nextId')
  BY <1>1, Between
<1>3. i >= 0
  OBVIOUS
<1>4. QED BY <1>2, <1>3 DEF LootInv, LootAccounted

LEMMA InitLives == Init => Loot!Init
<1>1. SUFFICES ASSUME Init PROVE Loot!Init
  OBVIOUS
<1>2. \A i \in Ids : i \in Nat /\ i >= nextId
  BY <1>1, SessionAssumption DEF Ids, Init
<1>3. \A i \in Ids : PlaceOf(i) = Loot!Unborn
  BY <1>1, <1>2, Located, LootInvInit DEF AllLocated, IsLocated
<1>4. QED BY <1>3 DEF Loot!Init, Ids

\* When the map, the bags, the offices and the forfeited stay, all objects do.
LEMMA NothingMoves ==
  ASSUME LootInv, LootInv', UNCHANGED <<nextId, OnMap, Delivered, Forfeited>>,
         \A t \in Tokens : Carried(t)' = Carried(t)
  PROVE  UNCHANGED [i \in Ids |-> PlaceOf(i)]
<1>1. SUFFICES ASSUME NEW i \in Ids PROVE PlaceOf(i)' = PlaceOf(i)
  OBVIOUS
<1>2. i \in Nat
  BY SessionAssumption DEF Ids
<1>3. IsLocated(i) /\ IsLocated(i)'
  BY <1>2, Located, LocatedNext DEF AllLocated
<1>4. QED BY <1>2, <1>3, Somewhere DEF IsLocated

\* The start of a tick lets the generated objects appear.
LEMMA TickBeginAppears ==
  ASSUME LifeInv, LootInv', NEW dt \in Deltas, TickBegin(dt)
  PROVE  Loot!Next /\ nextId' <= MaxLoot
<1> DEFINE new == nextId .. nextId' - 1
<1>1. nextId \in Nat /\ nextId' \in Nat /\ nextId <= nextId'
  BY GenerateLootProperties DEF LifeInv, LootInv, TickBegin, TypeOK
<1>2. nextId' <= MaxLoot
  BY DEF LifeInv, TickBegin, GenerateLoot, lootVars
<1>3. UNCHANGED <<bag, ledger>>
  BY DEF TickBegin, playerVars
<1>4. /\ UNCHANGED <<Delivered, Forfeited>>
      /\ \A t \in Tokens : Carried(t)' = Carried(t)
  BY <1>3 DEF Delivered, Forfeited, Carried
<1>5. ASSUME NEW i \in Ids
      PROVE  /\ i \in new => PlaceOf(i) = Loot!Unborn /\ PlaceOf(i)' = Loot!OnMap
             /\ i \notin new => PlaceOf(i)' = PlaceOf(i)
  <2>1. i \in Nat
    BY SessionAssumption DEF Ids
  <2>2. IsLocated(i) /\ IsLocated(i)'
    BY <2>1, Located, LocatedNext DEF AllLocated, LifeInv
  <2>3. i \in new <=> i >= nextId /\ ~(i >= nextId')
    BY <1>1, <2>1, Between
  <2>4. i >= nextId => i \notin OnMap /\ i \notin Delivered /\ i \notin Forfeited
                       /\ \A t \in Tokens : i \notin Carried(t)
    BY <2>2, PlacesDiffer DEF IsLocated
  <2>5. i >= nextId' => i >= nextId
    BY <1>1, <2>1
  <2>6. i \in OnMap /\ ~(i >= nextId') => i \in OnMap'
    <3>1. i \in OnMap => i \notin Delivered /\ i \notin Forfeited
                         /\ \A t \in Tokens : i \notin Carried(t)
      BY DEF LifeInv, LootInv, LootInOnePlace
    <3>2. QED BY <1>4, <2>1, <3>1, SomewhereNext
  <2>7. i \in OnMap => ~(i >= nextId)
    BY <2>4
  <2> HIDE DEF new
  <2>8. i \in new => PlaceOf(i) = Loot!Unborn /\ PlaceOf(i)' = Loot!OnMap
    <3>1. i \in new => i \in OnMap'
      BY <1>4, <2>1, <2>3, <2>4, SomewhereNext
    <3>2. QED BY <2>2, <2>3, <3>1 DEF IsLocated
  <2>9. i \notin new => PlaceOf(i)' = PlaceOf(i)
    <3>1. i \notin new => (i >= nextId <=> i >= nextId')
      BY <2>3, <2>5
    <3>2. i \notin new /\ i \in OnMap => i \in OnMap'
      BY <2>6, <2>7, <3>1
    <3>3. QED BY <1>4, <2>1, <2>2, <3>1, <3>2, Somewhere DEF IsLocated, LifeInv
  <2>10. QED BY <2>8, <2>9
<1>6. new \subseteq Ids
  BY <1>1, <1>2, SessionAssumption, BetweenAll DEF Ids
<1> HIDE DEF new
<1>7. Loot!Appear(new)
  <2>1. \A i \in new : [j \in Ids |-> PlaceOf(j)][i] = Loot!Unborn
    BY <1>5, <1>6
  <2>2. [j \in Ids |-> PlaceOf(j)']
          = [j \in Ids |-> IF j \in new THEN Loot!OnMap ELSE [k \in Ids |-> PlaceOf(k)][j]]
    BY <1>5
  <2>3. QED BY <2>1, <2>2 DEF Loot!Appear, Ids
<1>8. QED BY <1>2, <1>6, <1>7 DEF Loot!Next, Ids

\* A bag holds no more ids than items.
LEMMA CarriedBound ==
  ASSUME NEW t \in Tokens, bag[t] \in Seq(Item)
  PROVE  Cardinality(Carried(t)) \in Nat /\ Cardinality(Carried(t)) <= Len(bag[t])
<1> DEFINE f == [i \in 1 .. Len(bag[t]) |-> bag[t][i].id]
<1>1. DOMAIN bag[t] = 1 .. Len(bag[t]) /\ Len(bag[t]) \in Nat
  OBVIOUS
<1>2. f \in Surjection(1 .. Len(bag[t]), Carried(t))
  BY <1>1 DEF Carried, Surjection
<1>3. ExistsSurjection(1 .. Len(bag[t]), Carried(t))
  BY <1>2 DEF ExistsSurjection
<1>4. IsFiniteSet(Carried(t))
  BY <1>1, <1>3, FS_NatSurjection
<1>5. QED BY <1>1, <1>3, <1>4, FS_SurjCardinalityBound, FS_CardinalityType

\* A gathering event takes one object from the map into a bag, or nothing.
LEMMA PickUpTakes ==
  ASSUME LifeInv, LootInv', NEW e \in events, Gather(e), PickUp(e)
  PROVE  Loot!Next \/ UNCHANGED [i \in Ids |-> PlaceOf(i)]
<1>1. nextId' = nextId
  BY DEF Gather
<1>2. CASE UNCHANGED <<bag, lost, score, ledger>>
  <2>1. /\ UNCHANGED <<nextId, OnMap, Delivered, Forfeited>>
        /\ \A t \in Tokens : Carried(t)' = Carried(t)
    BY <1>1, <1>2 DEF OnMap, Delivered, Forfeited, Carried
  <2>2. QED BY <2>1, NothingMoves DEF LifeInv
<1>3. ASSUME NEW object \in lost, Len(bag[e.who]) < BagCapacity,
             bag' = [bag EXCEPT ![e.who] = Append(@, BagItem(object))],
             lost' = lost \ {object}, ledger' = ledger
      PROVE  Loot!Next
  <2> DEFINE w == e.who
             k == object.id
  <2>1. w \in Tokens /\ bag \in [Tokens -> Seq(Item)] /\ k \in Nat /\ nextId \in Nat
    BY DEF LifeInv, LootInv, TypeOK, Event, Lost
  <2>2. k \in OnMap
    BY DEF OnMap
  <2>3. OnMap' = OnMap \ {k}
    <3>1. \A o, q \in lost : o.id = q.id => o = q
      BY DEF LifeInv, LootInv, LootInOnePlace
    <3>2. QED BY <1>3, <3>1 DEF OnMap
  <2>4. /\ UNCHANGED <<nextId, Delivered, Forfeited>>
        /\ \A t \in Tokens : t # w => Carried(t)' = Carried(t)
    BY <1>1, <1>3, <2>1 DEF Delivered, Forfeited, Carried
  <2>5. \A t \in Tokens : Carried(t) \cap (OnMap \cup Delivered \cup Forfeited) = {}
    BY DEF LifeInv, LootInv, LootInOnePlace
  <2>6. \A t, u \in Tokens : t # u => Carried(t) \cap Carried(u) = {}
    BY DEF LifeInv, LootInv, LootInOnePlace
  <2>7. OnMap \cap (Delivered \cup Forfeited) = {}
    BY DEF LifeInv, LootInv, LootInOnePlace
  <2>8. \A i \in Nat : IsLocated(i) /\ IsLocated(i)'
    BY Located, LocatedNext DEF AllLocated, LifeInv
  <2>9. k \in Ids /\ \A i \in Ids : i \in Nat
    <3>1. k \in 0 .. nextId - 1 /\ nextId <= MaxLoot
      BY <2>2 DEF LifeInv, LootInv, LootAccounted
    <3>2. QED BY <2>1, <3>1, SessionAssumption DEF Ids
  <2> HIDE DEF w, k
  <2>10. PlaceOf(k) = Loot!OnMap /\ PlaceOf(k)' = Loot!Bag(w)
    <3>1. ~(k >= nextId)
      BY <2>1, <2>2, <2>8, PlacesDiffer DEF IsLocated
    <3>2. k \in Carried(w)'
      BY <2>1, <2>2, <2>3, <2>4, <2>5, <2>7, <3>1, SomewhereNext
    <3>3. QED BY <2>1, <2>2, <2>8, <3>2 DEF IsLocated
  <2>11. ASSUME NEW i \in Ids, i # k PROVE PlaceOf(i)' = PlaceOf(i)
    <3>1. i \in Carried(w) => i \in Carried(w)'
      <4>1. i \in Carried(w) => ~(i >= nextId)
        BY <2>1, <2>8, <2>9, PlacesDiffer DEF IsLocated
      <4>2. QED BY <2>1, <2>3, <2>4, <2>5, <2>6, <2>9, <4>1, SomewhereNext
    <3>2. i \in OnMap => i \in OnMap'
      BY <2>3, <2>11
    <3>3. QED BY <2>1, <2>4, <2>8, <2>9, <3>1, <3>2, Somewhere DEF IsLocated, LifeInv
  <2>12. Cardinality({j \in Ids : [i \in Ids |-> PlaceOf(i)][j] = Loot!Bag(w)}) < BagCapacity
    <3>1. {j \in Ids : [i \in Ids |-> PlaceOf(i)][j] = Loot!Bag(w)} = Carried(w)
      <4>1. Carried(w) \subseteq Ids
        <5>1. Carried(w) \subseteq 0 .. nextId - 1
          BY <2>1 DEF LifeInv, LootInv, LootAccounted
        <5>2. nextId <= MaxLoot /\ MaxLoot \in Nat
          BY SessionAssumption DEF LifeInv
        <5>3. QED BY <2>1, <5>1, <5>2, BetweenAll DEF Ids
      <4>2. \A j \in Ids : [i \in Ids |-> PlaceOf(i)][j] = Loot!Bag(w) <=> j \in Carried(w)
        BY <2>1, <2>8, <2>9 DEF IsLocated
      <4>3. QED BY <4>1, <4>2
    <3>2. Len(bag[w]) < BagCapacity /\ Len(bag[w]) \in Nat /\ BagCapacity \in Nat
      BY <1>3, <2>1, SessionAssumption DEF w
    <3>3. Cardinality(Carried(w)) \in Nat /\ Cardinality(Carried(w)) <= Len(bag[w])
      BY <2>1, CarriedBound
    <3>4. Cardinality(Carried(w)) < BagCapacity
      BY <3>2, <3>3
    <3>5. QED BY <3>1, <3>4
  <2>13. [i \in Ids |-> PlaceOf(i)'] = [[i \in Ids |-> PlaceOf(i)] EXCEPT ![k] = Loot!Bag(w)]
    BY <2>9, <2>10, <2>11
  <2>14. Loot!Take(k, w)
    <3>1. [i \in Ids |-> PlaceOf(i)][k] = Loot!OnMap
      BY <2>9, <2>10
    <3>2. \A S : Loot!Cardinality(S) = Cardinality(S)
      BY DEF Loot!Cardinality, Cardinality
    <3>3. QED BY <2>12, <2>13, <3>1, <3>2 DEF Loot!Take, Ids
  <2>15. QED BY <2>1, <2>9, <2>14 DEF Loot!Next, Ids
<1>4. QED BY <1>2, <1>3, PickUpProperties DEF LifeInv, LootInv

\* Bags that are emptied leave for the one place that gets something.
LEMMA BagsLeave ==
  ASSUME LifeInv, LootInv', NEW ts \in SUBSET Tokens, UNCHANGED <<nextId, OnMap>>,
         \A t \in Tokens : Carried(t)' = IF t \in ts THEN {} ELSE Carried(t)
  PROVE  /\ Forfeited' = Forfeited => Loot!Leave(ts, Loot!Office)
         /\ Delivered' = Delivered => Loot!Leave(ts, Loot!Nowhere)
<1>1. \A i \in Nat : IsLocated(i) /\ IsLocated(i)'
  BY Located, LocatedNext DEF AllLocated, LifeInv
<1>2. \A i \in Ids : i \in Nat
  BY SessionAssumption DEF Ids
<1>3. ASSUME NEW i \in Ids
      PROVE  /\ i \in Delivered => i \notin Forfeited /\ i \notin OnMap /\ ~(i >= nextId)
                                   /\ \A t \in Tokens : i \notin Carried(t)
             /\ i \in Forfeited => i \notin OnMap /\ ~(i >= nextId)
                                   /\ \A t \in Tokens : i \notin Carried(t)
             /\ \A t \in Tokens : i \in Carried(t) =>
                  i \notin OnMap /\ ~(i >= nextId) /\ i \notin Delivered /\ i \notin Forfeited
                  /\ \A u \in Tokens : i \in Carried(u) => u = t
  BY <1>1, <1>2, PlacesDiffer DEF IsLocated
<1>4. ASSUME NEW i \in Ids
      PROVE  (\E t \in ts : PlaceOf(i) = Loot!Bag(t)) <=> \E t \in ts : i \in Carried(t)
  BY <1>1, <1>2 DEF IsLocated
<1>5. ASSUME NEW i \in Ids, NEW t \in ts, i \in Carried(t)
      PROVE  /\ Forfeited' = Forfeited => PlaceOf(i)' = Loot!Office
             /\ Delivered' = Delivered => PlaceOf(i)' = Loot!Nowhere
  <2>1. ~(i >= nextId') /\ i \notin OnMap' /\ \A u \in Tokens : i \notin Carried(u)'
    BY <1>3, <1>5
  <2>2. i \in Delivered' \/ i \in Forfeited'
    BY <1>2, <2>1, SomewhereNext
  <2>3. QED BY <1>1, <1>2, <1>3, <1>5, <2>2 DEF IsLocated
<1>6. ASSUME NEW i \in Ids, \A t \in ts : i \notin Carried(t),
             Forfeited' = Forfeited \/ Delivered' = Delivered
      PROVE  PlaceOf(i)' = PlaceOf(i)
  <2>1. i \in Delivered => i \in Delivered'
    BY <1>2, <1>3, <1>6, SomewhereNext
  <2>2. i \in Forfeited => i \in Forfeited'
    BY <1>2, <1>3, <1>6, SomewhereNext
  <2>3. QED BY <1>1, <1>2, <1>6, <2>1, <2>2, Somewhere DEF IsLocated, LifeInv
<1>7. ASSUME Forfeited' = Forfeited PROVE Loot!Leave(ts, Loot!Office)
  <2>1. [i \in Ids |-> PlaceOf(i)'] =
          [i \in Ids |-> IF \E t \in ts : [j \in Ids |-> PlaceOf(j)][i] = Loot!Bag(t)
                         THEN Loot!Office ELSE [j \in Ids |-> PlaceOf(j)][i]]
    BY <1>4, <1>5, <1>6, <1>7
  <2>2. QED BY <2>1 DEF Loot!Leave, Ids
<1>8. ASSUME Delivered' = Delivered PROVE Loot!Leave(ts, Loot!Nowhere)
  <2>1. [i \in Ids |-> PlaceOf(i)'] =
          [i \in Ids |-> IF \E t \in ts : [j \in Ids |-> PlaceOf(j)][i] = Loot!Bag(t)
                         THEN Loot!Nowhere ELSE [j \in Ids |-> PlaceOf(j)][i]]
    BY <1>4, <1>5, <1>6, <1>8
  <2>2. QED BY <2>1 DEF Loot!Leave, Ids
<1>9. QED BY <1>7, <1>8

\* A visit to an office delivers one bag.
LEMMA ReturnBagLeaves ==
  ASSUME LifeInv, LootInv', NEW e \in events, Gather(e), ReturnBag(e)
  PROVE  Loot!Next
<1> DEFINE w == e.who
<1>1. /\ w \in Tokens /\ bag \in [Tokens -> Seq(Item)]
      /\ ledger \in [delivered : SUBSET Delivery, forfeited : SUBSET Item]
  BY DEF LifeInv, LootInv, TypeOK, Event
<1>2. /\ UNCHANGED <<nextId, lost>> /\ ledger'.forfeited = ledger.forfeited
      /\ bag'[w] = <<>> /\ \A t \in Tokens : t # w => bag'[t] = bag[t]
  BY <1>1 DEF Gather, ReturnBag
<1> HIDE DEF w
<1>3. DOMAIN <<>> = {}
  OBVIOUS
<1>4. UNCHANGED <<OnMap, Forfeited>>
  BY <1>2 DEF OnMap, Forfeited
<1>5. \A t \in Tokens : Carried(t)' = IF t \in {w} THEN {} ELSE Carried(t)
  BY <1>2, <1>3 DEF Carried
<1>6. Loot!Leave({w}, Loot!Office)
  BY <1>1, <1>2, <1>4, <1>5, BagsLeave
<1>7. QED BY <1>1, <1>6 DEF Loot!Next

\* The end of a tick takes the bags of those who retire out of the game.
LEMMA TickEndLeaves ==
  ASSUME LifeInv, LootInv', TickEnd
  PROVE  Loot!Next
<1>1. /\ Retiring \in SUBSET Tokens /\ bag \in [Tokens -> Seq(Item)]
      /\ ledger \in [delivered : SUBSET Delivery, forfeited : SUBSET Item]
  BY DEF LifeInv, LootInv, TypeOK, Retiring
<1>2. /\ UNCHANGED <<nextId, lost>> /\ ledger'.delivered = ledger.delivered
      /\ \A t \in Tokens : bag'[t] = IF t \in Retiring THEN <<>> ELSE bag[t]
  BY <1>1 DEF TickEnd, lootVars
<1>3. DOMAIN <<>> = {}
  OBVIOUS
<1>4. UNCHANGED <<OnMap, Delivered>>
  BY <1>2 DEF OnMap, Delivered
<1>5. \A t \in Tokens : Carried(t)' = IF t \in Retiring THEN {} ELSE Carried(t)
  BY <1>2, <1>3 DEF Carried
<1>6. Loot!Leave(Retiring, Loot!Nowhere)
  BY <1>1, <1>2, <1>4, <1>5, BagsLeave
<1>7. QED BY <1>1, <1>6 DEF Loot!Next

LEMMA StepLives ==
  ASSUME LifeInv, [Next]_vars
  PROVE  LifeInv' /\ (Loot!Next \/ UNCHANGED [i \in Ids |-> PlaceOf(i)])
<1>1. LootInv'
  BY LootInvStep DEF LifeInv
<1>2. ASSUME UNCHANGED <<nextId, lost, bag, ledger>>
      PROVE  nextId' <= MaxLoot /\ UNCHANGED [i \in Ids |-> PlaceOf(i)]
  <2>1. /\ UNCHANGED <<nextId, OnMap, Delivered, Forfeited>>
        /\ \A t \in Tokens : Carried(t)' = Carried(t)
    BY <1>2 DEF OnMap, Delivered, Forfeited, Carried
  <2>2. QED BY <1>1, <1>2, <2>1, NothingMoves DEF LifeInv
<1>3. ASSUME NEW t \in Tokens, NEW p \in SpawnPoints, Join(t, p)
      PROVE  UNCHANGED <<nextId, lost, bag, ledger>>
  BY <1>3 DEF Join, lootVars
<1>4. ASSUME NEW t \in Tokens, NEW move \in Moves, Action(t, move)
      PROVE  UNCHANGED <<nextId, lost, bag, ledger>>
  BY <1>4 DEF Action, playerVars, lootVars
<1>5. ASSUME NEW dt \in Deltas, TickBegin(dt) PROVE Loot!Next /\ nextId' <= MaxLoot
  BY <1>1, <1>5, TickBeginAppears
<1>6. ASSUME NEW e \in events, Gather(e)
      PROVE  /\ nextId' <= MaxLoot
             /\ Loot!Next \/ UNCHANGED [i \in Ids |-> PlaceOf(i)]
  <2>1. nextId' = nextId /\ (PickUp(e) \/ ReturnBag(e))
    BY <1>6 DEF Gather
  <2>2. QED BY <1>1, <1>6, <2>1, PickUpTakes, ReturnBagLeaves DEF LifeInv
<1>7. CASE TickEnd
  <2>1. nextId' = nextId
    BY <1>7 DEF TickEnd, lootVars
  <2>2. QED BY <1>1, <1>7, <2>1, TickEndLeaves DEF LifeInv
<1>8. CASE UNCHANGED vars
  BY <1>1, <1>2, <1>8 DEF vars, playerVars, lootVars, LifeInv
<1>9. QED
  BY <1>1, <1>2, <1>3, <1>4, <1>5, <1>6, <1>7, <1>8 DEF Next, TickStep, LifeInv

\* The session, with its ticks, events and bags, implements the abstract life
\* of lost objects, on any map and for any number of players and objects.
THEOREM SessionImplementsLootLife == Spec => LootLives
<1>1. Init => LifeInv
  <2>1. SUFFICES ASSUME Init PROVE LifeInv
    OBVIOUS
  <2>2. nextId = 0
    BY <2>1 DEF Init
  <2>3. QED BY <2>1, <2>2, LootInvInit, SessionAssumption DEF LifeInv
<1>2. LifeInv /\ [Next]_vars
        => LifeInv' /\ [Loot!Next]_[i \in 0 .. MaxLoot - 1 |-> PlaceOf(i)]
  BY StepLives DEF Ids
<1>3. QED BY <1>1, <1>2, InitLives, PTL DEF Spec, LootLives, Loot!Spec

-----------------------------------------------------------------------------
(* Scores *)

\* What every delivery is worth.
Worth == [d \in Delivery |-> LootValue[d.type]]

LEMMA PaidIsSum ==
  ASSUME NEW S \in SUBSET Delivery, IsFiniteSet(S)
  PROVE  Paid(S) = SumOf(Worth, S)
<1> DEFINE h == CHOOSE h : h = [T \in SUBSET S |-> IF T = {} THEN 0
                                 ELSE LootValue[First(T).type] + h[T \ {First(T)}]]
<1>1. Paid(S) = h[S]
  BY DEF Paid, MapThenSumSet, MapThenFoldSet, First
<1>2. \A d \in S : Worth[d] = LootValue[d.type] /\ Worth[d] \in Int
  BY SessionAssumption DEF Worth, Delivery
<1>3. PICK k \in [SUBSET S -> Int] : SumsUp(k, Worth, S)
  BY <1>2, SumExists
<1>4. \A T \in SUBSET S : T # {} => Worth[First(T)] = LootValue[First(T).type]
  BY <1>2 DEF First
<1>5. k = [T \in SUBSET S |-> IF T = {} THEN 0
                               ELSE LootValue[First(T).type] + k[T \ {First(T)}]]
  BY <1>3, <1>4 DEF SumsUp
<1>6. h = [T \in SUBSET S |-> IF T = {} THEN 0
                               ELSE LootValue[First(T).type] + h[T \ {First(T)}]]
  BY <1>5
<1> HIDE DEF h
<1>7. SumsUp(h, Worth, S)
  BY <1>4, <1>6 DEF SumsUp
<1>8. QED BY <1>1, <1>2, <1>7, SumIs

\* The players' scores are the value of what they delivered, whoever has not
\* joined has delivered nothing, and only players pass loot and offices.
ScoresInv ==
  /\ DogsInv /\ LootInv /\ ScoresFromDeliveries
  /\ IsFiniteSet(ledger.delivered)
  /\ \A t \in Tokens \ Joined : score[t] = 0 /\ DeliveredBy(t) = {}
  /\ \A e \in events : e.who \in players

\* Scores stay right while nobody delivers, joins or becomes a player.
LEMMA ScoresFrame ==
  ASSUME ScoresInv, DogsInv', LootInv',
         ledger'.delivered = ledger.delivered, dogs' = dogs, players' \subseteq players,
         \A t \in players' \cup (Tokens \ Joined) : score'[t] = score[t],
         \A e \in events' : e.who \in players'
  PROVE  ScoresInv'
<1>1. Joined' = Joined
  BY DEF Joined, Range
<1>2. \A t : DeliveredBy(t)' = DeliveredBy(t)
  BY DEF DeliveredBy
<1>3. ScoresFromDeliveries'
  BY <1>2 DEF ScoresInv, ScoresFromDeliveries
<1>4. QED BY <1>1, <1>2, <1>3 DEF ScoresInv

\* A bag that reaches an office adds its value to the score and its items, which
\* nobody has delivered before, to the deliveries.
LEMMA ReturnBagScores ==
  ASSUME ScoresInv, NEW e \in events, Gather(e), ReturnBag(e), DogsInv', LootInv'
  PROVE  ScoresInv'
<1> DEFINE w == e.who
           s == bag[w]
           b == [i \in DOMAIN s |-> [id |-> s[i].id, type |-> s[i].type, by |-> w]]
           new == {b[i] : i \in DOMAIN s}
           value == [i \in DOMAIN s |-> LootValue[s[i].type]]
<1>1. /\ w \in players /\ players \subseteq Tokens /\ w \in Joined /\ DOMAIN score = Tokens
      /\ s \in Seq(Item) /\ ledger.delivered \subseteq Delivery
      /\ IsFiniteSet(ledger.delivered)
  BY DEF ScoresInv, DogsInv, TypeOK, PlayersAreLiveDogs
<1>2. /\ score' = [score EXCEPT ![w] = @ + BagValue(s)]
      /\ ledger'.delivered = ledger.delivered \cup new
  <2>1. ledger'.delivered = ledger.delivered \cup
          {[id |-> i.id, type |-> i.type, by |-> w] : i \in Range(s)}
    BY DEF ReturnBag, ScoresInv, DogsInv, TypeOK
  <2>2. {[id |-> i.id, type |-> i.type, by |-> w] : i \in Range(s)} = new
    BY DEF Range
  <2>3. QED BY <2>1, <2>2 DEF ReturnBag
<1>3. /\ \A i, j \in DOMAIN s : s[i].id = s[j].id => i = j
      /\ \A i \in DOMAIN s : \A d \in ledger.delivered : d.id # s[i].id
  <2>1. w \in Tokens
    BY <1>1
  <2>2. Carried(w) \cap Delivered = {}
    BY <2>1 DEF ScoresInv, LootInv, LootInOnePlace
  <2>3. QED BY <2>1, <2>2 DEF ScoresInv, LootInv, LootInOnePlace, Carried, Delivered
<1>4. /\ b \in Bijection(DOMAIN s, new)
      /\ new \subseteq Delivery /\ \A d \in new : d.by = w
      /\ new \cap DeliveredBy(w) = {}
  <2>1. \A i \in DOMAIN s : b[i].id = s[i].id /\ b[i].by = w /\ b[i] \in Delivery
    <3>1. \A i \in DOMAIN s : s[i] \in Item /\ w \in Tokens
      BY <1>1
    <3> HIDE DEF s, w
    <3>2. QED BY <3>1 DEF Item, Delivery
  <2>2. b \in Bijection(DOMAIN s, new)
    <3> HIDE DEF s, w
    <3>1. \A i, j \in DOMAIN s : b[i] = b[j] => i = j
      BY <1>3, <2>1
    <3>2. b \in [DOMAIN s -> new]
      OBVIOUS
    <3> HIDE DEF b
    <3>3. QED BY <3>1, <3>2 DEF Bijection, Injection, Surjection, IsInjective
  <2> HIDE DEF b
  <2>3. QED BY <1>3, <2>1, <2>2 DEF DeliveredBy
<1>5. IsFiniteSet(new) /\ IsFiniteSet(DeliveredBy(w)) /\ DeliveredBy(w) \subseteq Delivery
  <2>1. IsFiniteSet(DOMAIN s)
    BY <1>1, BagValueIsSum
  <2>2. IsFiniteSet(new)
    <3> HIDE DEF b, new
    <3>1. b \in Surjection(DOMAIN s, new)
      BY <1>4 DEF Bijection
    <3>2. QED BY <2>1, <3>1, FS_Surjection
  <2>3. QED BY <1>1, <2>2, FS_Subset DEF DeliveredBy
<1>6. SumOf(Worth, new) = BagValue(s)
  <2>1. \A i \in DOMAIN s : Worth[b[i]] = value[i] /\ value[i] \in Int
    <3>1. \A i \in DOMAIN s : b[i] \in Delivery /\ b[i].type = s[i].type
      BY <1>4
    <3>2. \A i \in DOMAIN s : LootValue[s[i].type] \in Int
      BY <1>1, BagValueIsSum
    <3> HIDE DEF b, s
    <3>3. QED BY <3>1, <3>2 DEF Worth
  <2>2. IsFiniteSet(DOMAIN s) /\ BagValue(s) = SumOf(value, DOMAIN s)
    BY <1>1, BagValueIsSum
  <2> HIDE DEF b, new, value
  <2>3. QED BY <1>4, <2>1, <2>2, SumBijection
<1>7. \A d \in Delivery : Worth[d] \in Int
  BY SessionAssumption DEF Worth, Delivery
<1> HIDE DEF b, new, value
<1>8. SumOf(Worth, DeliveredBy(w) \cup new) = SumOf(Worth, DeliveredBy(w)) + SumOf(Worth, new)
  BY <1>4, <1>5, <1>7, SumUnion
<1>9. /\ DeliveredBy(w)' = DeliveredBy(w) \cup new
      /\ \A t \in Tokens : t # w => DeliveredBy(t)' = DeliveredBy(t)
  BY <1>2, <1>4 DEF DeliveredBy
<1>10. score[w] = SumOf(Worth, DeliveredBy(w))
  <2>1. score[w] = Paid(DeliveredBy(w))
    BY <1>1 DEF ScoresInv, ScoresFromDeliveries
  <2>2. QED BY <1>5, <2>1, PaidIsSum
<1>11. score'[w] = Paid(DeliveredBy(w)')
  <2>1. score'[w] = score[w] + BagValue(s)
    BY <1>1, <1>2
  <2>2. IsFiniteSet(DeliveredBy(w) \cup new) /\ DeliveredBy(w) \cup new \subseteq Delivery
    BY <1>4, <1>5, FS_Union
  <2>3. Paid(DeliveredBy(w) \cup new) = SumOf(Worth, DeliveredBy(w) \cup new)
    BY <2>2, PaidIsSum
  <2>4. QED BY <1>6, <1>8, <1>9, <1>10, <2>1, <2>3
<1>12. players' = players /\ dogs' = dogs /\ events' \subseteq events
  BY DEF Gather, dogVars
<1>13. Joined' = Joined
  BY <1>12 DEF Joined, Range
<1>14. ScoresFromDeliveries'
  <2>1. SUFFICES ASSUME NEW t \in players
                 PROVE  score'[t] = Paid(DeliveredBy(t)')
    BY <1>12 DEF ScoresFromDeliveries
  <2>2. CASE t = w
    BY <1>11, <2>2
  <2>3. CASE t # w
    <3>1. score'[t] = score[t] /\ DeliveredBy(t)' = DeliveredBy(t)
      BY <1>1, <1>2, <1>9, <2>3
    <3>2. score[t] = Paid(DeliveredBy(t))
      BY DEF ScoresInv, ScoresFromDeliveries
    <3>3. QED BY <3>1, <3>2
  <2>4. QED BY <2>2, <2>3
<1>15. IsFiniteSet(ledger'.delivered)
  BY <1>1, <1>2, <1>5, FS_Union
<1>16. \A t \in Tokens \ Joined : score'[t] = 0 /\ DeliveredBy(t)' = {}
  BY <1>1, <1>2, <1>9 DEF ScoresInv
<1>17. QED BY <1>12, <1>13, <1>14, <1>15, <1>16 DEF ScoresInv

LEMMA PaidForNothing == Paid({}) = 0
<1>1. IsFiniteSet({}) /\ {} \in SUBSET Delivery
  BY FS_EmptySet
<1>2. SumOf(Worth, {}) = 0
  BY <1>1, SumType
<1>3. QED BY <1>1, <1>2, PaidIsSum

LEMMA ScoresInvInit == Init => ScoresInv
<1>1. SUFFICES ASSUME Init PROVE ScoresInv
  OBVIOUS
<1>2. \A t : DeliveredBy(t) = {}
  BY <1>1 DEF Init, DeliveredBy
<1>3. IsFiniteSet({})
  BY FS_EmptySet
<1>4. ScoresFromDeliveries
  BY <1>1 DEF Init, ScoresFromDeliveries
<1>5. \A t \in Tokens : score[t] = 0
  BY <1>1 DEF Init
<1>6. QED
  BY <1>1, <1>2, <1>3, <1>4, <1>5, DogsInvInit, LootInvInit DEF Init, ScoresInv

LEMMA ScoresInvStep == ScoresInv /\ [Next]_vars => ScoresInv'
<1>1. SUFFICES ASSUME ScoresInv, [Next]_vars PROVE ScoresInv'
  OBVIOUS
<1>2. DogsInv' /\ LootInv'
  BY <1>1, DogsInvStep, LootInvStep DEF ScoresInv
<1>3. players \subseteq Tokens /\ Joined \subseteq Tokens
  BY <1>1 DEF ScoresInv, DogsInv, TypeOK, Joined, Range
<1>4. ASSUME NEW t \in Tokens, NEW p \in SpawnPoints, Join(t, p) PROVE ScoresInv'
  <2>1. /\ t \notin Joined /\ players' = players \cup {t} /\ dogs' = Append(dogs, t)
        /\ UNCHANGED <<score, ledger, events>>
    BY <1>4 DEF Join, AddDog, tickVars
  <2>2. Joined' = Joined \cup {t}
    <3>1. dogs \in Seq(Tokens)
      BY <1>1 DEF ScoresInv, DogsInv, TypeOK
    <3>2. QED BY <2>1, <3>1 DEF Joined, Range
  <2>3. \A u : DeliveredBy(u)' = DeliveredBy(u)
    BY <2>1 DEF DeliveredBy
  <2>4. score[t] = 0 /\ DeliveredBy(t) = {}
    BY <1>1, <2>1 DEF ScoresInv
  <2>5. ScoresFromDeliveries'
    BY <1>1, <2>1, <2>3, <2>4, PaidForNothing DEF ScoresInv, ScoresFromDeliveries
  <2>6. QED BY <1>1, <1>2, <2>1, <2>2, <2>3, <2>5 DEF ScoresInv
<1>5. ASSUME NEW t \in Tokens, NEW move \in Moves, Action(t, move) PROVE ScoresInv'
  <2>1. UNCHANGED <<score, ledger, events, dogs, players>>
    BY <1>5 DEF Action, playerVars, tickVars
  <2>2. QED BY <1>1, <1>2, <2>1, ScoresFrame DEF ScoresInv
<1>6. ASSUME NEW dt \in Deltas, TickBegin(dt) PROVE ScoresInv'
  <2>1. UNCHANGED <<score, ledger, dogs, players>> /\ events' = FindGatherEvents(Gatherers, Items)
    BY <1>6 DEF TickBegin, playerVars
  <2>2. \A g \in Gatherers : g.who \in players
    BY DEF Gatherers
  <2>3. \A e \in events' : e.who \in players
    BY <2>1, <2>2 DEF FindGatherEvents
  <2>4. QED BY <1>1, <1>2, <2>1, <2>3, ScoresFrame
<1>7. ASSUME NEW e \in events, Gather(e) PROVE ScoresInv'
  <2>1. UNCHANGED <<dogs, players>> /\ events' = events \ {e}
    BY <1>7 DEF Gather, dogVars
  <2>2. CASE e.loot # NoLoot
    <3>1. PickUp(e)
      BY <1>7, <2>2 DEF Gather
    <3>2. UNCHANGED <<score, ledger>>
      BY <3>1 DEF PickUp
    <3>3. QED BY <1>1, <1>2, <2>1, <3>2, ScoresFrame DEF ScoresInv
  <2>3. CASE e.loot = NoLoot
    <3>1. ReturnBag(e)
      BY <1>7, <2>3 DEF Gather
    <3>2. QED BY <1>1, <1>2, <1>7, <3>1, ReturnBagScores
  <2>4. QED BY <2>2, <2>3
<1>8. CASE TickEnd
  <2>1. /\ dogs' = dogs /\ players' = players \ Retiring /\ Retiring \subseteq players
        /\ events = {} /\ events' = {} /\ ledger'.delivered = ledger.delivered
        /\ score' = [t \in Tokens |-> IF t \in Retiring THEN 0 ELSE score[t]]
    BY <1>1, <1>8 DEF TickEnd, ErasePlayers, Retiring, ScoresInv, DogsInv, TypeOK
  <2>2. players \subseteq Joined
    BY <1>1 DEF ScoresInv, DogsInv, PlayersAreLiveDogs
  <2>3. \A t \in players' \cup (Tokens \ Joined) : score'[t] = score[t]
    BY <1>3, <2>1, <2>2
  <2>4. QED BY <1>1, <1>2, <2>1, <2>3, ScoresFrame
<1>9. CASE UNCHANGED vars
  <2>1. UNCHANGED <<score, ledger, events, dogs, players>>
    BY <1>9 DEF vars, dogVars, playerVars, tickVars
  <2>2. QED BY <1>1, <1>2, <2>1, ScoresFrame DEF ScoresInv
<1>10. QED
  BY <1>1, <1>4, <1>5, <1>6, <1>7, <1>8, <1>9 DEF Next, TickStep

\* Whatever is picked up, delivered or forfeited, in any number of ticks: a score is
\* the value of the deliveries, each of them paid once.
THEOREM ScoresAreEarned == Spec => []ScoresFromDeliveries
<1>1. ScoresInv => ScoresFromDeliveries
  BY DEF ScoresInv
<1>2. QED BY ScoresInvInit, ScoresInvStep, <1>1, PTL DEF Spec

-----------------------------------------------------------------------------
(* New loot, and who gets it *)

\* The generator's rounding never takes it past the shortage.
LEMMA GeneratedWithinShortage ==
  ASSUME NEW w \in 0 .. MaxWait, NEW loot \in Nat, NEW looters \in Nat
  PROVE  Generated(w, loot, looters) <= Shortage(loot, looters)
<1> DEFINE s == Shortage(loot, looters)
           c == Chance[w]
           u == ChanceUnit
           x == 2 * s * c + u
           q == x \div (2 * u)
<1>1. s \in Nat /\ c \in Nat /\ u \in Nat \ {0} /\ c <= u
  BY ChanceAssumption DEF Shortage
<1> HIDE DEF s, c, u
<1>2. s * c <= s * u /\ s * c \in Nat /\ s * u \in Nat
  <2>1. \A k, m \in Nat : k * m \in Nat
    OBVIOUS
  <2>2. s * (u - c) \in Nat /\ s * (u - c) = s * u - s * c /\ s * c \in Nat /\ s * u \in Nat
    BY <1>1, <2>1
  <2>3. QED BY <2>2
<1>3. x \in Nat /\ x < 2 * (s * u) + 2 * u
  <2>1. 2 * s * c = 2 * (s * c)
    BY <1>1
  <2>2. QED BY <1>1, <1>2, <2>1
<1> HIDE DEF x
<1>4. q \in Nat /\ 2 * u * q <= x
  BY <1>1, <1>3
<1> HIDE DEF q
<1>5. ASSUME q >= s + 1 PROVE FALSE
  <2>1. \A k, m \in Nat : k * m \in Nat
    OBVIOUS
  <2>2. u * (q - (s + 1)) \in Nat
    BY <1>1, <1>4, <1>5, <2>1
  <2>3. u * (q - (s + 1)) = u * q - s * u - u
    BY <1>1, <1>4
  <2>4. 2 * u * q = 2 * (u * q) /\ u * q \in Nat
    BY <1>1, <1>4, <2>1
  <2>5. QED BY <1>1, <1>2, <1>3, <1>4, <2>2, <2>3, <2>4
<1>6. q <= s
  BY <1>1, <1>4, <1>5
<1>7. QED BY <1>6 DEF q, x, s, c, u, Generated

\* Placing n objects makes at most n more.
LEMMA LootPlacedCount ==
  ASSUME TypeOK, NEW n \in Nat, LootPlaced(n)
  PROVE  Cardinality(lost') <= Cardinality(lost) + n
<1> DEFINE ids == nextId .. nextId + n - 1
           fresh == lost' \ lost
<1>1. /\ IsFiniteSet(lost) /\ IsFiniteSet(lost') /\ lost \subseteq lost'
      /\ \A o \in fresh : o.id \in ids
      /\ \A o, p \in fresh : o.id = p.id => o = p
  BY LootPlacedProperties DEF TypeOK
<1>2. IsFiniteSet(ids) /\ Cardinality(ids) = n
  <2>1. nextId \in Nat
    BY DEF TypeOK
  <2>2. QED BY <2>1, FS_Interval
<1>3. IsFiniteSet(fresh) /\ Cardinality(fresh) <= n
  <2> DEFINE f == [o \in fresh |-> o.id]
  <2> HIDE DEF fresh, ids
  <2>1. f \in Injection(fresh, ids)
    BY <1>1 DEF Injection, IsInjective
  <2> HIDE DEF f
  <2>2. QED BY <1>2, <2>1, FS_Injection
<1>4. lost' = lost \cup fresh /\ lost \cap fresh = {}
  BY <1>1
<1> HIDE DEF fresh
<1>5. Cardinality(lost \cup fresh) = Cardinality(lost) + Cardinality(fresh) - 0
  BY <1>1, <1>3, <1>4, FS_Union, FS_EmptySet
<1>6. Cardinality(lost) \in Nat /\ Cardinality(fresh) \in Nat
  BY <1>1, <1>3, FS_CardinalityType
<1>7. QED BY <1>3, <1>4, <1>5, <1>6

\* However the chance is rounded, a tick brings the loot up to the number of
\* players at most; pick-ups only take away.
THEOREM LootIsForLooters == Spec => LootWithinLooters
<1> DEFINE A == Cardinality(lost') > Cardinality(lost) => Cardinality(lost') <= Cardinality(players)
<1>1. TypeOK /\ TypeOK' /\ [Next]_vars => [A]_vars
  <2>1. SUFFICES ASSUME TypeOK, TypeOK', [Next]_vars PROVE A
    OBVIOUS
  <2>2. /\ IsFiniteSet(lost) /\ Cardinality(lost) \in Nat
        /\ Cardinality(lost') \in Nat /\ Cardinality(players) \in Nat
    BY <2>1, SessionAssumption, FS_Subset, FS_CardinalityType DEF TypeOK
  <2>3. ASSUME lost' \subseteq lost PROVE A
    BY <2>2, <2>3, FS_Subset
  <2>4. ASSUME NEW dt \in Deltas, TickBegin(dt) PROVE A
    <3> DEFINE w == Waited(waited, dt)
               n == Generated(w, Cardinality(lost), Cardinality(players))
    <3>1. CASE LootTypes = {}
      BY <2>3, <2>4, <3>1 DEF TickBegin, GenerateLoot, lootVars
    <3>2. CASE LootTypes # {}
      <4>1. LootPlaced(n)
        BY <2>4, <3>2 DEF TickBegin, GenerateLoot
      <4>2. w \in 0 .. MaxWait /\ n \in Nat
        <5>1. waited \in 0 .. MaxWait /\ dt \in Nat
          BY <2>1, SessionAssumption DEF TypeOK
        <5>2. w \in 0 .. MaxWait
          BY <2>2, <5>1, GeneratedType
        <5> HIDE DEF w
        <5>3. QED BY <2>2, <5>1, <5>2, GeneratedType
      <4>3. n <= Shortage(Cardinality(lost), Cardinality(players))
        <5> HIDE DEF w
        <5>1. QED BY <2>2, <4>2, GeneratedWithinShortage
      <4> HIDE DEF n, w
      <4>4. Cardinality(lost') <= Cardinality(lost) + n
        BY <2>1, <4>1, <4>2, LootPlacedCount
      <4>5. QED BY <2>2, <4>2, <4>3, <4>4 DEF Shortage
    <3>3. QED BY <3>1, <3>2
  <2>5. ASSUME NEW e \in events, Gather(e) PROVE A
    BY <2>3, <2>5 DEF Gather, PickUp, ReturnBag
  <2>6. ASSUME lost' = lost PROVE A
    BY <2>3, <2>6
  <2>7. QED
    BY <2>1, <2>4, <2>5, <2>6 DEF Next, TickStep, TickEnd, Join, Action, vars, lootVars
<1>2. QED BY Typing, <1>1, PTL DEF Spec, LootWithinLooters

\* Only the handling of an event takes an object off the map, and none that is
\* left is earlier.
THEOREM FirstIsServedFirst == Spec => FirstComeFirstServed
<1> DEFINE A == \A o \in lost : o \notin lost' =>
                  \A e \in events \ events', f \in events' : f.loot = o.id => ~Earlier(f, e)
<1>1. TypeOK /\ [Next]_vars => [A]_vars
  <2>1. SUFFICES ASSUME TypeOK, [Next]_vars PROVE A
    OBVIOUS
  <2>2. ASSUME lost \subseteq lost' PROVE A
    BY <2>2
  <2>3. ASSUME NEW e \in events, Gather(e) PROVE A
    <3>1. events' = events \ {e} /\ \A f \in events : ~Earlier(f, e)
      BY <2>3 DEF Gather, Due
    <3>2. QED BY <3>1
  <2>4. ASSUME NEW dt \in Deltas, TickBegin(dt) PROVE A
    BY <2>1, <2>2, <2>4, GenerateLootProperties DEF TickBegin
  <2>5. QED
    BY <2>1, <2>2, <2>3, <2>4 DEF Next, TickStep, TickEnd, Join, Action, vars, lootVars
<1>2. QED BY Typing, <1>1, PTL DEF Spec, FirstComeFirstServed

-----------------------------------------------------------------------------
(* How far the dogs run, and what they pass *)

\* On one road, the dog runs to the last point of its way that is still on the road.
LEMMA StopOfRoad ==
  ASSUME NEW r \in Roads, NEW p \in Point, IsOnRoad(RoadRect(r), p), NEW d \in Directions, NEW n \in Nat
  PROVE  \E m \in 0 .. n :
           /\ ClampToRoad(RoadRect(r), Beyond(p, d, n)) = Beyond(p, d, m)
           /\ \A j \in 0 .. n : OneRoad(r, p, Beyond(p, d, j)) <=> j <= m
<1> DEFINE rect == RoadRect(r)
<1>1. rect.minX \in Int /\ rect.maxX \in Int /\ rect.minY \in Int /\ rect.maxY \in Int
  BY RoadsAssumption DEF RoadRect, Lesser, Greater, RoadHalfWidth, Point
<1>2. /\ p.x \in Int /\ p.y \in Int
      /\ rect.minX <= p.x /\ p.x <= rect.maxX /\ rect.minY <= p.y /\ p.y <= rect.maxY
  BY DEF IsOnRoad, Point
<1> HIDE DEF rect
<1> DEFINE Goal(m) == /\ m \in 0 .. n
                      /\ ClampToRoad(rect, Beyond(p, d, n)) = Beyond(p, d, m)
                      /\ \A j \in 0 .. n : IsOnRoad(rect, Beyond(p, d, j)) <=> j <= m
<1>3. SUFFICES \E m : Goal(m)
  BY DEF OneRoad, rect
<1>4. CASE d = Pt(1, 0)
  <2>1. \A k \in Nat : Beyond(p, d, k).x = p.x + k /\ Beyond(p, d, k).y = p.y
                       /\ Beyond(p, d, k) = Pt(p.x + k, p.y)
    BY <1>2, <1>4 DEF Beyond, Pt
  <2>2. Goal(Lesser(n, rect.maxX - p.x))
    BY <1>1, <1>2, <2>1 DEF Lesser, ClampToRoad, Clamp, IsOnRoad, Pt
  <2>3. QED BY <2>2
<1>5. CASE d = Pt(-1, 0)
  <2>1. \A k \in Nat : Beyond(p, d, k).x = p.x - k /\ Beyond(p, d, k).y = p.y
                       /\ Beyond(p, d, k) = Pt(p.x - k, p.y)
    BY <1>2, <1>5 DEF Beyond, Pt
  <2>2. Goal(Lesser(n, p.x - rect.minX))
    BY <1>1, <1>2, <2>1 DEF Lesser, ClampToRoad, Clamp, IsOnRoad, Pt
  <2>3. QED BY <2>2
<1>6. CASE d = Pt(0, 1)
  <2>1. \A k \in Nat : Beyond(p, d, k).x = p.x /\ Beyond(p, d, k).y = p.y + k
                       /\ Beyond(p, d, k) = Pt(p.x, p.y + k)
    BY <1>2, <1>6 DEF Beyond, Pt
  <2>2. Goal(Lesser(n, rect.maxY - p.y))
    BY <1>1, <1>2, <2>1 DEF Lesser, ClampToRoad, Clamp, IsOnRoad, Pt
  <2>3. QED BY <2>2
<1>7. CASE d = Pt(0, -1)
  <2>1. \A k \in Nat : Beyond(p, d, k).x = p.x /\ Beyond(p, d, k).y = p.y - k
                       /\ Beyond(p, d, k) = Pt(p.x, p.y - k)
    BY <1>2, <1>7 DEF Beyond, Pt
  <2>2. Goal(Lesser(n, p.y - rect.minY))
    BY <1>1, <1>2, <2>1 DEF Lesser, ClampToRoad, Clamp, IsOnRoad, Pt
  <2>3. QED BY <2>2
<1>8. QED BY <1>4, <1>5, <1>6, <1>7 DEF Directions

\* The squares of distances compare as the distances.
LEMMA SquaresGrow ==
  ASSUME NEW k \in Nat, NEW m \in Nat
  PROVE  k <= m <=> k * k <= m * m
<1>1. k <= m => k * k <= m * m
  <2>1. ASSUME k <= m PROVE k * k <= m * m
    <3>1. PICK i \in Nat : m = k + i
      <4>1. m - k \in Nat /\ m = k + (m - k)
        BY <2>1
      <4>2. QED BY <4>1
    <3>2. m * m = k * k + (2 * k * i + i * i) /\ 2 * k * i + i * i >= 0
      BY <3>1
    <3>3. QED BY <3>2
  <2>2. QED BY <2>1
<1>2. ~(k <= m) => ~(k * k <= m * m)
  <2>1. ASSUME m < k PROVE m * m < k * k
    <3>1. PICK i \in Nat : k = m + i + 1
      <4>1. k - m - 1 \in Nat /\ k = m + (k - m - 1) + 1
        BY <2>1
      <4>2. QED BY <4>1
    <3>2. k * k = m * m + (2 * m * (i + 1) + (i + 1) * (i + 1)) /\ 2 * m * (i + 1) + (i + 1) * (i + 1) > 0
      BY <3>1
    <3>3. QED BY <3>2
  <2>2. QED BY <2>1
<1>3. QED BY <1>1, <1>2

\* A point k beyond p is k away from it, and no other point of that way is it.
LEMMA BeyondDistance ==
  ASSUME NEW p \in Point, NEW d \in Directions, NEW k \in Nat
  PROVE  /\ DistanceSquared(p, Beyond(p, d, k)) = k * k
         /\ Beyond(p, d, k) \in Point
         /\ \A m \in Nat : Beyond(p, d, k) = Beyond(p, d, m) => k = m
<1>1. p.x \in Int /\ p.y \in Int
  BY DEF Point
<1>2. ASSUME NEW e \in {1, -1}, \A j \in Nat : Beyond(p, d, j) = Pt(p.x + e * j, p.y)
      PROVE  /\ DistanceSquared(p, Beyond(p, d, k)) = k * k
             /\ Beyond(p, d, k) \in Point
             /\ \A m \in Nat : Beyond(p, d, k) = Beyond(p, d, m) => k = m
  <2>1. \A j \in Nat : Beyond(p, d, j).x = p.x + e * j /\ Beyond(p, d, j).y = p.y
    BY <1>2 DEF Pt
  <2>2. e * k = k \/ e * k = -k
    OBVIOUS
  <2>3. (p.x + e * k - p.x) * (p.x + e * k - p.x) = k * k /\ (p.y - p.y) * (p.y - p.y) = 0
    BY <1>1, <2>2
  <2>4. QED BY <1>1, <1>2, <2>1, <2>3 DEF DistanceSquared, Pt, Point
<1>3. ASSUME NEW e \in {1, -1}, \A j \in Nat : Beyond(p, d, j) = Pt(p.x, p.y + e * j)
      PROVE  /\ DistanceSquared(p, Beyond(p, d, k)) = k * k
             /\ Beyond(p, d, k) \in Point
             /\ \A m \in Nat : Beyond(p, d, k) = Beyond(p, d, m) => k = m
  <2>1. \A j \in Nat : Beyond(p, d, j).y = p.y + e * j /\ Beyond(p, d, j).x = p.x
    BY <1>3 DEF Pt
  <2>2. e * k = k \/ e * k = -k
    OBVIOUS
  <2>3. (p.y + e * k - p.y) * (p.y + e * k - p.y) = k * k /\ (p.x - p.x) * (p.x - p.x) = 0
    BY <1>1, <2>2
  <2>4. QED BY <1>1, <1>3, <2>1, <2>3 DEF DistanceSquared, Pt, Point
<1>4. \E e \in {1, -1} :
        \/ \A j \in Nat : Beyond(p, d, j) = Pt(p.x + e * j, p.y)
        \/ \A j \in Nat : Beyond(p, d, j) = Pt(p.x, p.y + e * j)
  BY <1>1 DEF Beyond, Directions, Pt
<1>5. QED BY <1>2, <1>3, <1>4

\* A set of numbers up to n has a largest one.
LEMMA LargestOf ==
  ASSUME NEW n \in Nat, NEW K \in SUBSET (0 .. n), K # {}
  PROVE  \E k \in K : \A j \in K : j <= k
<1> DEFINE T == {i \in Nat : n - i \in K}
<1>1. T # {}
  <2>1. PICK k \in K : TRUE
    OBVIOUS
  <2>2. n - k \in Nat /\ n - (n - k) = k
    BY <2>1
  <2>3. QED BY <2>2
<1>2. PICK i \in T : \A j \in T : <<j, i>> \notin OpToRel(<, Nat)
  BY <1>1, NatLessThanWellFounded, WFMin
<1>3. ASSUME NEW j \in K PROVE j <= n - i
  <2>1. n - j \in Nat /\ n - (n - j) = j
    OBVIOUS
  <2>2. ~(n - j < i)
    BY <1>2, <2>1 DEF OpToRel
  <2>3. QED BY <2>1, <2>2
<1>4. QED BY <1>2, <1>3

\* The farthest of the stops the roads under a dog offer is the farthest point that
\* shares a road with it.
LEMMA FarthestStop ==
  ASSUME NEW p \in Point, OnSomeRoad(p), NEW d \in Directions, NEW n \in Nat
  PROVE  \E k \in 0 .. n :
           /\ \E q \in Stops(p, Beyond(p, d, n)) : Best(p, Beyond(p, d, n), q)
           /\ \A q \in Stops(p, Beyond(p, d, n)) :
                Best(p, Beyond(p, d, n), q) => q = Beyond(p, d, k)
           /\ \E r \in Roads : OneRoad(r, p, Beyond(p, d, k))
           /\ \A j \in k + 1 .. n : ~\E r \in Roads : OneRoad(r, p, Beyond(p, d, j))
<1> DEFINE B(k) == Beyond(p, d, k)
           S == Stops(p, B(n))
           K == {m \in 0 .. n : B(m) \in S}
<1>1. \A r \in Roads : IsOnRoad(RoadRect(r), p) =>
        \E m \in K : /\ ClampToRoad(RoadRect(r), B(n)) = B(m)
                     /\ \A j \in 0 .. n : OneRoad(r, p, B(j)) <=> j <= m
  <2>1. SUFFICES ASSUME NEW r \in Roads, IsOnRoad(RoadRect(r), p)
                 PROVE  \E m \in K : /\ ClampToRoad(RoadRect(r), B(n)) = B(m)
                                     /\ \A j \in 0 .. n : OneRoad(r, p, B(j)) <=> j <= m
    OBVIOUS
  <2>2. PICK m \in 0 .. n : /\ ClampToRoad(RoadRect(r), B(n)) = B(m)
                            /\ \A j \in 0 .. n : OneRoad(r, p, B(j)) <=> j <= m
    BY <2>1, StopOfRoad
  <2>3. ClampToRoad(RoadRect(r), B(n)) \in S
    BY <2>1 DEF Stops
  <2>4. QED BY <2>2, <2>3
<1>2. ASSUME NEW q \in S
      PROVE  \E r \in Roads : IsOnRoad(RoadRect(r), p) /\ q = ClampToRoad(RoadRect(r), B(n))
  BY DEF Stops
<1>3. /\ \A k \in Nat : B(k) \in Point /\ DistanceSquared(p, B(k)) = k * k
      /\ \A k, m \in Nat : B(k) = B(m) => k = m
  BY BeyondDistance
<1>4. K # {}
  BY <1>1 DEF OnSomeRoad
<1> HIDE DEF B, S
<1>5. PICK k \in K : \A j \in K : j <= k
  BY <1>4, LargestOf
<1>6. k \in 0 .. n /\ B(k) \in S
  BY <1>5
<1>7. \A q \in S : \E m \in K : q = B(m)
  BY <1>1, <1>2
<1>8. Best(p, B(n), B(k))
  <2>1. ASSUME NEW q \in S PROVE DistanceSquared(p, q) <= DistanceSquared(p, B(k))
    <3>1. PICK m \in K : q = B(m)
      BY <1>7
    <3>2. m \in Nat /\ k \in Nat /\ m <= k
      BY <1>5, <1>6
    <3>3. m * m <= k * k
      BY <3>2, SquaresGrow
    <3>4. QED BY <1>3, <3>1, <3>2, <3>3
  <2>2. QED BY <1>6, <2>1 DEF Best, S
<1>9. ASSUME NEW q \in S, Best(p, B(n), q) PROVE q = B(k)
  <2>1. PICK m \in K : q = B(m)
    BY <1>7
  <2>2. m \in Nat /\ k \in Nat /\ m <= k
    BY <1>5, <1>6
  <2>3. DistanceSquared(p, B(k)) <= DistanceSquared(p, q)
    BY <1>6, <1>9 DEF Best, S
  <2>4. k * k <= m * m
    BY <1>3, <2>1, <2>2, <2>3
  <2>5. k <= m
    BY <2>2, <2>4, SquaresGrow
  <2>6. QED BY <2>1, <2>2, <2>5
<1>10. \E r \in Roads : OneRoad(r, p, B(k))
  <2>1. PICK r \in Roads : IsOnRoad(RoadRect(r), p) /\ B(k) = ClampToRoad(RoadRect(r), B(n))
    BY <1>2, <1>6
  <2>2. PICK m \in K : /\ B(k) = B(m)
                       /\ \A j \in 0 .. n : OneRoad(r, p, B(j)) <=> j <= m
    BY <1>1, <2>1
  <2>3. k = m
    BY <1>3, <1>6, <2>2
  <2>4. QED BY <1>6, <2>2, <2>3
<1>11. ASSUME NEW j \in k + 1 .. n, NEW r \in Roads PROVE ~OneRoad(r, p, B(j))
  <2>1. SUFFICES ASSUME OneRoad(r, p, B(j)) PROVE FALSE
    OBVIOUS
  <2>2. IsOnRoad(RoadRect(r), p)
    BY <2>1 DEF OneRoad
  <2>3. PICK m \in K : \A i \in 0 .. n : OneRoad(r, p, B(i)) <=> i <= m
    BY <1>1, <2>2
  <2>4. j \in 0 .. n /\ m \in 0 .. n /\ m <= k /\ ~(j <= m)
    BY <1>5, <1>6
  <2>5. QED BY <2>1, <2>3, <2>4
<1>12. QED BY <1>6, <1>8, <1>9, <1>10, <1>11 DEF B, S

\* A dog moves to the farthest point that shares a road with it, and stands there if
\* that is not its aim.
LEMMA RunsToTheEnd ==
  ASSUME NEW p \in Point, OnSomeRoad(p), NEW s \in Nat, NEW dt \in Nat
  PROVE  RunsAsFar(p, s, dt)
<1> SUFFICES ASSUME NEW d \in Directions
             PROVE  LET n == s * dt
                        k == FarthestStep(p, d, n)
                    IN MoveDog(p, Times(d, s), dt) =
                         [pos |-> Beyond(p, d, k), vel |-> IF k = n THEN Times(d, s) ELSE Still]
  BY DEF RunsAsFar
<1> DEFINE n == s * dt
           v == Times(d, s)
           far == FarthestStep(p, d, n)
           Shares(q) == \E r \in Roads : OneRoad(r, p, q)
<1>1. n \in Nat
  OBVIOUS
<1>2. p.x \in Int /\ p.y \in Int /\ p = Pt(p.x, p.y)
  BY DEF Point, Pt
<1>3. Aim(p, v, dt) = Beyond(p, d, n)
  BY <1>1 DEF Aim, Times, Beyond, Directions, Pt
<1>4. v = Still <=> s = 0
  BY <1>1 DEF Times, Directions, Still, Pt
<1>5. s = 0 => n = 0
  BY <1>1
<1>6. Beyond(p, d, 0) = p
  BY <1>2 DEF Beyond, Directions, Pt
<1> HIDE DEF n, v
<1>7. PICK k \in 0 .. n :
           /\ \E q \in Stops(p, Beyond(p, d, n)) : Best(p, Beyond(p, d, n), q)
           /\ \A q \in Stops(p, Beyond(p, d, n)) :
                Best(p, Beyond(p, d, n), q) => q = Beyond(p, d, k)
           /\ Shares(Beyond(p, d, k))
           /\ \A j \in k + 1 .. n : ~Shares(Beyond(p, d, j))
  BY <1>1, FarthestStop
<1>8. far = k
  <2> DEFINE A(i) == Shares(Beyond(p, d, i)) /\ \A j \in i + 1 .. n : ~Shares(Beyond(p, d, j))
  <2>1. ASSUME NEW i \in 0 .. n, A(i) PROVE i = k
    <3>1. CASE i < k
      <4>1. k \in i + 1 .. n
        BY <1>1, <3>1
      <4>2. QED BY <1>7, <2>1, <4>1
    <3>2. CASE k < i
      <4>1. i \in k + 1 .. n
        BY <1>1, <3>2
      <4>2. QED BY <1>7, <2>1, <4>1
    <3>3. QED BY <1>1, <3>1, <3>2
  <2>2. A(k)
    BY <1>7
  <2>3. far = CHOOSE i \in 0 .. n : A(i)
    BY DEF FarthestStep
  <2> HIDE DEF A, far
  <2>4. QED BY <2>1, <2>2, <2>3
<1>9. Beyond(p, d, k) = Beyond(p, d, n) <=> k = n
  BY <1>1, BeyondDistance
<1> HIDE DEF far
<1>10. MoveDog(p, v, dt) = [pos |-> Beyond(p, d, far), vel |-> IF far = n THEN v ELSE Still]
  <2>1. CASE v = Still
    <3>1. n = 0 /\ far = 0
      BY <1>4, <1>5, <1>7, <1>8, <2>1
    <3>2. MoveDog(p, v, dt) = [pos |-> p, vel |-> v]
      BY <2>1 DEF MoveDog
    <3>3. QED BY <1>6, <3>1, <3>2
  <2>2. CASE v # Still
    <3> DEFINE best == CHOOSE q \in Stops(p, Beyond(p, d, n)) : Best(p, Beyond(p, d, n), q)
    <3>1. best \in Stops(p, Beyond(p, d, n)) /\ Best(p, Beyond(p, d, n), best)
      BY <1>7
    <3>2. best = Beyond(p, d, far)
      <4> HIDE DEF best
      <4>1. QED BY <1>7, <1>8, <3>1
    <3>3. MoveDog(p, v, dt) = [pos |-> best, vel |-> IF best = Beyond(p, d, n) THEN v ELSE Still]
      BY <1>3, <1>7, <2>2 DEF MoveDog
    <3> HIDE DEF best
    <3>4. QED BY <1>8, <1>9, <3>2, <3>3
  <2>3. QED BY <2>1, <2>2
<1>11. QED BY <1>10 DEF far, n, v

\* In every state of a session every dog would, along each axis and for each time
\* delta, run exactly as far as one road under it allows (GetNewPosition of
\* state_serialization/solution/src/model.cpp and the loop of Tick).
THEOREM DogsRunAsFarAsTheirRoads ==
  Spec => [](\A t \in Joined \ retired, dt \in Deltas : RunsAsFar(pos[t], DogSpeed, dt))
<1>1. TypeOK /\ DogsOnRoads
        => \A t \in Joined \ retired, dt \in Deltas : RunsAsFar(pos[t], DogSpeed, dt)
  <2>1. SUFFICES ASSUME TypeOK, DogsOnRoads, NEW t \in Joined \ retired, NEW dt \in Deltas
                 PROVE  RunsAsFar(pos[t], DogSpeed, dt)
    OBVIOUS
  <2>2. t \in Tokens
    BY <2>1 DEF TypeOK, Joined, Range
  <2>3. pos[t] \in Point /\ OnSomeRoad(pos[t])
    BY <2>1, <2>2 DEF TypeOK, DogsOnRoads
  <2>4. QED BY <2>3, RunsToTheEnd, SessionAssumption
<1>2. QED BY Typing, DogsAreSafe, <1>1, PTL

\* Wherever the walker comes it is at a point of a road.
WalkInv == walkPos \in Point /\ walkVel \in Point /\ OnSomeRoad(walkPos)

LEMMA WalkInvAlways == WalkSpec => []WalkInv
<1>1. WalkInit => WalkInv
  <2>1. SUFFICES ASSUME NEW r \in Roads, walkPos = r.a, walkVel = Still PROVE WalkInv
    BY DEF WalkInit
  <2>2. r.a \in Point /\ r.b \in Point /\ Still \in Point
    BY RoadsAssumption DEF Still, Pt, Point
  <2>3. IsOnRoad(RoadRect(r), r.a)
    BY <2>2 DEF IsOnRoad, RoadRect, Lesser, Greater, RoadHalfWidth, Point
  <2>4. QED BY <2>1, <2>2, <2>3 DEF WalkInv, OnSomeRoad
<1>2. WalkInv /\ [WalkNext]_walkVars => WalkInv'
  <2>1. SUFFICES ASSUME WalkInv, [WalkNext]_walkVars PROVE WalkInv'
    OBVIOUS
  <2>2. CASE Turn
    <3>1. \A d \in Directions : Times(d, WalkSpeed) \in Point
      BY WalkAssumption DEF Times, Directions, Pt, Point
    <3>2. Still \in Point
      BY DEF Still, Pt, Point
    <3>3. QED BY <2>1, <2>2, <3>1, <3>2 DEF Turn, WalkInv, OnSomeRoad
  <2>3. CASE Run
    <3>1. PICK dt \in WalkTimes : /\ walkPos' = MoveDog(walkPos, walkVel, dt).pos
                                  /\ walkVel' = MoveDog(walkPos, walkVel, dt).vel
      BY <2>3 DEF Run
    <3>2. /\ MoveDog(walkPos, walkVel, dt) \in [pos : Point, vel : Point]
          /\ OnSomeRoad(MoveDog(walkPos, walkVel, dt).pos)
      BY <2>1, MoveDogProperties, WalkAssumption DEF WalkInv
    <3>3. QED BY <3>1, <3>2 DEF WalkInv, OnSomeRoad
  <2>4. CASE UNCHANGED walkVars
    BY <2>1, <2>4 DEF walkVars, WalkInv, OnSomeRoad
  <2>5. QED BY <2>1, <2>2, <2>3, <2>4 DEF WalkNext
<1>3. QED BY <1>1, <1>2, PTL DEF WalkSpec

\* Over any roads, at any speed and for any time deltas the walker runs exactly as
\* far as one road under it allows.
THEOREM WalkersKeepToTheirRoads == WalkSpec => []RunsAsFarAsItsRoad
<1>1. WalkInv => RunsAsFarAsItsRoad
  BY RunsToTheEnd, WalkAssumption DEF WalkInv, RunsAsFarAsItsRoad
<1>2. QED BY WalkInvAlways, <1>1, PTL

\* Scaling by a positive number keeps the order.
LEMMA ScalingKeepsOrder ==
  ASSUME NEW m \in Nat \ {0}, NEW x \in Int, NEW y \in Int
  PROVE  m * x <= m * y <=> x <= y
<1>1. ASSUME NEW a \in Int, NEW b \in Int, a <= b PROVE m * a <= m * b
  <2>1. PICK i \in Nat : b = a + i
    <3>1. b - a \in Nat /\ b = a + (b - a)
      BY <1>1
    <3>2. QED BY <3>1
  <2>2. m * b = m * a + m * i /\ m * i >= 0
    BY <2>1
  <2>3. QED BY <2>2
<1>2. ASSUME NEW a \in Int, NEW b \in Int, a < b PROVE m * a < m * b
  <2>1. m * (a + 1) <= m * b
    BY <1>1, <1>2
  <2>2. m * (a + 1) = m * a + m
    OBVIOUS
  <2>3. m * a \in Int /\ m * b \in Int
    OBVIOUS
  <2>4. QED BY <2>1, <2>2, <2>3
<1>3. m * x \in Int /\ m * y \in Int
  OBVIOUS
<1>4. CASE x <= y
  BY <1>1, <1>4
<1>5. CASE y < x
  BY <1>2, <1>3, <1>5
<1>6. QED BY <1>4, <1>5

\* The detector's products, of a run of n and an item that is a ahead and c aside.
LEMMA ProductsDecide ==
  ASSUME NEW n \in Nat \ {0}, NEW a \in Int, NEW c \in Int, NEW w \in Nat
  PROVE  /\ 0 <= n * a /\ n * a <= n * n
         /\ (a * a + c * c) * (n * n) - (n * a) * (n * a) <= w * w * (n * n)
         <=> 0 <= a /\ a <= n /\ Magnitude(c) <= w
<1> DEFINE mag == Magnitude(c)
<1>1. (0 <= n * a <=> 0 <= a) /\ (n * a <= n * n <=> a <= n)
  <2>1. n * 0 = 0
    OBVIOUS
  <2>2. n * 0 <= n * a <=> 0 <= a
    BY ScalingKeepsOrder
  <2>3. n * a <= n * n <=> a <= n
    BY ScalingKeepsOrder
  <2>4. QED BY <2>1, <2>2, <2>3
<1>2. n * n \in Nat \ {0} /\ c * c \in Int /\ w * w \in Int
  OBVIOUS
<1>3. (a * a + c * c) * (n * n) - (n * a) * (n * a) = (n * n) * (c * c)
  OBVIOUS
<1>4. w * w * (n * n) = (n * n) * (w * w)
  OBVIOUS
<1>5. (n * n) * (c * c) <= (n * n) * (w * w) <=> c * c <= w * w
  BY <1>2, ScalingKeepsOrder
<1>6. mag \in Nat /\ mag * mag = c * c
  BY DEF Magnitude
<1>7. c * c <= w * w <=> mag <= w
  BY <1>6, SquaresGrow
<1> HIDE DEF mag
<1>8. QED BY <1>1, <1>3, <1>4, <1>5, <1>7 DEF mag

\* Along an axis, over any distance and for any item and width, the detector collects
\* what the run passes beside: its products and quotients decide no more and no less
\* (collision_detector.cpp).
THEOREM CollectedIsPassed ==
  ASSUME NEW p \in Point, NEW item \in Point, NEW d \in Directions, NEW n \in Nat \ {0}, NEW w \in Nat
  PROVE  IsCollected(TryCollectPoint(p, Beyond(p, d, n), item), w) <=> PassesBeside(p, d, n, item, w)
<1> DEFINE a == Dot(Minus(item, p), d)
           c == (item.x - p.x) * d.y - (item.y - p.y) * d.x
           u == Minus(item, p)
           v == Minus(Beyond(p, d, n), p)
<1>1. p.x \in Int /\ p.y \in Int /\ item.x \in Int /\ item.y \in Int
  BY DEF Point
<1>2. a \in Int /\ c \in Int /\ Dot(u, u) = a * a + c * c
  BY <1>1 DEF Directions, Pt, Dot, Minus
<1>3. v.x = d.x * n /\ v.y = d.y * n
  BY <1>1 DEF Directions, Pt, Minus, Beyond
<1>4. Dot(u, v) = n * a
  BY <1>1, <1>3 DEF Directions, Pt, Dot, Minus
<1>5. Dot(v, v) = n * n
  BY <1>3 DEF Directions, Pt, Dot
<1> HIDE DEF a, c, u, v
<1>6. IsCollected(TryCollectPoint(p, Beyond(p, d, n), item), w)
        <=> /\ 0 <= n * a /\ n * a <= n * n
            /\ (a * a + c * c) * (n * n) - (n * a) * (n * a) <= w * w * (n * n)
  BY <1>2, <1>4, <1>5 DEF IsCollected, TryCollectPoint, u, v
<1>7. PassesBeside(p, d, n, item, w) <=> 0 <= a /\ a <= n /\ Magnitude(c) <= w
  BY DEF PassesBeside, a, c
<1>8. QED BY <1>2, <1>6, <1>7, ProductsDecide

\* From wherever it comes the walker collects exactly the items its run passes beside.
\* A dog without speed does not run, and the detector is not asked.
THEOREM WalkersCollectWhatTheyPass ==
  ASSUME WalkSpeed # 0
  PROVE  WalkSpec => []CollectsWhatItPasses
<1>1. WalkInv => CollectsWhatItPasses
  <2>1. SUFFICES ASSUME WalkInv PROVE CollectsWhatItPasses
    OBVIOUS
  <2>2. walkPos \in Point /\ walkPos.x \in Int /\ walkPos.y \in Int
    BY <2>1 DEF WalkInv, Point
  <2>3. DogHalfWidth \in Nat /\ WalkSpeed \in Nat \ {0} /\ 2 * WalkSpeed \in Nat \ {0}
    BY WalkAssumption DEF DogHalfWidth
  <2>4. ASSUME NEW d \in Directions, NEW n \in {WalkSpeed, 2 * WalkSpeed},
               NEW dx \in Int, NEW dy \in Int
        PROVE  LET item == Pt(walkPos.x + dx, walkPos.y + dy)
               IN IsCollected(TryCollectPoint(walkPos, Beyond(walkPos, d, n), item), DogHalfWidth)
                    <=> PassesBeside(walkPos, d, n, item, DogHalfWidth)
    <3>1. Pt(walkPos.x + dx, walkPos.y + dy) \in Point
      BY <2>2 DEF Pt, Point
    <3>2. QED BY <2>2, <2>3, <3>1, CollectedIsPassed
  <2>5. {-12, -6, 0, 5, 6, 7, 12, 20} \subseteq Int
    OBVIOUS
  <2>6. QED BY <2>4, <2>5 DEF CollectsWhatItPasses
<1>2. QED BY WalkInvAlways, <1>1, PTL
=============================================================================
