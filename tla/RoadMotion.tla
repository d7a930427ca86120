----------------------------- MODULE RoadMotion -----------------------------
(***************************************************************************)
(* How one dog moves along the roads of a map during one tick: the        *)
(* geometry of state_serialization/solution/src/model.cpp and the motion   *)
(* loop of GameSession::Tick.  Coordinates are integers, Unit to one map   *)
(* unit of the program, so that 0.4, 0.3 and 0.25 are exact.               *)
(***************************************************************************)
EXTENDS Integers

CONSTANT Roads     \* the roads of the map: a set of [a |-> point, b |-> point]

Point == [x : Int, y : Int]
Pt(x, y) == [x |-> x, y |-> y]

ASSUME RoadsAssumption == Roads \subseteq [a : Point, b : Point]

Unit            == 20
RoadHalfWidth   == 8      \* 0.4
DogHalfWidth    == 6      \* 0.3
LootHalfWidth   == 0      \* 0.0
OfficeHalfWidth == 5      \* 0.25

Still == Pt(0, 0)

Lesser(m, n)  == IF m <= n THEN m ELSE n
Greater(m, n) == IF m >= n THEN m ELSE n

RoadRect(road) ==
  [minX |-> Lesser(road.a.x, road.b.x) - RoadHalfWidth,
   maxX |-> Greater(road.a.x, road.b.x) + RoadHalfWidth,
   minY |-> Lesser(road.a.y, road.b.y) - RoadHalfWidth,
   maxY |-> Greater(road.a.y, road.b.y) + RoadHalfWidth]

IsOnRoad(rect, p) ==
  /\ rect.minX <= p.x /\ p.x <= rect.maxX
  /\ rect.minY <= p.y /\ p.y <= rect.maxY

Clamp_LowerOnly(v, lo, hi) == IF v < lo THEN lo ELSE v
Clamp(v, lo, hi) == IF v < lo THEN lo ELSE IF hi < v THEN hi ELSE v

ClampToRoad(rect, p) ==
  Pt(Clamp(p.x, rect.minX, rect.maxX), Clamp(p.y, rect.minY, rect.maxY))

DistanceSquared(p, q) == (q.x - p.x) * (q.x - p.x) + (q.y - p.y) * (q.y - p.y)

\* Some road of the map covers p.
OnSomeRoad(p) == \E road \in Roads : IsOnRoad(RoadRect(road), p)

\* Where the roads under p let a dog that aims at the point aim end up.
Stops(p, aim) ==
  {ClampToRoad(RoadRect(road), aim) : road \in {r \in Roads : IsOnRoad(RoadRect(r), p)}}

Best_Nearest(p, aim, q) ==
  /\ q \in Stops(p, aim)
  /\ \A s \in Stops(p, aim) : DistanceSquared(p, q) <= DistanceSquared(p, s)
Best(p, aim, q) ==
  /\ q \in Stops(p, aim)
  /\ \A s \in Stops(p, aim) : DistanceSquared(p, s) <= DistanceSquared(p, q)

Aim(p, v, dt) == Pt(p.x + v.x * dt, p.y + v.y * dt)

(***************************************************************************)
(* The dog at p with velocity v (per unit of time) after dt.  The loop of  *)
(* the program keeps the first of the farthest stops; dogs run along one   *)
(* axis, so the farthest stops are one point and the choice is unique.     *)
(* A dog that no road carries, or that a road's edge held back, stands.    *)
(***************************************************************************)
MoveDog(p, v, dt) ==
  LET aim == Aim(p, v, dt)
  IN IF v = Still THEN [pos |-> p, vel |-> v]
     ELSE IF \E q \in Stops(p, aim) : Best(p, aim, q)
     THEN LET best == CHOOSE q \in Stops(p, aim) : Best(p, aim, q)
          IN [pos |-> best, vel |-> IF best = aim THEN v ELSE Still]
     ELSE [pos |-> p, vel |-> Still]
=============================================================================
