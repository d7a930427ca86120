------------------------------ MODULE Geometry ------------------------------
(***************************************************************************)
(* RoadMotion and CollisionDetector against definitions that do not use    *)
(* their formulas, wherever one dog may come that wanders over the map.    *)
(***************************************************************************)
EXTENDS RoadMotion, CollisionDetector

CONSTANTS WalkSpeed, WalkTimes   \* how fast the dog runs, and the time deltas

ASSUME WalkAssumption == WalkSpeed \in Nat /\ WalkTimes \subseteq Nat

VARIABLES walkPos, walkVel
walkVars == <<walkPos, walkVel>>

Directions      == {Pt(0, 1), Pt(0, -1), Pt(1, 0), Pt(-1, 0)}
Times(d, k)     == Pt(d.x * k, d.y * k)
Beyond(p, d, k) == Pt(p.x + d.x * k, p.y + d.y * k)

WalkInit == walkPos \in {r.a : r \in Roads} /\ walkVel = Still

Turn == walkVel' \in {Times(d, WalkSpeed) : d \in Directions} \cup {Still} /\ UNCHANGED walkPos
Run  == \E dt \in WalkTimes : LET m == MoveDog(walkPos, walkVel, dt)
                              IN walkPos' = m.pos /\ walkVel' = m.vel

WalkNext == Turn \/ Run
WalkSpec == WalkInit /\ [][WalkNext]_walkVars

-----------------------------------------------------------------------------

\* Both points lie on the road.
OneRoad(r, p, q) == IsOnRoad(RoadRect(r), p) /\ IsOnRoad(RoadRect(r), q)

\* Of the points up to the aim, the farthest that shares a road with the starting
\* point.
FarthestStep(p, d, n) ==
  CHOOSE k \in 0 .. n :
    LET shared(j) == \E r \in Roads : OneRoad(r, p, Beyond(p, d, j))
    IN shared(k) /\ \A j \in k + 1 .. n : ~shared(j)

\* The dog runs there, and stops when that is not the aim itself.
RunsAsFar(p, speed, dt) ==
  \A d \in Directions :
    LET n == speed * dt
        k == FarthestStep(p, d, n)
    IN MoveDog(p, Times(d, speed), dt) =
         [pos |-> Beyond(p, d, k), vel |-> IF k = n THEN Times(d, speed) ELSE Still]

\* A dog advances exactly as far as one road under it allows, so across no gap, and
\* stands if and only if the road held it back (model.cpp:147-179).
RunsAsFarAsItsRoad == \A dt \in WalkTimes : RunsAsFar(walkPos, WalkSpeed, dt)

Magnitude(n) == IF n < 0 THEN -n ELSE n

\* For a run of n along the axis d: the item is beside the run, not before or
\* behind it, and no farther from it than the two widths.
PassesBeside(p, d, n, item, radius) ==
  LET ahead == Dot(Minus(item, p), d)
      aside == (item.x - p.x) * d.y - (item.y - p.y) * d.x
  IN 0 <= ahead /\ ahead <= n /\ Magnitude(aside) <= radius

\* An item is collected exactly when the dog passes beside it.
CollectsWhatItPasses ==
  \A d \in Directions, n \in {WalkSpeed, 2 * WalkSpeed}, dx, dy \in {-12, -6, 0, 5, 6, 7, 12, 20} :
    LET item == Pt(walkPos.x + dx, walkPos.y + dy)
    IN IsCollected(TryCollectPoint(walkPos, Beyond(walkPos, d, n), item), DogHalfWidth)
         <=> PassesBeside(walkPos, d, n, item, DogHalfWidth)
=============================================================================
