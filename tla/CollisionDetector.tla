-------------------------- MODULE CollisionDetector --------------------------
(***************************************************************************)
(* The gathering events of one tick: collision_detector.h and .cpp of the  *)
(* game server.  A gatherer runs along the segment from .from to .to; an   *)
(* item is collected when its projection on the segment lies within it and *)
(* its distance from the segment is at most the sum of the two widths.     *)
(* The quotients proj_ratio and sq_distance are kept as fractions over the *)
(* squared length of the segment.                                          *)
(***************************************************************************)
EXTENDS Integers

Minus(p, q) == [x |-> p.x - q.x, y |-> p.y - q.y]
Dot(u, v)   == u.x * v.x + u.y * v.y

\* [proj, dist, len]: proj_ratio is proj / len and sq_distance is dist / len.
TryCollectPoint(from, to, at) ==
  LET u == Minus(at, from)
      v == Minus(to, from)
  IN [proj |-> Dot(u, v),
      dist |-> Dot(u, u) * Dot(v, v) - Dot(u, v) * Dot(u, v),
      len  |-> Dot(v, v)]

IsCollected_OnTheWholeLine(r, radius) == r.dist <= radius * radius * r.len
IsCollected(r, radius) ==
  /\ 0 <= r.proj /\ r.proj <= r.len
  /\ r.dist <= radius * radius * r.len

\* All events, as a set; a gatherer that did not move has none.
FindGatherEvents(gatherers, items) ==
  LET hits == {h \in gatherers \X items :
                 /\ h[1].from # h[1].to
                 /\ IsCollected(TryCollectPoint(h[1].from, h[1].to, h[2].at),
                                h[1].width + h[2].width)}
  IN {LET r == TryCollectPoint(h[1].from, h[1].to, h[2].at)
      IN [who |-> h[1].who, loot |-> h[2].loot, at |-> h[2].at,
          proj |-> r.proj, len |-> r.len] : h \in hits}

\* The order std::sort gives the events; events of equal time come in any order.
Earlier(e, f) == e.proj * f.len < f.proj * e.len
=============================================================================
