----------------------------- MODULE MCGeometry -----------------------------
(***************************************************************************)
(* A small road network for Geometry.                                      *)
(***************************************************************************)
EXTENDS Geometry

\* A road, a parallel one beyond a gap, and a crossing road that joins the first.
MCRoads == {[a |-> Pt(0, 0), b |-> Pt(40, 0)], [a |-> Pt(0, 40), b |-> Pt(40, 40)],
            [a |-> Pt(40, 20), b |-> Pt(40, 0)]}
=============================================================================
