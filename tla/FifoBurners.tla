----------------------------- MODULE FifoBurners -----------------------------
(***************************************************************************)
(* What a gas cooker promises: at most Burners clients burn at a time, and *)
(* the burners go to those who wait in the order in which they came.       *)
(***************************************************************************)
EXTENDS Naturals, Sequences, FiniteSets

CONSTANTS Clients, Burners

VARIABLES
  queue,     \* who waits, in the order of arrival
  burning    \* who has a burner

Init == queue = <<>> /\ burning = {}

Enter(c) == queue' = Append(queue, c) /\ UNCHANGED burning

Light ==
  /\ queue # <<>> /\ Cardinality(burning) < Burners
  /\ burning' = burning \cup {Head(queue)} /\ queue' = Tail(queue)

Leave(c) == c \in burning /\ burning' = burning \ {c} /\ UNCHANGED queue

\* Whoever leaves may hand the burner to the first who waits.
HandOver(c) ==
  /\ c \in burning /\ queue # <<>>
  /\ burning' = (burning \ {c}) \cup {Head(queue)} /\ queue' = Tail(queue)

Next == Light \/ \E c \in Clients : Enter(c) \/ Leave(c) \/ HandOver(c)

Spec == Init /\ [][Next]_<<queue, burning>>
=============================================================================
