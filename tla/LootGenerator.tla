--------------------------- MODULE LootGenerator ---------------------------
(***************************************************************************)
(* loot_generator.cpp.  The probability 1 - (1 - p)^(waited / interval) is *)
(* tabulated: Chance[w] / ChanceUnit is its value after w units of time    *)
(* without loot, and it is taken to stay at its last entry after MaxWait.  *)
(***************************************************************************)
EXTENDS Integers

CONSTANTS
  MaxWait,      \* the last entry of the table
  ChanceUnit,   \* the denominator of its entries
  Chance        \* the table

ASSUME ChanceAssumption ==
  /\ MaxWait \in Nat
  /\ ChanceUnit \in Nat \ {0}
  /\ Chance \in [0 .. MaxWait -> 0 .. ChanceUnit]

Waited(waited, dt) == IF waited + dt > MaxWait THEN MaxWait ELSE waited + dt

Shortage_Unguarded(loot, looters)   == looters - loot
Shortage_IgnoresLoot(loot, looters) == looters
Shortage(loot, looters) == IF loot > looters THEN 0 ELSE looters - loot

\* std::round of shortage * probability.
Generated(waited, loot, looters) ==
  (2 * Shortage(loot, looters) * Chance[waited] + ChanceUnit) \div (2 * ChanceUnit)

\* time_without_loot_ after Generate has returned n.
WaitAfter(waited, n) == IF n > 0 THEN 0 ELSE waited
=============================================================================
