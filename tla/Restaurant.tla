----------------------------- MODULE Restaurant -----------------------------
(***************************************************************************)
(* The single-threaded restaurant                                          *)
(* (sprint1/problems/restaurant_single_threaded/solution/src/main.cpp).    *)
(* An order waits for a timer that roasts the cutlet and, with onion, for  *)
(* a second one that marinades the onion.  The timers are external: they   *)
(* end in any order, each with success or with an error code.              *)
(***************************************************************************)
EXTENDS Naturals, FiniteSets

CONSTANTS OrderIds, WithOnion    \* the orders, and those with_onion_

ASSUME RestaurantAssumption == WithOnion \subseteq OrderIds

VARIABLES
  timers,      \* of every order, the timers that have not ended
  hamburger,   \* the set of [roasted, onion, packed] that are true
  marinaded,   \* the orders whose onion_marinaded_ is set
  delivered,   \* the orders whose delivered_ is set
  orders,      \* the map orders of main: what the handlers were given
  calls,       \* history: how often the handler of every order was called
  failed       \* history: the orders one of whose timers failed
restaurantVars == <<timers, hamburger, marinaded, delivered, orders, calls, failed>>

\* MakeHamburger and Execute, for all orders, before io.run().
RestaurantInit ==
  /\ timers = [o \in OrderIds |-> {"roast"} \cup IF o \in WithOnion THEN {"marinade"} ELSE {}]
  /\ hamburger = [o \in OrderIds |-> {}]
  /\ marinaded = {} /\ delivered = {}
  /\ orders = [o \in {} |-> {}]
  /\ calls = [o \in OrderIds |-> 0] /\ failed = {}

\* handle_result of main: emplace leaves an order that is there alone.
Deliver(o, r) ==
  /\ delivered' = delivered \cup {o}
  /\ orders' = IF o \in DOMAIN orders THEN orders
               ELSE [q \in DOMAIN orders \cup {o} |-> IF q = o THEN r ELSE orders[q]]
  /\ calls' = [calls EXCEPT ![o] = @ + 1]

\* h after an onion was added, if there is one and the cutlet is roasted.
AddOnion(o, h) == IF "roasted" \in h /\ o \in marinaded' THEN h \cup {"onion"} ELSE h

IsReadyToPack_AnyOnion(o, h) == "roasted" \in h
IsReadyToPack_WithOnionOnly(o, h) == "roasted" \in h /\ "onion" \in h
IsReadyToPack(o, h) == "roasted" \in h /\ (o \in WithOnion => "onion" \in h)

\* CheckReadiness for the order o, whose hamburger is h by now.
CheckReadiness(o, ec, h) ==
  LET g == AddOnion(o, h)
  IN IF o \in delivered
     THEN hamburger' = [hamburger EXCEPT ![o] = h] /\ UNCHANGED <<delivered, orders, calls>>
     ELSE IF ec THEN hamburger' = [hamburger EXCEPT ![o] = h] /\ Deliver(o, {"error"})
     ELSE IF IsReadyToPack(o, g)
     THEN hamburger' = [hamburger EXCEPT ![o] = g \cup {"packed"}] /\ Deliver(o, g \cup {"packed"})
     ELSE hamburger' = [hamburger EXCEPT ![o] = g] /\ UNCHANGED <<delivered, orders, calls>>

Ends(o, timer, ec) ==
  /\ timer \in timers[o]
  /\ timers' = [timers EXCEPT ![o] = @ \ {timer}]
  /\ failed' = IF ec THEN failed \cup {o} ELSE failed

OnRoasted(o, ec) ==
  /\ Ends(o, "roast", ec)
  /\ UNCHANGED marinaded
  /\ CheckReadiness(o, ec, IF ec THEN hamburger[o] ELSE hamburger[o] \cup {"roasted"})

OnOnionMarinaded(o, ec) ==
  /\ Ends(o, "marinade", ec)
  /\ marinaded' = IF ec THEN marinaded ELSE marinaded \cup {o}
  /\ CheckReadiness(o, ec, hamburger[o])

Done == \A o \in OrderIds : timers[o] = {}

RestaurantNext ==
  \/ \E o \in OrderIds, ec \in BOOLEAN : OnRoasted(o, ec) \/ OnOnionMarinaded(o, ec)
  \/ Done /\ UNCHANGED restaurantVars

RestaurantSpec == RestaurantInit /\ [][RestaurantNext]_restaurantVars

-----------------------------------------------------------------------------

\* Whichever timers fail and in whichever order they end, the handler of every
\* order has been called, and only once, when io.run() returns.
EveryHandlerCalled == Done => \A o \in OrderIds : calls[o] = 1

\* A customer gets a packed hamburger with roasted cutlet, and with onion if that
\* was ordered and only then; or an error, if a timer failed and only then
\* (the assertions at the end of main).
RightHamburger ==
  \A o \in DOMAIN orders :
    orders[o] = IF o \in failed THEN {"error"}
                ELSE {"roasted", "packed"} \cup IF o \in WithOnion THEN {"onion"} ELSE {}
=============================================================================
