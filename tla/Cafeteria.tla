----------------------------- MODULE Cafeteria -----------------------------
(***************************************************************************)
(* The cafeteria (sprint1/problems/cafeteria/solution/src: cafeteria.cpp,  *)
(* hotdog.h, main.cpp): orders that come in from several threads, each of  *)
(* a sausage and a bread that need a burner of the gas cooker.             *)
(*                                                                         *)
(* Time is counted in units of 500 ms.  It passes when no thread has       *)
(* anything to do but wait for timers; the handlers of LateTimers may run  *)
(* one unit after their timers have expired, the others run at once.       *)
(***************************************************************************)
EXTENDS GasCooker

CONSTANTS
  NumOrders,   \* num_orders
  Workers,     \* the threads that run the io_context
  Waiting,     \* num_waiting_threads: how many the latch waits for
  LateTimers   \* the ingredients whose timer handlers may be late

Orders == 1 .. NumOrders
Kinds  == {"sausage", "bread"}

ASSUME CafeteriaAssumption ==
  /\ Ingredients = Orders \X Kinds
  /\ NumOrders \in Nat /\ Workers \in Nat \ {0} /\ LateTimers \subseteq Ingredients
  /\ Waiting = IF Workers < NumOrders THEN Workers ELSE NumOrders

VARIABLES
  arrived,    \* the threads that have come to the latch
  placed,     \* next_hotdog_id_: the orders that have been started
  age,        \* how long every ingredient has been cooking
  result,     \* what the handler of every order was given
  now         \* the time since the start

vars == <<cookerVars, arrived, placed, age, result, now>>

\* The durations of the two timers.
Timer_OfBread(kind) == 2
Timer(kind) == IF kind = "sausage" THEN 3 ELSE 2

\* The limits of the constructor of HotDog.
LongEnough(c) == age[c] >= IF c[2] = "sausage" THEN 3 ELSE 2
NotTooLong(c) == age[c] <= IF c[2] = "sausage" THEN 4 ELSE 3

Of(order) == {<<order, kind>> : kind \in Kinds}

Init ==
  /\ CookerInit
  /\ arrived = 0 /\ placed = 0
  /\ age = [c \in Ingredients |-> 0]
  /\ result = [order \in Orders |-> "none"]
  /\ now = 0

\* One of the first functions of the io_context comes to the latch and blocks its
\* thread.
Arrive ==
  /\ arrived < Waiting /\ arrived < Workers
  /\ arrived' = arrived + 1
  /\ UNCHANGED <<cookerVars, placed, age, result, now>>

\* OrderHotDog, called by any thread, and in the strand HotDogOrder::Start.
OrderHotDog ==
  /\ arrived = Waiting /\ placed < NumOrders
  /\ placed' = placed + 1
  /\ StartCooking(<< <<placed + 1, "sausage">>, <<placed + 1, "bread">> >>)
  /\ UNCHANGED <<arrived, age, result, now>>

Cooker == RunStrand /\ UNCHANGED <<arrived, placed, age, result, now>>

\* OnSausageStarted, OnBreadStarted: the start time is set again, and the timer set.
StartTimer(c) ==
  /\ Light(c) /\ age' = [age EXCEPT ![c] = 0]
  /\ UNCHANGED <<arrived, placed, result, now>>

\* TryDeliver, called when an ingredient of the order has been stopped.
TryDeliver(order) ==
  IF result[order] = "none" /\ Of(order) \subseteq ended'
  THEN result' = [result EXCEPT ![order] =
                    IF \A c \in Of(order) : LongEnough(c) /\ NotTooLong(c)
                    THEN "hot dog" ELSE "error"]
  ELSE UNCHANGED result

\* The handler of a timer, in the strand of the cafeteria.
TimerFires_OnErrorOnly(c) ==
  c \in lit \ ended /\ age[c] >= Timer(c[2]) /\ UNCHANGED vars
TimerFires(c) ==
  /\ c \in lit /\ age[c] >= Timer(c[2])
  /\ StopCooking(c)
  /\ TryDeliver(c[1])
  /\ UNCHANGED <<arrived, placed, age, now>>

\* Half a second passes.
TimePasses ==
  /\ placed = NumOrders /\ ops = <<>> /\ posted = {}
  /\ lit \ ended # {}
  /\ \A c \in lit \ ended : age[c] < Timer(c[2]) + IF c \in LateTimers THEN 1 ELSE 0
  /\ age' = [c \in Ingredients |-> IF c \in started \ ended THEN age[c] + 1 ELSE age[c]]
  /\ now' = now + 1
  /\ UNCHANGED <<cookerVars, arrived, placed, result>>

Served == ops = <<>> /\ \A order \in Orders : result[order] # "none"

\* No order is left to be placed, and run returns in every thread.
CafeteriaDone == placed = NumOrders /\ CookerDone

Next ==
  \/ Arrive \/ OrderHotDog \/ Cooker \/ TimePasses
  \/ \E c \in Ingredients : StartTimer(c) \/ TimerFires(c)
  \/ CafeteriaDone /\ UNCHANGED vars

Spec == Init /\ [][Next]_vars

\* The threads do what there is to do, and time passes.
FairSpec ==
  /\ Spec
  /\ WF_vars(Arrive \/ OrderHotDog) /\ WF_vars(Cooker) /\ WF_vars(TimePasses)
  /\ WF_vars(\E c \in Ingredients : StartTimer(c) \/ TimerFires(c))

-----------------------------------------------------------------------------

\* No order ends in an error: however long its ingredients wait for a burner,
\* what counts is the time on it (assert(hotdogs.size() == num_orders) in main).
NoOrderFails == \A order \in Orders : result[order] # "error"

\* 20 hot dogs on 8 burners take from 7 to 7.5 seconds, as the assertion at the
\* end of main has it, whatever the order in which the threads do their work.
TakesSevenSeconds == Served => now \in 14 .. 15

\* Everybody who has ordered is served.
EverybodyIsServed == <>(\A order \in Orders : result[order] # "none")
=============================================================================
