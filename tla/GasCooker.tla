----------------------------- MODULE GasCooker -----------------------------
(***************************************************************************)
(* The gas cooker of the cafeteria and the ingredients that use it         *)
(* (sprint1/problems/cafeteria/solution/src: gascooker.h, ingredients.h).  *)
(*                                                                         *)
(* UseBurner and ReleaseBurner may be called by any thread: they put an    *)
(* operation into the cooker's strand, which runs its operations one at a  *)
(* time, in order.  A handler that got its burner is posted to the         *)
(* io_context, whose threads run what was posted in any order.             *)
(***************************************************************************)
EXTENDS Naturals, SequencesExt

CONSTANTS
  Ingredients,   \* the sausages and breads that come to the cooker
  Burners        \* number_of_burners_

ASSUME CookerAssumption == Burners \in Nat \ {0} /\ IsFiniteSet(Ingredients)

VARIABLES
  ops,        \* the operations in the strand, [op, by]
  inUse,      \* burners_in_use_
  pending,    \* pending_handlers_, by their ingredients
  posted,     \* the ingredients whose handlers are posted to io_
  started,    \* those with a frying_start_time_ (baking_start_time_)
  lit,        \* those whose handler has run: it sets that time again
  ended       \* those with a frying_end_time_ (baking_end_time_)

cookerVars == <<ops, inUse, pending, posted, started, lit, ended>>

Use(c)     == [op |-> "use", by |-> c]
Release(c) == [op |-> "release", by |-> c]

CookerInit ==
  /\ ops = <<>> /\ inUse = 0 /\ pending = <<>> /\ posted = {}
  /\ started = {} /\ lit = {} /\ ended = {}

\* StartFry (StartBake) of the ingredients of cs, one after the other.
StartCooking(cs) ==
  /\ Range(cs) \cap started = {}
  /\ started' = started \cup Range(cs)
  /\ ops' = ops \o [i \in DOMAIN cs |-> Use(cs[i])]
  /\ UNCHANGED <<inUse, pending, posted, lit, ended>>

\* The strand runs a UseBurner: a free burner is taken and the handler posted,
\* otherwise the handler waits at the end of the line.
GrantBurner_OneTooMany(c) ==
  IF inUse <= Burners
  THEN inUse' = inUse + 1 /\ posted' = posted \cup {c} /\ UNCHANGED pending
  ELSE pending' = Append(pending, c) /\ UNCHANGED <<inUse, posted>>
GrantBurner_LastComesFirst(c) ==
  IF inUse < Burners
  THEN inUse' = inUse + 1 /\ posted' = posted \cup {c} /\ UNCHANGED pending
  ELSE pending' = <<c>> \o pending /\ UNCHANGED <<inUse, posted>>
GrantBurner(c) ==
  IF inUse < Burners
  THEN inUse' = inUse + 1 /\ posted' = posted \cup {c} /\ UNCHANGED pending
  ELSE pending' = Append(pending, c) /\ UNCHANGED <<inUse, posted>>

\* The strand runs a ReleaseBurner: the burner goes to the first who waits, or
\* out.
PassBurner_Out ==
  inUse' = inUse - 1 /\ UNCHANGED <<pending, posted>>
PassBurner_Leaks ==
  IF pending # <<>>
  THEN posted' = posted \cup {Head(pending)} /\ pending' = Tail(pending) /\ UNCHANGED inUse
  ELSE UNCHANGED <<inUse, pending, posted>>
PassBurner ==
  IF pending # <<>>
  THEN posted' = posted \cup {Head(pending)} /\ pending' = Tail(pending) /\ UNCHANGED inUse
  ELSE inUse' = inUse - 1 /\ UNCHANGED <<pending, posted>>

RunStrand ==
  /\ ops # <<>> /\ ops' = Tail(ops)
  /\ IF Head(ops).op = "use" THEN GrantBurner(Head(ops).by) ELSE PassBurner
  /\ UNCHANGED <<started, lit, ended>>

\* A thread runs the handler of UseBurner: cooking begins.
Light(c) ==
  /\ c \in posted /\ posted' = posted \ {c}
  /\ lit' = lit \cup {c}
  /\ UNCHANGED <<ops, inUse, pending, started, ended>>

\* StopFry (StopBaking): the lock is given up.
StopCooking(c) ==
  /\ c \in started \ ended
  /\ ended' = ended \cup {c}
  /\ ops' = Append(ops, Release(c))
  /\ UNCHANGED <<inUse, pending, posted, started, lit>>

\* io_context::run returns when there is nothing left to run or to wait for.
CookerDone == ops = <<>> /\ posted = {} /\ lit \subseteq ended

CookerNext ==
  \/ RunStrand
  \/ \E c \in Ingredients :
       StartCooking(<<c>>) \/ Light(c) \/ (c \in lit /\ StopCooking(c))
  \/ CookerDone /\ UNCHANGED cookerVars

CookerSpec == CookerInit /\ [][CookerNext]_cookerVars

\* The threads run what is in the strand and what is posted, and the timers stop
\* what is being cooked; nobody has to come to the cooker.
FairCookerSpec ==
  /\ CookerSpec
  /\ WF_cookerVars(RunStrand)
  /\ \A c \in Ingredients : WF_cookerVars(Light(c)) /\ WF_cookerVars(c \in lit /\ StopCooking(c))

-----------------------------------------------------------------------------

\* The ingredients named by the operations of one kind that wait in the strand.
InStrand(op) == {ops[i].by : i \in {j \in DOMAIN ops : ops[j].op = op}}

\* Who has a burner: the handler is posted, the ingredient is being cooked, or
\* the release has not been run yet.
Burning == posted \cup (lit \ ended) \cup InStrand("release")

\* burners_in_use_ counts those who have a burner; this is what the assertions
\* in UseBurner, in ReleaseBurner and in the destructor rely on.
InUseCountsBurning == inUse = Cardinality(Burning)

\* Seen from outside the cooker serves in the order of arrival, although calls
\* wait in the strand before they reach the line.
Arrival(line, o)  == IF o.op = "use" THEN Append(line, o.by) ELSE line
Arrivals(line, s) == FoldLeft(Arrival, line, s)

Line == Arrivals(pending, ops)
F == INSTANCE FifoBurners WITH Clients <- Ingredients, queue <- Line, burning <- Burning
ServesInOrder == F!Spec

\* Whoever has come to the cooker gets a burner in the end.
EverybodyCooks == \A c \in Ingredients : (c \in started) ~> (c \in lit)
=============================================================================
