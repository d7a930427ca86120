--------------------------- MODULE ConnectionPool ---------------------------
(***************************************************************************)
(* db::ConnectionPool (connection_pool.h): a mutex, a condition variable   *)
(* and an array whose first `used' slots are empty.  One action per        *)
(* critical section; the notification of ReturnConnection comes after its  *)
(* critical section.  Between GetConnection and ReturnConnection a thread  *)
(* runs one transaction of retirement_db.cpp.                              *)
(***************************************************************************)
EXTENDS Integers, FiniteSets

CONSTANTS
  Threads,
  Capacity,     \* how many connections the constructor opens
  Null          \* an empty shared_ptr

ASSUME PoolAssumption ==
  /\ Capacity \in Nat \ {0}
  /\ IsFiniteSet(Threads)
  /\ Null \notin 1 .. Capacity /\ Null \notin Threads

VARIABLES
  slot,    \* pool_
  used,    \* used_connections_
  held,    \* the connection in the ConnectionWrapper of every thread
  pc       \* where every thread is

vars == <<slot, used, held, pc>>

Connections == 1 .. Capacity
Slots       == 0 .. Capacity - 1

\* Outside; about to enter GetConnection; in the wait of the condition variable;
\* in its transaction; about to notify.
Places == {"outside", "get", "wait", "use", "notify"}
At(place) == {t \in Threads : pc[t] = place}

Init ==
  /\ slot = [i \in Slots |-> i + 1] /\ used = 0
  /\ held = [t \in Threads |-> Null] /\ pc = [t \in Threads |-> "outside"]

Call(t) ==
  /\ pc[t] = "outside"
  /\ pc' = [pc EXCEPT ![t] = "get"]
  /\ UNCHANGED <<slot, used, held>>

HasFree == used < Capacity

\* GetConnection, when the predicate of the wait holds.
Take(t) ==
  /\ pc[t] = "get" /\ HasFree
  /\ held' = [held EXCEPT ![t] = slot[used]]
  /\ slot' = [slot EXCEPT ![used] = Null]
  /\ used' = used + 1
  /\ pc' = [pc EXCEPT ![t] = "use"]

\* GetConnection, when it does not: the thread waits and gives up the mutex.
Block(t) ==
  /\ pc[t] = "get" /\ ~HasFree
  /\ pc' = [pc EXCEPT ![t] = "wait"]
  /\ UNCHANGED <<slot, used, held>>

\* A wait may end for no reason; the predicate is then evaluated again.
WakeSpuriously(t) ==
  /\ pc[t] = "wait"
  /\ pc' = [pc EXCEPT ![t] = "get"]
  /\ UNCHANGED <<slot, used, held>>

\* pool_[--used_connections_]
ReturnSlot_Wrong == used
ReturnSlot == used - 1

Return_KeepsPointer(t) ==
  /\ pc[t] = "use"
  /\ slot' = [slot EXCEPT ![ReturnSlot] = held[t]]
  /\ used' = used - 1
  /\ pc' = [pc EXCEPT ![t] = "notify"]
  /\ UNCHANGED held
\* The destructor of the wrapper: the critical section of ReturnConnection.
Return(t) ==
  /\ pc[t] = "use"
  /\ slot' = [slot EXCEPT ![ReturnSlot] = held[t]]
  /\ used' = used - 1
  /\ held' = [held EXCEPT ![t] = Null]
  /\ pc' = [pc EXCEPT ![t] = "notify"]

\* notify_one wakes some thread, if one waits.
Notify_Nobody(t) ==
  /\ pc[t] = "notify"
  /\ pc' = [pc EXCEPT ![t] = "outside"]
  /\ UNCHANGED <<slot, used, held>>
Notify(t) ==
  /\ pc[t] = "notify"
  /\ IF At("wait") = {} THEN pc' = [pc EXCEPT ![t] = "outside"]
     ELSE \E u \in At("wait") : pc' = [pc EXCEPT ![t] = "outside", ![u] = "get"]
  /\ UNCHANGED <<slot, used, held>>

Get(t) == Take(t) \/ Block(t)

Next == \E t \in Threads :
  Call(t) \/ Get(t) \/ WakeSpuriously(t) \/ Return(t) \/ Notify(t)

Spec == Init /\ [][Next]_vars

\* A transaction ends, and a thread that can run its next step runs it; nobody has
\* to call, and no wait has to end without a reason.
FairSpec == Spec /\ \A t \in Threads :
  WF_vars(Get(t)) /\ WF_vars(Return(t)) /\ WF_vars(Notify(t))

-----------------------------------------------------------------------------

\* The types of the variables.
TypeOK ==
  /\ slot \in [Slots -> Connections \cup {Null}]
  /\ used \in 0 .. Capacity
  /\ held \in [Threads -> Connections \cup {Null}]
  /\ pc \in [Threads -> Places]

\* A connection is in one place: in one free slot or with one thread.  In
\* particular nobody gets an empty pointer, and no returning thread overwrites a
\* connection that another thread has returned before.
ConnectionInOnePlace ==
  /\ \A i \in Slots : slot[i] = Null <=> i < used
  /\ \A t \in Threads : held[t] # Null <=> pc[t] = "use"
  /\ \A i, j \in Slots : slot[i] = slot[j] /\ slot[i] # Null => i = j
  /\ \A t, u \in Threads : held[t] = held[u] /\ held[t] # Null => t = u
  /\ \A i \in Slots, t \in Threads : slot[i] = held[t] => slot[i] = Null

\* As many connections are counted as used as threads have one.  (This is what
\* the assertion in ReturnConnection relies on.)
UsedCountsHolders == used = Cardinality(At("use"))

\* No wakeup is lost: for every free connection that a waiting thread could have,
\* some thread is about to look for one, or about to notify.
NoLostWakeup ==
  At("wait") # {} => Capacity - used <= Cardinality(At("get") \cup At("notify"))

\* The pool never stands still while somebody waits: some thread gets a
\* connection again and again.  (Which one, the pool does not say: a thread that
\* comes later may be faster than the one that was notified.)
WaitersAreServed ==
  []<>(At("wait") = {}) \/ []<><<\E t \in Threads : Take(t)>>_vars

\* Who has a connection, when h tells what every thread holds.
OwnerOf(h) == [r \in Connections |->
                 IF \E t \in Threads : h[t] = r THEN CHOOSE t \in Threads : h[t] = r ELSE Null]
owner == OwnerOf(held)

\* The pool hands out connections as an allocator does.
A == INSTANCE Allocator WITH Clients <- Threads, Resources <- Connections, None <- Null
Allocates == A!Spec
=============================================================================
