------------------------ MODULE ConnectionPoolProofs ------------------------
(***************************************************************************)
(* ConnectionPool for any number of threads and connections: nobody shares *)
(* or loses a connection, no wakeup is lost, and the pool implements the   *)
(* allocator.                                                              *)
(***************************************************************************)
EXTENDS ConnectionPool, FiniteSetTheorems, TLAPS

\* What the pool keeps true of its connections.  The count is needed to know that
\* used is positive when a thread returns its connection.
PoolInv == TypeOK /\ ConnectionInOnePlace /\ UsedCountsHolders

\* Sets of threads are finite, so that they can be counted.
LEMMA AtFinite ==
  /\ \A place : At(place) \subseteq Threads
  /\ \A S \in SUBSET Threads : IsFiniteSet(S) /\ Cardinality(S) \in Nat
<1>1. \A place : At(place) \subseteq Threads
  BY DEF At
<1>2. \A S \in SUBSET Threads : IsFiniteSet(S) /\ Cardinality(S) \in Nat
  BY PoolAssumption, FS_Subset, FS_CardinalityType
<1>3. QED BY <1>1, <1>2

LEMMA PoolInvInit == Init => PoolInv
<1>1. SUFFICES ASSUME Init PROVE PoolInv
  OBVIOUS
<1>2. \A i \in Slots : i + 1 \in Connections /\ i + 1 # Null /\ ~(i < 0)
  BY PoolAssumption DEF Slots, Connections
<1>3. TypeOK
  BY <1>1, <1>2, PoolAssumption DEF Init, TypeOK, Places
<1>4. \A i, j \in Slots : i + 1 = j + 1 => i = j
  BY PoolAssumption DEF Slots
<1>5. ConnectionInOnePlace
  BY <1>1, <1>2, <1>4 DEF Init, ConnectionInOnePlace
<1>6. UsedCountsHolders
  <2>1. At("use") = {}
    BY <1>1 DEF Init, At
  <2>2. QED BY <1>1, <2>1, FS_EmptySet DEF Init, UsedCountsHolders
<1>7. QED BY <1>3, <1>5, <1>6 DEF PoolInv

LEMMA TakeInv == ASSUME PoolInv, NEW t \in Threads, Take(t) PROVE PoolInv'
<1>1. used \in Slots /\ used \in Nat /\ Capacity \in Nat
  BY PoolAssumption DEF PoolInv, TypeOK, Take, HasFree, Slots
<1>2. slot[used] \in Connections /\ slot[used] # Null /\ held[t] = Null
  BY <1>1, PoolAssumption DEF PoolInv, TypeOK, ConnectionInOnePlace, Take
<1>3. TypeOK'
  BY <1>1, <1>2, PoolAssumption DEF PoolInv, TypeOK, Take, HasFree, Places
<1>4. \A i \in Slots : slot'[i] = Null <=> i < used'
  <2>1. \A i \in Slots : i < used + 1 <=> i < used \/ i = used
    BY <1>1 DEF Slots
  <2>2. QED BY <1>1, <2>1 DEF PoolInv, TypeOK, ConnectionInOnePlace, Take
<1>5. \A u \in Threads : held'[u] # Null <=> pc'[u] = "use"
  BY <1>2 DEF PoolInv, TypeOK, ConnectionInOnePlace, Take
<1>6. \A i, j \in Slots : slot'[i] = slot'[j] /\ slot'[i] # Null => i = j
  BY <1>1 DEF PoolInv, TypeOK, ConnectionInOnePlace, Take
<1>7. \A u, v \in Threads : held'[u] = held'[v] /\ held'[u] # Null => u = v
  BY <1>1, <1>2 DEF PoolInv, TypeOK, ConnectionInOnePlace, Take
<1>8. \A i \in Slots, u \in Threads : slot'[i] = held'[u] => slot'[i] = Null
  BY <1>1, <1>2 DEF PoolInv, TypeOK, ConnectionInOnePlace, Take
<1>9. UsedCountsHolders'
  <2>1. At("use")' = At("use") \cup {t} /\ t \notin At("use")
    BY DEF Take, At, PoolInv, TypeOK
  <2>2. Cardinality(At("use")') = Cardinality(At("use")) + 1
    BY <2>1, AtFinite, FS_AddElement
  <2>3. QED BY <2>2 DEF Take, PoolInv, UsedCountsHolders
<1>10. QED BY <1>3, <1>4, <1>5, <1>6, <1>7, <1>8, <1>9 DEF PoolInv, ConnectionInOnePlace

LEMMA ReturnInv == ASSUME PoolInv, NEW t \in Threads, Return(t) PROVE PoolInv'
<1>1. At("use")' = At("use") \ {t} /\ t \in At("use")
  BY DEF Return, At, PoolInv, TypeOK
<1>2. Cardinality(At("use")') = Cardinality(At("use")) - 1
  BY <1>1, AtFinite, FS_RemoveElement
<1>3. used \in Nat /\ used <= Capacity /\ Capacity \in Nat /\ used # 0
  <2>1. Cardinality(At("use")) # 0
    BY <1>1, AtFinite, FS_EmptySet
  <2>2. QED BY <2>1, PoolAssumption DEF PoolInv, TypeOK, UsedCountsHolders
<1>4. used - 1 \in Slots /\ slot[used - 1] = Null
  <2>1. used - 1 \in Slots /\ used - 1 < used
    BY <1>3 DEF Slots
  <2>2. QED BY <2>1 DEF PoolInv, ConnectionInOnePlace
<1>5. held[t] \in Connections /\ held[t] # Null
  BY DEF PoolInv, TypeOK, ConnectionInOnePlace, Return
<1>6. /\ slot' = [slot EXCEPT ![used - 1] = held[t]]
      /\ held' = [held EXCEPT ![t] = Null]
      /\ pc' = [pc EXCEPT ![t] = "notify"]
      /\ used' = used - 1
  BY DEF Return, ReturnSlot
<1>7. TypeOK'
  <2>1. used - 1 \in 0 .. Capacity
    BY <1>3
  <2>2. slot' \in [Slots -> Connections \cup {Null}]
    BY <1>5, <1>6 DEF PoolInv, TypeOK
  <2>3. held' \in [Threads -> Connections \cup {Null}]
    BY <1>6 DEF PoolInv, TypeOK
  <2>4. pc' \in [Threads -> Places]
    BY <1>6 DEF PoolInv, TypeOK, Places
  <2>5. QED BY <1>6, <2>1, <2>2, <2>3, <2>4 DEF TypeOK
<1>8. \A i \in Slots : slot'[i] = Null <=> i < used'
  <2>1. \A i \in Slots : i < used - 1 <=> i < used /\ i # used - 1
    BY <1>3 DEF Slots
  <2>2. QED BY <1>4, <1>5, <1>6, <2>1 DEF PoolInv, TypeOK, ConnectionInOnePlace
<1>9. \A u \in Threads : held'[u] # Null <=> pc'[u] = "use"
  BY <1>6 DEF PoolInv, TypeOK, ConnectionInOnePlace
<1>10. \A i, j \in Slots : slot'[i] = slot'[j] /\ slot'[i] # Null => i = j
  BY <1>4, <1>5, <1>6 DEF PoolInv, TypeOK, ConnectionInOnePlace
<1>11. \A u, v \in Threads : held'[u] = held'[v] /\ held'[u] # Null => u = v
  BY <1>6 DEF PoolInv, TypeOK, ConnectionInOnePlace
<1>12. \A i \in Slots, u \in Threads : slot'[i] = held'[u] => slot'[i] = Null
  BY <1>4, <1>5, <1>6 DEF PoolInv, TypeOK, ConnectionInOnePlace
<1>13. UsedCountsHolders'
  BY <1>2, <1>6 DEF PoolInv, UsedCountsHolders
<1>14. QED BY <1>7, <1>8, <1>9, <1>10, <1>11, <1>12, <1>13 DEF PoolInv, ConnectionInOnePlace

\* A step that only moves threads between places, none of them "use".
LEMMA MoveInv ==
  ASSUME PoolInv, UNCHANGED <<slot, used, held>>, pc' \in [Threads -> Places],
         \A u \in Threads : pc'[u] = "use" <=> pc[u] = "use"
  PROVE  PoolInv'
<1>1. At("use")' = At("use")
  BY DEF At
<1>2. QED BY <1>1 DEF PoolInv, TypeOK, ConnectionInOnePlace, UsedCountsHolders

LEMMA NextInv == PoolInv /\ [Next]_vars => PoolInv'
<1>1. SUFFICES ASSUME PoolInv, [Next]_vars PROVE PoolInv'
  OBVIOUS
<1>2. pc \in [Threads -> Places]
  BY <1>1 DEF PoolInv, TypeOK
<1>3. ASSUME NEW t \in Threads, Call(t) PROVE PoolInv'
  BY <1>1, <1>2, <1>3, MoveInv DEF Call, Places
<1>4. ASSUME NEW t \in Threads, Take(t) PROVE PoolInv'
  BY <1>1, <1>4, TakeInv
<1>5. ASSUME NEW t \in Threads, Block(t) PROVE PoolInv'
  BY <1>1, <1>2, <1>5, MoveInv DEF Block, Places
<1>6. ASSUME NEW t \in Threads, WakeSpuriously(t) PROVE PoolInv'
  BY <1>1, <1>2, <1>6, MoveInv DEF WakeSpuriously, Places
<1>7. ASSUME NEW t \in Threads, Return(t) PROVE PoolInv'
  BY <1>1, <1>7, ReturnInv
<1>8. ASSUME NEW t \in Threads, Notify(t) PROVE PoolInv'
  BY <1>1, <1>2, <1>8, MoveInv DEF Notify, At, Places
<1>9. CASE UNCHANGED vars
  BY <1>1, <1>9 DEF vars, PoolInv, TypeOK, ConnectionInOnePlace, UsedCountsHolders, At
<1>10. QED BY <1>1, <1>3, <1>4, <1>5, <1>6, <1>7, <1>8, <1>9 DEF Next, Get

LEMMA PoolInvariant == Spec => []PoolInv
  BY PoolInvInit, NextInv, PTL DEF Spec

\* Nobody shares, loses or invents a connection, and the counter of the pool is the
\* number of threads that have one, however many threads use the pool.
THEOREM PoolSafety == Spec => [](ConnectionInOnePlace /\ UsedCountsHolders)
  BY PoolInvariant, PTL DEF PoolInv

-----------------------------------------------------------------------------
(* Wakeups *)

Alert == At("get") \cup At("notify")

LEMMA AlertCount ==
  ASSUME NEW t \in Threads
  PROVE  /\ Cardinality(Alert) \in Nat
         /\ t \notin Alert => Cardinality(Alert \cup {t}) = Cardinality(Alert) + 1
         /\ t \in Alert => Cardinality(Alert \ {t}) = Cardinality(Alert) - 1
<1>1. IsFiniteSet(Alert) /\ Cardinality(Alert) \in Nat
  BY AtFinite DEF Alert
<1>2. QED BY <1>1, FS_AddElement, FS_RemoveElement

LEMMA NoLostWakeupStep ==
  ASSUME PoolInv, NoLostWakeup, [Next]_vars PROVE NoLostWakeup'
<1>1. used \in 0 .. Capacity /\ Capacity \in Nat /\ pc \in [Threads -> Places]
  BY PoolAssumption DEF PoolInv, TypeOK
<1>2. NoLostWakeup <=> (At("wait") # {} => Capacity - used <= Cardinality(Alert))
  BY DEF NoLostWakeup, Alert
<1>3. NoLostWakeup' <=> (At("wait")' # {} => Capacity - used' <= Cardinality(Alert'))
  BY DEF NoLostWakeup, Alert
<1>4. ASSUME NEW t \in Threads, Call(t) PROVE NoLostWakeup'
  <2>1. At("wait")' = At("wait") /\ t \notin Alert /\ Alert' = Alert \cup {t} /\ used' = used
    BY <1>1, <1>4 DEF Call, At, Alert
  <2>2. QED BY <1>1, <1>2, <1>3, <2>1, AlertCount
<1>5. ASSUME NEW t \in Threads, Take(t) PROVE NoLostWakeup'
  <2>1. At("wait")' = At("wait") /\ t \in Alert /\ Alert' = Alert \ {t} /\ used' = used + 1
    BY <1>1, <1>5 DEF Take, At, Alert
  <2>2. QED BY <1>1, <1>2, <1>3, <2>1, AlertCount
<1>6. ASSUME NEW t \in Threads, Block(t) PROVE NoLostWakeup'
  <2>1. Capacity - used' = 0
    BY <1>1, <1>6 DEF Block, HasFree
  <2>2. Alert' \subseteq Threads
    BY DEF Alert, At
  <2>3. Cardinality(Alert') \in Nat
    BY <2>2, AtFinite
  <2>4. QED BY <1>3, <2>1, <2>3
<1>7. ASSUME NEW t \in Threads, WakeSpuriously(t) PROVE NoLostWakeup'
  <2>1. /\ At("wait") # {} /\ t \notin Alert /\ Alert' = Alert \cup {t} /\ used' = used
    BY <1>1, <1>7 DEF WakeSpuriously, At, Alert
  <2>2. QED BY <1>1, <1>2, <1>3, <2>1, AlertCount
<1>8. ASSUME NEW t \in Threads, Return(t) PROVE NoLostWakeup'
  <2>1. /\ At("wait")' = At("wait") /\ t \notin Alert /\ Alert' = Alert \cup {t}
        /\ used' = used - 1
    BY <1>1, <1>8 DEF Return, At, Alert
  <2>2. QED BY <1>1, <1>2, <1>3, <2>1, AlertCount
<1>9. ASSUME NEW t \in Threads, Notify(t) PROVE NoLostWakeup'
  <2>1. CASE At("wait") = {}
    <3>1. At("wait")' = {}
      BY <1>1, <1>9, <2>1 DEF Notify, At
    <3>2. QED BY <1>3, <3>1
  <2>2. ASSUME NEW u \in At("wait"), pc' = [pc EXCEPT ![t] = "outside", ![u] = "get"]
        PROVE  NoLostWakeup'
    <3>1. u \in Threads /\ pc[u] = "wait" /\ pc[t] = "notify" /\ used' = used
      BY <1>9, <2>2 DEF At, Notify
    <3>2. t \in Alert /\ u \notin Alert
      BY <3>1 DEF At, Alert
    <3>3. Alert' = (Alert \ {t}) \cup {u}
      BY <1>1, <2>2, <3>1 DEF At, Alert
    <3>4. Cardinality(Alert') = Cardinality(Alert)
      <4>1. IsFiniteSet(Alert \ {t}) /\ u \notin Alert \ {t}
        BY <3>2, AtFinite DEF Alert
      <4>2. Cardinality((Alert \ {t}) \cup {u}) = Cardinality(Alert \ {t}) + 1
        BY <4>1, FS_AddElement
      <4>3. Cardinality(Alert \ {t}) = Cardinality(Alert) - 1 /\ Cardinality(Alert) \in Nat
        BY <3>2, AlertCount
      <4>4. QED BY <3>3, <4>2, <4>3
    <3>5. At("wait") # {}
      BY <2>2
    <3>6. QED BY <1>2, <1>3, <3>1, <3>4, <3>5
  <2>3. QED BY <1>9, <2>1, <2>2 DEF Notify
<1>10. CASE UNCHANGED vars
  <2>1. used' = used /\ At("wait")' = At("wait") /\ Alert' = Alert
    BY <1>10 DEF vars, At, Alert
  <2>2. QED BY <1>2, <1>3, <2>1
<1>11. QED BY <1>4, <1>5, <1>6, <1>7, <1>8, <1>9, <1>10 DEF Next, Get

\* A connection is never free while all threads that could take it sleep.
THEOREM WakeupsAreNotLost == Spec => []NoLostWakeup
<1>1. Init => NoLostWakeup
  <2>1. Init => At("wait") = {}
    BY DEF Init, At
  <2>2. QED BY <2>1 DEF NoLostWakeup
<1>2. QED BY <1>1, PoolInvariant, NoLostWakeupStep, PTL DEF Spec

-----------------------------------------------------------------------------
(* The allocator *)

\* The owner of a connection is the thread that holds it.
LEMMA OwnerHolds ==
  ASSUME NEW h \in [Threads -> Connections \cup {Null}],
         \A t, u \in Threads : h[t] = h[u] /\ h[t] # Null => t = u,
         NEW r \in Connections
  PROVE  /\ \A t \in Threads : OwnerOf(h)[r] = t <=> h[t] = r
         /\ OwnerOf(h)[r] = Null <=> \A t \in Threads : h[t] # r
         /\ OwnerOf(h)[r] \in Threads \cup {Null}
<1>1. r # Null /\ Null \notin Threads
  BY PoolAssumption DEF Connections
<1>2. CASE \E t \in Threads : h[t] = r
  <2> DEFINE holder == CHOOSE t \in Threads : h[t] = r
  <2>1. holder \in Threads /\ h[holder] = r
    BY <1>2
  <2>2. OwnerOf(h)[r] = holder
    BY <1>2 DEF OwnerOf
  <2> HIDE DEF holder
  <2>3. QED BY <1>1, <2>1, <2>2
<1>3. CASE ~ \E t \in Threads : h[t] = r
  BY <1>1, <1>3 DEF OwnerOf
<1>4. QED BY <1>2, <1>3

\* When a thread's holding changes from a to b, so do the owners of a and b.
LEMMA OwnerChanges ==
  ASSUME NEW h \in [Threads -> Connections \cup {Null}],
         NEW t \in Threads, NEW b \in Connections \cup {Null},
         NEW g \in [Threads -> Connections \cup {Null}],
         \A u \in Threads : g[u] = IF u = t THEN b ELSE h[u],
         \A u, v \in Threads : h[u] = h[v] /\ h[u] # Null => u = v,
         b # Null => \A u \in Threads : h[u] # b
  PROVE  \A r \in Connections :
           OwnerOf(g)[r] = IF r = b THEN t ELSE IF r = h[t] THEN Null ELSE OwnerOf(h)[r]
<1>1. \A u, v \in Threads : g[u] = g[v] /\ g[u] # Null => u = v
  OBVIOUS
<1>2. SUFFICES ASSUME NEW r \in Connections
               PROVE  OwnerOf(g)[r] = IF r = b THEN t ELSE IF r = h[t] THEN Null ELSE OwnerOf(h)[r]
  OBVIOUS
<1>3. /\ \A u \in Threads : OwnerOf(g)[r] = u <=> g[u] = r
      /\ OwnerOf(g)[r] = Null <=> \A u \in Threads : g[u] # r
  BY <1>1, OwnerHolds
<1>4. /\ \A u \in Threads : OwnerOf(h)[r] = u <=> h[u] = r
      /\ OwnerOf(h)[r] = Null <=> \A u \in Threads : h[u] # r
      /\ OwnerOf(h)[r] \in Threads \cup {Null}
  BY OwnerHolds
<1>5. r # Null
  BY PoolAssumption DEF Connections
<1>6. QED BY <1>3, <1>4, <1>5

LEMMA TakeAcquires ==
  ASSUME PoolInv, NEW t \in Threads, Take(t)
  PROVE  A!Acquire(t, slot[used]) /\ slot[used] \in Connections
<1> DEFINE c == slot[used]
<1>1. held' = [held EXCEPT ![t] = c] /\ used \in Slots
  BY PoolAssumption DEF Take, HasFree, Slots, PoolInv, TypeOK
<1>2. c \in Connections /\ held[t] = Null /\ c # Null
  BY <1>1, PoolAssumption DEF PoolInv, TypeOK, ConnectionInOnePlace, Take
<1>3. \A u \in Threads : held[u] # c
  BY <1>1, <1>2 DEF PoolInv, ConnectionInOnePlace
<1>4. /\ held \in [Threads -> Connections \cup {Null}]
      /\ \A u, v \in Threads : held[u] = held[v] /\ held[u] # Null => u = v
  BY DEF PoolInv, TypeOK, ConnectionInOnePlace
<1>5. \A r \in Connections : r # Null
  BY PoolAssumption DEF Connections
<1> HIDE DEF c
<1>6. owner[c] = Null /\ \A r \in Connections : owner[r] # t
  BY <1>2, <1>3, <1>4, <1>5, OwnerHolds DEF owner
<1>7. \A r \in Connections :
        OwnerOf(held')[r] = IF r = c THEN t ELSE IF r = held[t] THEN Null ELSE OwnerOf(held)[r]
  <2>1. /\ held' \in [Threads -> Connections \cup {Null}]
        /\ \A u \in Threads : held'[u] = IF u = t THEN c ELSE held[u]
    BY <1>1, <1>2, <1>4
  <2>2. QED BY <1>2, <1>3, <1>4, <2>1, OwnerChanges
<1>8. owner' = OwnerOf(held')
  BY DEF owner
<1>9. \A r \in Connections : owner'[r] = IF r = c THEN t ELSE owner[r]
  BY <1>2, <1>5, <1>7, <1>8 DEF owner
<1>10. owner' = [owner EXCEPT ![c] = t]
  BY <1>9 DEF owner, OwnerOf
<1>11. QED BY <1>2, <1>6, <1>10 DEF A!Acquire, c

LEMMA ReturnReleases ==
  ASSUME PoolInv, NEW t \in Threads, Return(t)
  PROVE  A!Release(t, held[t]) /\ held[t] \in Connections
<1> DEFINE c == held[t]
<1>1. held' = [held EXCEPT ![t] = Null]
  BY DEF Return
<1>2. c \in Connections
  BY DEF PoolInv, TypeOK, ConnectionInOnePlace, Return
<1>3. /\ held \in [Threads -> Connections \cup {Null}]
      /\ \A u, v \in Threads : held[u] = held[v] /\ held[u] # Null => u = v
  BY DEF PoolInv, TypeOK, ConnectionInOnePlace
<1>4. \A r \in Connections : r # Null
  BY PoolAssumption DEF Connections
<1>5. owner[c] = t
  BY <1>2, <1>3, OwnerHolds DEF owner
<1>6. \A r \in Connections :
        OwnerOf(held')[r] = IF r = Null THEN t ELSE IF r = c THEN Null ELSE OwnerOf(held)[r]
  <2>1. /\ held' \in [Threads -> Connections \cup {Null}]
        /\ \A u \in Threads : held'[u] = IF u = t THEN Null ELSE held[u]
    BY <1>1, <1>3
  <2>2. QED BY <1>3, <2>1, OwnerChanges
<1>7. owner' = OwnerOf(held')
  BY DEF owner
<1> HIDE DEF c
<1>8. \A r \in Connections : owner'[r] = IF r = c THEN Null ELSE owner[r]
  BY <1>4, <1>6, <1>7 DEF owner
<1>9. owner' = [owner EXCEPT ![c] = Null]
  BY <1>8 DEF owner, OwnerOf
<1>10. QED BY <1>2, <1>5, <1>9 DEF A!Release, c

LEMMA StepAllocates ==
  ASSUME PoolInv, [Next]_vars PROVE [A!Next]_owner
<1>1. ASSUME held' = held PROVE owner' = owner
  BY <1>1 DEF owner
<1>2. ASSUME NEW t \in Threads, Take(t) PROVE A!Next
  BY <1>2, TakeAcquires DEF A!Next
<1>3. ASSUME NEW t \in Threads, Return(t) PROVE A!Next
  BY <1>3, ReturnReleases DEF A!Next
<1>4. QED
  BY <1>1, <1>2, <1>3 DEF Next, Get, Call, Block, WakeSpuriously, Notify, vars

LEMMA InitAllocates == Init => A!Init
<1>1. SUFFICES ASSUME Init PROVE A!Init
  OBVIOUS
<1>2. \A r \in Connections : r # Null
  BY PoolAssumption DEF Connections
<1>3. QED BY <1>1, <1>2 DEF Init, owner, OwnerOf, A!Init

\* The pool hands its connections out, and takes them back, as an allocator does.
THEOREM PoolAllocates == Spec => Allocates
  BY PoolInvariant, InitAllocates, StepAllocates, PTL DEF Spec, Allocates, A!Spec
=============================================================================
