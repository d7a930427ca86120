-------------------------- MODULE GameServerProofs --------------------------
(***************************************************************************)
(* Theorems about the server process, for any number of players, workers,  *)
(* failures and restarts: what a state file holds is a game that can go    *)
(* on, nobody is forgotten or recorded twice beyond what an unsaved end    *)
(* costs, saves come on time, and a restart resumes the game.              *)
(***************************************************************************)
EXTENDS GameServerProps, GameSessionProofs

-----------------------------------------------------------------------------
(* The order of the players *)

LEMMA RangeAppend ==
  ASSUME NEW T, NEW s \in Seq(T), NEW x \in T
  PROVE  Range(Append(s, x)) = Range(s) \cup {x}
<1>1. /\ DOMAIN Append(s, x) = DOMAIN s \cup {Len(s) + 1}
      /\ \A i \in DOMAIN s : Append(s, x)[i] = s[i]
      /\ Append(s, x)[Len(s) + 1] = x
  OBVIOUS
<1>2. QED BY <1>1 DEF Range

\* The members of s in S are those of both; if all are, nothing is left out.
LEMMA AmongProperties ==
  ASSUME NEW T, NEW s \in Seq(T), NEW S
  PROVE  /\ Among(s, S) \in Seq(T)
         /\ Range(Among(s, S)) = Range(s) \cap S
         /\ Range(s) \subseteq S => Among(s, S) = s
<1> DEFINE n == Len(s)
           Step(kept, x) == IF x \in S THEN Append(kept, x) ELSE kept
           F == [p \in Seq(T) \X T |-> Step(p[1], p[2])]
           h == CHOOSE h : h = [I \in SUBSET DOMAIN s |->
                  IF I = {} THEN <<>> ELSE Step(h[I \ {Max(I)}], s[Max(I)])]
<1>1. Among(s, S) = h[DOMAIN s]
  BY DEF Among, FoldLeft, MapThenFoldSet
<1>2. n \in Nat /\ DOMAIN s = 1 .. n /\ s \in [1 .. n -> T]
  OBVIOUS
<1>3. \A v \in Seq(T), x \in T : F[<<v, x>>] = Step(v, x) /\ Step(v, x) \in Seq(T)
  OBVIOUS
<1>4. <<>> \in Seq(T)
  OBVIOUS
<1>5. \A I \in SUBSET (1 .. n) : I # {} => Max(I) \in 1 .. n
  BY <1>2, MaxOf
<1>6. PICK g \in [SUBSET (1 .. n) -> Seq(T)] :
        \A I \in SUBSET (1 .. n) :
          g[I] = IF I = {} THEN <<>> ELSE F[<<g[I \ {Max(I)}], s[Max(I)]>>]
  <2>1. \A i \in 1 .. n, v \in Seq(T) : F[<<v, s[i]>>] \in Seq(T)
    BY <1>2, <1>3
  <2> DEFINE V == Seq(T)
             base == <<>>
  <2>2. \A i \in 1 .. n, v \in V : F[<<v, s[i]>>] \in V
    BY <2>1
  <2>3. base \in V /\ n \in Nat
    BY <1>2, <1>4
  <2> HIDE DEF F, n, V, base
  <2>4. \E g \in [SUBSET (1 .. n) -> V] : Folds(g, n, s, base, F)
    BY <2>2, <2>3, FoldExists
  <2>5. QED BY <2>4 DEF Folds, V, base
<1>7. g = [I \in SUBSET (1 .. n) |->
             IF I = {} THEN <<>> ELSE Step(g[I \ {Max(I)}], s[Max(I)])]
  <2>1. ASSUME NEW I \in SUBSET (1 .. n), I # {}
        PROVE  F[<<g[I \ {Max(I)}], s[Max(I)]>>] = Step(g[I \ {Max(I)}], s[Max(I)])
    <3>1. s[Max(I)] \in T /\ I \ {Max(I)} \in SUBSET (1 .. n)
      BY <1>2, <1>5, <2>1
    <3>2. g[I \ {Max(I)}] \in Seq(T)
      BY <1>6, <3>1
    <3> HIDE DEF F, Step
    <3>3. QED BY <1>3, <3>1, <3>2
  <2> HIDE DEF F, Step
  <2>2. QED BY <1>6, <2>1
<1>8. h = [I \in SUBSET (1 .. n) |->
             IF I = {} THEN <<>> ELSE Step(h[I \ {Max(I)}], s[Max(I)])]
  <2> HIDE DEF Step
  <2>1. QED BY <1>2, <1>7
<1> HIDE DEF h, F, n
<1>9. h[{}] = <<>>
  BY <1>8
<1>10. ASSUME NEW i \in 1 .. n PROVE h[1 .. i] = Step(h[1 .. i - 1], s[i])
  <2>1. /\ 1 .. i \in SUBSET (1 .. n) /\ 1 .. i # {} /\ Max(1 .. i) = i
        /\ (1 .. i) \ {Max(1 .. i)} = 1 .. i - 1
    BY <1>2, FoldSteps
  <2> HIDE DEF Step
  <2>2. QED BY <1>8, <2>1
<1> DEFINE P == {i \in 0 .. n : /\ h[1 .. i] \in Seq(T)
                                /\ Range(h[1 .. i]) = {s[j] : j \in 1 .. i} \cap S
                                /\ Range(s) \subseteq S => h[1 .. i] = SubSeq(s, 1, i)}
<1>11. 0 \in P
  <2>1. 1 .. 0 = {} /\ DOMAIN <<>> = {} /\ SubSeq(s, 1, 0) = <<>>
    OBVIOUS
  <2>2. h[1 .. 0] = <<>>
    BY <1>9, <2>1
  <2>3. Range(<<>>) = {} /\ {s[j] : j \in 1 .. 0} = {}
    BY <2>1 DEF Range
  <2>4. h[1 .. 0] \in Seq(T)
    BY <1>4, <2>2
  <2>5. Range(h[1 .. 0]) = {s[j] : j \in 1 .. 0} \cap S
    BY <2>2, <2>3
  <2>6. h[1 .. 0] = SubSeq(s, 1, 0) /\ 0 \in 0 .. n
    BY <1>2, <2>1, <2>2
  <2>7. QED BY <2>4, <2>5, <2>6
<1>12. ASSUME NEW i \in 1 .. n, i - 1 \in P PROVE i \in P
  <2> DEFINE v == h[1 .. i - 1]
  <2>1. /\ v \in Seq(T) /\ Range(v) = {s[j] : j \in 1 .. i - 1} \cap S
        /\ Range(s) \subseteq S => v = SubSeq(s, 1, i - 1)
    BY <1>12
  <2>2. h[1 .. i] = Step(v, s[i]) /\ s[i] \in T
    BY <1>2, <1>10
  <2>3. h[1 .. i] \in Seq(T)
    BY <2>1, <2>2
  <2>4. {s[j] : j \in 1 .. i} = {s[j] : j \in 1 .. i - 1} \cup {s[i]}
    <3>1. 1 .. i = (1 .. i - 1) \cup {i}
      OBVIOUS
    <3>2. QED BY <3>1
  <2>5. Range(Append(v, s[i])) = Range(v) \cup {s[i]}
    BY <2>1, <2>2, RangeAppend
  <2>6. Range(s) \subseteq S => h[1 .. i] = SubSeq(s, 1, i)
    <3>1. SUFFICES ASSUME Range(s) \subseteq S PROVE h[1 .. i] = SubSeq(s, 1, i)
      OBVIOUS
    <3>2. s[i] \in S
      BY <1>2, <3>1 DEF Range
    <3>3. h[1 .. i] = Append(SubSeq(s, 1, i - 1), s[i])
      BY <2>1, <2>2, <3>1, <3>2
    <3>4. Append(SubSeq(s, 1, i - 1), s[i]) = SubSeq(s, 1, i)
      BY <1>2
    <3>5. QED BY <3>3, <3>4
  <2> HIDE DEF v
  <2>7. Range(h[1 .. i]) = {s[j] : j \in 1 .. i} \cap S
    BY <2>1, <2>2, <2>4, <2>5
  <2>8. QED BY <2>3, <2>6, <2>7
<1> HIDE DEF P, Step
<1>13. n \in P
  <2>1. 0 .. n \subseteq P
    BY <1>2, <1>11, <1>12, NatSetInduction
  <2>2. QED BY <1>2, <2>1
<1>14. Range(s) = {s[j] : j \in 1 .. n} /\ SubSeq(s, 1, n) = s
  BY <1>2 DEF Range, n
<1>15. QED BY <1>1, <1>2, <1>13, <1>14 DEF P

-----------------------------------------------------------------------------
(* What is in the file *)

Row == [token : Tokens, score : Int, play : Nat]

\* The lost objects and the bags of a game: bags within their capacity, every id
\* below n in one place, and none lost.
LootKept(objects, bags, done, n) ==
  LET In(t)     == {bags[t][i].id : i \in DOMAIN bags[t]}
      On        == {o.id : o \in objects}
      Office    == {d.id : d \in done.delivered}
      Forfeit   == {i.id : i \in done.forfeited}
  IN /\ \A t \in Tokens : Len(bags[t]) <= BagCapacity
     /\ \A o, q \in objects : o.id = q.id => o = q
     /\ \A t \in Tokens : \A i, j \in DOMAIN bags[t] : bags[t][i].id = bags[t][j].id => i = j
     /\ \A t, u \in Tokens : t # u => In(t) \cap In(u) = {}
     /\ \A t \in Tokens : In(t) \cap (On \cup Office \cup Forfeit) = {}
     /\ On \cap (Office \cup Forfeit) = {} /\ Office \cap Forfeit = {}
     /\ On \cup (UNION {In(t) : t \in Tokens}) \cup Office \cup Forfeit = 0 .. n - 1

\* A file from which a game can go on: whoever is in it has an entry and stands on a
\* road, and its objects are in order.
BagsOf(s) == [t \in Tokens |-> Entry(s, t).bag]
GoodGame(s) ==
  /\ s \in Games(Range(s.order)) /\ Range(s.order) \subseteq Tokens
  /\ \A t \in Range(s.order) : OnSomeRoad(s.player[t].pos)
  /\ IsFiniteSet(s.lost)
  /\ LootKept(s.lost, BagsOf(s), s.ledger, s.nextId)

\* Only players carry and pass loot.
PlayersOnly ==
  /\ \A t \in Tokens \ players : bag[t] = <<>>
  /\ \A e \in events : e.who \in players

\* How far the process is: OnTick records after the tick, and a process that is
\* down has nothing in memory.
ProcessOK ==
  /\ mode \in {"Serving", "Unwinding", "Down"} /\ stage \in {"Ready", "Record"}
  /\ tickTime \in Nat /\ sinceSave \in Nat
  /\ pending \subseteq Row
  /\ stage = "Ready" => pending = {}
  /\ stage = "Record" => phase = "Idle"
  /\ mode = "Down" => stage = "Ready" /\ phase = "Idle" /\ players = {}

ServerInv ==
  /\ DogsInv /\ LootInv /\ PlayersOnly /\ ProcessOK
  /\ file \in {NoFile, Corrupt} \/ GoodGame(file)

LootKeptHere ==
  LootKept(lost, bag, ledger, nextId) <=> BagsWithinCapacity /\ LootInOnePlace /\ LootAccounted

LEMMA LootKeptNow == LootKeptHere
BY DEF LootKeptHere, LootKept, BagsWithinCapacity, LootInOnePlace, LootAccounted,
       OnMap, Carried, Delivered, Forfeited

LEMMA LootKeptNext == LootKeptHere'
BY LootKeptNow, PTL

LEMMA LivePlayersAre ==
  ASSUME DogsInv
  PROVE  LivePlayers \in Seq(Tokens) /\ Range(LivePlayers) = players
<1>1. dogs \in Seq(Tokens) /\ players \subseteq Range(dogs)
  BY DEF DogsInv, TypeOK, PlayersAreLiveDogs, Joined
<1>2. Among(dogs, players) \in Seq(Tokens) /\ Range(Among(dogs, players)) = Range(dogs) \cap players
  BY <1>1, AmongProperties
<1>3. QED BY <1>1, <1>2 DEF LivePlayers

\* The types of what is saved.
LEMMA SnapshotTyping ==
  ASSUME DogsInv
  PROVE  /\ Snapshot \in Games(players)
         /\ \A t \in players :
              Entry(Snapshot, t) = [pos |-> pos[t], vel |-> vel[t], bag |-> bag[t],
                                    score |-> score[t], idle |-> idle[t], play |-> play[t]]
<1> DEFINE e == [t \in players |-> [pos |-> pos[t], vel |-> vel[t], bag |-> bag[t],
                                    score |-> score[t], idle |-> idle[t], play |-> play[t]]]
<1>1. LivePlayers \in Seq(Tokens) /\ Range(LivePlayers) = players
  BY LivePlayersAre
<1>2. LivePlayers \in Seq(players)
  <2>1. \A i \in 1 .. Len(LivePlayers) : LivePlayers[i] \in players
    BY <1>1 DEF Range
  <2>2. QED BY <1>1, <2>1
<1>3. e \in [players -> Entries]
  BY DEF Entries, DogsInv, TypeOK
<1>4. /\ lost \in SUBSET Lost /\ nextId \in Nat
      /\ ledger \in [delivered : SUBSET Delivery, forfeited : SUBSET Item]
  BY DEF DogsInv, TypeOK
<1>5. Snapshot = [order |-> LivePlayers, lost |-> lost, nextId |-> nextId, ledger |-> ledger, player |-> e]
  BY DEF Snapshot
<1>6. Snapshot \in Games(players)
  <2> HIDE DEF e
  <2>1. QED BY <1>2, <1>3, <1>4, <1>5 DEF Games
<1>7. QED BY <1>1, <1>5, <1>6 DEF Entry

\* What is saved can go on, and names the players.
LEMMA SnapshotIsGood ==
  ASSUME DogsInv, LootInv, PlayersOnly
  PROVE  GoodGame(Snapshot) /\ Range(Snapshot.order) = players
<1>1. Snapshot.order = LivePlayers /\ Range(LivePlayers) = players /\ players \subseteq Tokens
  BY LivePlayersAre DEF Snapshot, DogsInv, TypeOK
<1>2. /\ Snapshot \in Games(players)
      /\ Snapshot.lost = lost /\ Snapshot.ledger = ledger /\ Snapshot.nextId = nextId
  BY SnapshotTyping DEF Snapshot
<1>3. \A t \in players : OnSomeRoad(Snapshot.player[t].pos)
  BY DEF Snapshot, DogsInv, PlayersAreLiveDogs, DogsOnRoads
<1>4. BagsOf(Snapshot) = bag
  <2>1. \A t \in players : Entry(Snapshot, t).bag = bag[t]
    BY SnapshotTyping
  <2>2. \A t \in Tokens \ players : Entry(Snapshot, t).bag = bag[t]
    BY <1>1 DEF Entry, PlayersOnly
  <2>3. bag \in [Tokens -> Seq(Item)]
    BY DEF DogsInv, TypeOK
  <2>4. bag = [t \in Tokens |-> Entry(Snapshot, t).bag]
    BY <2>1, <2>2, <2>3
  <2>5. QED BY <2>4 DEF BagsOf
<1>5. LootKept(lost, bag, ledger, nextId)
  BY LootKeptNow DEF LootKeptHere, LootInv
<1>6. IsFiniteSet(lost)
  BY DEF DogsInv, TypeOK
<1>7. QED BY <1>1, <1>2, <1>3, <1>4, <1>5, <1>6 DEF GoodGame

\* What a good file restores satisfies the invariants of a session.
LEMMA RestoreGood ==
  ASSUME NEW s, GoodGame(s), Restore(s)
  PROVE  DogsInv' /\ LootInv' /\ PlayersOnly' /\ players' = Range(s.order)
<1> DEFINE S == Range(s.order)
<1>1. /\ S \subseteq Tokens /\ s.order \in Seq(S) /\ s.player \in [S -> Entries]
      /\ s.lost \subseteq Lost /\ IsFiniteSet(s.lost) /\ s.nextId \in Nat
      /\ s.ledger \in [delivered : SUBSET Delivery, forfeited : SUBSET Item]
      /\ \A t \in S : OnSomeRoad(s.player[t].pos)
  BY DEF GoodGame, Games
<1>2. \A t \in Tokens : Entry(s, t) \in Entries
  <2>1. Pt(0, 0) \in Point /\ Still \in Point /\ <<>> \in Seq(Item)
    BY DEF Pt, Still, Point
  <2>2. QED BY <1>1, <2>1 DEF Entry, Entries
<1>3. \A t \in S : Entry(s, t) = s.player[t]
  BY DEF Entry
<1>4. /\ dogs' = s.order /\ players' = S /\ retired' = {}
      /\ pos' = [t \in Tokens |-> Entry(s, t).pos]
      /\ vel' = [t \in Tokens |-> Entry(s, t).vel]
      /\ bag' = [t \in Tokens |-> Entry(s, t).bag]
      /\ score' = [t \in Tokens |-> Entry(s, t).score]
      /\ idle' = [t \in Tokens |-> Entry(s, t).idle]
      /\ play' = [t \in Tokens |-> Entry(s, t).play]
      /\ lost' = s.lost /\ nextId' = s.nextId /\ waited' = 0
      /\ phase' = "Idle" /\ delta' = 0 /\ events' = {} /\ handed' = {}
      /\ ledger' = s.ledger
  BY DEF Restore
<1>5. Joined' = S
  BY <1>4 DEF Joined
<1>6. TypeOK'
  <2>1. /\ pos' \in [Tokens -> Point] /\ vel' \in [Tokens -> Point]
        /\ bag' \in [Tokens -> Seq(Item)] /\ score' \in [Tokens -> Int]
        /\ idle' \in [Tokens -> Nat] /\ play' \in [Tokens -> Nat]
    BY <1>2, <1>4 DEF Entries
  <2>2. dogs' \in Seq(Tokens)
    BY <1>1, <1>4
  <2>3. waited' \in 0 .. MaxWait
    BY <1>4, ChanceAssumption
  <2>4. QED BY <1>1, <1>4, <2>1, <2>2, <2>3 DEF TypeOK
<1>7. PlayersAreLiveDogs' /\ DogsOnRoads'
  <2>1. \A t \in S : pos'[t] = s.player[t].pos
    BY <1>1, <1>3, <1>4
  <2>2. QED BY <1>1, <1>4, <1>5, <2>1 DEF PlayersAreLiveDogs, DogsOnRoads
<1>8. LootKept(lost', bag', ledger', nextId')
  BY <1>4 DEF GoodGame, BagsOf
<1>9. BagsWithinCapacity' /\ LootInOnePlace' /\ LootAccounted'
  BY <1>8, LootKeptNext DEF LootKeptHere
<1>10. PlayersOnly'
  BY <1>4 DEF PlayersOnly, Entry
<1>11. QED BY <1>4, <1>5, <1>6, <1>7, <1>9, <1>10 DEF DogsInv, LootInv

\* Without a file, or with the process gone, the session is the initial one.
LEMMA RestoreNew ==
  ASSUME Restore(NewGame)
  PROVE  DogsInv' /\ LootInv' /\ PlayersOnly' /\ players' = {} /\ phase' = "Idle"
<1>1. NewGame.order = <<>> /\ Range(<<>>) = {}
  <2>1. DOMAIN <<>> = {}
    OBVIOUS
  <2>2. QED BY <2>1 DEF NewGame, Range
<1>2. \A t : Entry(NewGame, t) = [pos |-> Pt(0, 0), vel |-> Still, bag |-> <<>>,
                                  score |-> 0, idle |-> 0, play |-> 0]
  BY <1>1 DEF Entry
<1>3. Init'
  BY <1>1, <1>2 DEF Init, Restore, NewGame
<1>4. Init' => DogsInv' /\ LootInv'
  BY DogsInvInit, LootInvInit, PTL
<1>5. PlayersOnly'
  BY <1>3 DEF Init, PlayersOnly
<1>6. QED BY <1>3, <1>4, <1>5 DEF Init

-----------------------------------------------------------------------------
(* The process *)

LEMMA PlayersOnlyStep ==
  ASSUME DogsInv, PlayersOnly, [Next]_vars
  PROVE  PlayersOnly'
<1>1. players \subseteq Tokens /\ bag \in [Tokens -> Seq(Item)]
  BY DEF DogsInv, TypeOK
<1>2. ASSUME bag' = bag, players \subseteq players', events' \subseteq events PROVE PlayersOnly'
  BY <1>2 DEF PlayersOnly
<1>3. ASSUME NEW t \in Tokens, NEW p \in SpawnPoints, Join(t, p) PROVE PlayersOnly'
  BY <1>2, <1>3 DEF Join, tickVars
<1>4. ASSUME NEW t \in Tokens, NEW move \in Moves, Action(t, move) PROVE PlayersOnly'
  BY <1>2, <1>4 DEF Action, playerVars, tickVars
<1>5. ASSUME NEW dt \in Deltas, TickBegin(dt) PROVE PlayersOnly'
  <2>1. UNCHANGED <<players, bag>> /\ events' = FindGatherEvents(Gatherers, Items)
    BY <1>5 DEF TickBegin, playerVars
  <2>2. \A g \in Gatherers : g.who \in players
    BY DEF Gatherers
  <2>3. \A e \in events' : e.who \in players
    BY <2>1, <2>2 DEF FindGatherEvents
  <2>4. QED BY <2>1, <2>3 DEF PlayersOnly
<1>6. ASSUME NEW e \in events, Gather(e) PROVE PlayersOnly'
  <2>1. players' = players /\ events' = events \ {e} /\ (PickUp(e) \/ ReturnBag(e))
    BY <1>6 DEF Gather
  <2>2. \A t \in Tokens : t # e.who => bag'[t] = bag[t]
    BY <1>1, <2>1 DEF PickUp, ReturnBag
  <2>3. e.who \in players
    BY DEF PlayersOnly
  <2>4. QED BY <2>1, <2>2, <2>3 DEF PlayersOnly
<1>7. CASE TickEnd
  <2>1. /\ players' = players \ Retiring /\ events' = {}
        /\ bag' = [t \in Tokens |-> IF t \in Retiring THEN <<>> ELSE bag[t]]
    BY <1>7 DEF TickEnd, ErasePlayers
  <2>2. QED BY <2>1 DEF PlayersOnly
<1>8. CASE UNCHANGED vars
  BY <1>2, <1>8 DEF vars, playerVars, tickVars
<1>9. QED
  BY <1>3, <1>4, <1>5, <1>6, <1>7, <1>8 DEF Next, TickStep

\* What a step does to the session: a step of its own, nothing while the state is
\* saved at most, the end of the process, or its start.
LEMMA ServerStepKinds ==
  ASSUME [ServerNext]_serverVars
  PROVE  \/ [Next]_vars /\ file' = file
         \/ UNCHANGED vars /\ file' \in {file, Snapshot, Corrupt}
         \/ Restore(NewGame) /\ file' \in {file, Snapshot, Corrupt}
         \/ Start
<1>1. CASE Stop
  BY <1>1 DEF Stop, StopSaves, Saved, SavedIncompletely, Gone, EndUnsaved
<1>2. CASE Kill
  BY <1>2 DEF Kill, Gone, EndUnsaved
<1>3. ASSUME NEW t \in Tokens, NEW p \in SpawnPoints, JoinRequest(t, p)
      PROVE  Next /\ file' = file
  BY <1>3 DEF JoinRequest, Next
<1>4. ASSUME NEW t \in Tokens, NEW move \in ClientMoves, ActionRequest(t, move)
      PROVE  Next /\ file' = file
  BY <1>4, ServerAssumption DEF ActionRequest, Next
<1>5. ASSUME NEW dt \in Deltas, OnTick(dt) PROVE Next /\ file' = file
  BY <1>5 DEF OnTick, Next
<1>6. CASE GatherStep
  BY <1>6 DEF GatherStep, Next, TickStep
<1>7. CASE TickReturns
  BY <1>7 DEF TickReturns, Next, TickStep
<1>8. CASE Insert
  BY <1>8 DEF Insert, Throw, Gone, EndUnsaved
<1>9. CASE Autosave
  BY <1>9 DEF Autosave, Saved, SavedIncompletely, Throw, Gone, EndUnsaved
<1>10. CASE UNCHANGED serverVars
  BY <1>10 DEF serverVars
<1>11. QED
  BY <1>1, <1>2, <1>3, <1>4, <1>5, <1>6, <1>7, <1>8, <1>9, <1>10 DEF ServerNext, OnTickStep

\* What Start finds in the file.
LEMMA StartFindsGame ==
  ASSUME ServerInv, Start
  PROVE  \/ file = NoFile /\ Restore(NewGame) /\ dropped' = dropped \ {} /\ InFile = {}
         \/ GoodGame(file) /\ Restore(file) /\ dropped' = dropped \ InFile
            /\ InFile = Range(file.order)
<1>1. CASE file = NoFile
  <2>1. Range(NewGame.order) = {}
    <3>1. DOMAIN <<>> = {}
      OBVIOUS
    <3>2. QED BY <3>1 DEF NewGame, Range
  <2>2. QED BY <1>1, <2>1 DEF Start, InFile
<1>2. CASE file # NoFile
  <2>1. GoodGame(file) /\ file # Corrupt
    BY <1>2 DEF ServerInv, Start
  <2>2. QED BY <1>2, <2>1 DEF Start, InFile
<1>3. QED BY <1>1, <1>2

LEMMA GoodIsAFile ==
  ASSUME NEW s, GoodGame(s)
  PROVE  s \notin {NoFile, Corrupt}
BY FileAssumption DEF GoodGame

LEMMA ProcessStep ==
  ASSUME ServerInv, [ServerNext]_serverVars
  PROVE  ProcessOK'
<1>1. /\ mode \in {"Serving", "Unwinding", "Down"} /\ stage \in {"Ready", "Record"}
      /\ tickTime \in Nat /\ sinceSave \in Nat /\ pending \subseteq Row
      /\ stage = "Ready" => pending = {}
      /\ stage = "Record" => phase = "Idle"
      /\ mode = "Down" => stage = "Ready" /\ phase = "Idle" /\ players = {}
  BY DEF ServerInv, ProcessOK
<1>2. ASSUME Gone PROVE ProcessOK'
  <2>1. players' = {} /\ phase' = "Idle"
    BY <1>2, RestoreNew DEF Gone
  <2>2. QED BY <1>2, <2>1 DEF Gone, ProcessOK
<1>3. ASSUME EndUnsaved PROVE ProcessOK'
  BY <1>2, <1>3 DEF EndUnsaved
<1>4. ASSUME NEW since \in Nat, Throw(since), ~EndUnsaved PROVE ProcessOK'
  BY <1>1, <1>4 DEF Throw, ProcessOK, vars, tickVars, playerVars
<1>5. CASE Start
  <2>1. phase' = "Idle" /\ mode = "Down" /\ mode' = "Serving"
    BY <1>5 DEF Start, Restore
  <2>2. UNCHANGED <<stage, pending, tickTime, sinceSave>>
    BY <1>5 DEF Start
  <2>3. QED BY <1>1, <2>1, <2>2 DEF ProcessOK
<1>6. CASE Stop
  BY <1>2, <1>3, <1>6 DEF Stop
<1>7. CASE Kill
  BY <1>3, <1>7 DEF Kill
<1>8. ASSUME UNCHANGED <<mode, stage, pending, tickTime, sinceSave>>, Up,
             stage = "Record" => phase' = "Idle"
      PROVE  ProcessOK'
  BY <1>1, <1>8 DEF ProcessOK, Up
<1>9. ASSUME NEW t \in Tokens, NEW p \in SpawnPoints, JoinRequest(t, p) PROVE ProcessOK'
  BY <1>8, <1>9 DEF JoinRequest, Free, Join, tickVars, processVars
<1>10. ASSUME NEW t \in Tokens, NEW move \in ClientMoves, ActionRequest(t, move)
       PROVE  ProcessOK'
  BY <1>8, <1>10 DEF ActionRequest, Free, Action, tickVars, processVars
<1>11. ASSUME NEW dt \in Deltas, OnTick(dt) PROVE ProcessOK'
  <2>1. dt \in Nat
    BY SessionAssumption
  <2>2. QED BY <1>1, <1>11, <2>1 DEF OnTick, ProcessOK, Up
<1>12. CASE GatherStep
  <2>1. phase = "Gather"
    BY <1>12 DEF GatherStep, Gather
  <2>2. Up /\ stage # "Record"
    BY <1>1, <2>1 DEF Up
  <2>3. QED BY <1>8, <1>12, <2>2 DEF GatherStep, processVars
<1>13. CASE TickReturns
  <2>1. phase = "Gather" /\ phase' = "Idle" /\ handed' \subseteq Row
    <3>1. DogsInv'
      BY <1>13, DogsInvStep DEF TickReturns, Next, TickStep, ServerInv
    <3>2. QED BY <1>13, <3>1 DEF TickReturns, TickEnd, DogsInv, TypeOK, Row
  <2>2. QED BY <1>1, <1>13, <2>1 DEF TickReturns, ProcessOK
<1>14. CASE Insert
  <2>1. PICK r \in pending :
          \/ /\ pending' = pending \ {r}
             /\ UNCHANGED <<vars, mode, stage, tickTime, sinceSave>>
          \/ Throw(sinceSave)
    BY <1>14 DEF Insert
  <2>2. stage = "Record" /\ Up
    BY <1>1, <1>14 DEF Insert, Up
  <2>3. CASE pending' = pending \ {r} /\ UNCHANGED <<vars, mode, stage, tickTime, sinceSave>>
    BY <1>1, <2>2, <2>3 DEF ProcessOK, vars, tickVars, playerVars, Up
  <2>4. CASE Throw(sinceSave)
    BY <1>1, <1>3, <1>4, <2>4
  <2>5. QED BY <2>1, <2>3, <2>4
<1>15. CASE Autosave
  <2>1. stage = "Record" /\ pending = {} /\ Up
    BY <1>1, <1>15 DEF Autosave, SaveDue, Up
  <2>2. sinceSave + tickTime \in Nat
    BY <1>1
  <2>3. \/ Throw(sinceSave + tickTime)
        \/ /\ UNCHANGED <<vars, mode, pending>> /\ stage' = "Ready" /\ tickTime' = 0
           /\ sinceSave' \in {0, sinceSave + tickTime}
    BY <1>15 DEF Autosave
  <2>4. CASE UNCHANGED <<vars, mode, pending>> /\ stage' = "Ready" /\ tickTime' = 0
             /\ sinceSave' \in {0, sinceSave + tickTime}
    BY <1>1, <2>1, <2>2, <2>4 DEF ProcessOK, vars, tickVars, playerVars, Up
  <2>5. QED BY <1>3, <1>4, <2>2, <2>3, <2>4
<1>16. CASE UNCHANGED serverVars
  BY <1>1, <1>16 DEF serverVars, processVars, vars, tickVars, playerVars, ProcessOK
<1>17. QED
  BY <1>5, <1>6, <1>7, <1>9, <1>10, <1>11, <1>12, <1>13, <1>14, <1>15, <1>16
  DEF ServerNext, OnTickStep

LEMMA ServerInvInit == ServerInit => ServerInv
<1>1. SUFFICES ASSUME ServerInit PROVE ServerInv
  OBVIOUS
<1>2. DogsInv /\ LootInv
  BY <1>1, DogsInvInit, LootInvInit DEF ServerInit
<1>3. PlayersOnly /\ ProcessOK
  BY <1>1 DEF ServerInit, Init, PlayersOnly, ProcessOK
<1>4. QED BY <1>1, <1>2, <1>3 DEF ServerInit, ServerInv

LEMMA ServerInvStep == ServerInv /\ [ServerNext]_serverVars => ServerInv'
<1>1. SUFFICES ASSUME ServerInv, [ServerNext]_serverVars PROVE ServerInv'
  OBVIOUS
<1>2. ProcessOK'
  BY <1>1, ProcessStep
<1>3. DogsInv /\ LootInv /\ PlayersOnly /\ (file \in {NoFile, Corrupt} \/ GoodGame(file))
  BY <1>1 DEF ServerInv
<1>4. ASSUME file' \in {file, Snapshot, Corrupt}
      PROVE  file' \in {NoFile, Corrupt} \/ GoodGame(file')
  BY <1>3, <1>4, SnapshotIsGood
<1>5. ASSUME [Next]_vars PROVE DogsInv' /\ LootInv' /\ PlayersOnly'
  BY <1>3, <1>5, DogsInvStep, LootInvStep, PlayersOnlyStep
<1>6. ASSUME Restore(NewGame) PROVE DogsInv' /\ LootInv' /\ PlayersOnly'
  BY <1>6, RestoreNew
<1>7. CASE Start
  <2>1. file' = file
    BY <1>7 DEF Start
  <2>2. DogsInv' /\ LootInv' /\ PlayersOnly'
    BY <1>1, <1>6, <1>7, StartFindsGame, RestoreGood
  <2>3. QED BY <1>2, <1>3, <2>1, <2>2 DEF ServerInv
<1>8. CASE [Next]_vars /\ file' = file
  BY <1>2, <1>3, <1>5, <1>8 DEF ServerInv
<1>9. CASE UNCHANGED vars /\ file' \in {file, Snapshot, Corrupt}
  BY <1>2, <1>4, <1>5, <1>9 DEF ServerInv
<1>10. CASE Restore(NewGame) /\ file' \in {file, Snapshot, Corrupt}
  BY <1>2, <1>4, <1>6, <1>10 DEF ServerInv
<1>11. QED BY <1>1, <1>7, <1>8, <1>9, <1>10, ServerStepKinds

LEMMA ServerInvAlways == ServerSpec => []ServerInv
BY ServerInvInit, ServerInvStep, PTL DEF ServerSpec

\* Through every save, failure, kill and restart: an id is in one place only, and a
\* restart hands out no id that the saved game has used.
THEOREM LootStaysInOnePlace == ServerSpec => []LootInOnePlace
<1>1. ServerInv => LootInOnePlace
  BY DEF ServerInv, LootInv
<1>2. QED BY ServerInvAlways, <1>1, PTL

-----------------------------------------------------------------------------
(* Saves in time *)

\* The timer of the saves, with the ticks still to come and without a process.
SavesInv ==
  /\ mode = "Serving" => sinceSave < SavePeriod \/ sinceSave = 0
  /\ mode = "Down" => sinceSave = 0

LEMMA SavesInvStep ==
  ASSUME ServerInv, SavesInv, [ServerNext]_serverVars
  PROVE  SavesInv'
<1>1. ASSUME UNCHANGED <<mode, sinceSave>> PROVE SavesInv'
  BY <1>1 DEF SavesInv
<1>2. ASSUME EndUnsaved PROVE SavesInv'
  BY <1>2 DEF EndUnsaved, Gone, SavesInv
<1>3. ASSUME NEW since, Throw(since) PROVE SavesInv'
  BY <1>2, <1>3 DEF Throw, SavesInv
<1>4. CASE Start
  BY <1>4 DEF Start, SavesInv
<1>5. CASE Stop
  BY <1>2, <1>5 DEF Stop, Gone, SavesInv
<1>6. CASE Kill
  BY <1>2, <1>6 DEF Kill
<1>7. CASE Insert
  BY <1>1, <1>3, <1>7 DEF Insert
<1>8. CASE Autosave
  <2>1. sinceSave + tickTime \in Int /\ SavePeriod \in Int
    BY ServerAssumption DEF ServerInv, ProcessOK
  <2>2. \/ Throw(sinceSave + tickTime)
        \/ /\ mode' = mode
           /\ sinceSave' = 0 \/ (sinceSave' = sinceSave + tickTime /\ ~SaveNeeded(sinceSave'))
    BY <1>8 DEF Autosave
  <2>3. mode # "Down"
    BY <1>8 DEF Autosave, SaveDue, ServerInv, ProcessOK
  <2>4. QED BY <1>3, <2>1, <2>2, <2>3 DEF SavesInv, SaveNeeded
<1>9. QED
  BY <1>1, <1>4, <1>5, <1>6, <1>7, <1>8
  DEF ServerNext, OnTickStep, JoinRequest, ActionRequest, OnTick, GatherStep, TickReturns,
      processVars, serverVars

\* Whatever the deltas of the ticks: once a tick is over the file is younger than
\* the save period, as long as nothing was thrown.
THEOREM SavesAreOnTime == ServerSpec => []AutosaveOnTime
<1>1. ServerInit => SavesInv
  BY DEF ServerInit, SavesInv
<1>2. SavesInv => AutosaveOnTime
  BY DEF SavesInv, AutosaveOnTime
<1>3. ServerInv /\ SavesInv /\ [ServerNext]_serverVars => SavesInv'
  BY SavesInvStep
<1>4. QED BY ServerInvAlways, <1>1, <1>2, <1>3, PTL DEF ServerSpec

-----------------------------------------------------------------------------
(* Restarts *)

\* What the players will see of the game in a file.
FileView(s) ==
  <<s.order, [t \in Range(s.order) |-> <<Entry(s, t).pos, Entry(s, t).vel, Entry(s, t).bag,
                                         Entry(s, t).score, Entry(s, t).idle, Entry(s, t).play>>],
    s.lost, s.nextId>>

\* The file of a clean stop shows what the players last saw.
LeftInv == mode = "Down" /\ left # NoView => GoodGame(file) /\ left = FileView(file)

LEMMA SnapshotView ==
  ASSUME DogsInv
  PROVE  FileView(Snapshot) = View
<1>1. /\ Snapshot.order = LivePlayers /\ Range(LivePlayers) = players
      /\ Snapshot.lost = lost /\ Snapshot.nextId = nextId
  BY LivePlayersAre DEF Snapshot
<1>2. \A t \in players :
        /\ Entry(Snapshot, t).pos = pos[t] /\ Entry(Snapshot, t).vel = vel[t]
        /\ Entry(Snapshot, t).bag = bag[t] /\ Entry(Snapshot, t).score = score[t]
        /\ Entry(Snapshot, t).idle = idle[t] /\ Entry(Snapshot, t).play = play[t]
  BY SnapshotTyping
<1>3. QED BY <1>1, <1>2 DEF FileView, View

LEMMA RestoreView ==
  ASSUME NEW s, GoodGame(s), Restore(s)
  PROVE  View' = FileView(s)
<1> DEFINE S == Range(s.order)
<1>1. S \subseteq Tokens /\ s.order \in Seq(S)
  BY DEF GoodGame, Games
<1>2. Among(s.order, S) = s.order
  <2> HIDE DEF S
  <2>1. S \subseteq S
    OBVIOUS
  <2>2. Range(s.order) \subseteq S
    BY DEF S
  <2>3. QED BY <1>1, <2>2, AmongProperties
<1>3. LivePlayers' = s.order /\ players' = S /\ lost' = s.lost /\ nextId' = s.nextId
  BY <1>2 DEF Restore, LivePlayers
<1>4. \A t \in S :
        /\ pos'[t] = Entry(s, t).pos /\ vel'[t] = Entry(s, t).vel
        /\ bag'[t] = Entry(s, t).bag /\ score'[t] = Entry(s, t).score
        /\ idle'[t] = Entry(s, t).idle /\ play'[t] = Entry(s, t).play
  BY <1>1 DEF Restore
<1>5. QED BY <1>3, <1>4 DEF View, FileView

\* A process that is down does nothing but start.
LEMMA DownOnlyStarts ==
  ASSUME ServerInv, [ServerNext]_serverVars, mode = "Down"
  PROVE  Start \/ UNCHANGED serverVars
<1>1. stage = "Ready" /\ phase = "Idle"
  BY DEF ServerInv, ProcessOK
<1>2. QED
  BY <1>1 DEF ServerNext, OnTickStep, Stop, Kill, Up, JoinRequest, ActionRequest, Free, OnTick,
              GatherStep, Gather, TickReturns, TickEnd, Insert, Autosave, SaveDue

LEMMA LeftInvStep ==
  ASSUME ServerInv, LeftInv, [ServerNext]_serverVars
  PROVE  LeftInv'
<1>1. CASE UNCHANGED serverVars
  BY <1>1 DEF serverVars, processVars, history, LeftInv
<1>2. CASE Start
  BY <1>2 DEF Start, LeftInv
<1>3. ASSUME mode' = mode, mode # "Down" PROVE LeftInv'
  BY <1>3 DEF LeftInv
<1>4. ASSUME EndUnsaved PROVE LeftInv'
  BY <1>4 DEF EndUnsaved, LeftInv
<1>5. ASSUME NEW since, Throw(since) PROVE LeftInv'
  BY <1>4, <1>5 DEF Throw, LeftInv
<1>6. CASE Stop
  <2>1. CASE StopSaves /\ left' = View
    <3>1. file' = Snapshot
      BY <2>1 DEF StopSaves, Saved
    <3>2. GoodGame(Snapshot) /\ FileView(Snapshot) = View
      BY SnapshotIsGood, SnapshotView DEF ServerInv
    <3>3. QED BY <2>1, <3>1, <3>2 DEF LeftInv
  <2>2. CASE left' = NoView
    BY <2>2 DEF LeftInv
  <2>3. QED BY <1>4, <1>6, <2>1, <2>2 DEF Stop
<1>7. CASE Kill
  BY <1>4, <1>7 DEF Kill
<1>8. CASE mode # "Down" /\ Insert
  BY <1>3, <1>5, <1>8 DEF Insert
<1>9. CASE mode # "Down" /\ Autosave
  BY <1>3, <1>5, <1>9 DEF Autosave
<1>10. CASE mode = "Down"
  BY <1>1, <1>2, <1>10, DownOnlyStarts
<1>11. QED
  BY <1>1, <1>2, <1>3, <1>6, <1>7, <1>8, <1>9, <1>10
  DEF ServerNext, OnTickStep, JoinRequest, ActionRequest, OnTick, GatherStep, TickReturns,
      processVars

\* However the game stood at a clean stop, the next start shows the players the
\* same game.
THEOREM RestartsResume == ServerSpec => RestartResumes
<1>1. ServerInit => LeftInv
  BY DEF ServerInit, LeftInv
<1>2. ServerInv /\ LeftInv /\ [ServerNext]_serverVars => LeftInv'
  BY LeftInvStep
<1>3. ServerInv /\ LeftInv /\ [ServerNext]_serverVars
        => [Start /\ left # NoView => View' = left]_serverVars
  <2>1. SUFFICES ASSUME ServerInv, LeftInv, Start, left # NoView PROVE View' = left
    OBVIOUS
  <2>2. GoodGame(file) /\ left = FileView(file)
    BY <2>1 DEF Start, LeftInv
  <2>3. Restore(file)
    BY <2>1, <2>2, GoodIsAFile DEF Start
  <2>4. QED BY <2>2, <2>3, RestoreView
<1>4. QED BY ServerInvAlways, <1>1, <1>2, <1>3, PTL DEF ServerSpec, RestartResumes

-----------------------------------------------------------------------------
(* The table of records *)

\* How often somebody may be recorded: while playing, waiting to be recorded, or in
\* the file of a process that is down, at most once for every end without saving.
RecordsInv ==
  /\ records \in Seq(Row) /\ losses \in Nat
  /\ \A r, q \in pending : r.token = q.token => r = q
  /\ Pending \cap players = {}
  /\ players \cup Pending \cup Recorded \cup InFile \subseteq issued
  /\ \A t \in Tokens : Cardinality(Rows(t)) <= 1 + losses
  /\ \A t \in players \cup Pending : Cardinality(Rows(t)) <= losses
  /\ mode = "Down" => \A t \in InFile : Cardinality(Rows(t)) <= losses

LEMMA RowsFinite ==
  ASSUME records \in Seq(Row), NEW t
  PROVE  IsFiniteSet(Rows(t)) /\ Cardinality(Rows(t)) \in Nat
<1>1. Rows(t) \in SUBSET (1 .. Len(records)) /\ Len(records) \in Nat
  BY DEF Rows
<1>2. IsFiniteSet(1 .. Len(records))
  BY <1>1, FS_Interval
<1>3. IsFiniteSet(Rows(t))
  BY <1>1, <1>2, FS_Subset
<1>4. QED BY <1>3, FS_CardinalityType

\* A new row is one more for its token, and none for the others.
LEMMA RowsAppend ==
  ASSUME records \in Seq(Row), NEW r \in Row, records' = Append(records, r)
  PROVE  /\ records' \in Seq(Row)
         /\ Recorded' = Recorded \cup {r.token}
         /\ \A t \in Tokens : t # r.token => Rows(t)' = Rows(t)
         /\ Cardinality(Rows(r.token)') = Cardinality(Rows(r.token)) + 1
<1> DEFINE n == Len(records) + 1
<1>1. /\ DOMAIN records' = DOMAIN records \cup {n} /\ n \notin DOMAIN records
      /\ \A i \in DOMAIN records : records'[i] = records[i]
      /\ records'[n] = r /\ records' \in Seq(Row)
  OBVIOUS
<1> HIDE DEF n
<1>2. \A t : Rows(t)' = IF t = r.token THEN Rows(t) \cup {n} ELSE Rows(t)
  BY <1>1 DEF Rows
<1>3. n \notin Rows(r.token)
  BY <1>1 DEF Rows
<1>4. Cardinality(Rows(r.token)') = Cardinality(Rows(r.token)) + 1
  BY <1>2, <1>3, RowsFinite, FS_AddElement
<1>5. r.token \in Tokens
  BY DEF Row
<1>6. Recorded' = Recorded \cup {r.token}
  BY <1>2, <1>5 DEF Recorded
<1>7. QED BY <1>1, <1>2, <1>4, <1>6

LEMMA RowsSame ==
  ASSUME records' = records
  PROVE  Recorded' = Recorded /\ \A t : Rows(t)' = Rows(t)
BY DEF Recorded, Rows

\* In whose hands the table is right, with a file of the old players or of nobody.
LEMMA FileNames ==
  ASSUME ServerInv
  PROVE  /\ file' = file => InFile' = InFile
         /\ file' = Snapshot => InFile' = players
         /\ file' = Corrupt => InFile' = {}
<1>1. GoodGame(Snapshot) /\ Range(Snapshot.order) = players
  BY SnapshotIsGood DEF ServerInv
<1>2. Snapshot \notin {NoFile, Corrupt}
  BY <1>1, GoodIsAFile
<1>3. QED BY <1>1, <1>2 DEF InFile

\* Nobody of those who wait is left when the memory is gone.
LEMMA GoneEmpty ==
  ASSUME Gone
  PROVE  players' = {} /\ pending' = {} /\ Pending' = {} /\ mode' = "Down"
BY RestoreNew DEF Gone, Pending

\* An end without saving, with or without a last row, pays for every row so far.
LEMMA EndUnsavedRecords ==
  ASSUME ServerInv, RecordsInv, EndUnsaved,
         records' = records \/ \E r \in pending : records' = Append(records, r)
  PROVE  RecordsInv'
<1>1. /\ players' = {} /\ pending' = {} /\ Pending' = {} /\ mode' = "Down"
      /\ losses' = losses + 1 /\ file' = file /\ issued' = issued
  BY GoneEmpty DEF EndUnsaved
<1>2. InFile' = InFile
  BY <1>1, FileNames
<1>3. losses \in Nat /\ records \in Seq(Row) /\ \A t \in Tokens : Cardinality(Rows(t)) \in Nat
  BY RowsFinite DEF RecordsInv
<1>4. /\ records' \in Seq(Row) /\ Recorded' \subseteq issued
      /\ \A t \in Tokens : Cardinality(Rows(t)') <= 1 + losses
  <2>1. CASE records' = records
    BY <2>1, RowsSame DEF RecordsInv
  <2>2. ASSUME NEW r \in pending, records' = Append(records, r)
        PROVE  /\ records' \in Seq(Row) /\ Recorded' \subseteq issued
               /\ \A t \in Tokens : Cardinality(Rows(t)') <= 1 + losses
    <3>1. r \in Row /\ r.token \in Pending /\ r.token \in Tokens
      BY DEF ServerInv, ProcessOK, Pending, Row
    <3>2. Cardinality(Rows(r.token)) <= losses
      BY <3>1 DEF RecordsInv
    <3>3. /\ records' \in Seq(Row) /\ Recorded' = Recorded \cup {r.token}
          /\ \A t \in Tokens : t # r.token => Rows(t)' = Rows(t)
          /\ Cardinality(Rows(r.token)') = Cardinality(Rows(r.token)) + 1
      BY <1>3, <2>2, <3>1, RowsAppend
    <3>4. \A t \in Tokens : Cardinality(Rows(t)') <= 1 + losses
      BY <1>3, <3>1, <3>2, <3>3 DEF RecordsInv
    <3>5. QED BY <3>1, <3>3, <3>4 DEF RecordsInv
  <2>3. QED BY <2>1, <2>2
<1>5. issued \subseteq issued /\ InFile \subseteq issued
  BY DEF RecordsInv
<1>6. \A t \in InFile : t \in Tokens
  BY DEF ServerInv, InFile, GoodGame
<1>7. losses + 1 \in Nat /\ \A t \in Tokens : Cardinality(Rows(t)') <= 1 + (losses + 1)
  <2>1. \A t \in Tokens : Cardinality(Rows(t)') \in Nat
    <3>1. \A t \in Tokens : IsFiniteSet(Rows(t)')
      <4>1. SUFFICES ASSUME NEW t \in Tokens PROVE IsFiniteSet(Rows(t)')
        OBVIOUS
      <4>2. Rows(t)' \in SUBSET (1 .. Len(records')) /\ Len(records') \in Nat
        BY <1>4 DEF Rows
      <4>3. IsFiniteSet(1 .. Len(records'))
        BY <4>2, FS_Interval
      <4>4. QED BY <4>2, <4>3, FS_Subset
    <3>2. QED BY <3>1, FS_CardinalityType
  <2>2. QED BY <1>3, <1>4, <2>1
<1>8. QED BY <1>1, <1>2, <1>4, <1>5, <1>6, <1>7 DEF RecordsInv

\* A step that adds no row: the players, those who wait and the file remain to check.
LEMMA RecordsFrame ==
  ASSUME ServerInv, RecordsInv, records' = records, losses' = losses, issued \subseteq issued',
         \A r, q \in pending' : r.token = q.token => r = q,
         Pending' \cap players' = {}, InFile' \subseteq issued',
         players' \cup Pending' \subseteq issued',
         \A t \in players' \cup Pending' : Cardinality(Rows(t)) <= losses,
         mode' = "Down" => \A t \in InFile' : Cardinality(Rows(t)) <= losses
  PROVE  RecordsInv'
<1>1. Recorded' = Recorded /\ \A t : Rows(t)' = Rows(t)
  BY RowsSame
<1>2. QED BY <1>1 DEF RecordsInv

LEMMA ThrowRecords ==
  ASSUME ServerInv, RecordsInv, NEW since, Throw(since), stage = "Record",
         records' = records \/ \E r \in pending : records' = Append(records, r)
  PROVE  RecordsInv'
<1>1. CASE EndUnsaved
  BY <1>1, EndUnsavedRecords
<1>2. CASE ~EndUnsaved
  <2>1. /\ pending' = {} /\ Pending' = {} /\ mode' = "Unwinding"
        /\ UNCHANGED <<players, file, issued, losses>>
    BY <1>2 DEF Throw, Pending, vars, playerVars
  <2>2. InFile' = InFile
    BY <2>1, FileNames
  <2>3. CASE records' = records
    BY <2>1, <2>2, <2>3, RecordsFrame DEF RecordsInv
  <2>4. ASSUME NEW r \in pending, records' = Append(records, r) PROVE RecordsInv'
    <3>1. r \in Row /\ r.token \in Pending /\ r.token \in Tokens /\ r.token \notin players
      BY DEF ServerInv, ProcessOK, Pending, Row, RecordsInv
    <3>2. Cardinality(Rows(r.token)) <= losses
      BY <3>1 DEF RecordsInv
    <3>3. losses \in Nat /\ records \in Seq(Row) /\ \A t \in Tokens : Cardinality(Rows(t)) \in Nat
      BY RowsFinite DEF RecordsInv
    <3>4. /\ records' \in Seq(Row) /\ Recorded' = Recorded \cup {r.token}
          /\ \A t \in Tokens : t # r.token => Rows(t)' = Rows(t)
          /\ Cardinality(Rows(r.token)') = Cardinality(Rows(r.token)) + 1
      BY <2>4, <3>1, <3>3, RowsAppend
    <3>5. \A t \in Tokens : Cardinality(Rows(t)') <= 1 + losses
      BY <3>1, <3>2, <3>3, <3>4 DEF RecordsInv
    <3>6. \A t \in players : Cardinality(Rows(t)') <= losses
      BY <3>1, <3>4 DEF RecordsInv, ServerInv, DogsInv, TypeOK
    <3>7. players \cup Recorded' \cup InFile \subseteq issued
      BY <3>1, <3>4 DEF RecordsInv
    <3>8. QED BY <2>1, <2>2, <3>3, <3>4, <3>5, <3>6, <3>7 DEF RecordsInv
  <2>5. QED BY <2>3, <2>4
<1>3. QED BY <1>1, <1>2

LEMMA InsertRecords ==
  ASSUME ServerInv, RecordsInv, Insert
  PROVE  RecordsInv'
<1>1. stage = "Record" /\ mode # "Down"
  BY DEF Insert, ServerInv, ProcessOK
<1>2. PICK r \in pending :
        \/ /\ records' = Append(records, r) /\ pending' = pending \ {r}
           /\ UNCHANGED <<players, mode, file, issued, losses>>
        \/ Throw(sinceSave) /\ records' \in {records, Append(records, r)}
  BY DEF Insert, vars, playerVars, history
<1>3. CASE Throw(sinceSave) /\ records' \in {records, Append(records, r)}
  BY <1>1, <1>3, ThrowRecords
<1>4. CASE records' = Append(records, r) /\ pending' = pending \ {r}
           /\ UNCHANGED <<players, mode, file, issued, losses>>
  <2>1. r \in Row /\ r.token \in Pending /\ r.token \in Tokens /\ r.token \notin players
    BY DEF ServerInv, ProcessOK, Pending, Row, RecordsInv
  <2>2. Cardinality(Rows(r.token)) <= losses
    BY <2>1 DEF RecordsInv
  <2>3. losses \in Nat /\ records \in Seq(Row) /\ \A t \in Tokens : Cardinality(Rows(t)) \in Nat
    BY RowsFinite DEF RecordsInv
  <2>4. /\ records' \in Seq(Row) /\ Recorded' = Recorded \cup {r.token}
        /\ \A t \in Tokens : t # r.token => Rows(t)' = Rows(t)
        /\ Cardinality(Rows(r.token)') = Cardinality(Rows(r.token)) + 1
    BY <1>4, <2>1, <2>3, RowsAppend
  <2>5. Pending' = Pending \ {r.token}
    BY <1>4 DEF Pending, RecordsInv
  <2>6. InFile' = InFile
    BY <1>4, FileNames
  <2>7. \A t \in Tokens : Cardinality(Rows(t)') <= 1 + losses
    BY <2>1, <2>2, <2>3, <2>4 DEF RecordsInv
  <2>8. players \cup Pending \subseteq Tokens
    BY DEF ServerInv, DogsInv, TypeOK, ProcessOK, Pending, Row
  <2>9. \A t \in players \cup Pending' : Cardinality(Rows(t)') <= losses
    BY <2>1, <2>4, <2>5, <2>8 DEF RecordsInv
  <2>10. players \cup Pending' \cup Recorded' \cup InFile \subseteq issued
    BY <2>1, <2>4, <2>5 DEF RecordsInv
  <2>11. Pending' \cap players = {} /\ \A p, q \in pending' : p.token = q.token => p = q
    BY <1>4, <2>5 DEF RecordsInv
  <2>12. QED BY <1>1, <1>4, <2>3, <2>4, <2>6, <2>7, <2>9, <2>10, <2>11 DEF RecordsInv
<1>5. QED BY <1>2, <1>3, <1>4

LEMMA RecordsInvStep ==
  ASSUME ServerInv, RecordsInv, [ServerNext]_serverVars
  PROVE  RecordsInv'
<1>1. /\ players \cup Pending \cup InFile \subseteq issued /\ losses \in Nat
      /\ \A t \in players \cup Pending : Cardinality(Rows(t)) <= losses
      /\ mode = "Down" => \A t \in InFile : Cardinality(Rows(t)) <= losses
      /\ \A r, q \in pending : r.token = q.token => r = q
      /\ Pending \cap players = {}
  BY DEF RecordsInv
<1>2. CASE Start
  <2>1. players' = InFile /\ mode = "Down" /\ mode' = "Serving"
    BY <1>2, StartFindsGame, RestoreNew, RestoreGood DEF Start
  <2>2. UNCHANGED <<records, losses, issued, pending, file>>
    BY <1>2 DEF Start
  <2>3. pending = {} /\ Pending' = {}
    BY <2>1, <2>2 DEF ServerInv, ProcessOK, Pending
  <2>4. QED BY <1>1, <2>1, <2>2, <2>3, FileNames, RecordsFrame
<1>3. CASE Stop
  <2>1. records' = records
    BY <1>3 DEF Stop
  <2>2. CASE EndUnsaved
    BY <2>1, <2>2, EndUnsavedRecords
  <2>3. CASE Gone /\ file' \in {Snapshot, Corrupt} /\ UNCHANGED <<issued, losses>>
    <3>1. players' = {} /\ pending' = {} /\ Pending' = {}
      BY <2>3, GoneEmpty
    <3>2. InFile' \subseteq players
      BY <2>3, FileNames
    <3>3. QED BY <1>1, <2>1, <2>3, <3>1, <3>2, RecordsFrame
  <2>4. QED BY <1>3, <2>2, <2>3 DEF Stop, StopSaves, Saved, SavedIncompletely
<1>4. CASE Kill
  BY <1>4, EndUnsavedRecords DEF Kill
<1>5. ASSUME NEW t \in Tokens, NEW p \in SpawnPoints, JoinRequest(t, p) PROVE RecordsInv'
  <2>1. /\ t \notin issued /\ issued' = issued \cup {t} /\ players' = players \cup {t}
        /\ UNCHANGED <<records, losses, pending, file, mode>>
    BY <1>5 DEF JoinRequest, Join, processVars
  <2>2. Cardinality(Rows(t)) <= losses
    <3>1. Rows(t) = {}
      BY <2>1 DEF RecordsInv, Recorded
    <3>2. QED BY <1>1, <3>1, FS_EmptySet
  <2>3. Pending' = Pending
    BY <2>1 DEF Pending
  <2>4. \A u \in players' \cup Pending' : Cardinality(Rows(u)) <= losses
    BY <1>1, <2>1, <2>2, <2>3
  <2>5. Pending' \cap players' = {} /\ players' \cup Pending' \subseteq issued'
    BY <1>1, <2>1, <2>3
  <2>6. InFile' = InFile
    BY <2>1, FileNames
  <2>7. QED BY <1>1, <2>1, <2>4, <2>5, <2>6, RecordsFrame
<1>6. ASSUME UNCHANGED <<records, losses, issued, pending, players, mode>>,
             file' \in {file, Corrupt} \/ (file' = Snapshot /\ mode # "Down")
      PROVE  RecordsInv'
  <2>1. Pending' = Pending
    BY <1>6 DEF Pending
  <2>2. InFile' = InFile \/ InFile' = {} \/ (InFile' = players /\ mode # "Down")
    BY <1>6, FileNames
  <2>3. QED BY <1>1, <1>6, <2>1, <2>2, RecordsFrame
<1>7. ASSUME NEW t \in Tokens, NEW move \in ClientMoves, ActionRequest(t, move) PROVE RecordsInv'
  BY <1>6, <1>7 DEF ActionRequest, Action, playerVars, processVars, history
<1>8. ASSUME NEW dt \in Deltas, OnTick(dt) PROVE RecordsInv'
  BY <1>6, <1>8 DEF OnTick, TickBegin, playerVars, history
<1>9. CASE GatherStep
  BY <1>6, <1>9 DEF GatherStep, Gather, processVars, history
<1>10. CASE TickReturns
  <2>1. /\ players' = players \ Retiring /\ pending' = handed' /\ Retiring \subseteq players
        /\ handed' = {[token |-> t, score |-> score[t], play |-> PlayAfter(t)] : t \in Retiring}
        /\ UNCHANGED <<records, losses, issued, file, mode>>
    BY <1>10 DEF TickReturns, TickEnd, ErasePlayers, Retiring, history
  <2>2. Pending' = Retiring
    <3> DEFINE Info(t) == [token |-> t, score |-> score[t], play |-> PlayAfter(t)]
    <3>1. Pending' = {r.token : r \in handed'} /\ handed' = {Info(t) : t \in Retiring}
      BY <2>1 DEF Pending
    <3>2. \A t : Info(t).token = t
      OBVIOUS
    <3> HIDE DEF Info
    <3>3. QED BY <3>1, <3>2
  <2>3. \A r, q \in pending' : r.token = q.token => r = q
    BY <2>1
  <2>4. InFile' = InFile
    BY <2>1, FileNames
  <2>5. Pending' \cap players' = {} /\ players' \cup Pending' \subseteq players
    BY <2>1, <2>2
  <2>6. QED BY <1>1, <2>1, <2>3, <2>4, <2>5, RecordsFrame
<1>11. CASE Insert
  BY <1>11, InsertRecords
<1>12. CASE Autosave
  <2>1. stage = "Record" /\ mode # "Down" /\ records' = records
    BY <1>12 DEF Autosave, SaveDue, ServerInv, ProcessOK
  <2>2. \/ Throw(sinceSave + tickTime)
        \/ /\ UNCHANGED <<losses, issued, pending, players, mode>>
           /\ file' \in {file, Corrupt, Snapshot}
    BY <1>12 DEF Autosave, Saved, SavedIncompletely, vars, playerVars, history
  <2>3. QED BY <1>6, <2>1, <2>2, ThrowRecords
<1>13. CASE UNCHANGED serverVars
  BY <1>6, <1>13 DEF serverVars, vars, playerVars, processVars, history
<1>14. QED
  BY <1>2, <1>3, <1>4, <1>5, <1>7, <1>8, <1>9, <1>10, <1>11, <1>12, <1>13
  DEF ServerNext, OnTickStep

LEMMA RecordsInvInit == ServerInit => RecordsInv
<1>1. SUFFICES ASSUME ServerInit PROVE RecordsInv
  OBVIOUS
<1>2. records = <<>> /\ losses = 0 /\ players = {} /\ pending = {} /\ file = NoFile /\ issued = {}
  BY <1>1 DEF ServerInit, Init
<1>3. records \in Seq(Row) /\ DOMAIN records = {}
  BY <1>2
<1>4. \A t : Rows(t) = {}
  BY <1>3 DEF Rows
<1>5. Pending = {} /\ InFile = {} /\ Recorded = {}
  BY <1>2, <1>4 DEF Pending, InFile, Recorded
<1>6. \A t : Cardinality(Rows(t)) = 0
  BY <1>4, FS_EmptySet
<1>7. QED BY <1>2, <1>3, <1>5, <1>6 DEF RecordsInv

LEMMA RecordsInvAlways == ServerSpec => []RecordsInv
BY RecordsInvInit, RecordsInvStep, ServerInvAlways, PTL DEF ServerSpec

\* Nobody is recorded more often than the process has ended without saving, and once;
\* and while it never has, nobody recorded is still a player.
THEOREM RetirementsAreRecordedOnce == ServerSpec => []OneRowPerRetirement
<1>1. ServerInv /\ RecordsInv => OneRowPerRetirement
  <2>1. SUFFICES ASSUME ServerInv, RecordsInv PROVE OneRowPerRetirement
    OBVIOUS
  <2>2. ASSUME losses = 0, NEW t \in players \cup Pending PROVE t \notin Recorded
    <3>1. IsFiniteSet(Rows(t)) /\ Cardinality(Rows(t)) \in Nat
      BY <2>1, RowsFinite DEF RecordsInv
    <3>2. Cardinality(Rows(t)) <= 0
      BY <2>1, <2>2 DEF RecordsInv
    <3>3. Rows(t) = {}
      BY <3>1, <3>2, FS_EmptySet
    <3>4. QED BY <3>3 DEF Recorded
  <2>3. QED BY <2>1, <2>2 DEF OneRowPerRetirement, RecordsInv
<1>2. QED BY ServerInvAlways, RecordsInvAlways, <1>1, PTL

-----------------------------------------------------------------------------
(* Nobody is forgotten *)

\* Who has been in a file and was not dropped is recorded or in the file, even if
\* the process ended now; and recorded, waiting or playing as long as it runs.
KeptInv ==
  /\ durable \ dropped \subseteq Recorded \cup InFile
  /\ mode # "Down" => durable \ dropped \subseteq Recorded \cup players \cup Pending

LEMMA RowsGrow ==
  ASSUME records \in Seq(Row),
         records' = records \/ \E r \in Row : records' = Append(records, r)
  PROVE  Recorded \subseteq Recorded'
BY RowsSame, RowsAppend

\* The process ends: what the file keeps is enough.
LEMMA KeptAfterEnd ==
  ASSUME ServerInv, KeptInv, EndUnsaved, Recorded \subseteq Recorded'
  PROVE  KeptInv'
<1>1. mode' = "Down" /\ UNCHANGED <<file, durable, dropped>>
  BY DEF EndUnsaved, Gone
<1>2. InFile' = InFile
  BY <1>1, FileNames
<1>3. QED BY <1>1, <1>2 DEF KeptInv

\* It goes on, and nobody leaves the game but to wait for the record.
LEMMA KeptWhileUp ==
  ASSUME ServerInv, KeptInv, mode # "Down", UNCHANGED <<file, durable>>,
         dropped \subseteq dropped', Recorded \subseteq Recorded',
         players \cup Pending \subseteq Recorded' \cup players' \cup Pending' \cup dropped'
  PROVE  KeptInv'
<1>1. InFile' = InFile
  BY FileNames
<1>2. QED BY <1>1 DEF KeptInv

LEMMA KeptThrow ==
  ASSUME ServerInv, KeptInv, NEW since, Throw(since), mode # "Down", Recorded \subseteq Recorded'
  PROVE  KeptInv'
<1>1. CASE EndUnsaved
  BY <1>1, KeptAfterEnd
<1>2. CASE ~EndUnsaved
  <2>1. dropped' = dropped \cup Pending /\ UNCHANGED <<players, file, durable>>
    BY <1>2 DEF Throw, Pending, vars, playerVars
  <2>2. QED BY <2>1, KeptWhileUp
<1>3. QED BY <1>1, <1>2

\* A save when nobody waits: the file holds whoever plays.
LEMMA KeptSaved ==
  ASSUME ServerInv, KeptInv, Saved, mode # "Down", pending = {}, pending' = {},
         records' = records, dropped' = dropped, players' = players \/ mode' = "Down"
  PROVE  KeptInv'
<1>1. durable' = durable \cup players /\ InFile' = players
  BY FileNames DEF Saved
<1>2. Recorded' = Recorded /\ Pending = {}
  BY RowsSame DEF Pending
<1>3. QED BY <1>1, <1>2 DEF KeptInv

LEMMA KeptInvStep ==
  ASSUME "flush" \notin Faults, ServerInv, RecordsInv, KeptInv, [ServerNext]_serverVars
  PROVE  KeptInv'
<1>1. /\ ~SavedIncompletely
      /\ stage = "Ready" => pending = {}
      /\ stage = "Record" => mode # "Down" /\ phase = "Idle"
      /\ mode = "Down" => phase = "Idle"
      /\ pending \subseteq Row /\ records \in Seq(Row)
  BY DEF SavedIncompletely, ServerInv, ProcessOK, RecordsInv
<1>2. ASSUME records' = records PROVE Recorded' = Recorded
  BY <1>2, RowsSame
<1>3. CASE Start
  <2>1. players' = InFile /\ dropped' = dropped \ InFile
    BY <1>3, StartFindsGame, RestoreNew, RestoreGood
  <2>2. UNCHANGED <<records, durable, file>>
    BY <1>3 DEF Start
  <2>3. InFile' = InFile /\ Recorded' = Recorded
    BY <1>2, <2>2, FileNames
  <2>4. QED BY <2>1, <2>2, <2>3 DEF KeptInv
<1>4. CASE Stop
  <2>1. records' = records /\ mode # "Down" /\ stage = "Ready"
    BY <1>4 DEF Stop, Up
  <2>2. CASE EndUnsaved
    BY <1>2, <2>1, <2>2, KeptAfterEnd
  <2>3. CASE Saved /\ Gone /\ dropped' = dropped
    BY <1>1, <2>1, <2>3, KeptSaved DEF Gone
  <2>4. QED BY <1>1, <1>4, <2>2, <2>3 DEF Stop, StopSaves
<1>5. CASE Kill
  BY <1>2, <1>5, KeptAfterEnd DEF Kill
<1>6. ASSUME UNCHANGED <<records, file, durable, dropped, pending, mode>>, players \subseteq players',
             mode # "Down"
      PROVE  KeptInv'
  <2>1. Pending' = Pending
    BY <1>6 DEF Pending
  <2>2. QED BY <1>2, <1>6, <2>1, KeptWhileUp
<1>7. ASSUME NEW t \in Tokens, NEW p \in SpawnPoints, JoinRequest(t, p) PROVE KeptInv'
  BY <1>6, <1>7 DEF JoinRequest, Join, processVars, Free, Up
<1>8. ASSUME NEW t \in Tokens, NEW move \in ClientMoves, ActionRequest(t, move) PROVE KeptInv'
  BY <1>6, <1>8 DEF ActionRequest, Action, playerVars, processVars, history, Free, Up
<1>9. ASSUME NEW dt \in Deltas, OnTick(dt) PROVE KeptInv'
  BY <1>6, <1>9 DEF OnTick, TickBegin, playerVars, history, Up
<1>10. CASE GatherStep
  BY <1>1, <1>6, <1>10 DEF GatherStep, Gather, processVars, history
<1>11. CASE TickReturns
  <2>1. /\ players' = players \ Retiring /\ pending' = handed' /\ phase = "Gather"
        /\ handed' = {[token |-> t, score |-> score[t], play |-> PlayAfter(t)] : t \in Retiring}
        /\ UNCHANGED <<records, file, durable, dropped, mode>>
    BY <1>11 DEF TickReturns, TickEnd, ErasePlayers, Retiring, history
  <2>2. Retiring \subseteq Pending'
    <3> DEFINE Info(t) == [token |-> t, score |-> score[t], play |-> PlayAfter(t)]
    <3>1. Pending' = {r.token : r \in handed'} /\ handed' = {Info(t) : t \in Retiring}
      BY <2>1 DEF Pending
    <3>2. \A t : Info(t).token = t
      OBVIOUS
    <3> HIDE DEF Info
    <3>3. QED BY <3>1, <3>2
  <2>3. mode # "Down" /\ Pending = {}
    BY <1>1, <2>1 DEF ServerInv, ProcessOK, Pending
  <2>4. QED BY <1>2, <2>1, <2>2, <2>3, KeptWhileUp
<1>12. CASE Insert
  <2>1. stage = "Record" /\ mode # "Down"
    BY <1>1, <1>12 DEF Insert
  <2>2. PICK r \in pending :
          \/ /\ records' = Append(records, r) /\ pending' = pending \ {r}
             /\ UNCHANGED <<players, file, durable, dropped>>
          \/ Throw(sinceSave) /\ records' \in {records, Append(records, r)}
    BY <1>12 DEF Insert, vars, playerVars, history
  <2>3. Recorded \subseteq Recorded'
    BY <1>1, <2>2, RowsGrow
  <2>4. CASE Throw(sinceSave)
    BY <2>1, <2>3, <2>4, KeptThrow
  <2>5. CASE records' = Append(records, r) /\ pending' = pending \ {r}
             /\ UNCHANGED <<players, file, durable, dropped>>
    <3>1. r.token \in Recorded'
      BY <1>1, <2>5, RowsAppend
    <3>2. Pending \subseteq Pending' \cup {r.token}
      BY <2>5 DEF Pending
    <3>3. QED BY <2>1, <2>3, <2>5, <3>1, <3>2, KeptWhileUp
  <2>6. QED BY <2>2, <2>4, <2>5
<1>13. CASE Autosave
  <2>1. /\ stage = "Record" /\ pending = {} /\ records' = records /\ mode # "Down"
    BY <1>1, <1>13 DEF Autosave, SaveDue
  <2>2. CASE Throw(sinceSave + tickTime)
    BY <1>2, <2>1, <2>2, KeptThrow
  <2>3. CASE UNCHANGED <<file, durable, dropped, pending, mode, players>>
    BY <1>6, <2>1, <2>3
  <2>4. CASE Saved /\ UNCHANGED <<pending, dropped, players>>
    BY <2>1, <2>4, KeptSaved
  <2>5. QED BY <1>1, <1>13, <2>2, <2>3, <2>4 DEF Autosave, vars, playerVars, history
<1>14. CASE UNCHANGED serverVars
  <2>1. UNCHANGED <<records, file, durable, dropped, players, pending, mode>>
    BY <1>14 DEF serverVars, vars, playerVars, processVars, history
  <2>2. InFile' = InFile /\ Recorded' = Recorded /\ Pending' = Pending
    BY <1>2, <2>1, FileNames DEF Pending
  <2>3. QED BY <2>1, <2>2 DEF KeptInv
<1>15. QED
  BY <1>3, <1>4, <1>5, <1>7, <1>8, <1>9, <1>10, <1>11, <1>12, <1>13, <1>14
  DEF ServerNext, OnTickStep

\* Whoever has been in a file is accounted for through every kill and restart.  A
\* save that fails without a report is excluded: it destroys the file, and the
\* players that only the file knew with it (SavedIncompletely).
THEOREM NobodyIsForgotten ==
  ASSUME "flush" \notin Faults
  PROVE  ServerSpec => []NobodyForgotten
<1>1. ServerInit => KeptInv
  BY DEF ServerInit, KeptInv
<1>2. ServerInv /\ KeptInv => NobodyForgotten
  BY DEF KeptInv, NobodyForgotten, Up
<1>3. ServerInv /\ RecordsInv /\ KeptInv /\ [ServerNext]_serverVars => KeptInv'
  BY KeptInvStep
<1>4. QED BY ServerInvAlways, RecordsInvAlways, <1>1, <1>2, <1>3, PTL DEF ServerSpec
=============================================================================
