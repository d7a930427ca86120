-------------------------- MODULE GameClientProofs --------------------------
(***************************************************************************)
(* For any number of players, lost objects and calls.  Whatever happens:   *)
(* what the client shows as one object is one object.  Until somebody      *)
(* retires who joined earlier, a name stands beside its own dog.  While    *)
(* the reports of keys come in order, the dog obeys the last key.  And     *)
(* while the replies of a kind come in order and nobody has retired,       *)
(* nothing is drawn that the client has forgotten.                         *)
(***************************************************************************)
EXTENDS GameClientProps, FiniteSetTheorems, TLAPS

View == [bags : Seq(SUBSET Loot), lost : SUBSET Loot, names : Seq(Persons)]

\* A view of one moment of a session, in which an object is in one place.
Consistent(v) ==
  /\ v \in View
  /\ \A i \in DOMAIN v.bags : v.bags[i] \cap v.lost = {}
  /\ \A i, j \in DOMAIN v.bags : i # j => v.bags[i] \cap v.bags[j] = {}

Holding == [Loot -> Copies \cup {None}]
Screen  == [cur : SUBSET Nat, dogs : Seq(Persons), data : [Slots -> Holding],
            lost : Holding, falling : Holding, scene : [Loot -> SUBSET Copies]]

\* OneObjectPerPlace, of any screen.
Separate(scr) ==
  \A x \in Loot :
    /\ scr.lost[x] # None => scr.lost[x] # scr.falling[x]
    /\ \A i \in Slots : scr.data[i][x] # None =>
         /\ scr.data[i][x] \notin {scr.lost[x], scr.falling[x]}
         /\ \A j \in Slots \ {i} : scr.data[i][x] # scr.data[j][x]

CallRecord == [kind : Kinds, key : Keys \cup {""}, status : {"sent", "done", "refused"}, view : View]

OrderOK ==
  /\ order \in Seq(Persons)
  /\ \A i, j \in DOMAIN order : order[i] = order[j] => i = j
Fine(s)  == s \in Seq(CallRecord) /\ \A k \in DOMAIN s : Consistent(s[k].view)
CallsOK  == Fine(calls)
ScreenOK == screen \in Screen /\ Separate(screen)

\* The invariant: the players are different ones, so that no view has an object
\* twice; and then no screen has a copy twice.
ClientInv == OrderOK /\ CallsOK /\ Consistent(desired) /\ pressed \in Seq(Keys) /\ ScreenOK

-----------------------------------------------------------------------------
(* The queue of players, the names and the keys *)

\* The names are those of who joined, up to the first who is gone.
Right(names, all, gone) ==
  \A i \in DOMAIN names :
    /\ i \in DOMAIN all
    /\ (\A j \in 1 .. i : all[j] \notin gone) => names[i] = all[i]

\* The players of the session are those who joined and have not retired.
NobodyMissing == \A i \in DOMAIN joined : joined[i] \in retired \/ InGame(joined[i])
QueueInv ==
  /\ joined \in Seq(Persons) /\ Len(order) <= Len(joined)
  /\ \A i, j \in DOMAIN joined : joined[i] = joined[j] => i = j
  /\ NobodyMissing
  /\ InGame(Me) \/ Me \in retired
  /\ Right(order, joined, retired)

NamesInv ==
  /\ Right(screen.dogs, joined, retired)
  /\ \A k \in DOMAIN calls : Right(calls[k].view.names, joined, retired)

\* The report of a key that has not reached the server.
Reports(k) == calls[k].kind = "action" /\ calls[k].status = "sent"

\* While no report is lost or comes too late, and the player plays.
Heard == InGame(Me) /\ "action" \notin overtaken \cup failed /\ page = "game"

\* The last report under way tells of the last key pressed; when there is none, the
\* server knows that key.
KeysInv ==
  Heard =>
    /\ (\A k \in DOMAIN calls : ~Reports(k)) => heading = LastKey(pressed)
    /\ \A k \in DOMAIN calls :
         Reports(k) /\ (\A j \in DOMAIN calls : j > k => ~Reports(j))
         => calls[k].key = LastKey(pressed)

-----------------------------------------------------------------------------
(* What the client was told of the session, from the state it shows to now *)

Undisturbed == overtaken \cap {"state", "players"} = {} /\ retired = {}

\* The moments of which it heard or will hear: 0 is that of the state which it shows
\* or will show first, the last one is now, and between them are the calls.
Told(kind) ==
  {0, Len(calls) + 1} \cup {k \in DOMAIN calls : calls[k].kind = kind /\ calls[k].status = "done"}

\* What a view tells, what it told first, and what it would tell now: for the names
\* only their number matters here.
Tells(kind, view) == IF kind = "state" THEN view ELSE DOMAIN view.names
First(kind) == IF kind = "state" THEN desired ELSE DOMAIN screen.dogs
Now(kind)   == IF kind = "state" THEN StateView ELSE DOMAIN order
At(kind, k) ==
  IF k = 0 THEN First(kind)
  ELSE IF k = Len(calls) + 1 THEN Now(kind) ELSE Tells(kind, calls[k].view)

Shows(v, x) == x \in v.lost \/ \E i \in DOMAIN v.bags : x \in v.bags[i]

\* The view w may come after the view v.
Precedes(v, w) ==
  /\ DOMAIN v.bags \subseteq DOMAIN w.bags
  /\ \A i \in DOMAIN v.bags : \A x \in v.bags[i] :
       x \notin w.lost /\ \A j \in DOMAIN w.bags : x \in w.bags[j] => i = j

\* What has gone does not come back.
StaysGone(u, v, w) == \A x \in Loot : Shows(u, x) /\ ~Shows(v, x) => ~Shows(w, x)

StatesInOrder ==
  /\ \A a, b \in Told("state") : a <= b => Precedes(At("state", a), At("state", b))
  /\ \A a, b, c \in Told("state") :
       a <= b /\ b <= c => StaysGone(At("state", a), At("state", b), At("state", c))

NamesInOrder ==
  \A a, b \in Told("players") : a <= b => At("players", a) \subseteq At("players", b)

LootInOrder ==
  /\ where = [x \in Loot |-> where[x]]
  /\ \A x \in Loot, a \in Told("state") : Shows(At("state", a), x) => where[x] # Life!Unborn
  /\ \A x \in Loot, p \in Persons : where[x] = Life!Bag(p) => InGame(p)

\* The calls of one kind are answered in order.
AnsweredInOrder ==
  \A j, k \in DOMAIN calls :
    /\ j < k /\ calls[j].kind = calls[k].kind /\ calls[j].kind # "action"
    /\ calls[j].status = "sent"
    => calls[k].status = "sent"

\* A screen draws what it knows.
Drawn(scr) == \A x \in Loot : scr.scene[x] = Known(scr, x)

\* The screen shows the view v.
Matches(scr, v) ==
  /\ scr.cur = DOMAIN v.bags
  /\ \A x \in Loot :
       /\ scr.lost[x] # None <=> x \in v.lost
       /\ \A i \in Slots : scr.data[i][x] # None <=> i \in DOMAIN v.bags /\ x \in v.bags[i]

\* What falls has gone.
FallsOnce ==
  \A x \in Loot : screen.falling[x] # None =>
    /\ where[x] # Life!Unborn
    /\ \A a \in Told("state") : ~Shows(At("state", a), x)

\* The view that the screen shows.
Shown == IF Started THEN desired ELSE NoView

DrawnInv ==
  /\ Drawn(screen) /\ FallsOnce /\ Matches(screen, Shown)
  /\ loaded \subseteq {"state", "players"}
  /\ "state" \notin loaded => desired = NoView

TellingInv == StatesInOrder /\ NamesInOrder /\ LootInOrder /\ AnsweredInOrder
HistoryInv == Undisturbed => TellingInv /\ DrawnInv

-----------------------------------------------------------------------------
(* The invariant of the screen *)

\* An element is taken out of a sequence.
LEMMA WithoutElement ==
  ASSUME NEW S, NEW s \in Seq(S), NEW k \in DOMAIN s
  PROVE  /\ Without(s, k) \in Seq(S)
         /\ Len(Without(s, k)) = Len(s) - 1
         /\ \A i \in DOMAIN Without(s, k) :
              /\ i < k => i \in DOMAIN s /\ Without(s, k)[i] = s[i]
              /\ i >= k => i + 1 \in DOMAIN s /\ Without(s, k)[i] = s[i + 1]
<1>1. k \in 1 .. Len(s) /\ Len(s) \in Nat
  OBVIOUS
<1>2. /\ SubSeq(s, 1, k - 1) \in Seq(S) /\ Len(SubSeq(s, 1, k - 1)) = k - 1
      /\ \A i \in 1 .. k - 1 : SubSeq(s, 1, k - 1)[i] = s[i]
  BY <1>1
<1>3. /\ SubSeq(s, k + 1, Len(s)) \in Seq(S) /\ Len(SubSeq(s, k + 1, Len(s))) = Len(s) - k
      /\ \A i \in 1 .. Len(s) - k : SubSeq(s, k + 1, Len(s))[i] = s[k + i]
  BY <1>1
<1> DEFINE a == SubSeq(s, 1, k - 1)
           b == SubSeq(s, k + 1, Len(s))
<1>4. Without(s, k) = a \o b
  BY DEF Without
<1> HIDE DEF a, b
<1>5. /\ a \in Seq(S) /\ Len(a) = k - 1 /\ \A i \in 1 .. k - 1 : a[i] = s[i]
      /\ b \in Seq(S) /\ Len(b) = Len(s) - k /\ \A i \in 1 .. Len(s) - k : b[i] = s[k + i]
  BY <1>2, <1>3 DEF a, b
<1>6. /\ a \o b \in Seq(S) /\ Len(a \o b) = Len(s) - 1
      /\ \A i \in 1 .. Len(s) - 1 :
           (a \o b)[i] = IF i <= k - 1 THEN a[i] ELSE b[i - (k - 1)]
  BY <1>1, <1>5
<1>7. ASSUME NEW i \in 1 .. Len(s) - 1
      PROVE  /\ i < k => i \in DOMAIN s /\ (a \o b)[i] = s[i]
             /\ i >= k => i + 1 \in DOMAIN s /\ (a \o b)[i] = s[i + 1]
  <2>1. CASE i < k
    BY <1>1, <1>5, <1>6, <2>1
  <2>2. CASE i >= k
    <3>1. i - (k - 1) \in 1 .. Len(s) - k /\ k + (i - (k - 1)) = i + 1
      BY <1>1, <2>2
    <3>2. QED BY <1>1, <1>5, <1>6, <2>2, <3>1
  <2>3. QED BY <1>1, <2>1, <2>2
<1>8. DOMAIN (a \o b) = 1 .. Len(s) - 1
  BY <1>6
<1>9. QED BY <1>4, <1>6, <1>7, <1>8

\* A copy that is made is none that is known.
LEMMA NewIsNew ==
  ASSUME NEW scr \in Screen, CanCreate(scr), NEW x \in Loot
  PROVE  New(scr, x) \in Copies /\ New(scr, x) \notin Known(scr, x) /\ New(scr, x) # None
<1>1. \E c \in Copies : c \notin scr.scene[x] \cup Known(scr, x)
  BY DEF CanCreate
<1>2. New(scr, x) \in Copies /\ New(scr, x) \notin scr.scene[x] \cup Known(scr, x)
  BY <1>1 DEF New
<1>3. QED BY <1>2, ScreenAssumption DEF Copies, None

\* What a player gets, or what appears on the map, is nothing that is shown
\* elsewhere.
LEMMA FoundIsFree ==
  ASSUME NEW scr \in Screen, Separate(scr), CanCreate(scr), NEW view, NEW x \in Loot
  PROVE  /\ Found(scr, view, x) \in Copies /\ Found(scr, view, x) # None
         /\ Found(scr, view, x) # scr.falling[x]
         /\ \A i \in Slots : Found(scr, view, x) # scr.data[i][x]
<1>1. CASE Abandoned(scr, view, x)
  <2>1. Found(scr, view, x) = scr.lost[x] /\ scr.lost[x] # None
    BY <1>1 DEF Found, Abandoned
  <2>2. scr.lost[x] \in Copies \cup {None}
    BY DEF Screen, Holding
  <2>3. QED BY <2>1, <2>2 DEF Separate
<1>2. CASE ~Abandoned(scr, view, x)
  BY <1>2, NewIsNew DEF Found, Known
<1>3. QED BY <1>1, <1>2

LEMMA LostIsFree ==
  ASSUME NEW scr \in Screen, Separate(scr), CanCreate(scr), NEW view, NEW x \in Loot
  PROVE  /\ LostAfter(scr, view)[x] \in Copies \cup {None}
         /\ LostAfter(scr, view)[x] # None =>
              /\ x \in view.lost
              /\ LostAfter(scr, view)[x] # scr.falling[x]
              /\ \A i \in Slots : LostAfter(scr, view)[x] # scr.data[i][x]
<1>1. scr.lost[x] \in Copies \cup {None}
  BY DEF Screen, Holding
<1>2. CASE x \notin view.lost
  BY <1>2 DEF LostAfter
<1>3. CASE x \in view.lost /\ scr.lost[x] # None
  BY <1>1, <1>3 DEF LostAfter, Separate
<1>4. CASE x \in view.lost /\ scr.lost[x] = None
  BY <1>4, NewIsNew DEF LostAfter, Known
<1>5. QED BY <1>2, <1>3, <1>4

\* What a bag shows afterwards was found for it or was in it.
LEMMA BagIsFoundOrKept ==
  ASSUME NEW scr \in Screen, NEW view, NEW i \in Slots, NEW x \in Loot
  PROVE  LET c == Bag(scr, view, i)[x]
         IN \/ c = None
            \/ Wants(scr, view, i, x) /\ c = Found(scr, view, x)
            \/ c = scr.data[i][x] /\ (i \in DOMAIN view.bags => x \in view.bags[i])
<1>1. Blank[x] = None
  BY DEF Blank
<1>2. CASE i \notin DOMAIN view.bags
  BY <1>1, <1>2 DEF Bag
<1>3. CASE i \in DOMAIN view.bags
  <2>1. Kept(scr, i)[x] \in {None, scr.data[i][x]}
    BY <1>1 DEF Kept
  <2>2. Bag(scr, view, i)[x] = IF Wants(scr, view, i, x) THEN Found(scr, view, x)
                               ELSE IF x \in view.bags[i] THEN Kept(scr, i)[x] ELSE None
    BY <1>3 DEF Bag
  <2>3. QED BY <2>1, <2>2
<1>4. QED BY <1>2, <1>3

\* What falls afterwards lay on the map, was in a bag, or fell before.
LEMMA FallsFromSomewhere ==
  ASSUME NEW scr \in Screen, NEW view, NEW x \in Loot
  PROVE  LET c == FallingAfter(scr, view)[x]
         IN \/ Abandoned(scr, view, x) /\ ~IsTaken(scr, view, x) /\ c = scr.lost[x]
            \/ \E i \in Slots : /\ i \in DOMAIN view.bags /\ x \notin view.bags[i]
                               /\ scr.data[i][x] # None /\ c = scr.data[i][x]
            \/ c = scr.falling[x]
<1>1. Blank[x] = None
  BY DEF Blank
<1>2. CASE Abandoned(scr, view, x) /\ ~IsTaken(scr, view, x)
  BY <1>2 DEF FallingAfter
<1>3. CASE ~(Abandoned(scr, view, x) /\ ~IsTaken(scr, view, x)) /\ Droppers(scr, view, x) = {}
  BY <1>3 DEF FallingAfter
<1>4. CASE ~(Abandoned(scr, view, x) /\ ~IsTaken(scr, view, x)) /\ Droppers(scr, view, x) # {}
  <2>1. PICK i \in Droppers(scr, view, x) : FallingAfter(scr, view)[x] = scr.data[i][x]
    BY <1>4 DEF FallingAfter
  <2>2. /\ i \in Slots /\ i \in DOMAIN view.bags /\ x \notin view.bags[i]
        /\ Kept(scr, i)[x] # None
    BY <2>1 DEF Droppers
  <2>3. scr.data[i][x] # None
    BY <1>1, <2>2 DEF Kept
  <2>4. QED BY <2>1, <2>2, <2>3
<1>5. QED BY <1>2, <1>3, <1>4

LEMMA AppliedSeparate ==
  ASSUME NEW scr \in Screen, Separate(scr), CanCreate(scr), NEW view, Consistent(view)
  PROVE  Separate(Applied(scr, view))
<1> DEFINE lost == LostAfter(scr, view)
           falling == FallingAfter(scr, view)
           data == [i \in Slots |-> Bag(scr, view, i)]
<1>1. /\ Applied(scr, view).lost = lost /\ Applied(scr, view).falling = falling
      /\ Applied(scr, view).data = data
  BY DEF Applied
<1>2. SUFFICES ASSUME NEW x \in Loot
               PROVE  /\ lost[x] # None => lost[x] # falling[x]
                      /\ \A i \in Slots : data[i][x] # None =>
                           /\ data[i][x] \notin {lost[x], falling[x]}
                           /\ \A j \in Slots \ {i} : data[i][x] # data[j][x]
  BY <1>1 DEF Separate
<1>3. \A i \in Slots : data[i] = Bag(scr, view, i)
  OBVIOUS
<1> HIDE DEF lost, falling, data
<1>4. /\ \A i \in DOMAIN view.bags : ~(x \in view.bags[i] /\ x \in view.lost)
      /\ \A i, j \in DOMAIN view.bags : i # j => ~(x \in view.bags[i] /\ x \in view.bags[j])
  BY DEF Consistent
<1>5. lost[x] # None => /\ x \in view.lost /\ lost[x] # scr.falling[x]
                        /\ \A i \in Slots : lost[x] # scr.data[i][x]
  BY LostIsFree DEF lost
<1>6. /\ Found(scr, view, x) # None /\ Found(scr, view, x) # scr.falling[x]
      /\ \A i \in Slots : Found(scr, view, x) # scr.data[i][x]
  BY FoundIsFree
<1>7. \A i \in Slots :
        \/ data[i][x] = None
        \/ Wants(scr, view, i, x) /\ data[i][x] = Found(scr, view, x)
        \/ data[i][x] = scr.data[i][x] /\ (i \in DOMAIN view.bags => x \in view.bags[i])
  BY <1>3, BagIsFoundOrKept
<1>8. \/ Abandoned(scr, view, x) /\ ~IsTaken(scr, view, x) /\ falling[x] = scr.lost[x]
      \/ \E i \in Slots : /\ i \in DOMAIN view.bags /\ x \notin view.bags[i]
                         /\ scr.data[i][x] # None /\ falling[x] = scr.data[i][x]
      \/ falling[x] = scr.falling[x]
  BY FallsFromSomewhere DEF falling
<1>9. \A i \in Slots : Wants(scr, view, i, x) =>
        i \in DOMAIN view.bags /\ x \in view.bags[i] /\ IsTaken(scr, view, x)
  BY DEF Wants, IsTaken
<1>10. \A i \in Slots : scr.data[i][x] # None =>
         /\ scr.data[i][x] # scr.lost[x] /\ scr.data[i][x] # scr.falling[x]
         /\ \A j \in Slots \ {i} : scr.data[i][x] # scr.data[j][x]
  BY DEF Separate
<1>11. lost[x] # None => lost[x] # falling[x]
  BY <1>5, <1>8 DEF Abandoned
<1>12. ASSUME NEW i \in Slots, data[i][x] # None
       PROVE  data[i][x] # lost[x] /\ data[i][x] # falling[x]
  <2>1. CASE Wants(scr, view, i, x) /\ data[i][x] = Found(scr, view, x)
    <3>1. lost[x] = None
      BY <1>4, <1>5, <1>9, <2>1
    <3>2. data[i][x] # falling[x]
      BY <1>6, <1>8, <1>9, <2>1
    <3>3. QED BY <1>12, <3>1, <3>2
  <2>2. CASE data[i][x] = scr.data[i][x] /\ (i \in DOMAIN view.bags => x \in view.bags[i])
    <3>1. data[i][x] # lost[x]
      BY <1>5, <1>12, <2>2
    <3>2. data[i][x] # falling[x]
      BY <1>8, <1>10, <1>12, <2>2
    <3>3. QED BY <3>1, <3>2
  <2>3. QED BY <1>7, <1>12, <2>1, <2>2
<1>13. ASSUME NEW i \in Slots, NEW j \in Slots \ {i}, data[i][x] # None
       PROVE  data[i][x] # data[j][x]
  BY <1>4, <1>6, <1>7, <1>9, <1>10, <1>13
<1>14. QED BY <1>11, <1>12, <1>13

LEMMA AppliedScreen ==
  ASSUME NEW scr \in Screen, Separate(scr), CanCreate(scr), NEW view, Consistent(view)
  PROVE  Applied(scr, view) \in Screen
<1>1. /\ scr.lost \in Holding /\ scr.falling \in Holding /\ scr.dogs \in Seq(Persons)
      /\ \A i \in Slots : scr.data[i] \in Holding
      /\ scr.scene \in [Loot -> SUBSET Copies]
  BY DEF Screen
<1>2. ASSUME NEW i \in Slots PROVE Bag(scr, view, i) \in Holding
  <2>1. \A x \in Loot : Bag(scr, view, i)[x] \in Copies \cup {None}
    BY <1>1, FoundIsFree, BagIsFoundOrKept DEF Holding
  <2>2. CASE i \notin DOMAIN view.bags
    BY <1>1, <2>2 DEF Bag, Blank, Holding
  <2>3. CASE i \in DOMAIN view.bags
    <3>1. Bag(scr, view, i) = [x \in Loot |-> Bag(scr, view, i)[x]]
      BY <2>3 DEF Bag
    <3>2. QED BY <2>1, <3>1 DEF Holding
  <2>4. QED BY <2>2, <2>3
<1>3. LostAfter(scr, view) \in Holding
  <2>1. LostAfter(scr, view) = [x \in Loot |-> LostAfter(scr, view)[x]]
    BY DEF LostAfter
  <2>2. \A x \in Loot : LostAfter(scr, view)[x] \in Copies \cup {None}
    BY LostIsFree
  <2>3. QED BY <2>1, <2>2 DEF Holding
<1>4. FallingAfter(scr, view) \in Holding
  <2>1. FallingAfter(scr, view) = [x \in Loot |-> FallingAfter(scr, view)[x]]
    BY DEF FallingAfter
  <2>2. \A x \in Loot : FallingAfter(scr, view)[x] \in Copies \cup {None}
    BY <1>1, FallsFromSomewhere DEF Holding
  <2>3. QED BY <2>1, <2>2 DEF Holding
<1>5. SceneAfter(scr, view) \in [Loot -> SUBSET Copies]
  <2>1. \A x \in Loot : New(scr, x) \in Copies
    BY NewIsNew
  <2>2. QED BY <1>1, <2>1 DEF SceneAfter
<1>6. DOMAIN view.bags \in SUBSET Nat
  BY DEF Consistent, View
<1>7. QED BY <1>1, <1>2, <1>3, <1>4, <1>5, <1>6 DEF Applied, Screen

\* A list of players takes copies away and adds none.
LEMMA ListedKeeps ==
  ASSUME NEW scr \in Screen, Separate(scr), NEW names \in Seq(Persons)
  PROVE  /\ Listed(scr, names) \in Screen /\ Separate(Listed(scr, names))
         /\ CanCreate(scr) => CanCreate(Listed(scr, names))
<1> DEFINE after == Listed(scr, names)
           dogs == [i \in DOMAIN names |-> IF i \in DOMAIN scr.dogs THEN scr.dogs[i] ELSE names[i]]
           data == [i \in Slots |-> IF i \in DOMAIN names \cup scr.cur THEN scr.data[i] ELSE Blank]
<1>1. Blank \in Holding /\ \A x \in Loot : Blank[x] = None
  BY DEF Blank, Holding
<1>2. /\ scr.lost \in Holding /\ scr.falling \in Holding /\ scr.dogs \in Seq(Persons)
      /\ \A i \in Slots : scr.data[i] \in Holding
      /\ scr.scene \in [Loot -> SUBSET Copies] /\ scr.cur \in SUBSET Nat
  BY DEF Screen
<1>3. dogs \in Seq(Persons)
  <2>1. PICK n \in Nat : DOMAIN names = 1 .. n
    OBVIOUS
  <2>2. \A i \in DOMAIN names : names[i] \in Persons
    OBVIOUS
  <2>3. \A i \in DOMAIN scr.dogs : scr.dogs[i] \in Persons
    BY <1>2
  <2>4. dogs \in [1 .. n -> Persons]
    BY <2>1, <2>2, <2>3
  <2>5. QED BY <2>4
<1>4. data \in [Slots -> Holding]
  BY <1>1, <1>2
<1>5. /\ after.cur = scr.cur /\ after.lost = scr.lost /\ after.falling = scr.falling
      /\ after.dogs = dogs /\ after.data = data
      /\ \A x \in Loot : after.scene[x] \subseteq scr.scene[x]
      /\ after.scene \in [Loot -> SUBSET Copies]
      /\ after = [cur |-> after.cur, dogs |-> after.dogs, data |-> after.data,
                  lost |-> after.lost, falling |-> after.falling, scene |-> after.scene]
  BY <1>2 DEF Listed, Screen
<1>6. \A i \in Slots, x \in Loot : after.data[i][x] \in {None, scr.data[i][x]}
  BY <1>1, <1>5
<1> HIDE DEF after, dogs, data
<1>7. after \in Screen
  BY <1>2, <1>3, <1>4, <1>5 DEF Screen
<1>8. Separate(after)
  BY <1>5, <1>6 DEF Separate
<1>9. \A x \in Loot : Known(after, x) \subseteq Known(scr, x)
  BY <1>5, <1>6 DEF Known
<1>10. CanCreate(scr) => CanCreate(after)
  BY <1>5, <1>9 DEF CanCreate
<1>11. QED BY <1>7, <1>8, <1>10 DEF after

LEMMA ExpiredKeeps ==
  ASSUME NEW scr \in Screen, Separate(scr), NEW gone
  PROVE  Expired(scr, gone) \in Screen /\ Separate(Expired(scr, gone))
<1> DEFINE after == Expired(scr, gone)
<1>1. /\ scr.falling \in Holding /\ scr.scene \in [Loot -> SUBSET Copies]
  BY DEF Screen
<1>2. /\ after.cur = scr.cur /\ after.lost = scr.lost /\ after.dogs = scr.dogs
      /\ after.data = scr.data
      /\ after.falling = [x \in Loot |-> IF x \in gone THEN None ELSE scr.falling[x]]
      /\ after.scene = [x \in Loot |-> IF x \in gone THEN scr.scene[x] \ {scr.falling[x]}
                                       ELSE scr.scene[x]]
      /\ after = [cur |-> after.cur, dogs |-> after.dogs, data |-> after.data,
                  lost |-> after.lost, falling |-> after.falling, scene |-> after.scene]
  BY DEF Expired, Screen
<1> HIDE DEF after
<1>3. after.falling \in Holding /\ after.scene \in [Loot -> SUBSET Copies]
  BY <1>1, <1>2 DEF Holding
<1>4. after \in Screen
  BY <1>2, <1>3 DEF Screen
<1>5. Separate(after)
  BY <1>2 DEF Separate
<1>6. QED BY <1>4, <1>5 DEF after

LEMMA NoViewConsistent == Consistent(NoView)
BY DEF Consistent, View, NoView

LEMMA WithoutCall ==
  ASSUME CallsOK, NEW k \in DOMAIN calls, calls' = Without(calls, k)
  PROVE  CallsOK'
<1>1. /\ Without(calls, k) \in Seq(CallRecord)
      /\ \A i \in DOMAIN Without(calls, k) :
           /\ i < k => i \in DOMAIN calls /\ Without(calls, k)[i] = calls[i]
           /\ i >= k => i + 1 \in DOMAIN calls /\ Without(calls, k)[i] = calls[i + 1]
  BY WithoutElement DEF CallsOK, Fine
<1>2. k \in Nat /\ \A i \in DOMAIN Without(calls, k) : i \in Nat
  BY <1>1 DEF CallsOK, Fine
<1>3. \A i \in DOMAIN Without(calls, k) : \E j \in DOMAIN calls : Without(calls, k)[i] = calls[j]
  <2>1. \A i \in DOMAIN Without(calls, k) : i < k \/ i >= k
    BY <1>2
  <2>2. QED BY <1>1, <2>1
<1>4. QED BY <1>1, <1>3 DEF CallsOK, Fine

\* New calls are added behind, and bring no view along.
LEMMA ConcatCalls ==
  ASSUME NEW s, NEW t, Fine(s), Fine(t)
  PROVE  Fine(s \o t)
<1>1. /\ s \in Seq(CallRecord) /\ t \in Seq(CallRecord)
      /\ Len(s) \in Nat /\ Len(t) \in Nat
      /\ \A k \in 1 .. Len(s) : Consistent(s[k].view)
      /\ \A k \in 1 .. Len(t) : Consistent(t[k].view)
  BY DEF Fine
<1>2. /\ s \o t \in Seq(CallRecord) /\ Len(s \o t) = Len(s) + Len(t)
      /\ DOMAIN (s \o t) = 1 .. Len(s) + Len(t)
      /\ \A k \in 1 .. Len(s) + Len(t) : (s \o t)[k] = IF k <= Len(s) THEN s[k] ELSE t[k - Len(s)]
  BY <1>1
<1>3. ASSUME NEW k \in 1 .. Len(s) + Len(t) PROVE Consistent((s \o t)[k].view)
  <2>1. CASE k <= Len(s)
    BY <1>1, <1>2, <2>1
  <2>2. CASE ~(k <= Len(s))
    <3>1. k - Len(s) \in 1 .. Len(t)
      BY <1>1, <2>2
    <3>2. QED BY <1>1, <1>2, <2>2, <3>1
  <2>3. QED BY <2>1, <2>2
<1>4. QED BY <1>2, <1>3 DEF Fine

LEMMA NewCalls ==
  /\ Fine(<<>>)
  /\ \A kind \in Kinds, key \in Keys \cup {""} : Fine(<<Call(kind, key)>>)
  /\ Fine(States) /\ Fine(Players)
<1>1. ASSUME NEW c \in CallRecord, Consistent(c.view) PROVE Fine(<<c>>)
  <2>1. <<c>> \in Seq(CallRecord) /\ DOMAIN <<c>> = {1} /\ <<c>>[1] = c
    OBVIOUS
  <2>2. QED BY <1>1, <2>1 DEF Fine
<1>2. \A kind \in Kinds, key \in Keys \cup {""} :
        Call(kind, key) \in CallRecord /\ Consistent(Call(kind, key).view)
  BY NoViewConsistent DEF Call, CallRecord, Consistent
<1>3. Fine(<<>>)
  BY DEF Fine
<1>4. QED BY <1>1, <1>2, <1>3 DEF States, Players, Kinds

\* What the server would tell now has every object in one place.
LEMMA NowConsistent == OrderOK => Consistent(StateView)
<1>1. SUFFICES ASSUME OrderOK PROVE Consistent(StateView)
  OBVIOUS
<1>2. \A i, j \in DOMAIN order, x \in Loot :
        where[x] = Life!Bag(order[i]) /\ where[x] = Life!Bag(order[j]) => i = j
  BY <1>1 DEF Life!Bag, OrderOK
<1>3. \A p \in Persons : Life!Bag(p) # Life!OnMap
  BY DEF Life!Bag, Life!OnMap
<1>4. StateView.bags \in Seq(SUBSET Loot)
  <2>1. PICK n \in Nat : DOMAIN order = 1 .. n
    BY <1>1 DEF OrderOK
  <2>2. StateView.bags \in [1 .. n -> SUBSET Loot]
    BY <2>1 DEF StateView
  <2>3. QED BY <2>2
<1>5. \A i \in DOMAIN order : order[i] \in Persons
  BY <1>1 DEF OrderOK
<1>6. /\ DOMAIN StateView.bags = DOMAIN order
      /\ \A i \in DOMAIN order : StateView.bags[i] = {x \in Loot : where[x] = Life!Bag(order[i])}
      /\ StateView.lost = {x \in Loot : where[x] = Life!OnMap}
  BY DEF StateView
<1>7. StateView \in View
  BY <1>4 DEF StateView, View
<1>8. QED BY <1>2, <1>3, <1>5, <1>6, <1>7 DEF Consistent

\* A reply tells of one moment, at which an object is in one place.
LEMMA ReplyConsistent ==
  ASSUME OrderOK, NEW c \in CallRecord, Consistent(c.view)
  PROVE  Reply(c) \in CallRecord /\ Consistent(Reply(c).view)
<1>1. Consistent(StateView)
  BY NowConsistent
<1>2. Consistent(PlayersView)
  BY DEF PlayersView, Consistent, View, OrderOK
<1>3. /\ [c EXCEPT !.status = "refused"] \in CallRecord
      /\ [c EXCEPT !.status = "refused"].view = c.view
      /\ [c EXCEPT !.status = "done"] \in CallRecord
      /\ [c EXCEPT !.status = "done"].view = c.view
  BY DEF CallRecord
<1>4. \A v \in View : /\ [c EXCEPT !.status = "done", !.view = v] \in CallRecord
                      /\ [c EXCEPT !.status = "done", !.view = v].view = v
  BY DEF CallRecord
<1>5. StateView \in View /\ PlayersView \in View
  BY <1>1, <1>2 DEF Consistent
<1>6. c.kind \in {"state", "players", "action"}
  BY DEF CallRecord, Kinds
<1>7. QED BY <1>1, <1>2, <1>3, <1>4, <1>5, <1>6 DEF Reply

LEMMA ClientInit == Init => ClientInv
<1>1. SUFFICES ASSUME Init PROVE ClientInv
  OBVIOUS
<1>2. OrderOK
  <2>1. PICK p \in Persons : order = <<Me>> \/ (p # Me /\ order = <<p, Me>>)
    BY <1>1, ClientAssumption DEF Init
  <2>2. Me \in Persons
    BY ClientAssumption
  <2>3. CASE order = <<Me>>
    <3>1. order \in Seq(Persons) /\ DOMAIN order = {1}
      BY <2>2, <2>3
    <3>2. QED BY <3>1 DEF OrderOK
  <2>4. CASE p # Me /\ order = <<p, Me>>
    <3>1. /\ order \in Seq(Persons) /\ DOMAIN order = {1, 2}
          /\ order[1] = p /\ order[2] = Me
      BY <2>2, <2>4
    <3>2. QED BY <2>4, <3>1 DEF OrderOK
  <2>5. QED BY <2>1, <2>3, <2>4
<1>3. CallsOK
  BY <1>1, NewCalls, ConcatCalls DEF Init, CallsOK
<1>4. Consistent(desired) /\ pressed \in Seq(Keys)
  <2>1. desired = NoView /\ pressed = <<>>
    BY <1>1 DEF Init
  <2>2. <<>> \in Seq(Keys)
    OBVIOUS
  <2>3. QED BY <2>1, <2>2, NoViewConsistent
<1>5. ScreenOK
  <2>1. EmptyScreen \in Screen
    <3>1. Blank \in Holding
      BY DEF Blank, Holding
    <3>2. <<>> \in Seq(Persons)
      OBVIOUS
    <3>3. QED BY <3>1, <3>2 DEF EmptyScreen, Screen
  <2>2. Separate(EmptyScreen)
    BY DEF Separate, EmptyScreen, Blank
  <2>3. QED BY <1>1, <2>1, <2>2 DEF Init, ScreenOK
<1>6. QED BY <1>2, <1>3, <1>4, <1>5 DEF ClientInv

\* What the session does to the order of its players.
LEMMA SessionOrder == ASSUME OrderOK, Session PROVE OrderOK'
<1>1. CASE MoveLoot
  BY <1>1 DEF MoveLoot, OrderOK
<1>2. ASSUME NEW p \in Persons, Join(p) PROVE OrderOK'
  <2>1. /\ order' = Append(order, p) /\ Len(order) \in Nat
        /\ \A i \in DOMAIN order : order[i] # p
    BY <1>2 DEF Join, InGame, OrderOK
  <2>2. /\ order' \in Seq(Persons) /\ DOMAIN order' = 1 .. Len(order) + 1
        /\ DOMAIN order = 1 .. Len(order)
        /\ \A i \in 1 .. Len(order) : order'[i] = order[i]
        /\ order'[Len(order) + 1] = p
    BY <2>1 DEF OrderOK
  <2>3. \A i \in 1 .. Len(order) + 1 : i \in 1 .. Len(order) \/ i = Len(order) + 1
    BY <2>1
  <2>4. \A i, j \in DOMAIN order' : order'[i] = order'[j] => i = j
    BY <2>1, <2>2, <2>3 DEF OrderOK
  <2>5. QED BY <2>2, <2>4 DEF OrderOK
<1>3. ASSUME NEW p \in Persons, Retire(p) PROVE OrderOK'
  <2>1. PICK k \in DOMAIN order : order' = Without(order, k)
    BY <1>3 DEF Retire
  <2>2. /\ order' \in Seq(Persons)
        /\ \A i \in DOMAIN order' :
             /\ i < k => i \in DOMAIN order /\ order'[i] = order[i]
             /\ i >= k => i + 1 \in DOMAIN order /\ order'[i] = order[i + 1]
    BY <2>1, WithoutElement DEF OrderOK
  <2>3. k \in Nat /\ \A i \in DOMAIN order' : i \in Nat
    BY <2>2 DEF OrderOK
  <2>4. ASSUME NEW i \in DOMAIN order', NEW j \in DOMAIN order', order'[i] = order'[j]
        PROVE  i = j
    <3>1. /\ i \in Nat /\ j \in Nat
          /\ i < k => i \in DOMAIN order /\ order'[i] = order[i]
          /\ i >= k => i + 1 \in DOMAIN order /\ order'[i] = order[i + 1]
          /\ j < k => j \in DOMAIN order /\ order'[j] = order[j]
          /\ j >= k => j + 1 \in DOMAIN order /\ order'[j] = order[j + 1]
      BY <2>2, <2>3
    <3>2. CASE i < k /\ j < k
      BY <2>4, <3>1, <3>2 DEF OrderOK
    <3>3. CASE i < k /\ j >= k
      <4>1. i = j + 1
        BY <2>4, <3>1, <3>3 DEF OrderOK
      <4>2. QED BY <2>3, <3>1, <3>3, <4>1
    <3>4. CASE i >= k /\ j < k
      <4>1. i + 1 = j
        BY <2>4, <3>1, <3>4 DEF OrderOK
      <4>2. QED BY <2>3, <3>1, <3>4, <4>1
    <3>5. CASE i >= k /\ j >= k
      <4>1. i + 1 = j + 1
        BY <2>4, <3>1, <3>5 DEF OrderOK
      <4>2. QED BY <3>1, <4>1
    <3>6. QED BY <2>3, <3>1, <3>2, <3>3, <3>4, <3>5
  <2>5. QED BY <2>2, <2>4 DEF OrderOK
<1>4. QED BY <1>1, <1>2, <1>3 DEF Session

LEMMA AnswerInv == ASSUME ClientInv, NEW k, Answer(k) PROVE ClientInv'
<1>1. k \in DOMAIN calls /\ calls' = [calls EXCEPT ![k] = Reply(@)]
  BY DEF Answer
<1>2. calls \in Seq(CallRecord) /\ \A j \in DOMAIN calls : Consistent(calls[j].view)
  BY DEF ClientInv, CallsOK, Fine
<1>3. calls[k] \in CallRecord /\ Consistent(calls[k].view)
  BY <1>1, <1>2
<1>4. Reply(calls[k]) \in CallRecord /\ Consistent(Reply(calls[k]).view)
  BY <1>3, ReplyConsistent DEF ClientInv
<1>5. CallsOK'
  <2>1. /\ calls' \in Seq(CallRecord) /\ DOMAIN calls' = DOMAIN calls
        /\ \A j \in DOMAIN calls : calls'[j] = IF j = k THEN Reply(calls[k]) ELSE calls[j]
    BY <1>1, <1>2, <1>4
  <2>2. QED BY <1>2, <1>4, <2>1 DEF CallsOK, Fine
<1>6. UNCHANGED <<order, desired, pressed, screen>>
  BY DEF Answer, clientVars
<1>7. QED BY <1>5, <1>6 DEF ClientInv, OrderOK, ScreenOK

LEMMA DeliverInv == ASSUME ClientInv, NEW k, Deliver(k) PROVE ClientInv'
<1>1. k \in DOMAIN calls /\ CanCreate(screen)
  BY DEF Deliver
<1>2. UNCHANGED <<order, pressed>>
  BY DEF Deliver, sessionVars
<1>3. Consistent(calls[k].view) /\ calls[k].view.names \in Seq(Persons)
  BY <1>1 DEF ClientInv, CallsOK, Fine, Consistent, View
<1>4. CallsOK'
  <2>1. CASE calls' = <<>>
    BY <2>1, NewCalls DEF CallsOK
  <2>2. CASE calls' = Without(calls, k)
    BY <1>1, <2>2, WithoutCall DEF ClientInv
  <2>3. QED BY <2>1, <2>2 DEF Deliver
<1>5. Consistent(desired)' /\ ScreenOK'
  <2>1. screen \in Screen /\ Separate(screen) /\ Consistent(desired)
    BY DEF ClientInv, ScreenOK
  <2>2. CASE Refused(calls[k].kind) \/ ActionDone
    BY <2>1, <2>2 DEF Refused, ActionDone, ScreenOK
  <2>3. CASE StateDone(calls[k].view)
    BY <1>1, <1>3, <2>1, <2>3, AppliedScreen, AppliedSeparate DEF StateDone, ScreenOK
  <2>4. CASE PlayersDone(calls[k].view)
    <3> DEFINE listed == Listed(screen, calls[k].view.names)
    <3>1. listed \in Screen /\ Separate(listed) /\ CanCreate(listed)
      BY <1>1, <1>3, <2>1, ListedKeeps
    <3>2. screen' = (IF loaded = {"state"} THEN Applied(listed, desired) ELSE listed)
          /\ desired' = desired
      BY <2>4 DEF PlayersDone
    <3> HIDE DEF listed
    <3>3. QED BY <2>1, <3>1, <3>2, AppliedScreen, AppliedSeparate DEF ScreenOK
  <2>5. QED BY <2>2, <2>3, <2>4 DEF Deliver
<1>6. QED BY <1>2, <1>4, <1>5 DEF ClientInv, OrderOK

LEMMA TickInv == ASSUME ClientInv, Tick PROVE ClientInv'
<1>1. UNCHANGED <<order, desired, pressed>>
  BY DEF Tick, sessionVars
<1>2. CallsOK'
  <2>1. PICK asked \in {States, <<>>}, listed \in {Players, <<>>} :
          calls' = calls \o asked \o listed
    BY DEF Tick
  <2>2. Fine(calls) /\ Fine(asked) /\ Fine(listed)
    BY <2>1, NewCalls DEF ClientInv, CallsOK
  <2>3. Fine(calls \o asked \o listed)
    BY <2>2, ConcatCalls
  <2>4. QED BY <2>1, <2>3 DEF CallsOK
<1>3. ScreenOK'
  BY ExpiredKeeps DEF Tick, ClientInv, ScreenOK
<1>4. QED BY <1>1, <1>2, <1>3 DEF ClientInv, OrderOK

LEMMA PressAdds ==
  ASSUME ClientInv, NEW ks \in Seq(Keys), Press(ks)
  PROVE  /\ Fine(<<Call("action", LastKey(ks))>>)
         /\ <<Call("action", LastKey(ks))>> \in Seq(CallRecord)
         /\ calls' = calls \o <<Call("action", LastKey(ks))>>
<1>1. LastKey(ks) \in Keys \cup {""}
  <2>1. CASE ks = <<>>
    BY <2>1 DEF LastKey
  <2>2. CASE ks # <<>>
    <3>1. Len(ks) \in DOMAIN ks
      BY <2>2
    <3>2. ks[Len(ks)] \in Keys
      BY <3>1
    <3>3. QED BY <2>2, <3>2 DEF LastKey
  <2>3. QED BY <2>1, <2>2
<1>2. Fine(<<Call("action", LastKey(ks))>>)
  BY <1>1, NewCalls DEF Kinds
<1>3. calls' = calls \o <<Call("action", LastKey(ks))>>
  BY DEF Press, ClientInv, CallsOK, Fine
<1>4. QED BY <1>2, <1>3 DEF Fine

LEMMA KeysPress ==
  ASSUME ClientInv, NEW key \in Keys, KeyDown(key) \/ KeyUp(key)
  PROVE  \E ks \in Seq(Keys) : Press(ks)
<1>1. CASE KeyDown(key)
  <2>1. Append(pressed, key) \in Seq(Keys)
    BY DEF ClientInv
  <2>2. QED BY <1>1, <2>1 DEF KeyDown
<1>2. CASE KeyUp(key)
  <2>1. PICK k \in DOMAIN pressed : Press(Without(pressed, k))
    BY <1>2 DEF KeyUp
  <2>2. Without(pressed, k) \in Seq(Keys)
    BY <2>1, WithoutElement DEF ClientInv
  <2>3. QED BY <2>1, <2>2
<1>3. QED BY <1>1, <1>2

LEMMA PressInv ==
  ASSUME ClientInv, NEW ks \in Seq(Keys), Press(ks)
  PROVE  ClientInv'
<1>1. CallsOK'
  BY PressAdds, ConcatCalls DEF ClientInv, CallsOK
<1>2. UNCHANGED <<order, desired, screen>> /\ pressed' = ks
  BY DEF Press, sessionVars
<1>3. QED BY <1>1, <1>2 DEF ClientInv, OrderOK, ScreenOK

LEMMA ClientStep == ClientInv /\ [Next]_vars => ClientInv'
<1>1. SUFFICES ASSUME ClientInv, [Next]_vars PROVE ClientInv'
  OBVIOUS
<1>2. CASE UNCHANGED vars
  <2>1. UNCHANGED <<order, calls, desired, pressed, screen>>
    BY <1>2 DEF vars, sessionVars, networkVars, clientVars
  <2>2. QED BY <1>1, <2>1 DEF ClientInv, OrderOK, CallsOK, ScreenOK
<1>3. CASE Session
  <2>1. UNCHANGED <<calls, desired, pressed, screen>>
    BY <1>3 DEF Session, networkVars, clientVars
  <2>2. QED BY <1>1, <1>3, <2>1, SessionOrder DEF ClientInv, CallsOK, ScreenOK
<1>4. ASSUME NEW k \in DOMAIN calls, Answer(k) PROVE ClientInv'
  BY <1>1, <1>4, AnswerInv
<1>5. ASSUME NEW k \in DOMAIN calls, Deliver(k) PROVE ClientInv'
  BY <1>1, <1>5, DeliverInv
<1>6. ASSUME NEW k \in DOMAIN calls, Fail(k) PROVE ClientInv'
  <2>1. UNCHANGED <<order, desired, pressed, screen>> /\ calls' = Without(calls, k)
    BY <1>6 DEF Fail, sessionVars, clientVars
  <2>2. CallsOK'
    BY <1>1, <1>6, <2>1, WithoutCall DEF ClientInv
  <2>3. QED BY <1>1, <2>1, <2>2 DEF ClientInv, OrderOK, ScreenOK
<1>7. CASE Tick
  BY <1>1, <1>7, TickInv
<1>8. ASSUME NEW key \in Keys, KeyDown(key) \/ KeyUp(key) PROVE ClientInv'
  BY <1>1, <1>8, KeysPress, PressInv
<1>9. QED BY <1>1, <1>2, <1>3, <1>4, <1>5, <1>6, <1>7, <1>8 DEF Next

\* However late the replies come, and whoever joins and retires meanwhile, a 3D
\* object of the client is in one place: _attachLootToPlayers moves an object
\* from the map to one bag at most, and _dropLoot takes nothing that has moved.
THEOREM ObjectsStaySingle == Spec => []OneObjectPerPlace
<1>1. ClientInv => OneObjectPerPlace
  BY DEF ClientInv, ScreenOK, Separate, OneObjectPerPlace
<1>2. QED BY <1>1, ClientInit, ClientStep, PTL DEF Spec

-----------------------------------------------------------------------------
(* The queue of players and the names *)

\* Who stays moves at most one place up.
LEMMA WithoutStays ==
  ASSUME NEW S, NEW s \in Seq(S), NEW k \in DOMAIN s, NEW j \in DOMAIN s, j # k
  PROVE  \E i \in DOMAIN Without(s, k) :
           Without(s, k)[i] = s[j] /\ j = IF i < k THEN i ELSE i + 1
<1>1. /\ k \in Nat /\ j \in Nat /\ Len(s) \in Nat /\ j <= Len(s) /\ j >= 1 /\ k >= 1 /\ k <= Len(s)
      /\ Without(s, k) \in Seq(S) /\ Len(Without(s, k)) = Len(s) - 1
  BY WithoutElement
<1> DEFINE t == Without(s, k)
<1>2. DOMAIN t = 1 .. Len(s) - 1
  BY <1>1
<1>3. \A i \in DOMAIN t : /\ i < k => t[i] = s[i]
                          /\ i >= k => t[i] = s[i + 1]
  BY WithoutElement
<1> HIDE DEF t
<1>4. CASE j < k
  <2>1. j \in DOMAIN t
    BY <1>1, <1>2, <1>4
  <2>2. QED BY <1>3, <1>4, <2>1 DEF t
<1>5. CASE j > k
  <2>1. j - 1 \in DOMAIN t /\ j - 1 >= k /\ (j - 1) + 1 = j /\ ~(j - 1 < k)
    BY <1>1, <1>2, <1>5
  <2>2. t[j - 1] = s[j]
    BY <1>3, <2>1
  <2>3. QED BY <2>1, <2>2 DEF t
<1>6. QED BY <1>1, <1>4, <1>5

LEMMA QueueInit == Init => QueueInv /\ NamesInv /\ KeysInv
<1>1. SUFFICES ASSUME Init PROVE QueueInv /\ NamesInv /\ KeysInv
  OBVIOUS
<1>2. order \in Seq(Persons) /\ OrderOK /\ CallsOK
  BY <1>1, ClientInit DEF ClientInv, OrderOK
<1>3. joined = order /\ retired = {} /\ heading = "" /\ pressed = <<>> /\ screen = EmptyScreen
  BY <1>1 DEF Init
<1>4. InGame(Me)
  <2>1. PICK p \in Persons : order = <<Me>> \/ order = <<p, Me>>
    BY <1>1, ClientAssumption DEF Init
  <2>2. \E i \in DOMAIN order : order[i] = Me
    <3>1. CASE order = <<Me>>
      <4>1. 1 \in DOMAIN order /\ order[1] = Me
        BY <3>1
      <4>2. QED BY <4>1
    <3>2. CASE order = <<p, Me>>
      <4>1. 2 \in DOMAIN order /\ order[2] = Me
        BY <3>2
      <4>2. QED BY <4>1
    <3>3. QED BY <2>1, <3>1, <3>2
  <2>3. QED BY <2>2 DEF InGame
<1>5. Right(order, joined, retired)
  BY <1>3 DEF Right
<1>6. QueueInv
  <2>1. Len(order) \in Nat
    BY <1>2
  <2>2. \A i \in DOMAIN joined : InGame(joined[i])
    BY <1>3 DEF InGame
  <2>3. joined \in Seq(Persons) /\ Len(order) <= Len(joined)
    <3>1. Len(joined) = Len(order)
      BY <1>3
    <3>2. Len(order) <= Len(joined)
      BY <2>1, <3>1
    <3>3. joined \in Seq(Persons)
      <4>1. joined = order /\ order \in Seq(Persons)
        BY <1>2, <1>3
      <4>2. QED BY <4>1
    <3>4. QED BY <3>2, <3>3
  <2>4. \A i, j \in DOMAIN joined : joined[i] = joined[j] => i = j
    BY <1>2, <1>3, Zenon DEF OrderOK
  <2>5. QED BY <1>4, <1>5, <2>2, <2>3, <2>4 DEF QueueInv, NobodyMissing
<1>7. Right(<<>>, joined, retired)
  BY DEF Right
<1>8. /\ DOMAIN calls = {1, 2}
      /\ \A k \in {1, 2} : calls[k].view = NoView /\ calls[k].kind \in {"state", "players"}
  <2> DEFINE c == Call("state", "")
             d == Call("players", "")
  <2>1. c.view = NoView /\ c.kind = "state" /\ d.view = NoView /\ d.kind = "players"
    BY DEF Call
  <2>2. calls = <<c>> \o <<d>>
    BY <1>1 DEF Init, States, Players
  <2> HIDE DEF c, d
  <2>3. <<c>> \in Seq({c, d}) /\ <<d>> \in Seq({c, d}) /\ Len(<<c>>) = 1 /\ Len(<<d>>) = 1
    OBVIOUS
  <2>4. DOMAIN calls = 1 .. 2 /\ calls[1] = c /\ calls[2] = d
    BY <2>2, <2>3
  <2>5. QED BY <2>1, <2>4
<1>9. NamesInv
  <2>1. \A k \in DOMAIN calls : calls[k].view = NoView
    BY <1>8
  <2>2. screen.dogs = <<>> /\ NoView.names = <<>>
    BY <1>3 DEF NoView, EmptyScreen
  <2>3. QED BY <1>7, <2>1, <2>2 DEF NamesInv
<1>10. KeysInv
  BY <1>3, <1>8 DEF KeysInv, Heard, Reports, LastKey
<1>11. QED BY <1>6, <1>9, <1>10

\* What was right of the names stays so: later players join behind, and who retires
\* takes all places from theirs on out of the promise.
LEMMA RightStays ==
  ASSUME QueueInv, NEW names, Right(names, joined, retired),
         \/ UNCHANGED joined
         \/ \E p : joined' = Append(joined, p),
         retired \subseteq retired'
  PROVE  Right(names, joined', retired')
<1>1. DOMAIN joined \subseteq DOMAIN joined' /\ \A i \in DOMAIN joined : joined'[i] = joined[i]
  BY DEF QueueInv
<1>2. ASSUME NEW i \in DOMAIN names, \A j \in 1 .. i : joined'[j] \notin retired'
      PROVE  names[i] = joined'[i]
  <2>1. i \in DOMAIN joined
    BY DEF Right
  <2>2. \A j \in 1 .. i : j \in DOMAIN joined
    BY <2>1 DEF QueueInv
  <2>3. \A j \in 1 .. i : joined[j] \notin retired
    BY <1>1, <1>2, <2>2
  <2>4. QED BY <1>1, <2>1, <2>3 DEF Right
<1>3. QED BY <1>1, <1>2 DEF Right

\* Nobody returns to a session, and who joins does so behind all others.
LEMMA JoinQueue ==
  ASSUME OrderOK, QueueInv, NEW p \in Persons, Join(p)
  PROVE  QueueInv' /\ joined' = Append(joined, p) /\ (InGame(Me)' => InGame(Me))
<1>1. /\ order' = Append(order, p) /\ joined' = Append(joined, p) /\ retired' = retired
      /\ ~InGame(p) /\ p \notin retired
  BY DEF Join
<1>2. /\ order \in Seq(Persons) /\ joined \in Seq(Persons) /\ Len(order) <= Len(joined)
      /\ \A i \in DOMAIN joined : joined[i] \in retired \/ InGame(joined[i])
      /\ \A i, j \in DOMAIN joined : joined[i] = joined[j] => i = j
      /\ (InGame(Me) \/ Me \in retired) /\ Right(order, joined, retired)
  BY DEF OrderOK, QueueInv, NobodyMissing
<1> DEFINE n == Len(order)
           m == Len(joined)
<1>3. /\ n \in Nat /\ m \in Nat /\ n <= m
      /\ DOMAIN order = 1 .. n /\ DOMAIN joined = 1 .. m
      /\ DOMAIN order' = 1 .. n + 1 /\ DOMAIN joined' = 1 .. m + 1
      /\ order' \in Seq(Persons) /\ joined' \in Seq(Persons)
      /\ Len(order') = n + 1 /\ Len(joined') = m + 1
      /\ \A i \in 1 .. n : order'[i] = order[i]
      /\ \A i \in 1 .. m : joined'[i] = joined[i]
      /\ order'[n + 1] = p /\ joined'[m + 1] = p
  BY <1>1, <1>2
<1> HIDE DEF n, m
<1>4. \A q : InGame(q)' <=> InGame(q) \/ q = p
  <2>1. \A i \in 1 .. n + 1 : i \in 1 .. n \/ i = n + 1
    BY <1>3
  <2>2. n + 1 \in 1 .. n + 1 /\ \A i \in 1 .. n : i \in 1 .. n + 1
    BY <1>3
  <2>3. QED BY <1>3, <2>1, <2>2 DEF InGame
<1>5. \A i \in 1 .. m : joined[i] # p
  BY <1>1, <1>2, <1>3
<1>6. \A i \in 1 .. m + 1 : i \in 1 .. m \/ i = m + 1
  BY <1>3
<1>7. \A i, j \in DOMAIN joined' : joined'[i] = joined'[j] => i = j
  BY <1>2, <1>3, <1>5, <1>6
<1>8. NobodyMissing'
  <2>1. ASSUME NEW i \in 1 .. m + 1, joined'[i] \notin retired
        PROVE  \E k \in DOMAIN order' : order'[k] = joined'[i]
    BY <1>2, <1>3, <1>4, <1>6, <2>1 DEF InGame
  <2>2. QED BY <1>1, <1>3, <2>1 DEF NobodyMissing, InGame
<1>9. Right(order', joined', retired')
  <2>1. ASSUME NEW i \in 1 .. n + 1, \A j \in 1 .. i : joined'[j] \notin retired
        PROVE  order'[i] = joined'[i]
    <3>1. CASE i \in 1 .. n
      <4>1. i \in 1 .. m /\ \A j \in 1 .. i : j \in 1 .. m
        BY <1>3, <3>1
      <4>2. \A j \in 1 .. i : joined[j] \notin retired
        BY <1>3, <2>1, <4>1
      <4>3. QED BY <1>2, <1>3, <3>1, <4>1, <4>2 DEF Right
    <3>2. CASE i = n + 1 /\ n = m
      BY <1>3, <3>2
    <3>3. CASE i = n + 1 /\ n < m
      <4>1. i \in 1 .. m /\ \A j \in 1 .. i : j \in 1 .. m
        BY <1>3, <3>3
      <4>2. \A j \in 1 .. i : joined[j] \notin retired
        BY <1>3, <2>1, <4>1
      <4>3. \A j \in 1 .. n : order[j] = joined[j]
        <5>1. \A j \in 1 .. n : j \in 1 .. i /\ \A h \in 1 .. j : h \in 1 .. i
          BY <1>3, <3>3
        <5>2. QED BY <1>2, <1>3, <4>2, <5>1 DEF Right
      <4>4. i \in 1 .. i
        BY <1>3, <3>3
      <4>5. InGame(joined[i])
        BY <1>2, <1>3, <4>1, <4>2, <4>4
      <4>6. PICK j \in 1 .. n : joined[j] = joined[i]
        BY <1>3, <4>3, <4>5 DEF InGame
      <4>7. j \in 1 .. m /\ j # i
        BY <1>3, <3>3
      <4>8. QED BY <1>2, <1>3, <4>1, <4>6, <4>7
    <3>4. QED BY <1>3, <3>1, <3>2, <3>3
  <2>2. \A i \in 1 .. n + 1 : i \in 1 .. m + 1
    BY <1>3
  <2>3. QED BY <1>1, <1>3, <2>1, <2>2 DEF Right
<1>10. (InGame(Me)' => InGame(Me)) /\ (InGame(Me)' \/ Me \in retired')
  BY <1>1, <1>2, <1>4
<1>11. Len(order') <= Len(joined')
  BY <1>3
<1>12. QED BY <1>1, <1>3, <1>7, <1>8, <1>9, <1>10, <1>11 DEF QueueInv

LEMMA RetireQueue ==
  ASSUME OrderOK, QueueInv, NEW p \in Persons, Retire(p)
  PROVE  QueueInv' /\ joined' = joined /\ (InGame(Me)' => InGame(Me))
<1>1. PICK k \in DOMAIN order : order[k] = p /\ order' = Without(order, k)
  BY DEF Retire
<1>2. joined' = joined /\ retired' = retired \cup {p}
  BY DEF Retire
<1>3. /\ order \in Seq(Persons) /\ joined \in Seq(Persons) /\ Len(order) <= Len(joined)
      /\ \A i \in DOMAIN joined : joined[i] \in retired \/ InGame(joined[i])
      /\ \A i, j \in DOMAIN joined : joined[i] = joined[j] => i = j
      /\ (InGame(Me) \/ Me \in retired) /\ Right(order, joined, retired)
  BY DEF OrderOK, QueueInv, NobodyMissing
<1>4. /\ order' \in Seq(Persons) /\ Len(order') = Len(order) - 1
      /\ \A i \in DOMAIN order' :
           /\ i < k => i \in DOMAIN order /\ order'[i] = order[i]
           /\ i >= k => i + 1 \in DOMAIN order /\ order'[i] = order[i + 1]
  BY <1>1, <1>3, WithoutElement
<1>5. /\ k \in Nat /\ k >= 1 /\ Len(order) \in Nat /\ Len(joined) \in Nat
      /\ DOMAIN order = 1 .. Len(order) /\ DOMAIN joined = 1 .. Len(joined)
      /\ DOMAIN order' = 1 .. Len(order) - 1
  BY <1>3, <1>4
<1>6. \A q : InGame(q) => InGame(q)' \/ q = p
  <2>1. \A j \in DOMAIN order : j # k => \E i \in DOMAIN order' : order'[i] = order[j]
    BY <1>1, <1>3, WithoutStays
  <2>2. QED BY <1>1, <2>1 DEF InGame
<1>7. \A q : InGame(q)' => InGame(q)
  <2>1. \A i \in DOMAIN order' : i < k \/ i >= k
    BY <1>5
  <2>2. QED BY <1>4, <2>1 DEF InGame
<1>8. Right(order', joined', retired')
  <2>1. ASSUME NEW i \in DOMAIN order', \A j \in 1 .. i : joined[j] \notin retired'
        PROVE  order'[i] = joined[i]
    <3>1. \A j \in 1 .. i : joined[j] \notin retired
      BY <1>2, <2>1
    <3>2. CASE i < k
      BY <1>3, <1>4, <3>1, <3>2 DEF Right
    <3>3. CASE i >= k
      <4>1. k \in 1 .. i /\ \A j \in 1 .. k : j \in 1 .. i
        BY <1>5, <3>3
      <4>2. joined[k] = p
        BY <1>1, <1>3, <3>1, <4>1 DEF Right
      <4>3. QED BY <1>2, <2>1, <4>1, <4>2
    <3>4. QED BY <1>5, <3>2, <3>3
  <2>2. \A i \in DOMAIN order' : i \in DOMAIN joined
    BY <1>3, <1>5
  <2>3. QED BY <1>2, <2>1, <2>2 DEF Right
<1>9. Len(order') <= Len(joined')
  BY <1>2, <1>3, <1>4, <1>5
<1>10. NobodyMissing'
  <2>1. ASSUME NEW i \in DOMAIN joined, joined[i] \notin retired'
        PROVE  \E j \in DOMAIN order' : order'[j] = joined[i]
    BY <1>2, <1>3, <1>6, <2>1 DEF InGame
  <2>2. QED BY <1>2, <2>1 DEF NobodyMissing, InGame
<1>11. InGame(Me)' \/ Me \in retired'
  BY <1>2, <1>3, <1>6
<1>12. QED BY <1>2, <1>3, <1>7, <1>8, <1>9, <1>10, <1>11 DEF QueueInv

LEMMA QueueStep ==
  ASSUME ClientInv, QueueInv, [Next]_vars
  PROVE  /\ QueueInv' /\ (InGame(Me)' => InGame(Me)) /\ retired \subseteq retired'
         /\ UNCHANGED joined \/ \E p : joined' = Append(joined, p)
<1>1. CASE UNCHANGED <<order, joined, retired>>
  BY <1>1 DEF QueueInv, NobodyMissing, InGame, Right
<1>2. CASE Session
  <2>1. CASE MoveLoot
    BY <1>1, <2>1 DEF MoveLoot
  <2>2. ASSUME NEW p \in Persons, Join(p)
        PROVE  /\ QueueInv' /\ (InGame(Me)' => InGame(Me)) /\ retired \subseteq retired'
               /\ joined' = Append(joined, p)
    BY <2>2, JoinQueue DEF ClientInv, Join
  <2>3. ASSUME NEW p \in Persons, Retire(p)
        PROVE  /\ QueueInv' /\ (InGame(Me)' => InGame(Me)) /\ retired \subseteq retired'
               /\ UNCHANGED joined
    BY <2>3, RetireQueue DEF ClientInv, Retire
  <2>4. QED BY <1>2, <2>1, <2>2, <2>3 DEF Session
<1>3. ~Session => UNCHANGED <<order, joined, retired>>
  <2>1. ASSUME NEW k, Answer(k) \/ Deliver(k) \/ Fail(k) PROVE UNCHANGED <<order, joined, retired>>
    BY <2>1 DEF Answer, Deliver, Fail, sessionVars
  <2>2. ASSUME NEW ks, Press(ks) PROVE UNCHANGED <<order, joined, retired>>
    BY <2>2 DEF Press, sessionVars
  <2>3. ASSUME NEW key, KeyDown(key) \/ KeyUp(key) PROVE UNCHANGED <<order, joined, retired>>
    BY <2>2, <2>3 DEF KeyDown, KeyUp
  <2>4. Tick \/ UNCHANGED vars => UNCHANGED <<order, joined, retired>>
    BY DEF Tick, vars, sessionVars
  <2>5. QED BY <2>1, <2>3, <2>4 DEF Next
<1>4. QED BY <1>1, <1>2, <1>3

\* What remains of the calls, without the k-th, and where it was.
LEMMA CallsMoved ==
  ASSUME CallsOK, NEW k \in DOMAIN calls, calls' = Without(calls, k)
  PROVE  /\ Len(calls') = Len(calls) - 1
         /\ \A i \in DOMAIN calls' : \E j \in DOMAIN calls :
              j # k /\ j = (IF i < k THEN i ELSE i + 1) /\ calls'[i] = calls[j]
         /\ \A j \in DOMAIN calls : j # k => \E i \in DOMAIN calls' :
              j = (IF i < k THEN i ELSE i + 1) /\ calls'[i] = calls[j]
<1>1. calls \in Seq(CallRecord)
  BY DEF CallsOK, Fine
<1>2. /\ Len(calls') = Len(calls) - 1 /\ calls' \in Seq(CallRecord)
      /\ \A i \in DOMAIN calls' :
           /\ i < k => i \in DOMAIN calls /\ calls'[i] = calls[i]
           /\ i >= k => i + 1 \in DOMAIN calls /\ calls'[i] = calls[i + 1]
  BY <1>1, WithoutElement
<1>3. k \in Nat /\ \A i \in DOMAIN calls' : i \in Nat
  BY <1>1, <1>2
<1>4. ASSUME NEW i \in DOMAIN calls'
      PROVE  \E j \in DOMAIN calls : j # k /\ j = (IF i < k THEN i ELSE i + 1) /\ calls'[i] = calls[j]
  <2>1. CASE i < k
    BY <1>2, <1>3, <2>1
  <2>2. CASE i >= k
    <3>1. i + 1 # k /\ ~(i < k)
      BY <1>3, <2>2
    <3>2. QED BY <1>2, <2>2, <3>1
  <2>3. QED BY <1>3, <2>1, <2>2
<1>5. \A j \in DOMAIN calls : j # k => \E i \in DOMAIN calls' :
        j = (IF i < k THEN i ELSE i + 1) /\ calls'[i] = calls[j]
  BY <1>1, WithoutStays
<1>6. QED BY <1>2, <1>4, <1>5

\* The calls that a frame or a key makes come last.
LEMMA CallsAdded ==
  ASSUME CallsOK, NEW new \in Seq(CallRecord), calls' = calls \o new
  PROVE  /\ Len(calls) \in Nat /\ DOMAIN calls = 1 .. Len(calls)
         /\ Len(calls') = Len(calls) + Len(new) /\ DOMAIN calls' = 1 .. Len(calls')
         /\ \A k \in DOMAIN calls : k \in DOMAIN calls' /\ calls'[k] = calls[k]
         /\ \A k \in DOMAIN calls' : k \notin DOMAIN calls =>
              k > Len(calls) /\ \E i \in DOMAIN new : calls'[k] = new[i]
<1>1. calls \in Seq(CallRecord) /\ Len(calls) \in Nat /\ Len(new) \in Nat
  BY DEF CallsOK, Fine
<1>2. /\ Len(calls') = Len(calls) + Len(new) /\ DOMAIN calls' = 1 .. Len(calls) + Len(new)
      /\ DOMAIN calls = 1 .. Len(calls)
      /\ \A k \in 1 .. Len(calls) + Len(new) :
           calls'[k] = IF k <= Len(calls) THEN calls[k] ELSE new[k - Len(calls)]
  BY <1>1
<1>3. ASSUME NEW k \in DOMAIN calls', k \notin DOMAIN calls
      PROVE  k > Len(calls) /\ \E i \in DOMAIN new : calls'[k] = new[i]
  <2>1. k - Len(calls) \in DOMAIN new /\ ~(k <= Len(calls)) /\ k > Len(calls)
    BY <1>1, <1>2, <1>3
  <2>2. QED BY <1>2, <2>1
<1>4. QED BY <1>1, <1>2, <1>3

LEMMA TickAdds ==
  ASSUME ClientInv, Tick
  PROVE  \E new \in Seq(CallRecord) :
           /\ calls' = calls \o new
           /\ \A i \in DOMAIN new : /\ new[i].view = NoView /\ new[i].status = "sent"
                                    /\ new[i].kind # "action"
<1>1. PICK asked \in {States, <<>>}, listed \in {Players, <<>>} :
        calls' = calls \o asked \o listed
  BY DEF Tick
<1>2. calls \in Seq(CallRecord) /\ asked \in Seq(CallRecord) /\ listed \in Seq(CallRecord)
  BY <1>1, NewCalls DEF ClientInv, CallsOK, Fine
<1>3. \A r \in {States, Players, <<>>} : \A i \in DOMAIN r :
        r[i].view = NoView /\ r[i].status = "sent" /\ r[i].kind # "action"
  <2>1. \A c : \A i \in DOMAIN <<c>> : <<c>>[i] = c
    <3>1. SUFFICES ASSUME NEW c PROVE \A i \in DOMAIN <<c>> : <<c>>[i] = c
      OBVIOUS
    <3>2. DOMAIN <<c>> = {1} /\ <<c>>[1] = c
      OBVIOUS
    <3>3. QED BY <3>2
  <2>2. ASSUME NEW kind \in {"state", "players"}
        PROVE  LET c == Call(kind, "") IN c.view = NoView /\ c.status = "sent" /\ c.kind # "action"
    BY DEF Call
  <2>3. \A i \in DOMAIN States : States[i] = Call("state", "")
    BY <2>1 DEF States
  <2>4. \A i \in DOMAIN Players : Players[i] = Call("players", "")
    BY <2>1 DEF Players
  <2>5. DOMAIN <<>> = {}
    OBVIOUS
  <2>6. QED BY <2>2, <2>3, <2>4, <2>5
<1>4. (calls \o asked) \o listed = calls \o (asked \o listed) /\ asked \o listed \in Seq(CallRecord)
  BY <1>2
<1>5. ASSUME NEW i \in DOMAIN (asked \o listed)
      PROVE  \E r \in {asked, listed} : \E j \in DOMAIN r : (asked \o listed)[i] = r[j]
  <2>1. /\ Len(asked) \in Nat /\ Len(listed) \in Nat /\ i \in 1 .. Len(asked) + Len(listed)
        /\ (asked \o listed)[i] = IF i <= Len(asked) THEN asked[i] ELSE listed[i - Len(asked)]
    BY <1>2
  <2>2. CASE i <= Len(asked)
    <3>1. i \in DOMAIN asked
      BY <1>2, <2>1, <2>2
    <3>2. QED BY <2>1, <2>2, <3>1
  <2>3. CASE ~(i <= Len(asked))
    <3>1. i - Len(asked) \in DOMAIN listed
      BY <1>2, <2>1, <2>3
    <3>2. QED BY <2>1, <2>3, <3>1
  <2>4. QED BY <2>2, <2>3
<1>6. \A i \in DOMAIN (asked \o listed) :
        /\ (asked \o listed)[i].view = NoView /\ (asked \o listed)[i].status = "sent"
        /\ (asked \o listed)[i].kind # "action"
  <2>1. asked \in {States, Players, <<>>} /\ listed \in {States, Players, <<>>}
    BY <1>1
  <2>2. QED BY <1>3, <1>5, <2>1
<1>7. QED BY <1>1, <1>4, <1>6

\* What was overtaken or lost is remembered, and nobody returns to the game.
LEMMA HistoryGrows ==
  ASSUME ClientInv, [Next]_vars
  PROVE  overtaken \subseteq overtaken' /\ failed \subseteq failed' /\ (page' = "game" => page = "game")
<1> DEFINE Grows == /\ overtaken \subseteq overtaken' /\ failed \subseteq failed'
                    /\ page' = "game" => page = "game"
<1>1. CASE Session \/ UNCHANGED vars
  BY <1>1 DEF Session, networkVars, clientVars, vars
<1>2. ASSUME NEW k, NEW S, Overtakes(k, S) PROVE overtaken \subseteq overtaken'
  BY <1>2 DEF Overtakes
<1>3. ASSUME NEW k, Answer(k) PROVE Grows
  BY <1>2, <1>3 DEF Answer, clientVars
<1>4. ASSUME NEW k, Deliver(k) PROVE Grows
  <2>1. page' = page \/ page' = "records"
    BY <1>4 DEF Deliver, Refused, StateDone, PlayersDone, ActionDone
  <2>2. QED BY <1>2, <1>4, <2>1 DEF Deliver
<1>5. ASSUME NEW k, Fail(k) PROVE Grows
  BY <1>5 DEF Fail, clientVars
<1>6. CASE Tick
  BY <1>6 DEF Tick
<1>7. ASSUME NEW ks, Press(ks) PROVE Grows
  BY <1>7 DEF Press
<1>8. ASSUME NEW key \in Keys, KeyDown(key) \/ KeyUp(key) PROVE Grows
  BY <1>7, <1>8, KeysPress
<1>9. Session \/ UNCHANGED vars => Grows
  BY <1>1
<1>10. Tick => Grows
  BY <1>6
<1> HIDE DEF Grows
<1>11. Grows
  BY <1>3, <1>4, <1>5, <1>8, <1>9, <1>10 DEF Next
<1>12. QED BY <1>11 DEF Grows

\* A list shows a name for a place once and keeps it.
LEMMA ListedNames ==
  ASSUME NEW scr, NEW names, NEW all, NEW gone, Right(scr.dogs, all, gone), Right(names, all, gone)
  PROVE  Right(Listed(scr, names).dogs, all, gone)
<1>1. Listed(scr, names).dogs =
        [i \in DOMAIN names |-> IF i \in DOMAIN scr.dogs THEN scr.dogs[i] ELSE names[i]]
  BY DEF Listed
<1>2. QED BY <1>1 DEF Right

LEMMA NamesStep ==
  ASSUME ClientInv, QueueInv, NamesInv, [Next]_vars
  PROVE  NamesInv'
<1> DEFINE Still(names) == Right(names, joined', retired')
<1>1. /\ Still(screen.dogs) /\ Still(order)
      /\ \A k \in DOMAIN calls : Still(calls[k].view.names)
  BY QueueStep, RightStays DEF NamesInv, QueueInv
<1>2. Still(NoView.names)
  BY DEF NoView, Right
<1>3. CallsOK /\ calls \in Seq(CallRecord)
  BY DEF ClientInv, CallsOK, Fine
<1> HIDE DEF Still
<1> DEFINE Goal == Still(screen'.dogs) /\ \A k \in DOMAIN calls' : Still(calls'[k].view.names)
<1>4. SUFFICES Goal
  BY DEF NamesInv, Still
<1>5. CASE UNCHANGED <<calls, screen>>
  BY <1>1, <1>5
<1>6. CASE Session \/ UNCHANGED vars
  BY <1>5, <1>6 DEF Session, networkVars, clientVars, vars
<1>7. ASSUME NEW k \in DOMAIN calls, Answer(k) PROVE Goal
  <2>1. calls' = [calls EXCEPT ![k] = Reply(calls[k])] /\ UNCHANGED screen
    BY <1>7 DEF Answer, clientVars
  <2>2. Still(Reply(calls[k]).view.names)
    <3>1. calls[k] \in CallRecord
      BY <1>3
    <3>2. \A s \in {"refused", "done"} : [calls[k] EXCEPT !.status = s].view = calls[k].view
      BY <3>1 DEF CallRecord
    <3>3. \A v \in {StateView, PlayersView} :
            [calls[k] EXCEPT !.status = "done", !.view = v].view = v
      BY <3>1 DEF CallRecord
    <3>4. StateView.names = NoView.names /\ PlayersView.names = order
      BY DEF StateView, PlayersView, NoView
    <3>5. calls[k].kind \in {"state", "players", "action"}
      BY <3>1 DEF CallRecord, Kinds
    <3>6. QED BY <1>1, <1>2, <3>2, <3>3, <3>4, <3>5 DEF Reply
  <2>3. DOMAIN calls' = DOMAIN calls /\ \A j \in DOMAIN calls :
          calls'[j] = IF j = k THEN Reply(calls[k]) ELSE calls[j]
    BY <1>3, <2>1
  <2>4. QED BY <1>1, <2>1, <2>2, <2>3
<1>8. ASSUME NEW k \in DOMAIN calls, calls' = <<>> \/ calls' = Without(calls, k)
      PROVE  \A i \in DOMAIN calls' : Still(calls'[i].view.names)
  <2>1. CASE calls' = <<>>
    BY <2>1
  <2>2. CASE calls' = Without(calls, k)
    BY <1>1, <1>3, <2>2, CallsMoved
  <2>3. QED BY <1>8, <2>1, <2>2
<1>9. ASSUME NEW k \in DOMAIN calls, Deliver(k) PROVE Goal
  <2>1. \A i \in DOMAIN calls' : Still(calls'[i].view.names)
    BY <1>8, <1>9 DEF Deliver
  <2>2. \A scr, v : Applied(scr, v).dogs = scr.dogs
    BY DEF Applied
  <2>3. CASE Refused(calls[k].kind) \/ ActionDone \/ StateDone(calls[k].view)
    BY <1>1, <2>1, <2>2, <2>3 DEF Refused, ActionDone, StateDone
  <2>4. CASE PlayersDone(calls[k].view)
    <3> DEFINE listed == Listed(screen, calls[k].view.names)
    <3>1. Still(listed.dogs)
      BY <1>1, ListedNames DEF Still
    <3>2. screen' = (IF loaded = {"state"} THEN Applied(listed, desired) ELSE listed)
      BY <2>4 DEF PlayersDone
    <3> HIDE DEF listed
    <3>3. QED BY <2>1, <2>2, <3>1, <3>2
  <2>5. QED BY <1>9, <2>3, <2>4 DEF Deliver
<1>10. ASSUME NEW k \in DOMAIN calls, Fail(k) PROVE Goal
  BY <1>1, <1>8, <1>10 DEF Fail, clientVars
<1>11. CASE Tick
  <2>1. screen'.dogs = screen.dogs
    BY <1>11 DEF Tick, Expired
  <2>2. PICK new \in Seq(CallRecord) : calls' = calls \o new /\ \A i \in DOMAIN new : new[i].view = NoView
    BY <1>11, TickAdds
  <2>3. QED BY <1>1, <1>2, <1>3, <2>1, <2>2, CallsAdded
<1>12. ASSUME NEW key \in Keys, KeyDown(key) \/ KeyUp(key) PROVE Goal
  <2>1. PICK ks \in Seq(Keys) : Press(ks)
    BY <1>12, KeysPress
  <2> DEFINE new == <<Call("action", LastKey(ks))>>
  <2>2. calls' = calls \o new /\ new \in Seq(CallRecord) /\ UNCHANGED screen
    BY <2>1, PressAdds DEF Press
  <2>3. \A i \in DOMAIN new : new[i].view = NoView
    BY DEF Call
  <2> HIDE DEF new
  <2>4. QED BY <1>1, <1>2, <1>3, <2>2, <2>3, CallsAdded
<1>13. QED BY <1>6, <1>7, <1>9, <1>10, <1>11, <1>12 DEF Next

\* _addPlayer keeps the name that it finds at a place, and the places of those who
\* joined move up as soon as somebody before them retires.  Until then the names
\* are right: who joins is named behind all others, however late the lists come.
THEOREM NamesFollowPlaces == Spec => []NamesAreRight
<1>1. NamesInv => NamesAreRight
  BY DEF NamesInv, Right, NamesAreRight
<1>2. QED BY <1>1, ClientInit, ClientStep, QueueInit, QueueStep, NamesStep, PTL DEF Spec

-----------------------------------------------------------------------------
(* The keys *)

LEMMA HeardBefore ==
  ASSUME ClientInv, QueueInv, [Next]_vars, Heard'
  PROVE  Heard
<1>1. InGame(Me)
  BY QueueStep DEF Heard
<1>2. QED BY <1>1, HistoryGrows DEF Heard

\* Calls that are not reports come and go.
LEMMA KeysKept ==
  ASSUME KeysInv, CallsOK, Heard, UNCHANGED <<heading, pressed>>,
         \/ \E k \in DOMAIN calls : ~Reports(k) /\ calls' = Without(calls, k)
         \/ \E new \in Seq(CallRecord) :
              calls' = calls \o new /\ \A i \in DOMAIN new : new[i].kind # "action"
  PROVE  KeysInv'
<1> DEFINE Rep(c) == c.kind = "action" /\ c.status = "sent"
<1>1. /\ \A k \in DOMAIN calls : Reports(k) <=> Rep(calls[k])
      /\ (\A k \in DOMAIN calls : ~Rep(calls[k])) => heading = LastKey(pressed)
      /\ \A k \in DOMAIN calls :
           Rep(calls[k]) /\ (\A j \in DOMAIN calls : j > k => ~Rep(calls[j]))
           => calls[k].key = LastKey(pressed)
  BY DEF KeysInv, Reports
<1>2. SUFFICES
        /\ (\A k \in DOMAIN calls' : ~Rep(calls'[k])) => heading = LastKey(pressed)
        /\ \A k \in DOMAIN calls' :
             Rep(calls'[k]) /\ (\A j \in DOMAIN calls' : j > k => ~Rep(calls'[j]))
             => calls'[k].key = LastKey(pressed)
  BY DEF KeysInv, Reports
<1>3. calls \in Seq(CallRecord) /\ \A j \in DOMAIN calls : j \in Nat
  BY DEF CallsOK, Fine
<1>4. CASE \E k \in DOMAIN calls : ~Reports(k) /\ calls' = Without(calls, k)
  <2>1. PICK k \in DOMAIN calls : ~Rep(calls[k]) /\ calls' = Without(calls, k)
    BY <1>1, <1>4
  <2> HIDE DEF Rep
  <2>2. /\ \A i \in DOMAIN calls' : \E j \in DOMAIN calls :
             j # k /\ j = (IF i < k THEN i ELSE i + 1) /\ calls'[i] = calls[j]
        /\ \A j \in DOMAIN calls : j # k => \E i \in DOMAIN calls' :
             j = (IF i < k THEN i ELSE i + 1) /\ calls'[i] = calls[j]
    BY <2>1, CallsMoved
  <2>3. (\A i \in DOMAIN calls' : ~Rep(calls'[i])) => \A j \in DOMAIN calls : ~Rep(calls[j])
    BY <2>1, <2>2
  <2>4. ASSUME NEW h \in DOMAIN calls', Rep(calls'[h]),
               \A i \in DOMAIN calls' : i > h => ~Rep(calls'[i])
        PROVE  calls'[h].key = LastKey(pressed)
    <3>1. PICK g \in DOMAIN calls : g = (IF h < k THEN h ELSE h + 1) /\ calls'[h] = calls[g]
      BY <2>2
    <3>2. ASSUME NEW j \in DOMAIN calls, j > g, j # k PROVE ~Rep(calls[j])
      <4>1. PICK i \in DOMAIN calls' : j = (IF i < k THEN i ELSE i + 1) /\ calls'[i] = calls[j]
        BY <2>2, <3>2
      <4>2. h \in Nat /\ i \in Nat /\ k \in Nat
        <5>1. calls' \in Seq(CallRecord)
          BY <1>3, <2>1, WithoutElement
        <5>2. QED BY <1>3, <5>1
      <4>3. i > h
        BY <3>1, <3>2, <4>1, <4>2
      <4>4. QED BY <2>4, <4>1, <4>3
    <3>3. QED BY <1>1, <2>1, <2>4, <3>1, <3>2
  <2>5. QED BY <1>1, <2>3, <2>4
<1>5. CASE \E new \in Seq(CallRecord) :
             calls' = calls \o new /\ \A i \in DOMAIN new : new[i].kind # "action"
  <2>1. PICK new \in Seq(CallRecord) :
          calls' = calls \o new /\ \A i \in DOMAIN new : ~Rep(new[i])
    BY <1>5
  <2> HIDE DEF Rep
  <2>2. /\ \A k \in DOMAIN calls : k \in DOMAIN calls' /\ calls'[k] = calls[k]
        /\ \A k \in DOMAIN calls' : k \notin DOMAIN calls => ~Rep(calls'[k])
    BY <2>1, CallsAdded
  <2>3. QED BY <1>1, <2>2
<1>6. QED BY <1>4, <1>5

LEMMA KeysStep ==
  ASSUME ClientInv, QueueInv, KeysInv, [Next]_vars
  PROVE  KeysInv'
<1>1. SUFFICES ASSUME Heard, Heard' PROVE KeysInv'
  BY HeardBefore DEF KeysInv
<1>2. CallsOK /\ calls \in Seq(CallRecord) /\ \A j \in DOMAIN calls : j \in Nat
  BY DEF ClientInv, CallsOK, Fine
<1>3. CASE Session \/ UNCHANGED vars
  <2>1. UNCHANGED <<calls, heading, pressed>>
    BY <1>3 DEF Session, MoveLoot, Join, Retire, networkVars, clientVars, vars, sessionVars
  <2>2. QED BY <1>1, <2>1 DEF KeysInv, Reports
<1>4. ASSUME NEW k \in DOMAIN calls, Answer(k) PROVE KeysInv'
  <2>1. /\ calls' = [calls EXCEPT ![k] = Reply(calls[k])] /\ calls[k].status = "sent"
        /\ UNCHANGED <<order, pressed>>
        /\ heading' = IF calls[k].kind = "action" /\ InGame(Me) THEN calls[k].key ELSE heading
        /\ Overtakes(k, {j \in 1 .. k - 1 : calls[j].status = "sent"})
    BY <1>4 DEF Answer, clientVars
  <2>2. calls[k] \in CallRecord
    BY <1>2
  <2>3. /\ Reply(calls[k]).status # "sent" /\ Reply(calls[k]).kind = calls[k].kind
    <3>1. calls[k].kind \in {"state", "players", "action"}
      BY <2>2 DEF CallRecord, Kinds
    <3>2. QED BY <2>2, <3>1 DEF Reply, CallRecord
  <2>4. DOMAIN calls' = DOMAIN calls /\ \A j \in DOMAIN calls :
          calls'[j] = IF j = k THEN Reply(calls[k]) ELSE calls[j]
    BY <1>2, <2>1
  <2>5. \A j \in DOMAIN calls : Reports(j)' <=> Reports(j) /\ j # k
    BY <2>3, <2>4 DEF Reports
  <2>6. CASE Reports(k)
    <3>1. \A j \in DOMAIN calls : j < k => ~Reports(j)
      <4>1. SUFFICES ASSUME NEW j \in DOMAIN calls, j < k, Reports(j) PROVE FALSE
        OBVIOUS
      <4>2. j \in {i \in 1 .. k - 1 : calls[i].status = "sent"} /\ calls[j].kind = calls[k].kind
        BY <1>2, <2>6, <4>1 DEF Reports
      <4>3. overtaken' = overtaken \cup {calls[k].kind}
        BY <2>1, <4>2 DEF Overtakes
      <4>4. QED BY <1>1, <2>6, <4>3 DEF Heard, Reports
    <3>2. heading' = calls[k].key
      BY <1>1, <2>1, <2>6 DEF Heard, Reports
    <3>3. (\A j \in DOMAIN calls' : ~Reports(j)') => heading' = LastKey(pressed')
      <4>1. SUFFICES ASSUME \A j \in DOMAIN calls : j # k => ~Reports(j)
                     PROVE  calls[k].key = LastKey(pressed)
        BY <2>1, <2>4, <2>5, <3>2
      <4>2. \A j \in DOMAIN calls : j > k => ~Reports(j)
        BY <1>2, <4>1
      <4>3. QED BY <1>1, <2>6, <4>2 DEF KeysInv
    <3>4. \A h \in DOMAIN calls' :
            Reports(h)' /\ (\A j \in DOMAIN calls' : j > h => ~Reports(j)')
            => calls'[h].key = LastKey(pressed')
      <4>1. SUFFICES ASSUME NEW h \in DOMAIN calls, Reports(h), h # k,
                            \A j \in DOMAIN calls : j > h => ~Reports(j) \/ j = k
                     PROVE  calls[h].key = LastKey(pressed)
        BY <2>1, <2>4, <2>5
      <4>2. h > k
        BY <1>2, <3>1, <4>1
      <4>3. \A j \in DOMAIN calls : j > h => ~Reports(j)
        BY <1>2, <4>1, <4>2
      <4>4. QED BY <1>1, <4>1, <4>3 DEF KeysInv
    <3>5. QED BY <3>3, <3>4 DEF KeysInv
  <2>7. CASE ~Reports(k)
    <3>1. heading' = heading /\ \A j \in DOMAIN calls : Reports(j)' <=> Reports(j)
      BY <2>1, <2>5, <2>7 DEF Reports
    <3>2. \A j \in DOMAIN calls : Reports(j) => calls'[j] = calls[j]
      BY <2>4, <2>7
    <3>3. QED BY <1>1, <2>1, <2>4, <3>1, <3>2 DEF KeysInv
  <2>8. QED BY <2>6, <2>7
<1>5. ASSUME NEW k \in DOMAIN calls, Deliver(k) PROVE KeysInv'
  <2>1. ~Reports(k) /\ UNCHANGED <<heading, pressed>>
    BY <1>5 DEF Deliver, Reports, sessionVars
  <2>2. calls' = Without(calls, k)
    BY <1>1, <1>5 DEF Deliver, Heard
  <2>3. QED BY <1>1, <1>2, <2>1, <2>2, KeysKept
<1>6. ASSUME NEW k \in DOMAIN calls, Fail(k) PROVE KeysInv'
  <2>1. UNCHANGED <<heading, pressed>> /\ calls' = Without(calls, k)
    BY <1>6 DEF Fail, sessionVars, clientVars
  <2>2. ~Reports(k)
    BY <1>1, <1>6 DEF Fail, Heard, Reports
  <2>3. QED BY <1>1, <1>2, <2>1, <2>2, KeysKept
<1>7. CASE Tick
  <2>1. UNCHANGED <<heading, pressed>>
    BY <1>7 DEF Tick, sessionVars
  <2>2. QED BY <1>1, <1>2, <1>7, <2>1, TickAdds, KeysKept
<1>8. ASSUME NEW key \in Keys, KeyDown(key) \/ KeyUp(key) PROVE KeysInv'
  <2>1. PICK ks \in Seq(Keys) : Press(ks)
    BY <1>8, KeysPress
  <2> DEFINE c == Call("action", LastKey(ks))
  <2>2. c.kind = "action" /\ c.status = "sent" /\ c.key = LastKey(ks)
    BY DEF Call
  <2>3. calls' = calls \o <<c>> /\ <<c>> \in Seq(CallRecord) /\ pressed' = ks
    BY <2>1, PressAdds DEF Press
  <2> HIDE DEF c
  <2>4. PICK n \in Nat : DOMAIN calls' = 1 .. n + 1 /\ calls'[n + 1] = c
    <3>1. Len(calls) \in Nat /\ DOMAIN calls' = 1 .. Len(calls) + 1 /\ calls'[Len(calls) + 1] = c
      BY <1>2, <2>3
    <3>2. QED BY <3>1
  <2>5. n + 1 \in DOMAIN calls' /\ Reports(n + 1)'
    BY <2>2, <2>4 DEF Reports
  <2>6. \A h \in DOMAIN calls' : h # n + 1 => n + 1 > h
    BY <2>4
  <2>7. QED BY <2>2, <2>3, <2>4, <2>5, <2>6 DEF KeysInv
<1>9. QED BY <1>3, <1>4, <1>5, <1>6, <1>7, <1>8 DEF Next

\* _pressKey reports the last key of those that are pressed after every change, so
\* the last report that the server hears decides, and a call of another kind or a
\* frame in between changes nothing of it.
THEOREM DogsRunWhereKeysPoint == Spec => []HeadingFollowsKeys
<1>1. KeysInv => HeadingFollowsKeys
  BY DEF KeysInv, Heard, Reports, HeadingFollowsKeys
<1>2. QED BY <1>1, ClientInit, ClientStep, QueueInit, QueueStep, KeysStep, PTL DEF Spec

-----------------------------------------------------------------------------
(* The screen draws what it knows *)

\* A later state, on a screen that draws what it knows: each object is created, kept,
\* moved or dropped, and in each case there is one copy of it before and after.
LEMMA AppliedDraws ==
  ASSUME NEW scr \in Screen, Separate(scr), CanCreate(scr), Drawn(scr),
         NEW d, Consistent(d), Matches(scr, d), NEW v, Consistent(v),
         DOMAIN v.bags \subseteq Slots, Precedes(d, v), NEW x \in Loot,
         scr.falling[x] # None => ~Shows(d, x) /\ ~Shows(v, x)
  PROVE  LET after == Applied(scr, v)
         IN /\ after.scene[x] = Known(after, x)
            /\ after.lost[x] # None <=> x \in v.lost
            /\ \A i \in Slots : after.data[i][x] # None <=> i \in DOMAIN v.bags /\ x \in v.bags[i]
            /\ after.falling[x] # None =>
                 ~Shows(v, x) /\ (Shows(d, x) \/ scr.falling[x] # None)
<1> DEFINE after == Applied(scr, v)
           new == New(scr, x)
           found == Found(scr, v, x)
           lost == LostAfter(scr, v)[x]
           falling == FallingAfter(scr, v)[x]
           scene == SceneAfter(scr, v)[x]
           data == [i \in Slots |-> Bag(scr, v, i)[x]]
           old == [i \in Slots |-> scr.data[i][x]]
\* What the screen shows of x before.
<1>1. /\ scr.lost[x] # None <=> x \in d.lost
      /\ \A i \in Slots : old[i] # None <=> i \in DOMAIN d.bags /\ x \in d.bags[i]
      /\ scr.cur = DOMAIN d.bags
  BY DEF Matches
<1>2. /\ DOMAIN d.bags \subseteq DOMAIN v.bags
      /\ \A i \in DOMAIN d.bags : x \in d.bags[i] =>
           x \notin v.lost /\ \A j \in DOMAIN v.bags : x \in v.bags[j] => i = j
  BY DEF Precedes
<1>3. /\ \A i \in DOMAIN v.bags : ~(x \in v.bags[i] /\ x \in v.lost)
      /\ \A i, j \in DOMAIN v.bags : i # j => ~(x \in v.bags[i] /\ x \in v.bags[j])
  BY DEF Consistent
<1>4. new \in Copies /\ new # None
  BY NewIsNew
<1>5. scr.scene[x] = ({scr.lost[x], scr.falling[x]} \cup {old[i] : i \in Slots}) \ {None}
  BY DEF Drawn, Known
<1>6. \A i \in Slots : i \in DOMAIN v.bags => Kept(scr, i)[x] = old[i]
  <2>1. Blank[x] = None
    BY DEF Blank
  <2>2. \A i \in Slots : i \notin scr.cur => old[i] = None
    BY <1>1
  <2>3. QED BY <2>1, <2>2 DEF Kept
<1>7. \A i \in Slots : Wants(scr, v, i, x) <=> i \in DOMAIN v.bags /\ x \in v.bags[i] /\ old[i] = None
  BY <1>6 DEF Wants
<1>8. Abandoned(scr, v, x) <=> scr.lost[x] # None /\ x \notin v.lost
  BY DEF Abandoned
<1>9. IsTaken(scr, v, x) <=>
        \E i \in Slots : i \in DOMAIN v.bags /\ x \in v.bags[i] /\ old[i] = None
  BY <1>7 DEF IsTaken
<1>10. found = IF scr.lost[x] # None /\ x \notin v.lost THEN scr.lost[x] ELSE new
  BY <1>8 DEF Found
<1>11. lost = IF x \notin v.lost THEN None ELSE IF scr.lost[x] # None THEN scr.lost[x] ELSE new
  BY DEF LostAfter
<1>12. \A i \in Slots : data[i] =
         IF i \in DOMAIN v.bags /\ x \in v.bags[i] THEN IF old[i] = None THEN found ELSE old[i]
         ELSE None
  <2>1. ASSUME NEW i \in Slots, i \notin DOMAIN v.bags PROVE Bag(scr, v, i)[x] = None
    <3>1. Blank[x] = None
      BY DEF Blank
    <3>2. old[i] = None
      BY <1>1, <1>2, <2>1
    <3>3. QED BY <2>1, <3>1, <3>2 DEF Bag
  <2>2. ASSUME NEW i \in Slots, i \in DOMAIN v.bags
        PROVE  Bag(scr, v, i)[x] =
                 IF x \in v.bags[i] THEN IF old[i] = None THEN found ELSE old[i] ELSE None
    <3>1. Bag(scr, v, i)[x] = IF Wants(scr, v, i, x) THEN found
                              ELSE IF x \in v.bags[i] THEN Kept(scr, i)[x] ELSE None
      BY <2>2 DEF Bag
    <3>2. QED BY <1>6, <1>7, <2>2, <3>1
  <2>3. QED BY <2>1, <2>2
<1> DEFINE from == {i \in Slots \cap DOMAIN v.bags : old[i] # None /\ x \notin v.bags[i]}
<1>13. Droppers(scr, v, x) = from
  BY <1>6 DEF Droppers
<1> DEFINE drops == scr.lost[x] # None /\ x \notin v.lost /\ ~IsTaken(scr, v, x)
<1>14. /\ drops => falling = scr.lost[x]
       /\ ~drops /\ from = {} => falling = scr.falling[x]
       /\ ~drops /\ from # {} => \E i \in from : falling = old[i]
  <2>1. drops <=> Abandoned(scr, v, x) /\ ~IsTaken(scr, v, x)
    BY <1>8
  <2>2. drops => falling = scr.lost[x]
    BY <2>1 DEF FallingAfter
  <2>3. ~drops /\ Droppers(scr, v, x) = {} => falling = scr.falling[x]
    BY <2>1 DEF FallingAfter
  <2>4. ~drops /\ Droppers(scr, v, x) # {} => \E i \in Droppers(scr, v, x) : falling = scr.data[i][x]
    BY <2>1 DEF FallingAfter
  <2>5. \A i \in from : scr.data[i][x] = old[i]
    OBVIOUS
  <2>6. QED BY <1>13, <2>2, <2>3, <2>4, <2>5, Zenon
<1>15. scene = IF \/ x \in v.lost /\ scr.lost[x] = None
                  \/ IsTaken(scr, v, x) /\ ~(scr.lost[x] # None /\ x \notin v.lost)
               THEN scr.scene[x] \cup {new} ELSE scr.scene[x]
  BY <1>8 DEF SceneAfter
<1>16. /\ after.lost[x] = lost /\ after.falling[x] = falling /\ after.scene[x] = scene
       /\ \A i \in Slots : after.data[i][x] = data[i]
  BY DEF Applied
<1>17. Known(after, x) = ({lost, falling} \cup {data[i] : i \in Slots}) \ {None}
  BY <1>16 DEF Known
<1>18. \A i \in Slots : old[i] # None =>
         /\ scr.lost[x] = None
         /\ \A j \in Slots : j # i => old[j] = None
  BY <1>1 DEF Consistent
<1>19. scr.falling[x] # None =>
         /\ scr.lost[x] = None /\ x \notin v.lost /\ \A i \in Slots : old[i] = None
         /\ \A i \in DOMAIN v.bags : x \notin v.bags[i]
  BY <1>1 DEF Shows
<1>20. /\ \A i \in Slots : old[i] # None => i \in DOMAIN v.bags
       /\ \A i \in Slots : old[i] # None => x \notin v.lost
                           /\ \A j \in DOMAIN v.bags : x \in v.bags[j] => i = j
  BY <1>1, <1>2
<1>21. drops <=> scr.lost[x] # None /\ x \notin v.lost /\ ~IsTaken(scr, v, x)
  OBVIOUS
<1>22. \A i : i \in from <=> i \in Slots /\ i \in DOMAIN v.bags /\ old[i] # None /\ x \notin v.bags[i]
  OBVIOUS
<1> DEFINE Goal == /\ scene = ({lost, falling} \cup {data[i] : i \in Slots}) \ {None}
                   /\ lost # None <=> x \in v.lost
                   /\ \A i \in Slots : data[i] # None <=> i \in DOMAIN v.bags /\ x \in v.bags[i]
                   /\ falling # None => ~Shows(v, x) /\ (Shows(d, x) \/ scr.falling[x] # None)
<1>23. SUFFICES Goal
  BY <1>16, <1>17
<1> HIDE DEF after, new, found, lost, falling, scene, data, old, from, drops
\* It lies on the map.
<1>24. CASE x \in v.lost
  <2>1. scr.falling[x] = None /\ \A i \in Slots : old[i] = None
    BY <1>19, <1>20, <1>24
  <2>2. \A i \in Slots : data[i] = None
    BY <1>3, <1>12, <1>24
  <2>3. falling = None
    BY <1>14, <1>21, <1>22, <1>24, <2>1
  <2>4. ~IsTaken(scr, v, x)
    BY <1>3, <1>9, <1>24
  <2>5. lost # None /\ lost = (IF scr.lost[x] # None THEN scr.lost[x] ELSE new)
    BY <1>4, <1>11, <1>24
  <2>6. scr.scene[x] = {scr.lost[x]} \ {None}
    BY <1>5, <2>1
  <2>7. scene = {lost}
    BY <1>15, <1>24, <2>4, <2>5, <2>6
  <2>8. QED BY <1>3, <1>24, <2>2, <2>3, <2>5, <2>7
\* A player has it.
<1>25. ASSUME NEW j \in DOMAIN v.bags, x \in v.bags[j]
       PROVE  Goal
  <2>1. j \in Slots /\ x \notin v.lost /\ \A i \in DOMAIN v.bags : x \in v.bags[i] => i = j
    BY <1>3, <1>25
  <2>2. scr.falling[x] = None /\ lost = None
    BY <1>11, <1>19, <1>25, <2>1
  <2>3. \A i \in Slots : i # j => data[i] = None /\ old[i] = None
    BY <1>12, <1>20, <1>25, <2>1
  <2>4. data[j] = IF old[j] = None THEN found ELSE old[j]
    BY <1>12, <1>25, <2>1
  <2>5. IsTaken(scr, v, x) <=> old[j] = None
    BY <1>9, <1>25, <2>1
  <2>6. from = {}
    BY <1>22, <1>25, <2>1, <2>3
  <2>7. scr.scene[x] = {scr.lost[x], old[j]} \ {None}
    BY <1>5, <2>1, <2>2, <2>3
  <2>8. CASE old[j] # None
    <3>1. scr.lost[x] = None /\ ~IsTaken(scr, v, x) /\ data[j] = old[j]
      BY <1>18, <2>1, <2>4, <2>5, <2>8
    <3>2. scene = {data[j]} /\ data[j] # None
      BY <1>15, <2>1, <2>7, <2>8, <3>1
    <3>3. falling = None
      BY <1>14, <1>21, <2>2, <2>6, <3>1
    <3>4. scene = ({lost, falling} \cup {data[i] : i \in Slots}) \ {None}
      BY <2>1, <2>2, <2>3, <3>2, <3>3
    <3>5. QED BY <1>25, <2>1, <2>2, <2>3, <3>2, <3>3, <3>4
  <2>9. CASE old[j] = None
    <3>1. IsTaken(scr, v, x) /\ data[j] = found
      BY <2>4, <2>5, <2>9
    <3>2. scene = {found} /\ found # None
      BY <1>4, <1>10, <1>15, <2>1, <2>7, <2>9, <3>1
    <3>3. falling = None
      BY <1>14, <1>21, <2>2, <2>6, <3>1
    <3>4. scene = ({lost, falling} \cup {data[i] : i \in Slots}) \ {None}
      BY <2>1, <2>2, <2>3, <3>1, <3>2, <3>3
    <3>5. QED BY <1>25, <2>1, <2>2, <2>3, <3>1, <3>2, <3>3, <3>4
  <2>10. QED BY <2>8, <2>9
\* It is nowhere.
<1>26. CASE ~Shows(v, x)
  <2>1. x \notin v.lost /\ \A i \in DOMAIN v.bags : x \notin v.bags[i]
    BY <1>26 DEF Shows
  <2>2. lost = None /\ (\A i \in Slots : data[i] = None) /\ ~IsTaken(scr, v, x)
    BY <1>9, <1>11, <1>12, <2>1
  <2>3. scene = scr.scene[x]
    BY <1>15, <2>1, <2>2
  <2>4. CASE scr.lost[x] # None
    <3>1. falling = scr.lost[x]
      BY <1>14, <1>21, <2>1, <2>2, <2>4
    <3>2. scr.falling[x] = None /\ \A i \in Slots : old[i] = None
      BY <1>18, <1>19, <2>4
    <3>3. scene = {falling}
      BY <1>5, <2>3, <2>4, <3>1, <3>2
    <3>4. Shows(d, x)
      BY <1>1, <2>4 DEF Shows
    <3>5. QED BY <1>26, <2>1, <2>2, <2>4, <3>1, <3>3, <3>4
  <2>5. ASSUME NEW j \in Slots, old[j] # None
        PROVE  Goal
    <3>1. /\ scr.lost[x] = None /\ scr.falling[x] = None
          /\ \A i \in Slots : i # j => old[i] = None
      BY <1>18, <1>19, <2>5
    <3>2. j \in DOMAIN v.bags
      BY <1>20, <2>5
    <3>3. from = {j}
      BY <1>22, <2>1, <2>5, <3>1, <3>2
    <3>4. falling = old[j]
      BY <1>14, <1>21, <3>1, <3>3
    <3>5. scene = {falling}
      BY <1>5, <2>3, <2>5, <3>1, <3>4
    <3>6. Shows(d, x)
      BY <1>1, <2>5 DEF Shows
    <3>7. QED BY <1>26, <2>1, <2>2, <2>5, <3>4, <3>5, <3>6
  <2>6. CASE scr.lost[x] = None /\ \A i \in Slots : old[i] = None
    <3>1. from = {}
      BY <1>22, <2>6
    <3>2. falling = scr.falling[x]
      BY <1>14, <1>21, <2>6, <3>1
    <3>3. scene = {falling} \ {None}
      BY <1>5, <2>3, <2>6, <3>2
    <3>4. QED BY <1>26, <2>1, <2>2, <3>2, <3>3
  <2>7. QED BY <2>4, <2>5, <2>6
<1>27. QED BY <1>24, <1>25, <1>26 DEF Shows

\* A list that has a name for every dog takes no copy out of the scene.
LEMMA ListedDraws ==
  ASSUME NEW scr \in Screen, Drawn(scr), NEW d, Matches(scr, d),
         NEW names \in Seq(Persons), DOMAIN scr.dogs \subseteq DOMAIN names
  PROVE  /\ Drawn(Listed(scr, names)) /\ Matches(Listed(scr, names), d)
         /\ Listed(scr, names).falling = scr.falling
         /\ DOMAIN Listed(scr, names).dogs = DOMAIN names
<1> DEFINE after == Listed(scr, names)
<1>1. /\ after.cur = scr.cur /\ after.lost = scr.lost /\ after.falling = scr.falling
      /\ DOMAIN after.dogs = DOMAIN names
  BY DEF Listed
<1>2. \A x \in Loot : after.scene[x] = scr.scene[x]
  <2>1. DOMAIN scr.dogs \ DOMAIN names = {}
    OBVIOUS
  <2>2. \A x \in Loot : after.scene[x] =
          scr.scene[x] \ {scr.data[i][x] : i \in DOMAIN scr.dogs \ DOMAIN names}
    BY DEF Listed
  <2>3. QED BY <2>1, <2>2
<1>3. ASSUME NEW i \in Slots, NEW x \in Loot PROVE after.data[i][x] = scr.data[i][x]
  <2>1. Blank[x] = None
    BY DEF Blank
  <2>2. after.data[i] = IF i \in DOMAIN names \cup scr.cur THEN scr.data[i] ELSE Blank
    BY DEF Listed
  <2>3. i \notin scr.cur => scr.data[i][x] = None
    BY DEF Matches
  <2>4. QED BY <2>1, <2>2, <2>3
<1> HIDE DEF after
<1>4. Drawn(after)
  BY <1>1, <1>2, <1>3 DEF Drawn, Known
<1>5. Matches(after, d)
  BY <1>1, <1>3 DEF Matches
<1>6. QED BY <1>1, <1>4, <1>5 DEF after

\* When the second of a falling copy is over, the scene and the client forget it.
LEMMA ExpiredDraws ==
  ASSUME NEW scr \in Screen, Separate(scr), Drawn(scr), NEW d, Matches(scr, d),
         NEW gone \in SUBSET Falling(scr)
  PROVE  /\ Drawn(Expired(scr, gone)) /\ Matches(Expired(scr, gone), d)
         /\ \A x \in Loot : Expired(scr, gone).falling[x] \in {None, scr.falling[x]}
         /\ Expired(scr, gone).dogs = scr.dogs
<1> DEFINE after == Expired(scr, gone)
<1>1. /\ after.cur = scr.cur /\ after.lost = scr.lost /\ after.data = scr.data
      /\ after.dogs = scr.dogs
      /\ \A x \in Loot : after.falling[x] = IF x \in gone THEN None ELSE scr.falling[x]
      /\ \A x \in Loot : after.scene[x] = IF x \in gone THEN scr.scene[x] \ {scr.falling[x]}
                                          ELSE scr.scene[x]
  BY DEF Expired
<1> HIDE DEF after
<1>2. ASSUME NEW x \in Loot PROVE after.scene[x] = Known(after, x)
  <2>1. scr.scene[x] = Known(scr, x)
    BY DEF Drawn
  <2>2. CASE x \notin gone
    BY <1>1, <2>1, <2>2 DEF Known
  <2>3. CASE x \in gone
    <3>1. scr.falling[x] # None
      BY <2>3 DEF Falling
    <3>2. scr.lost[x] # scr.falling[x] /\ \A i \in Slots : scr.data[i][x] # scr.falling[x]
      BY <3>1 DEF Separate
    <3>3. after.scene[x] = Known(scr, x) \ {scr.falling[x]}
      BY <1>1, <2>1, <2>3
    <3>4. Known(after, x) = ({scr.lost[x], None} \cup {scr.data[i][x] : i \in Slots}) \ {None}
      BY <1>1, <2>3 DEF Known
    <3>5. QED BY <3>1, <3>2, <3>3, <3>4 DEF Known
  <2>4. QED BY <2>2, <2>3
<1>3. Matches(after, d)
  BY <1>1 DEF Matches
<1>4. QED BY <1>1, <1>2, <1>3 DEF after, Drawn

-----------------------------------------------------------------------------
(* The session goes on *)

\* There are no more players than persons.
LEMMA OrderFits == OrderOK => DOMAIN order \subseteq Slots
<1>1. SUFFICES ASSUME OrderOK PROVE DOMAIN order \subseteq Slots
  OBVIOUS
<1>2. PICK n \in Nat : DOMAIN order = 1 .. n /\ order \in [1 .. n -> Persons]
  <2>1. order \in Seq(Persons)
    BY <1>1 DEF OrderOK
  <2>2. Len(order) \in Nat /\ DOMAIN order = 1 .. Len(order) /\ order \in [1 .. Len(order) -> Persons]
    BY <2>1
  <2>3. QED BY <2>2
<1>3. order \in Injection(1 .. n, Persons)
  <2>1. \A i, j \in DOMAIN order : order[i] = order[j] => i = j
    BY <1>1 DEF OrderOK
  <2>2. QED BY <1>2, <2>1 DEF Injection, IsInjective
<1>4. IsFiniteSet(Persons) /\ Cardinality(Persons) \in Nat
  BY ScreenAssumption, FS_CardinalityType
<1>5. Cardinality(1 .. n) <= Cardinality(Persons)
  BY <1>3, <1>4, FS_Injection
<1>6. n <= Cardinality(Persons)
  BY <1>2, <1>4, <1>5, FS_Interval
<1>7. QED BY <1>2, <1>4, <1>6 DEF Slots

\* While nobody retires, objects only go forward, and the players keep their places.
LEMMA SessionMoves ==
  ASSUME OrderOK, LootInOrder, Session, \A p \in Persons : ~Retire(p)
  PROVE  /\ where' = [x \in Loot |-> where'[x]]
         /\ \A x \in Loot :
              /\ where[x] # Life!Unborn => where'[x] # Life!Unborn
              /\ where'[x] = Life!OnMap => where[x] \in {Life!OnMap, Life!Unborn}
              /\ \A p \in Persons : where'[x] = Life!Bag(p) =>
                   InGame(p) /\ where[x] \in {Life!OnMap, Life!Bag(p)}
         /\ DOMAIN order \subseteq DOMAIN order' /\ \A i \in DOMAIN order : order'[i] = order[i]
<1>1. where = [x \in Loot |-> where[x]] /\ \A x \in Loot, p \in Persons : where[x] = Life!Bag(p) => InGame(p)
  BY DEF LootInOrder
<1>2. /\ \A p, q \in Persons : Life!Bag(p) = Life!Bag(q) => p = q
      /\ \A p \in Persons : Life!Bag(p) \notin {Life!OnMap, Life!Unborn, Life!Office}
      /\ Life!OnMap # Life!Unborn /\ Life!Office # Life!Unborn /\ Life!Office # Life!OnMap
  BY DEF Life!Bag, Life!OnMap, Life!Unborn, Life!Office
<1> DEFINE Goal == /\ where' = [x \in Loot |-> where'[x]]
                   /\ \A x \in Loot :
                        /\ where[x] # Life!Unborn => where'[x] # Life!Unborn
                        /\ where'[x] = Life!OnMap => where[x] \in {Life!OnMap, Life!Unborn}
                        /\ \A p \in Persons : where'[x] = Life!Bag(p) =>
                             InGame(p) /\ where[x] \in {Life!OnMap, Life!Bag(p)}
<1>3. where' = where => Goal
  <2>1. SUFFICES ASSUME where' = where PROVE Goal
    OBVIOUS
  <2>2. where' = [x \in Loot |-> where'[x]]
    BY <1>1, <2>1, Zenon
  <2>3. \A x \in Loot : where'[x] = where[x]
    BY <2>1
  <2>4. QED BY <1>1, <1>2, <2>2, <2>3
<1>4. ASSUME NEW z \in Loot, Life!Appear({z}) PROVE Goal
  <2>1. where[z] = Life!Unborn /\ where' = [x \in Loot |-> IF x \in {z} THEN Life!OnMap ELSE where[x]]
    BY <1>4 DEF Life!Appear
  <2>2. where' = [x \in Loot |-> where'[x]]
        /\ \A x \in Loot : where'[x] = IF x = z THEN Life!OnMap ELSE where[x]
    BY <2>1
  <2>3. QED BY <1>1, <1>2, <2>1, <2>2
<1>5. ASSUME NEW z \in Loot, NEW q \in Persons, InGame(q), Life!Take(z, q) PROVE Goal
  <2>1. where[z] = Life!OnMap /\ where' = [where EXCEPT ![z] = Life!Bag(q)]
    BY <1>5 DEF Life!Take
  <2>2. where' = [x \in Loot |-> where'[x]]
        /\ \A x \in Loot : where'[x] = IF x = z THEN Life!Bag(q) ELSE where[x]
    BY <1>1, <2>1
  <2>3. QED BY <1>1, <1>2, <1>5, <2>1, <2>2
<1>6. ASSUME NEW q \in Persons, Life!Leave({q}, Life!Office) PROVE Goal
  <2>1. where' = [x \in Loot |-> IF \E t \in {q} : where[x] = Life!Bag(t) THEN Life!Office ELSE where[x]]
    BY <1>6 DEF Life!Leave
  <2>2. where' = [x \in Loot |-> where'[x]]
        /\ \A x \in Loot : where'[x] = IF where[x] = Life!Bag(q) THEN Life!Office ELSE where[x]
    BY <2>1
  <2>3. QED BY <1>1, <1>2, <2>2
<1>7. CASE MoveLoot
  <2>1. Goal
    BY <1>4, <1>5, <1>6, <1>7 DEF MoveLoot
  <2>2. order' = order
    BY <1>7 DEF MoveLoot
  <2>3. QED BY <2>1, <2>2
<1>8. ASSUME NEW p \in Persons, Join(p)
      PROVE  Goal /\ DOMAIN order \subseteq DOMAIN order' /\ \A i \in DOMAIN order : order'[i] = order[i]
  <2>1. where' = where /\ order' = Append(order, p)
    BY <1>8 DEF Join
  <2>2. DOMAIN order \subseteq DOMAIN order' /\ \A i \in DOMAIN order : order'[i] = order[i]
    BY <2>1 DEF OrderOK
  <2>3. QED BY <1>3, <2>1, <2>2
<1>9. QED BY <1>7, <1>8 DEF Session

LEMMA NowConsistentNext == OrderOK' => Consistent(StateView)'
BY NowConsistent, PTL

LEMMA ToldRange ==
  ASSUME CallsOK, NEW kind
  PROVE  /\ Len(calls) \in Nat /\ 0 \in Told(kind) /\ Len(calls) + 1 \in Told(kind)
         /\ \A a \in Told(kind) : a \in 0 .. Len(calls) + 1
<1>1. Len(calls) \in Nat /\ DOMAIN calls = 1 .. Len(calls)
  BY DEF CallsOK, Fine
<1>2. QED BY <1>1 DEF Told

LEMMA AtConsistent ==
  ASSUME ClientInv, NEW a \in Told("state")
  PROVE  Consistent(At("state", a))
<1>1. Consistent(StateView) /\ Consistent(desired)
  BY NowConsistent DEF ClientInv
<1>2. \A k \in DOMAIN calls : Consistent(calls[k].view)
  BY DEF ClientInv, CallsOK, Fine
<1>3. QED BY <1>1, <1>2 DEF At, First, Now, Tells, Told

\* A step of the session changes what it would tell now, and goes on from there.
LEMMA SessionTells ==
  ASSUME ClientInv, ClientInv', TellingInv, DrawnInv, Session, \A p \in Persons : ~Retire(p)
  PROVE  TellingInv' /\ DrawnInv'
<1>1. UNCHANGED <<calls, desired, screen, loaded>>
  BY DEF Session, networkVars, clientVars
<1>2. PICK n \in Nat : n = Len(calls) + 1
  BY ToldRange DEF ClientInv
<1>3. /\ \A kind : Told(kind)' = Told(kind)
      /\ \A kind : \A a \in Told(kind) : a \in 0 .. n
      /\ n = Len(calls') + 1 /\ n # 0
  BY <1>1, <1>2, ToldRange DEF ClientInv, Told
<1>4. /\ \A kind, a : a # n => At(kind, a)' = At(kind, a)
      /\ \A kind : At(kind, n) = Now(kind) /\ At(kind, n)' = Now(kind)'
  BY <1>1, <1>2, <1>3 DEF At, First
<1>5. /\ Now("state") = StateView /\ Now("state")' = StateView'
      /\ Now("players") = DOMAIN order /\ Now("players")' = DOMAIN order'
  BY DEF Now
<1>6. OrderOK /\ OrderOK' /\ Consistent(StateView')
  BY NowConsistentNext DEF ClientInv
<1> DEFINE Moved == 
         /\ \A x \in Loot :
              /\ where[x] # Life!Unborn => where'[x] # Life!Unborn
              /\ where'[x] = Life!OnMap => where[x] \in {Life!OnMap, Life!Unborn}
              /\ \A p \in Persons : where'[x] = Life!Bag(p) =>
                   InGame(p) /\ where[x] \in {Life!OnMap, Life!Bag(p)}
         /\ DOMAIN order \subseteq DOMAIN order' /\ \A i \in DOMAIN order : order'[i] = order[i]
<1>7. Moved /\ where' = [x \in Loot |-> where'[x]]
  BY <1>6, SessionMoves DEF TellingInv
<1>8. /\ StateView.lost = {x \in Loot : where[x] = Life!OnMap}
      /\ DOMAIN StateView.bags = DOMAIN order
      /\ \A i \in DOMAIN order : StateView.bags[i] = {x \in Loot : where[x] = Life!Bag(order[i])}
      /\ StateView'.lost = {x \in Loot : where'[x] = Life!OnMap}
      /\ DOMAIN StateView'.bags = DOMAIN order'
      /\ \A i \in DOMAIN order' : StateView'.bags[i] = {x \in Loot : where'[x] = Life!Bag(order'[i])}
  BY DEF StateView
<1>9. /\ \A i \in DOMAIN order : order[i] \in Persons
      /\ \A i \in DOMAIN order' : order'[i] \in Persons
      /\ \A i, j \in DOMAIN order' : order'[i] = order'[j] => i = j
  BY <1>6 DEF OrderOK
<1> DEFINE now == StateView
           next == StateView'
<1>10. \A x \in Loot, j \in DOMAIN order' : where[x] # Life!OnMap /\ x \in next.bags[j] =>
         j \in DOMAIN order /\ x \in now.bags[j]
  <2>1. SUFFICES ASSUME NEW x \in Loot, NEW j \in DOMAIN order', where[x] # Life!OnMap, x \in next.bags[j]
                 PROVE  j \in DOMAIN order /\ x \in now.bags[j]
    OBVIOUS
  <2>2. where'[x] = Life!Bag(order'[j])
    BY <1>8, <2>1
  <2>3. InGame(order'[j]) /\ where[x] = Life!Bag(order'[j])
    BY <1>7, <1>9, <2>1, <2>2
  <2>4. PICK m \in DOMAIN order : order[m] = order'[j]
    BY <2>3 DEF InGame
  <2>5. m = j
    BY <1>7, <1>9, <2>4
  <2>6. QED BY <1>8, <2>3, <2>4, <2>5
<1>11. \A x \in Loot : where[x] # Life!Unborn /\ Shows(next, x) => Shows(now, x)
  <2>1. SUFFICES ASSUME NEW x \in Loot, where[x] # Life!Unborn, Shows(next, x)
                 PROVE  Shows(now, x)
    OBVIOUS
  <2>2. CASE where[x] = Life!OnMap
    BY <1>8, <2>2 DEF Shows
  <2>3. CASE where[x] # Life!OnMap
    <3>1. x \notin next.lost
      BY <1>7, <1>8, <2>1, <2>3
    <3>2. PICK j \in DOMAIN order' : x \in next.bags[j]
      BY <1>8, <2>1, <3>1 DEF Shows
    <3>3. QED BY <1>8, <1>10, <2>3, <3>2 DEF Shows
  <2>4. QED BY <2>2, <2>3
<1>12. \A x \in Loot : Shows(next, x) => where'[x] # Life!Unborn
  <2>1. \A p \in Persons : Life!Bag(p) # Life!Unborn
    BY DEF Life!Bag, Life!Unborn
  <2>2. Life!OnMap # Life!Unborn
    BY DEF Life!OnMap, Life!Unborn
  <2>3. QED BY <1>8, <1>9, <2>1, <2>2 DEF Shows
<1> HIDE DEF Moved, now, next
<1> DEFINE V(a) == At("state", a)
           W(a) == At("state", a)'
<1>13. /\ \A a : a # n => W(a) = V(a)
       /\ V(n) = now /\ W(n) = next
  BY <1>4, <1>5 DEF now, next
<1>14. /\ \A a, b \in Told("state") : a <= b => Precedes(V(a), V(b))
       /\ \A a, b, c \in Told("state") : a <= b /\ b <= c => StaysGone(V(a), V(b), V(c))
       /\ \A x \in Loot, a \in Told("state") : Shows(V(a), x) => where[x] # Life!Unborn
       /\ n \in Told("state")
  BY <1>2, ToldRange DEF TellingInv, StatesInOrder, LootInOrder, ClientInv
<1>15. ASSUME NEW a \in Told("state"), a # n PROVE Precedes(V(a), next)
  <2>1. Precedes(V(a), now) /\ Consistent(V(a))
    <3>1. a <= n
      BY <1>3
    <3>2. QED BY <1>13, <1>14, <3>1, AtConsistent
  <2>2. DOMAIN V(a).bags \subseteq DOMAIN next.bags
    BY <1>7, <1>8, <2>1 DEF Precedes, now, next, Moved
  <2>3. ASSUME NEW i \in DOMAIN V(a).bags, NEW x \in V(a).bags[i]
        PROVE  x \notin next.lost /\ \A j \in DOMAIN next.bags : x \in next.bags[j] => i = j
    <3>1. x \in Loot
      BY <2>1 DEF Consistent, View
    <3>2. where[x] # Life!Unborn
      BY <1>14, <2>3, <3>1 DEF Shows
    <3>3. where[x] # Life!OnMap
      <4>1. x \notin now.lost
        BY <2>1 DEF Precedes
      <4>2. QED BY <1>8, <3>1, <4>1 DEF now
    <3>4. x \notin next.lost
      BY <1>7, <1>8, <3>1, <3>2, <3>3 DEF Moved, next
    <3>5. ASSUME NEW j \in DOMAIN next.bags, x \in next.bags[j] PROVE i = j
      <4>1. j \in DOMAIN now.bags /\ x \in now.bags[j]
        BY <1>8, <1>10, <3>1, <3>3, <3>5 DEF now, next
      <4>2. QED BY <2>1, <4>1 DEF Precedes
    <3>6. QED BY <3>4, <3>5
  <2>4. QED BY <2>2, <2>3 DEF Precedes
<1>16. Precedes(next, next)
  BY <1>6 DEF Consistent, Precedes, next
<1>17. StatesInOrder'
  <2>1. ASSUME NEW a \in Told("state"), NEW b \in Told("state"), a <= b
        PROVE  Precedes(W(a), W(b))
    <3>1. CASE b # n
      <4>1. a # n
        BY <1>3, <2>1, <3>1
      <4>2. QED BY <1>13, <1>14, <2>1, <3>1, <4>1
    <3>2. CASE b = n
      BY <1>13, <1>15, <1>16, <3>2
    <3>3. QED BY <3>1, <3>2
  <2>2. ASSUME NEW a \in Told("state"), NEW b \in Told("state"), NEW c \in Told("state"),
               a <= b, b <= c
        PROVE  StaysGone(W(a), W(b), W(c))
    <3>1. CASE c # n
      <4>1. a # n /\ b # n
        BY <1>3, <2>2, <3>1
      <4>2. QED BY <1>13, <1>14, <2>2, <3>1, <4>1
    <3>2. CASE b = n
      <4>1. c = n
        BY <1>3, <2>2, <3>2
      <4>2. QED BY <3>2, <4>1 DEF StaysGone
    <3>3. CASE c = n /\ b # n
      <4>1. a # n
        BY <1>3, <2>2, <3>3
      <4>2. StaysGone(V(a), V(b), now)
        BY <1>13, <1>14, <2>2, <3>3
      <4>3. \A x \in Loot : Shows(V(a), x) => where[x] # Life!Unborn
        BY <1>14
      <4>4. StaysGone(V(a), V(b), next)
        BY <1>11, <4>2, <4>3 DEF StaysGone
      <4>5. QED BY <1>13, <3>3, <4>1, <4>4
    <3>4. QED BY <3>1, <3>2, <3>3
  <2>3. QED BY <1>3, <2>1, <2>2 DEF StatesInOrder
<1>18. NamesInOrder'
  <2>1. ASSUME NEW a \in Told("players"), NEW b \in Told("players"), a <= b
        PROVE  At("players", a)' \subseteq At("players", b)'
    <3>1. At("players", a) \subseteq At("players", b)
      BY <2>1 DEF TellingInv, NamesInOrder
    <3>2. CASE b # n
      <4>1. a # n
        BY <1>3, <2>1, <3>2
      <4>2. QED BY <1>4, <3>1, <3>2, <4>1
    <3>3. CASE b = n
      BY <1>4, <1>5, <1>7, <3>1, <3>3 DEF Moved
    <3>4. QED BY <3>2, <3>3
  <2>2. QED BY <1>3, <2>1 DEF NamesInOrder
<1>19. LootInOrder'
  <2>1. ASSUME NEW x \in Loot, NEW a \in Told("state"), Shows(W(a), x)
        PROVE  where'[x] # Life!Unborn
    BY <1>7, <1>12, <1>13, <1>14, <2>1 DEF Moved
  <2>2. ASSUME NEW x \in Loot, NEW p \in Persons, where'[x] = Life!Bag(p)
        PROVE  InGame(p)'
    <3>1. InGame(p)
      BY <1>7, <2>2 DEF Moved
    <3>2. QED BY <1>7, <3>1 DEF InGame, Moved
  <2>3. QED BY <1>3, <1>7, <2>1, <2>2 DEF LootInOrder
<1>20. AnsweredInOrder'
  BY <1>1 DEF TellingInv, AnsweredInOrder
<1>21. DrawnInv'
  <2>1. FallsOnce'
    <3>1. ASSUME NEW x \in Loot, screen.falling[x] # None, NEW a \in Told("state")
          PROVE  where'[x] # Life!Unborn /\ ~Shows(W(a), x)
      <4>1. where[x] # Life!Unborn /\ ~Shows(V(a), x) /\ ~Shows(now, x)
        BY <1>13, <1>14, <3>1 DEF DrawnInv, FallsOnce
      <4>2. QED BY <1>7, <1>11, <1>13, <4>1 DEF Moved
    <3>2. QED BY <1>1, <1>3, <1>14, <3>1 DEF FallsOnce
  <2>2. Shown' = Shown
    BY <1>1 DEF Shown, Started
  <2>3. QED BY <1>1, <2>1, <2>2 DEF DrawnInv
<1>22. QED BY <1>17, <1>18, <1>19, <1>20, <1>21 DEF TellingInv

-----------------------------------------------------------------------------
(* The calls go on *)

\* What is told after a step was told before it, in the same order; s says when.
Retold(kind, s) ==
  /\ \A a \in Told(kind)' : s[a] \in Told(kind) /\ At(kind, a)' = At(kind, s[a])
  /\ \A a, b \in Told(kind)' : a <= b => s[a] <= s[b]

LEMMA RetoldInOrder ==
  ASSUME StatesInOrder, NamesInOrder, LootInOrder, UNCHANGED <<where, order>>,
         NEW s, Retold("state", s), NEW t, Retold("players", t)
  PROVE  StatesInOrder' /\ NamesInOrder' /\ LootInOrder'
<1>1. \A a \in Told("state")' : s[a] \in Told("state") /\ At("state", a)' = At("state", s[a])
  BY DEF Retold
<1>2. \A a, b \in Told("state")' : a <= b => s[a] <= s[b]
  BY DEF Retold
<1>3. StatesInOrder'
  <2>1. ASSUME NEW a \in Told("state")', NEW b \in Told("state")', a <= b
        PROVE  Precedes(At("state", a)', At("state", b)')
    BY <1>1, <1>2, <2>1 DEF StatesInOrder
  <2>2. ASSUME NEW a \in Told("state")', NEW b \in Told("state")', NEW c \in Told("state")',
               a <= b, b <= c
        PROVE  StaysGone(At("state", a)', At("state", b)', At("state", c)')
    <3>1. s[a] <= s[b] /\ s[b] <= s[c]
      BY <1>2, <2>2
    <3>2. QED BY <1>1, <3>1 DEF StatesInOrder
  <2>3. QED BY <2>1, <2>2 DEF StatesInOrder
<1>4. NamesInOrder'
  BY DEF Retold, NamesInOrder
<1>5. LootInOrder'
  <2>1. \A x \in Loot, a \in Told("state")' : Shows(At("state", a)', x) => where[x] # Life!Unborn
    BY <1>1 DEF LootInOrder
  <2>2. QED BY <2>1 DEF LootInOrder, InGame
<1>6. QED BY <1>3, <1>4, <1>5

LEMMA ToldIs ==
  ASSUME NEW kind, NEW a
  PROVE  /\ a \in Told(kind) <=> \/ a = 0 \/ a = Len(calls) + 1
                                 \/ a \in DOMAIN calls /\ calls[a].kind = kind /\ calls[a].status = "done"
         /\ a \in Told(kind)' <=> \/ a = 0 \/ a = Len(calls') + 1
                                  \/ a \in DOMAIN calls' /\ calls'[a].kind = kind /\ calls'[a].status = "done"
         /\ At(kind, a) = IF a = 0 THEN First(kind)
                          ELSE IF a = Len(calls) + 1 THEN Now(kind) ELSE Tells(kind, calls[a].view)
         /\ At(kind, a)' = IF a = 0 THEN First(kind)'
                           ELSE IF a = Len(calls') + 1 THEN Now(kind)' ELSE Tells(kind, calls'[a].view)
BY DEF Told, At, Tells

\* Calls are made.
LEMMA AddedRetold ==
  ASSUME CallsOK, NEW kind, First(kind)' = First(kind), Now(kind)' = Now(kind),
         NEW new \in Seq(CallRecord), calls' = calls \o new,
         \A i \in DOMAIN new : new[i].status = "sent"
  PROVE  \E s : Retold(kind, s)
<1>1. PICK n \in Nat, m \in Nat : n = Len(calls) + 1 /\ m = Len(calls') + 1 /\ n <= m
  <2>1. Len(calls) \in Nat /\ Len(calls') = Len(calls) + Len(new) /\ Len(new) \in Nat
    BY CallsAdded
  <2>2. QED BY <2>1
<1>2. /\ n # 0 /\ m # 0 /\ DOMAIN calls = 1 .. n - 1 /\ DOMAIN calls' = 1 .. m - 1
      /\ \A k \in DOMAIN calls : calls'[k] = calls[k]
      /\ \A k \in DOMAIN calls' : k \notin DOMAIN calls => calls'[k].status = "sent"
  BY <1>1, CallsAdded
<1> DEFINE s == [a \in Told(kind)' |-> IF a = m THEN n ELSE a]
<1>3. ASSUME NEW a \in Told(kind)'
      PROVE  /\ s[a] = IF a = m THEN n ELSE a
             /\ a # m => a \in 0 .. n - 1
             /\ s[a] \in Told(kind) /\ At(kind, a)' = At(kind, s[a])
  <2>1. CASE a = m
    BY <1>1, <1>2, <2>1, ToldIs
  <2>2. CASE a # m /\ a # 0
    <3>1. a \in DOMAIN calls' /\ calls'[a].kind = kind /\ calls'[a].status = "done"
      BY <1>1, <2>2, ToldIs
    <3>2. a \in DOMAIN calls /\ calls'[a] = calls[a]
      BY <1>2, <3>1
    <3>3. a # n /\ a \in 0 .. n - 1
      BY <1>2, <3>2
    <3>4. s[a] = a
      BY <2>2
    <3>5. a \in Told(kind)
      BY <3>1, <3>2, ToldIs
    <3>6. At(kind, a)' = At(kind, a)
      BY <1>1, <2>2, <3>2, <3>3, ToldIs
    <3>7. QED BY <2>2, <3>3, <3>4, <3>5, <3>6
  <2>3. CASE a = 0
    BY <1>1, <1>2, <2>3, ToldIs
  <2>4. QED BY <2>1, <2>2, <2>3
<1>4. ASSUME NEW a \in Told(kind)', NEW b \in Told(kind)', a <= b PROVE s[a] <= s[b]
  <2>1. b \in 0 .. n - 1 \/ b = m
    BY <1>3
  <2>2. a \in 0 .. n - 1 \/ a = m
    BY <1>3
  <2> HIDE DEF s
  <2>3. QED BY <1>1, <1>2, <1>3, <1>4, <2>1, <2>2
<1> HIDE DEF s
<1>5. QED BY <1>3, <1>4 DEF Retold

\* A call is over, and nothing was learnt from it, or it told the first news.
LEMMA RemovedRetold ==
  ASSUME CallsOK, NEW kind, NEW k \in DOMAIN calls, calls' = Without(calls, k), Now(kind)' = Now(kind),
         NEW f \in {0, k} \cap Told(kind), First(kind)' = At(kind, f),
         f = k => \A j \in DOMAIN calls : j < k => calls[j].kind # kind
  PROVE  \E s : Retold(kind, s) /\ \A a \in Told(kind)' : f <= s[a]
<1>1. /\ k \in Nat /\ k >= 1 /\ k <= Len(calls) /\ Len(calls) \in Nat
      /\ calls' \in Seq(CallRecord) /\ Len(calls') = Len(calls) - 1
  BY WithoutElement DEF CallsOK, Fine
<1>2. PICK n \in Nat : n = Len(calls) + 1 /\ n - 1 = Len(calls') + 1 /\ k < n
  BY <1>1
<1>3. DOMAIN calls' = 1 .. n - 2 /\ DOMAIN calls = 1 .. n - 1
  BY <1>1, <1>2 DEF CallsOK, Fine
<1> DEFINE old(a) == IF a < k THEN a ELSE a + 1
<1>4. \A a \in DOMAIN calls' : old(a) \in DOMAIN calls /\ old(a) # k /\ calls'[a] = calls[old(a)]
  BY CallsMoved
<1>5. ASSUME NEW a \in Told(kind)'
      PROVE  /\ a \in 0 .. n - 1 /\ old(a) \in Told(kind)
             /\ a # 0 => At(kind, a)' = At(kind, old(a))
  <2>1. CASE a = 0
    <3>1. old(a) = 0 /\ 0 \in 0 .. n - 1
      BY <1>1, <1>2, <2>1
    <3> HIDE DEF old
    <3>2. QED BY <2>1, <3>1, ToldIs
  <2>2. CASE a = n - 1
    <3>1. old(a) = n /\ n # 0 /\ n - 1 # 0
      BY <1>1, <1>2, <2>2
    <3>2. QED BY <1>2, <2>2, <3>1, ToldIs
  <2>3. CASE a # 0 /\ a # n - 1
    <3>1. a \in DOMAIN calls' /\ calls'[a].kind = kind /\ calls'[a].status = "done"
      BY <1>2, <2>3, ToldIs
    <3>2. old(a) \in DOMAIN calls /\ calls'[a] = calls[old(a)]
      BY <1>4, <3>1
    <3>3. old(a) # 0 /\ old(a) # n /\ a \in 0 .. n - 1
      BY <1>3, <3>1, <3>2
    <3> HIDE DEF old
    <3>4. old(a) \in Told(kind)
      BY <3>1, <3>2, ToldIs
    <3>5. At(kind, a)' = At(kind, old(a))
      BY <1>2, <2>3, <3>2, <3>3, ToldIs
    <3>6. QED BY <3>3, <3>4, <3>5
  <2>4. QED BY <2>1, <2>2, <2>3
<1>6. \A a, b \in Told(kind)' : a <= b => old(a) <= old(b)
  <2>1. \A a \in Told(kind)' : a \in Nat
    BY <1>5
  <2>2. QED BY <1>1, <2>1
<1>7. old(0) = 0
  BY <1>1
<1> DEFINE s == [a \in Told(kind)' |-> IF a = 0 THEN f ELSE old(a)]
<1>8. \A a \in Told(kind)' : s[a] = IF a = 0 THEN f ELSE old(a)
  OBVIOUS
<1>9. At(kind, 0)' = At(kind, f)
  BY ToldIs
<1>10. ASSUME NEW a \in Told(kind)', a # 0 PROVE f <= old(a)
  <2>1. old(a) \in Nat
    BY <1>1, <1>5
  <2>2. CASE f = 0
    BY <2>1, <2>2
  <2>3. CASE f = k /\ a = n - 1
    BY <1>1, <1>2, <2>3
  <2>4. CASE f = k /\ a # n - 1
    <3>1. a \in DOMAIN calls' /\ calls'[a].kind = kind
      BY <1>2, <1>10, <2>4, ToldIs
    <3>2. old(a) \in DOMAIN calls /\ calls[old(a)].kind = kind
      BY <1>4, <3>1
    <3>3. ~(old(a) < k)
      BY <2>4, <3>2
    <3> HIDE DEF old
    <3>4. QED BY <1>1, <2>1, <2>4, <3>3
  <2>5. QED BY <2>2, <2>3, <2>4
<1>11. f \in Nat
  BY <1>1
<1> HIDE DEF s, old
<1>12. \A a \in Told(kind)' : /\ s[a] \in Told(kind) /\ At(kind, a)' = At(kind, s[a])
                             /\ f <= s[a]
  BY <1>5, <1>8, <1>9, <1>10, <1>11
<1>13. ASSUME NEW a \in Told(kind)', NEW b \in Told(kind)', a <= b PROVE s[a] <= s[b]
  <2>1. CASE a # 0
    <3>1. b # 0
      BY <1>5, <1>13, <2>1
    <3>2. QED BY <1>6, <1>8, <1>13, <2>1, <3>1
  <2>2. CASE a = 0
    BY <1>8, <1>12, <2>2
  <2>3. QED BY <2>1, <2>2
<1>14. QED BY <1>12, <1>13 DEF Retold

\* The client leaves the game.
LEMMA LeftRetold ==
  ASSUME CallsOK, NEW kind, NEW k \in DOMAIN calls, calls' = <<>>, Now(kind)' = Now(kind),
         NEW f \in {0, k} \cap Told(kind), First(kind)' = At(kind, f)
  PROVE  \E s : Retold(kind, s) /\ \A a \in Told(kind)' : f <= s[a]
<1>1. PICK n \in Nat : n = Len(calls) + 1 /\ n # 0 /\ k \in 1 .. n - 1
  BY DEF CallsOK, Fine
<1>2. Len(calls') + 1 = 1
  OBVIOUS
<1>3. \A a : a \in Told(kind)' <=> a \in {0, 1}
  BY <1>2, ToldIs
<1>4. At(kind, 1)' = At(kind, n) /\ n \in Told(kind) /\ At(kind, 0)' = At(kind, f)
  BY <1>1, <1>2, ToldIs
<1> DEFINE s == [a \in Told(kind)' |-> IF a = 0 THEN f ELSE n]
<1>5. \A a \in Told(kind)' : s[a] = IF a = 0 THEN f ELSE n
  OBVIOUS
<1>6. f <= n /\ n <= n /\ f <= f
  BY <1>1
<1> HIDE DEF s
<1>7. QED BY <1>3, <1>4, <1>5, <1>6 DEF Retold

\* The server tells how it is now, and answers no call of this kind before an older one.
LEMMA AnsweredRetold ==
  ASSUME ClientInv, AnsweredInOrder, InGame(Me), NEW kind \in {"state", "players"},
         NEW k \in DOMAIN calls, Answer(k)
  PROVE  \E s : Retold(kind, s)
<1>1. calls \in Seq(CallRecord) /\ calls[k] \in CallRecord
  BY DEF ClientInv, CallsOK, Fine
<1>2. /\ calls[k].status = "sent" /\ calls' = [calls EXCEPT ![k] = Reply(calls[k])]
      /\ UNCHANGED <<where, order, desired, screen>>
  BY DEF Answer, clientVars
<1>3. First(kind)' = First(kind) /\ Now(kind)' = Now(kind)
  BY <1>2 DEF First, Now, StateView
<1>4. /\ Len(calls') = Len(calls) /\ DOMAIN calls' = DOMAIN calls
      /\ \A j \in DOMAIN calls : calls'[j] = IF j = k THEN Reply(calls[k]) ELSE calls[j]
  BY <1>1, <1>2
<1>5. PICK n \in Nat : n = Len(calls) + 1 /\ n # 0 /\ DOMAIN calls = 1 .. n - 1
  BY <1>1
<1>6. Reply(calls[k]).kind = calls[k].kind
      /\ (calls[k].kind = kind => Tells(kind, Reply(calls[k]).view) = Now(kind))
  <2>1. CASE calls[k].kind = "state"
    BY <1>1, <2>1 DEF Reply, CallRecord, Tells, Now
  <2>2. CASE calls[k].kind = "players"
    BY <1>1, <2>2 DEF Reply, CallRecord, Tells, Now, PlayersView
  <2>3. CASE calls[k].kind = "action"
    BY <1>1, <2>3 DEF Reply, CallRecord
  <2>4. QED BY <1>1, <2>1, <2>2, <2>3 DEF CallRecord, Kinds
<1> DEFINE s == [a \in Told(kind)' |-> IF a = k THEN n ELSE a]
<1>7. ASSUME NEW a \in Told(kind)'
      PROVE  /\ a \in 0 .. n /\ s[a] = (IF a = k THEN n ELSE a)
             /\ s[a] \in Told(kind) /\ At(kind, a)' = At(kind, s[a])
  <2>1. s[a] = (IF a = k THEN n ELSE a)
    OBVIOUS
  <2>2. n \in Told(kind) /\ At(kind, n) = Now(kind)
    BY <1>5, ToldIs
  <2> HIDE DEF s
  <2>3. CASE a = 0 \/ a = n
    <3>1. a # k
      BY <1>5, <2>3
    <3>2. QED BY <1>3, <1>4, <1>5, <2>1, <2>3, <3>1, ToldIs
  <2>4. CASE a # 0 /\ a # n
    <3>1. a \in DOMAIN calls /\ calls'[a].kind = kind /\ calls'[a].status = "done"
      BY <1>4, <1>5, <2>4, ToldIs
    <3>2. At(kind, a)' = Tells(kind, calls'[a].view)
      BY <1>4, <1>5, <2>4, ToldIs
    <3>3. CASE a = k
      BY <1>4, <1>5, <1>6, <2>1, <2>2, <3>1, <3>2, <3>3
    <3>4. CASE a # k
      <4>1. calls'[a] = calls[a]
        BY <1>4, <3>1, <3>4
      <4>2. a \in Told(kind) /\ At(kind, a) = Tells(kind, calls[a].view)
        BY <1>5, <2>4, <3>1, <4>1, ToldIs
      <4>3. QED BY <1>5, <2>1, <3>1, <3>2, <3>4, <4>1, <4>2
    <3>5. QED BY <3>3, <3>4
  <2>5. QED BY <2>3, <2>4
<1>8. ASSUME NEW b \in Told(kind)', k \in Told(kind)', k <= b, b # k PROVE b = n
  <2>1. SUFFICES ASSUME b # n PROVE FALSE
    OBVIOUS
  <2>2. b # 0 /\ b \in DOMAIN calls
    BY <1>5, <1>7, <1>8, <2>1
  <2>3. calls[b].kind = kind /\ calls[b].status = "done"
    BY <1>4, <1>5, <1>8, <2>1, <2>2, ToldIs
  <2>4. calls[k].kind = kind
    <3>1. k # 0 /\ k # n
      BY <1>5
    <3>2. QED BY <1>4, <1>5, <1>6, <1>8, <3>1, ToldIs
  <2>5. k < b
    BY <1>5, <1>8, <2>2
  <2>6. QED BY <1>2, <2>2, <2>3, <2>4, <2>5 DEF AnsweredInOrder
<1>9. ASSUME NEW a \in Told(kind)', NEW b \in Told(kind)', a <= b PROVE s[a] <= s[b]
  <2>1. /\ a \in 0 .. n /\ b \in 0 .. n
        /\ s[a] = (IF a = k THEN n ELSE a) /\ s[b] = (IF b = k THEN n ELSE b)
    BY <1>7
  <2> HIDE DEF s
  <2>2. QED BY <1>8, <1>9, <2>1
<1> HIDE DEF s
<1>10. QED BY <1>7, <1>9 DEF Retold

\* The calls of a kind are answered in order, as they were before.
LEMMA StillInOrder ==
  ASSUME CallsOK, AnsweredInOrder,
         \/ calls' = <<>>
         \/ \E k \in DOMAIN calls : calls' = Without(calls, k)
         \/ \E new \in Seq(CallRecord) : calls' = calls \o new /\ \A i \in DOMAIN new : new[i].status = "sent"
  PROVE  AnsweredInOrder'
<1>1. calls \in Seq(CallRecord) /\ \A j \in DOMAIN calls : j \in Nat
  BY DEF CallsOK, Fine
<1>2. CASE calls' = <<>>
  BY <1>2 DEF AnsweredInOrder
<1>3. ASSUME NEW k \in DOMAIN calls, calls' = Without(calls, k) PROVE AnsweredInOrder'
  <2>1. SUFFICES ASSUME NEW i \in DOMAIN calls', NEW j \in DOMAIN calls', i < j,
                        calls'[i].kind = calls'[j].kind, calls'[i].kind # "action",
                        calls'[i].status = "sent"
                 PROVE  calls'[j].status = "sent"
    BY DEF AnsweredInOrder
  <2>2. PICK g \in DOMAIN calls, h \in DOMAIN calls :
          /\ g = (IF i < k THEN i ELSE i + 1) /\ calls'[i] = calls[g]
          /\ h = (IF j < k THEN j ELSE j + 1) /\ calls'[j] = calls[h]
    BY <1>3, CallsMoved
  <2>3. i \in Nat /\ j \in Nat /\ k \in Nat
    <3>1. calls' \in Seq(CallRecord)
      BY <1>1, <1>3, WithoutElement
    <3>2. QED BY <1>1, <3>1
  <2>4. g < h
    BY <2>1, <2>2, <2>3
  <2>5. QED BY <2>1, <2>2, <2>4 DEF AnsweredInOrder
<1>4. ASSUME NEW new \in Seq(CallRecord), calls' = calls \o new,
             \A i \in DOMAIN new : new[i].status = "sent"
      PROVE  AnsweredInOrder'
  <2>1. /\ \A k \in DOMAIN calls : k \in DOMAIN calls' /\ calls'[k] = calls[k]
        /\ \A k \in DOMAIN calls' : k \notin DOMAIN calls => calls'[k].status = "sent"
    BY <1>4, CallsAdded
  <2>2. ASSUME NEW j \in DOMAIN calls', NEW k \in DOMAIN calls', j < k, k \in DOMAIN calls
        PROVE  j \in DOMAIN calls
    BY <1>1, <1>4, <2>2
  <2>3. QED BY <2>1, <2>2 DEF AnsweredInOrder
<1>5. QED BY <1>2, <1>3, <1>4

LEMMA StillFallsOnce ==
  ASSUME FallsOnce, UNCHANGED where, NEW s, Retold("state", s),
         \A x \in Loot : screen'.falling[x] \in {None, screen.falling[x]}
  PROVE  FallsOnce'
BY DEF FallsOnce, Retold

\* What the calls have told is told in order, if First and Now go on in order.
LEMMA AnswerHistory ==
  ASSUME ClientInv, TellingInv, DrawnInv, InGame(Me), NEW k \in DOMAIN calls, Answer(k),
         overtaken' \cap {"state", "players"} = {}
  PROVE  TellingInv' /\ DrawnInv'
<1>1. /\ calls[k].status = "sent" /\ calls' = [calls EXCEPT ![k] = Reply(calls[k])]
      /\ UNCHANGED <<where, order, desired, screen, loaded>>
      /\ Overtakes(k, {j \in 1 .. k - 1 : calls[j].status = "sent"})
  BY DEF Answer, clientVars
<1>2. PICK s : Retold("state", s)
  BY AnsweredRetold DEF TellingInv
<1>3. PICK t : Retold("players", t)
  BY AnsweredRetold DEF TellingInv
<1>4. StatesInOrder' /\ NamesInOrder' /\ LootInOrder'
  BY <1>1, <1>2, <1>3, RetoldInOrder DEF TellingInv
<1>5. AnsweredInOrder'
  <2>1. calls \in Seq(CallRecord) /\ calls[k] \in CallRecord
    BY DEF ClientInv, CallsOK, Fine
  <2>2. DOMAIN calls' = DOMAIN calls /\ DOMAIN calls = 1 .. Len(calls) /\ Len(calls) \in Nat
        /\ \A j \in DOMAIN calls : calls'[j] = IF j = k THEN Reply(calls[k]) ELSE calls[j]
    BY <1>1, <2>1
  <2>3. Reply(calls[k]).kind = calls[k].kind /\ Reply(calls[k]).status # "sent"
    <3>1. calls[k].kind \in {"state", "players", "action"}
      BY <2>1 DEF CallRecord, Kinds
    <3>2. QED BY <2>1, <3>1 DEF Reply, CallRecord
  <2>4. ASSUME NEW j \in DOMAIN calls, j < k, calls[j].kind = calls[k].kind, calls[j].kind # "action"
        PROVE  calls[j].status # "sent"
    <3>1. SUFFICES ASSUME calls[j].status = "sent" PROVE FALSE
      OBVIOUS
    <3>2. j \in {i \in 1 .. k - 1 : calls[i].status = "sent"}
      BY <2>2, <2>4, <3>1
    <3>3. overtaken' = overtaken \cup {calls[k].kind}
      BY <1>1, <2>4, <3>2 DEF Overtakes
    <3>4. calls[k].kind \in {"state", "players"}
      BY <2>1, <2>4 DEF CallRecord, Kinds
    <3>5. QED BY <3>3, <3>4
  <2>5. QED BY <2>2, <2>3, <2>4 DEF TellingInv, AnsweredInOrder
<1>6. FallsOnce'
  <2>1. \A x \in Loot : screen'.falling[x] \in {None, screen.falling[x]}
    BY <1>1
  <2>2. QED BY <1>1, <1>2, <2>1, StillFallsOnce DEF DrawnInv
<1>7. DrawnInv'
  <2>1. Shown' = Shown
    BY <1>1 DEF Shown, Started
  <2>2. QED BY <1>1, <1>6, <2>1 DEF DrawnInv
<1>8. QED BY <1>4, <1>5, <1>7 DEF TellingInv

\* A frame or a key.
LEMMA AskHistory ==
  ASSUME ClientInv, TellingInv, DrawnInv, Tick \/ \E ks \in Seq(Keys) : Press(ks)
  PROVE  TellingInv' /\ DrawnInv'
<1>1. UNCHANGED <<where, order, desired, loaded>>
  BY DEF Tick, Press, sessionVars
<1>2. PICK new \in Seq(CallRecord) : calls' = calls \o new /\ \A i \in DOMAIN new : new[i].status = "sent"
  <2>1. CASE Tick
    BY <2>1, TickAdds
  <2>2. ASSUME NEW ks \in Seq(Keys), Press(ks)
        PROVE  \E n \in Seq(CallRecord) : calls' = calls \o n /\ \A i \in DOMAIN n : n[i].status = "sent"
    <3> DEFINE c == Call("action", LastKey(ks))
    <3>1. c.status = "sent" /\ \A i \in DOMAIN <<c>> : <<c>>[i] = c
      BY DEF Call
    <3>2. <<c>> \in Seq(CallRecord) /\ calls' = calls \o <<c>>
      BY <2>2, PressAdds
    <3> HIDE DEF c
    <3>3. QED BY <3>1, <3>2
  <2>3. QED BY <2>1, <2>2
<1>3. /\ Drawn(screen') /\ Matches(screen', Shown) /\ screen'.dogs = screen.dogs
      /\ \A x \in Loot : screen'.falling[x] \in {None, screen.falling[x]}
  <2>1. screen \in Screen /\ Separate(screen) /\ Drawn(screen) /\ Matches(screen, Shown)
    BY DEF ClientInv, ScreenOK, DrawnInv
  <2>2. CASE screen' = screen
    BY <2>1, <2>2
  <2>3. CASE Tick
    <3>1. PICK gone \in SUBSET Falling(screen) : screen' = Expired(screen, gone)
      BY <2>3 DEF Tick
    <3>2. QED BY <2>1, <3>1, ExpiredDraws
  <2>4. QED BY <2>2, <2>3 DEF Press
<1>4. \A kind : First(kind)' = First(kind) /\ Now(kind)' = Now(kind)
  BY <1>1, <1>3 DEF First, Now, StateView
<1>5. \A kind : \E s : Retold(kind, s)
  BY <1>2, <1>4, AddedRetold DEF ClientInv
<1>6. PICK s, t : Retold("state", s) /\ Retold("players", t)
  BY <1>5
<1>7. StatesInOrder' /\ NamesInOrder' /\ LootInOrder'
  BY <1>1, <1>6, RetoldInOrder DEF TellingInv
<1>8. AnsweredInOrder'
  BY <1>2, StillInOrder DEF ClientInv, TellingInv
<1>9. FallsOnce'
  BY <1>1, <1>3, <1>6, StillFallsOnce DEF DrawnInv
<1>10. Shown' = Shown
  BY <1>1 DEF Shown, Started
<1>11. QED BY <1>1, <1>3, <1>7, <1>8, <1>9, <1>10 DEF TellingInv, DrawnInv

-----------------------------------------------------------------------------
(* The callbacks *)

\* A callback has run: the client may have left the game.
LEMMA OverRetold ==
  ASSUME CallsOK, NEW kind, NEW k \in DOMAIN calls, calls' = <<>> \/ calls' = Without(calls, k),
         Now(kind)' = Now(kind), NEW f \in {0, k} \cap Told(kind), First(kind)' = At(kind, f),
         f = k => \A j \in DOMAIN calls : j < k => calls[j].kind # kind
  PROVE  \E s : Retold(kind, s) /\ \A a \in Told(kind)' : f <= s[a]
<1>1. CASE calls' = <<>>
  BY <1>1, LeftRetold
<1>2. CASE calls' = Without(calls, k)
  BY <1>2, RemovedRetold
<1>3. QED BY <1>1, <1>2

\* A screen that shows nothing yet, or what was told first, shows a state of which the
\* client heard, and of what comes later nothing that falls now.
LEMMA AppliedHistory ==
  ASSUME ClientInv, TellingInv, FallsOnce, UNCHANGED where,
         NEW scr \in Screen, Separate(scr), CanCreate(scr), Drawn(scr), scr.falling = screen.falling,
         NEW d, d \in {NoView, At("state", 0)}, Matches(scr, d),
         NEW h \in Told("state"), screen' = Applied(scr, At("state", h)),
         NEW s, Retold("state", s), \A a \in Told("state")' : h <= s[a]
  PROVE  Drawn(screen') /\ Matches(screen', At("state", h)) /\ FallsOnce'
<1> DEFINE v == At("state", h)
           first == At("state", 0)
<1>1. PICK n \in Nat : /\ n = Len(calls) + 1 /\ n \in Told("state") /\ 0 \in Told("state")
                       /\ \A a \in Told("state") : a \in 0 .. n
  BY ToldRange DEF ClientInv
<1>2. 0 <= h /\ h <= n
  <2>1. h \in 0 .. n
    BY <1>1, Zenon
  <2>2. QED BY <2>1
<1>3. Consistent(v) /\ Consistent(first) /\ Consistent(d)
  BY <1>1, AtConsistent, NoViewConsistent
<1>4. \A x : ~Shows(NoView, x)
  BY DEF Shows, NoView
<1>5. Precedes(d, v)
  <2>1. Precedes(NoView, v)
    BY DEF Precedes, NoView
  <2>2. Precedes(first, v)
    BY <1>1, <1>2 DEF TellingInv, StatesInOrder
  <2>3. QED BY <2>1, <2>2
<1>6. DOMAIN v.bags \subseteq Slots
  <2>1. Precedes(v, At("state", n))
    BY <1>1, <1>2 DEF TellingInv, StatesInOrder
  <2>2. At("state", n) = StateView
    BY <1>1 DEF At, Now
  <2>3. DOMAIN StateView.bags = DOMAIN order
    BY DEF StateView
  <2>4. QED BY <2>1, <2>2, <2>3, OrderFits DEF ClientInv, Precedes
<1>7. \A x \in Loot : screen.falling[x] # None =>
        where[x] # Life!Unborn /\ \A a \in Told("state") : ~Shows(At("state", a), x)
  BY DEF FallsOnce
<1>8. \A x \in Loot : scr.falling[x] # None => ~Shows(d, x) /\ ~Shows(v, x)
  BY <1>1, <1>4, <1>7
<1> HIDE DEF v, first
<1>9. screen' = Applied(scr, v)
  BY DEF v
<1>10. ASSUME NEW x \in Loot
      PROVE  /\ screen'.scene[x] = Known(screen', x)
             /\ screen'.lost[x] # None <=> x \in v.lost
             /\ \A i \in Slots : screen'.data[i][x] # None <=> i \in DOMAIN v.bags /\ x \in v.bags[i]
             /\ screen'.falling[x] # None =>
                  ~Shows(v, x) /\ (Shows(d, x) \/ screen.falling[x] # None)
  BY <1>3, <1>5, <1>6, <1>8, <1>9, AppliedDraws
<1>11. screen'.cur = DOMAIN v.bags
  BY <1>9 DEF Applied
<1>12. ASSUME NEW x \in Loot, screen'.falling[x] # None
       PROVE  where'[x] # Life!Unborn /\ \A a \in Told("state")' : ~Shows(At("state", a)', x)
  <2>1. \A a \in Told("state")' : s[a] \in Told("state") /\ At("state", a)' = At("state", s[a])
    BY DEF Retold
  <2>2. CASE screen.falling[x] # None
    BY <1>7, <2>1, <2>2
  <2>3. CASE Shows(d, x)
    <3>1. Shows(first, x)
      BY <1>4, <2>3 DEF first
    <3>2. where[x] # Life!Unborn
      BY <1>1, <3>1 DEF TellingInv, LootInOrder, first
    <3>3. ~Shows(v, x)
      BY <1>10, <1>12
    <3>4. ASSUME NEW a \in Told("state")' PROVE ~Shows(At("state", a)', x)
      <4>1. s[a] \in Told("state") /\ h <= s[a]
        BY <2>1
      <4>2. StaysGone(first, v, At("state", s[a]))
        BY <1>1, <1>2, <4>1 DEF TellingInv, StatesInOrder, first, v
      <4>3. QED BY <2>1, <3>1, <3>3, <4>2 DEF StaysGone
    <3>5. QED BY <3>2, <3>4
  <2>4. QED BY <1>10, <1>12, <2>2, <2>3
<1>13. FallsOnce'
  BY <1>12 DEF FallsOnce
<1>14. QED BY <1>10, <1>11, <1>13 DEF Drawn, Matches, v

LEMMA StateDrawn ==
  ASSUME ClientInv, TellingInv, DrawnInv, UNCHANGED where, CanCreate(screen),
         NEW k \in Told("state"), StateDone(At("state", k)),
         NEW s, Retold("state", s), \A a \in Told("state")' : k <= s[a]
  PROVE  DrawnInv'
<1> DEFINE v == At("state", k)
<1>1. /\ desired' = v /\ loaded' = loaded \cup {"state"}
      /\ screen' = IF "players" \in loaded THEN Applied(screen, v) ELSE screen
  BY DEF StateDone
<1>2. screen \in Screen /\ Separate(screen)
  BY DEF ClientInv, ScreenOK
<1>3. /\ Drawn(screen) /\ Matches(screen, Shown) /\ FallsOnce
      /\ loaded \subseteq {"state", "players"}
  BY DEF DrawnInv
<1>4. CASE "players" \in loaded
  <2>1. Shown' = v
    BY <1>1, <1>3, <1>4 DEF Shown, Started
  <2>2. Shown \in {NoView, At("state", 0)}
    BY DEF Shown, At, First
  <2>3. Drawn(screen') /\ Matches(screen', v) /\ FallsOnce'
    BY <1>1, <1>2, <1>3, <1>4, <2>2, AppliedHistory
  <2> HIDE DEF v
  <2>4. QED BY <1>1, <1>3, <2>1, <2>3 DEF DrawnInv
<1>5. CASE "players" \notin loaded
  <2>1. Shown' = NoView /\ Shown = NoView /\ screen' = screen
    BY <1>1, <1>5 DEF Shown, Started
  <2>2. FallsOnce'
    BY <1>3, <2>1, StillFallsOnce
  <2> HIDE DEF v
  <2>3. QED BY <1>1, <1>3, <2>1, <2>2 DEF DrawnInv
<1>6. QED BY <1>4, <1>5

LEMMA PlayersDrawn ==
  ASSUME ClientInv, TellingInv, DrawnInv, UNCHANGED where, CanCreate(screen),
         NEW v \in View, DOMAIN screen.dogs \subseteq DOMAIN v.names, PlayersDone(v),
         NEW s, Retold("state", s)
  PROVE  DrawnInv' /\ DOMAIN screen'.dogs = DOMAIN v.names
<1> DEFINE listed == Listed(screen, v.names)
<1>1. /\ desired' = desired /\ loaded' = loaded \cup {"players"}
      /\ screen' = IF loaded = {"state"} THEN Applied(listed, desired) ELSE listed
  BY DEF PlayersDone
<1>2. screen \in Screen /\ Separate(screen) /\ v.names \in Seq(Persons)
  BY DEF ClientInv, ScreenOK, View
<1>3. /\ Drawn(screen) /\ Matches(screen, Shown) /\ FallsOnce
      /\ loaded \subseteq {"state", "players"} /\ ("state" \notin loaded => desired = NoView)
  BY DEF DrawnInv
<1>4. listed \in Screen /\ Separate(listed) /\ CanCreate(listed)
  BY <1>2, ListedKeeps
<1>5. /\ Drawn(listed) /\ Matches(listed, Shown) /\ listed.falling = screen.falling
      /\ DOMAIN listed.dogs = DOMAIN v.names
  BY <1>2, <1>3, ListedDraws
<1> HIDE DEF listed
<1>6. CASE loaded = {"state"}
  <2>1. Shown = NoView /\ Shown' = desired
    BY <1>1, <1>6 DEF Shown, Started
  <2>2. At("state", 0) = desired /\ 0 \in Told("state")
    BY DEF At, First, Told
  <2>3. \A a \in Told("state")' : 0 <= s[a]
    <3>1. \A a \in Told("state")' : s[a] \in Told("state")
      BY DEF Retold
    <3>2. \A a \in Told("state") : a \in Nat
      <4>1. Len(calls) \in Nat /\ \A a \in Told("state") : a \in 0 .. Len(calls) + 1
        BY ToldRange DEF ClientInv
      <4>2. QED BY <4>1
    <3>3. QED BY <3>1, <3>2
  <2>4. screen' = Applied(listed, At("state", 0))
    BY <1>1, <1>6, <2>2
  <2>5. Drawn(screen') /\ Matches(screen', desired) /\ FallsOnce'
    BY <1>3, <1>4, <1>5, <2>1, <2>2, <2>3, <2>4, AppliedHistory
  <2>6. screen'.dogs = listed.dogs
    BY <1>1, <1>6 DEF Applied
  <2>7. QED BY <1>1, <1>3, <1>5, <2>1, <2>5, <2>6 DEF DrawnInv
<1>7. CASE loaded # {"state"}
  <2>1. screen' = listed
    BY <1>1, <1>7
  <2>2. Shown' = Shown
    BY <1>1, <1>3, <1>7 DEF Shown, Started
  <2>3. FallsOnce'
    <3>1. \A x \in Loot : screen'.falling[x] \in {None, screen.falling[x]}
      BY <1>5, <2>1
    <3>2. QED BY <1>3, <3>1, StillFallsOnce
  <2>4. QED BY <1>1, <1>3, <1>5, <2>1, <2>2, <2>3 DEF DrawnInv
<1>8. QED BY <1>6, <1>7

\* A callback of the client runs, of the oldest call of its kind.
LEMMA DeliverHistory ==
  ASSUME ClientInv, TellingInv, DrawnInv, NEW k \in DOMAIN calls, Deliver(k),
         overtaken' \cap {"state", "players"} = {}
  PROVE  TellingInv' /\ DrawnInv'
<1>1. /\ CanCreate(screen) /\ UNCHANGED <<where, order>> /\ Overtakes(k, 1 .. k - 1)
      /\ calls' = <<>> \/ calls' = Without(calls, k)
  BY DEF Deliver, sessionVars
<1>2. /\ CallsOK /\ calls[k] \in CallRecord /\ calls[k].view \in View
      /\ Len(calls) \in Nat /\ DOMAIN calls = 1 .. Len(calls)
  <2>1. CallsOK /\ calls \in Seq(CallRecord)
    BY DEF ClientInv, CallsOK, Fine
  <2>2. calls[k] \in CallRecord
    BY <2>1
  <2>3. calls[k].view \in View
    BY <2>2 DEF CallRecord
  <2>4. QED BY <2>1, <2>2, <2>3
<1>3. calls[k].kind # "action" => \A j \in DOMAIN calls : j < k => calls[j].kind # calls[k].kind
  <2>1. SUFFICES ASSUME calls[k].kind # "action", NEW j \in DOMAIN calls, j < k,
                        calls[j].kind = calls[k].kind
                 PROVE  FALSE
    OBVIOUS
  <2>2. j \in 1 .. k - 1
    BY <1>2, <2>1
  <2>3. overtaken' = overtaken \cup {calls[k].kind}
    BY <1>1, <2>1, <2>2 DEF Overtakes
  <2>4. calls[k].kind \in {"state", "players"}
    BY <1>2, <2>1 DEF CallRecord, Kinds
  <2>5. QED BY <2>3, <2>4
<1>4. \A kind : Now(kind)' = Now(kind) /\ 0 \in Told(kind) /\ At(kind, 0) = First(kind)
  BY <1>1 DEF Now, StateView, Told, At
<1>5. AnsweredInOrder'
  BY <1>1, <1>2, StillInOrder DEF TellingInv
<1>6. k # 0 /\ k # Len(calls) + 1
  BY <1>2
<1>7. StatesInOrder /\ NamesInOrder /\ LootInOrder /\ FallsOnce
  BY DEF TellingInv, DrawnInv
\* A list or a state that brings nothing new leaves the other kind as it was.
<1>8. ASSUME NEW kind, First(kind)' = First(kind) PROVE \E s : Retold(kind, s)
  <2>1. 0 \in {0, k} \cap Told(kind) /\ First(kind)' = At(kind, 0)
    BY <1>4, <1>8
  <2>2. \E s : Retold(kind, s) /\ \A a \in Told(kind)' : 0 <= s[a]
    BY <1>1, <1>2, <1>4, <1>6, <2>1, OverRetold
  <2>3. QED BY <2>2
<1>9. ASSUME NEW kind \in {"state", "players"}, calls[k].kind = kind, calls[k].status = "done",
             First(kind)' = Tells(kind, calls[k].view)
      PROVE  /\ k \in Told(kind) /\ At(kind, k) = Tells(kind, calls[k].view)
             /\ \E s : Retold(kind, s) /\ \A a \in Told(kind)' : k <= s[a]
  <2>1. k \in {0, k} \cap Told(kind) /\ At(kind, k) = Tells(kind, calls[k].view)
    BY <1>6, <1>9, ToldIs
  <2>2. \A j \in DOMAIN calls : j < k => calls[j].kind # kind
    BY <1>3, <1>9
  <2>3. QED BY <1>1, <1>2, <1>4, <1>9, <2>1, <2>2, OverRetold
<1>10. CASE calls[k].kind = "state" /\ calls[k].status = "done" /\ StateDone(calls[k].view)
  <2>1. desired' = calls[k].view /\ screen'.dogs = screen.dogs
    BY <1>10 DEF StateDone, Applied
  <2>2. /\ k \in Told("state") /\ At("state", k) = calls[k].view
        /\ \E s : Retold("state", s) /\ \A a \in Told("state")' : k <= s[a]
    <3>1. First("state")' = Tells("state", calls[k].view)
      BY <2>1 DEF First, Tells
    <3>2. QED BY <1>9, <1>10, <3>1 DEF Tells
  <2>3. PICK s : Retold("state", s) /\ \A a \in Told("state")' : k <= s[a]
    BY <2>2
  <2>4. First("players")' = First("players")
    BY <2>1 DEF First
  <2>5. PICK t : Retold("players", t)
    BY <1>8, <2>4
  <2>6. StatesInOrder' /\ NamesInOrder' /\ LootInOrder'
    BY <1>1, <1>7, <2>3, <2>5, RetoldInOrder
  <2>7. DrawnInv'
    BY <1>1, <1>10, <2>2, <2>3, StateDrawn
  <2>8. QED BY <1>5, <2>6, <2>7 DEF TellingInv
<1>11. CASE calls[k].kind = "players" /\ calls[k].status = "done" /\ PlayersDone(calls[k].view)
  <2>1. desired' = desired
    BY <1>11 DEF PlayersDone
  <2>2. First("state")' = First("state")
    BY <2>1 DEF First
  <2>3. PICK s : Retold("state", s)
    BY <1>8, <2>2
  <2>4. k \in Told("players") /\ At("players", k) = DOMAIN calls[k].view.names
    BY <1>6, <1>11, ToldIs DEF Tells
  <2>5. DOMAIN screen.dogs \subseteq DOMAIN calls[k].view.names
    <3>1. At("players", 0) = DOMAIN screen.dogs
      BY DEF At, First
    <3>2. 0 <= k
      BY <1>2
    <3>3. QED BY <1>4, <1>7, <2>4, <3>1, <3>2 DEF NamesInOrder
  <2>6. DrawnInv' /\ DOMAIN screen'.dogs = DOMAIN calls[k].view.names
    BY <1>1, <1>2, <1>11, <2>3, <2>5, PlayersDrawn
  <2>7. First("players")' = Tells("players", calls[k].view)
    BY <2>6 DEF First, Tells
  <2>8. PICK t : Retold("players", t)
    BY <1>9, <1>11, <2>7
  <2>9. StatesInOrder' /\ NamesInOrder' /\ LootInOrder'
    BY <1>1, <1>7, <2>3, <2>8, RetoldInOrder
  <2>10. QED BY <1>5, <2>6, <2>9 DEF TellingInv
<1>12. CASE UNCHANGED <<loaded, desired, screen>>
  <2>1. \A kind : First(kind)' = First(kind)
    BY <1>12 DEF First
  <2>2. PICK s, t : Retold("state", s) /\ Retold("players", t)
    BY <1>8, <2>1
  <2>3. StatesInOrder' /\ NamesInOrder' /\ LootInOrder'
    BY <1>1, <1>7, <2>2, RetoldInOrder
  <2>4. FallsOnce'
    BY <1>1, <1>7, <1>12, <2>2, StillFallsOnce
  <2>5. Shown' = Shown
    BY <1>12 DEF Shown, Started
  <2>6. QED BY <1>5, <1>12, <2>3, <2>4, <2>5 DEF TellingInv, DrawnInv
<1>13. QED BY <1>10, <1>11, <1>12 DEF Deliver, Refused, ActionDone

\* A call is lost.
LEMMA FailHistory ==
  ASSUME ClientInv, TellingInv, DrawnInv, NEW k \in DOMAIN calls, Fail(k)
  PROVE  TellingInv' /\ DrawnInv'
<1>1. UNCHANGED <<where, order, loaded, desired, screen>> /\ calls' = Without(calls, k) /\ CallsOK
  BY DEF Fail, sessionVars, clientVars, ClientInv
<1>2. \A kind : First(kind)' = First(kind) /\ Now(kind)' = Now(kind)
                /\ 0 \in Told(kind) /\ At(kind, 0) = First(kind)
  BY <1>1 DEF First, Now, StateView, Told, At
<1>3. k # 0
  BY DEF ClientInv, CallsOK, Fine
<1>4. ASSUME NEW kind PROVE \E s : Retold(kind, s)
  <2>1. 0 \in {0, k} \cap Told(kind) /\ First(kind)' = At(kind, 0)
    BY <1>2
  <2>2. \E s : Retold(kind, s) /\ \A a \in Told(kind)' : 0 <= s[a]
    BY <1>1, <1>2, <1>3, <2>1, RemovedRetold
  <2>3. QED BY <2>2
<1>5. PICK s, t : Retold("state", s) /\ Retold("players", t)
  BY <1>4
<1>6. StatesInOrder' /\ NamesInOrder' /\ LootInOrder'
  BY <1>1, <1>5, RetoldInOrder DEF TellingInv
<1>7. AnsweredInOrder'
  BY <1>1, StillInOrder DEF TellingInv
<1>8. FallsOnce'
  BY <1>1, <1>5, StillFallsOnce DEF DrawnInv
<1>9. Shown' = Shown
  BY <1>1 DEF Shown, Started
<1>10. QED BY <1>1, <1>6, <1>7, <1>8, <1>9 DEF TellingInv, DrawnInv

-----------------------------------------------------------------------------
(* Nothing is drawn that is forgotten *)

LEMMA HistoryInit == Init => HistoryInv
<1>1. SUFFICES ASSUME Init PROVE TellingInv /\ DrawnInv
  BY DEF HistoryInv
<1>2. /\ where = [x \in Loot |-> Life!Unborn] /\ calls = States \o Players
      /\ loaded = {} /\ desired = NoView /\ screen = EmptyScreen
  BY <1>1 DEF Init, Life!Init
<1>3. OrderOK
  BY <1>1, ClientInit DEF ClientInv
<1>4. Len(calls) = 2 /\ DOMAIN calls = {1, 2} /\ \A k \in DOMAIN calls : calls[k].status = "sent"
  <2> DEFINE c == Call("state", "")
             d == Call("players", "")
  <2>1. calls = <<c>> \o <<d>>
    BY <1>2 DEF States, Players
  <2>2. c.status = "sent" /\ d.status = "sent"
    BY DEF Call
  <2> HIDE DEF c, d
  <2>3. /\ <<c>> \in Seq({c, d}) /\ Len(<<c>>) = 1 /\ <<c>>[1] = c
        /\ <<d>> \in Seq({c, d}) /\ Len(<<d>>) = 1 /\ <<d>>[1] = d
    OBVIOUS
  <2>4. calls \in Seq({c, d}) /\ Len(calls) = 2
    BY <2>1, <2>3
  <2>5. \A k \in DOMAIN calls : calls[k] \in {c, d}
    BY <2>4
  <2>6. DOMAIN calls = {1, 2}
    BY <2>4
  <2>7. QED BY <2>2, <2>4, <2>5, <2>6
<1>5. \A kind : Told(kind) = {0, 3}
  BY <1>4 DEF Told
<1>6. /\ At("state", 0) = NoView /\ At("state", 3) = StateView
      /\ At("players", 0) = DOMAIN EmptyScreen.dogs
  BY <1>2, <1>4 DEF At, First, Now
<1>7. /\ \A x : ~Shows(NoView, x)
      /\ \A w : Precedes(NoView, w)
      /\ \A x \in Loot : ~Shows(StateView, x)
  <2>1. \A p : Life!Bag(p) # Life!Unborn
    BY DEF Life!Bag, Life!Unborn
  <2>2. Life!OnMap # Life!Unborn
    BY DEF Life!OnMap, Life!Unborn
  <2>3. \A x \in Loot : ~Shows(StateView, x)
    BY <1>2, <2>1, <2>2 DEF Shows, StateView
  <2>4. QED BY <2>3 DEF Shows, NoView, Precedes
<1>8. Precedes(StateView, StateView)
  BY <1>3, NowConsistent DEF Consistent, Precedes
<1>9. StatesInOrder
  <2>1. ASSUME NEW a \in {0, 3}, NEW b \in {0, 3}, a <= b
        PROVE  Precedes(At("state", a), At("state", b))
    <3>1. b = 3 \/ a = 0
      BY <2>1
    <3>2. QED BY <1>6, <1>7, <1>8, <3>1
  <2>2. ASSUME NEW a \in {0, 3}, NEW b \in {0, 3}, NEW c \in {0, 3}
        PROVE  StaysGone(At("state", a), At("state", b), At("state", c))
    BY <1>6, <1>7 DEF StaysGone
  <2>3. QED BY <1>5, <2>1, <2>2 DEF StatesInOrder
<1>10. NamesInOrder
  <2>1. At("players", 0) = {}
    BY <1>6 DEF EmptyScreen
  <2>2. ASSUME NEW a \in {0, 3}, NEW b \in {0, 3}, a <= b
        PROVE  At("players", a) \subseteq At("players", b)
    <3>1. a = b \/ a = 0
      BY <2>2
    <3>2. QED BY <2>1, <3>1
  <2>3. QED BY <1>5, <2>2 DEF NamesInOrder
<1>11. LootInOrder
  <2>1. \A p : Life!Bag(p) # Life!Unborn
    BY DEF Life!Bag, Life!Unborn
  <2>2. QED BY <1>2, <1>5, <1>6, <1>7, <2>1 DEF LootInOrder
<1>12. AnsweredInOrder
  BY <1>4 DEF AnsweredInOrder
<1>13. \A x \in Loot : Blank[x] = None
  BY DEF Blank
<1>14. /\ screen.cur = {} /\ screen.lost = Blank /\ screen.falling = Blank
       /\ \A x \in Loot : screen.scene[x] = {}
       /\ \A i \in Slots : screen.data[i] = Blank
  BY <1>2 DEF EmptyScreen
<1>15. Shown = NoView
  BY <1>2 DEF Shown
<1>16. Drawn(screen) /\ Matches(screen, NoView) /\ FallsOnce
  <2>1. Drawn(screen)
    BY <1>13, <1>14 DEF Drawn, Known
  <2>2. Matches(screen, NoView)
    BY <1>13, <1>14 DEF Matches, NoView
  <2>3. FallsOnce
    BY <1>13, <1>14 DEF FallsOnce
  <2>4. QED BY <2>1, <2>2, <2>3
<1>17. QED BY <1>2, <1>9, <1>10, <1>11, <1>12, <1>15, <1>16 DEF TellingInv, DrawnInv

LEMMA HistoryStep ==
  ASSUME ClientInv, QueueInv, HistoryInv, [Next]_vars
  PROVE  HistoryInv'
<1>1. SUFFICES ASSUME Undisturbed' PROVE TellingInv' /\ DrawnInv'
  BY DEF HistoryInv
<1>2. /\ overtaken' \cap {"state", "players"} = {} /\ retired' = {}
      /\ retired = {} /\ overtaken \cap {"state", "players"} = {}
  BY <1>1, QueueStep, HistoryGrows DEF Undisturbed
<1>3. TellingInv /\ DrawnInv /\ InGame(Me) /\ ClientInv'
  BY <1>2, ClientStep DEF HistoryInv, Undisturbed, QueueInv
<1> DEFINE Goal == TellingInv' /\ DrawnInv'
<1>4. CASE UNCHANGED vars
  <2>1. UNCHANGED <<where, order, calls, loaded, desired, screen>>
    BY <1>4 DEF vars, sessionVars, networkVars, clientVars
  <2>2. /\ UNCHANGED <<Shown, AnsweredInOrder>>
        /\ \A kind : UNCHANGED Told(kind) /\ \A a : UNCHANGED At(kind, a)
    BY <2>1 DEF Shown, Started, AnsweredInOrder, Told, At, First, Now, StateView
  <2>3. UNCHANGED <<StatesInOrder, NamesInOrder, LootInOrder, FallsOnce>>
    BY <2>1, <2>2 DEF StatesInOrder, NamesInOrder, LootInOrder, InGame, FallsOnce
  <2>4. QED BY <1>3, <2>1, <2>2, <2>3 DEF TellingInv, DrawnInv
<1>5. CASE Session
  <2>1. ASSUME NEW p \in Persons, Retire(p) PROVE FALSE
    BY <1>2, <2>1 DEF Retire
  <2>2. QED BY <1>3, <1>5, <2>1, SessionTells
<1>6. ASSUME NEW k \in DOMAIN calls, Answer(k) PROVE Goal
  BY <1>2, <1>3, <1>6, AnswerHistory
<1>7. ASSUME NEW k \in DOMAIN calls, Deliver(k) PROVE Goal
  BY <1>2, <1>3, <1>7, DeliverHistory
<1>8. ASSUME NEW k \in DOMAIN calls, Fail(k) PROVE Goal
  BY <1>3, <1>8, FailHistory
<1>9. Tick => Goal
  BY <1>3, AskHistory
<1>10. ASSUME NEW key \in Keys, KeyDown(key) \/ KeyUp(key) PROVE Goal
  BY <1>3, <1>10, KeysPress, AskHistory
<1>11. Session \/ UNCHANGED vars => Goal
  BY <1>4, <1>5
<1> HIDE DEF Goal
<1>12. Goal
  BY <1>6, <1>7, <1>8, <1>9, <1>10, <1>11 DEF Next
<1>13. QED BY <1>12 DEF Goal

\* Nothing is drawn that the client has forgotten and would never remove, and what it
\* remembers is drawn, as long as the replies of each kind come in order and nobody has
\* retired; whatever is lost on the way (_createLoot, _dropLoot,
\* _processDisappearingLoot).
THEOREM NothingIsDrawnAndForgotten == Spec => []NoGhosts
<1>1. HistoryInv => NoGhosts
  BY DEF HistoryInv, Undisturbed, DrawnInv, Drawn, NoGhosts
<1>2. Init => ClientInv /\ QueueInv /\ HistoryInv
  BY ClientInit, QueueInit, HistoryInit
<1>3. ClientInv /\ QueueInv /\ HistoryInv /\ [Next]_vars => ClientInv' /\ QueueInv' /\ HistoryInv'
  BY ClientStep, QueueStep, HistoryStep
<1>4. QED BY <1>1, <1>2, <1>3, PTL DEF Spec
=============================================================================
