--------------------------- MODULE KitchenProofs ---------------------------
(***************************************************************************)
(* The gas cooker, for any number of ingredients and of burners:           *)
(* burners_in_use_ counts the burners that are in use, there are never     *)
(* more than there are, and they go to those who came first.  The          *)
(* cafeteria that uses it, for any number of orders: none fails.  And the  *)
(* restaurant, for any number of orders, whichever timers fail and in      *)
(* whatever order they end: one answer per order, and the right one.       *)
(***************************************************************************)
EXTENDS Cafeteria, Restaurant, FoldFacts, TLAPS

Operation == [op : {"use", "release"}, by : Ingredients]

\* The ingredients named by the operations of one kind in a sequence of them.
Named(s, kind) == {s[i].by : i \in {j \in DOMAIN s : s[j].op = kind}}

\* No two operations of a sequence are of one ingredient.
OneEach(s) == \A i, j \in DOMAIN s : s[i].by = s[j].by => i = j
Distinct(s) == \A i, j \in DOMAIN s : s[i] = s[j] => i = j

CookerTypes ==
  /\ ops \in Seq(Operation) /\ pending \in Seq(Ingredients) /\ inUse \in Nat
  /\ posted \subseteq Ingredients /\ started \subseteq Ingredients
  /\ lit \subseteq Ingredients /\ ended \subseteq Ingredients

\* Every ingredient is at one place on its way: in the strand, in line, posted,
\* being cooked, in the strand again.
OnePlaceEach ==
  /\ OneEach(ops) /\ Distinct(pending)
  /\ Named(ops, "use") \cap (Range(pending) \cup posted \cup lit) = {}
  /\ Range(pending) \cap (posted \cup lit) = {}
  /\ posted \cap lit = {}
  /\ Named(ops, "release") \subseteq ended /\ ended \subseteq lit
  /\ Named(ops, "use") \cup Range(pending) \cup posted \cup lit \subseteq started

\* The invariant: a counter can only count what no ingredient holds twice.
CookerInv == CookerTypes /\ OnePlaceEach /\ InUseCountsBurning /\ inUse <= Burners

\* The strand has run its first operation.
LEMMA StrandAfterHead ==
  ASSUME NEW s \in Seq(Operation), s # <<>>, OneEach(s)
  PROVE  /\ Tail(s) \in Seq(Operation) /\ OneEach(Tail(s))
         /\ Head(s) \in Operation
         /\ Head(s).by \in Named(s, Head(s).op)
         /\ \A kind : Named(Tail(s), kind) =
                        IF kind = Head(s).op THEN Named(s, kind) \ {Head(s).by} ELSE Named(s, kind)
<1>1. Len(s) \in Nat \ {0} /\ DOMAIN s = 1 .. Len(s) /\ 1 \in DOMAIN s /\ Head(s) = s[1]
  OBVIOUS
<1>2. /\ Tail(s) \in Seq(Operation) /\ DOMAIN Tail(s) = 1 .. Len(s) - 1
      /\ \A i \in 1 .. Len(s) - 1 : i + 1 \in DOMAIN s /\ Tail(s)[i] = s[i + 1]
  BY <1>1
<1>3. OneEach(Tail(s))
  BY <1>1, <1>2 DEF OneEach
<1>4. Head(s).by \in Named(s, Head(s).op)
  BY <1>1 DEF Named
<1>5. ASSUME NEW kind
      PROVE  Named(Tail(s), kind) =
               IF kind = Head(s).op THEN Named(s, kind) \ {Head(s).by} ELSE Named(s, kind)
  <2>1. ASSUME NEW c \in Named(Tail(s), kind)
        PROVE  c \in Named(s, kind) /\ c # Head(s).by
    <3>1. PICK i \in DOMAIN Tail(s) : Tail(s)[i].op = kind /\ Tail(s)[i].by = c
      BY DEF Named
    <3>2. i + 1 \in DOMAIN s /\ i + 1 # 1 /\ s[i + 1].op = kind /\ s[i + 1].by = c
      BY <1>2, <3>1
    <3> QED
      BY <1>1, <3>2 DEF Named, OneEach
  <2>2. ASSUME NEW c \in Named(s, kind), c # Head(s).by \/ kind # Head(s).op
        PROVE  c \in Named(Tail(s), kind)
    <3>1. PICK i \in DOMAIN s : s[i].op = kind /\ s[i].by = c
      BY DEF Named
    <3>2. i # 1
      BY <1>1, <2>2, <3>1
    <3>3. i - 1 \in 1 .. Len(s) - 1 /\ (i - 1) + 1 = i
      BY <1>1, <3>2
    <3> QED
      BY <1>2, <3>1, <3>3 DEF Named
  <2>3. Named(s, kind) \ {Head(s).by} \subseteq Named(Tail(s), kind)
    BY <2>2
  <2>4. CASE kind = Head(s).op
    BY <2>1, <2>3, <2>4
  <2>5. CASE kind # Head(s).op
    BY <2>1, <2>2, <2>5
  <2> QED
    BY <2>4, <2>5
<1> QED
  BY <1>1, <1>2, <1>3, <1>4, <1>5

\* An operation of an ingredient that has none has come into the strand.
LEMMA StrandAfterAppend ==
  ASSUME NEW s \in Seq(Operation), NEW o \in Operation, OneEach(s),
         o.by \notin Named(s, "use") \cup Named(s, "release")
  PROVE  /\ Append(s, o) \in Seq(Operation) /\ OneEach(Append(s, o))
         /\ \A kind : Named(Append(s, o), kind) =
                        IF kind = o.op THEN Named(s, kind) \cup {o.by} ELSE Named(s, kind)
<1>1. /\ Append(s, o) \in Seq(Operation) /\ DOMAIN s = 1 .. Len(s) /\ Len(s) \in Nat
      /\ DOMAIN Append(s, o) = 1 .. Len(s) + 1
      /\ \A i \in DOMAIN s : Append(s, o)[i] = s[i]
      /\ Append(s, o)[Len(s) + 1] = o
  OBVIOUS
<1>2. \A i \in DOMAIN s : s[i].by # o.by
  <2> SUFFICES ASSUME NEW i \in DOMAIN s PROVE s[i].by # o.by
    OBVIOUS
  <2>1. s[i] \in Operation
    OBVIOUS
  <2>2. s[i].by \in Named(s, s[i].op) /\ s[i].op \in {"use", "release"}
    BY <2>1 DEF Named, Operation
  <2> QED
    BY <2>2
<1>3. OneEach(Append(s, o))
  <2> SUFFICES ASSUME NEW i \in DOMAIN Append(s, o), NEW j \in DOMAIN Append(s, o),
                      Append(s, o)[i].by = Append(s, o)[j].by
               PROVE  i = j
    BY DEF OneEach
  <2>1. (i \in DOMAIN s \/ i = Len(s) + 1) /\ (j \in DOMAIN s \/ j = Len(s) + 1)
    BY <1>1
  <2> QED
    BY <1>1, <1>2, <2>1 DEF OneEach
<1>4. ASSUME NEW kind
      PROVE  Named(Append(s, o), kind) =
               IF kind = o.op THEN Named(s, kind) \cup {o.by} ELSE Named(s, kind)
  <2> DEFINE t == Append(s, o)
  <2>1. ASSUME NEW c \in Named(t, kind)
        PROVE  c \in Named(s, kind) \/ (c = o.by /\ kind = o.op)
    <3>1. PICK i \in DOMAIN t : t[i].op = kind /\ t[i].by = c
      BY DEF Named
    <3>2. i \in DOMAIN s \/ i = Len(s) + 1
      BY <1>1
    <3> QED
      BY <1>1, <3>1, <3>2 DEF Named
  <2>2. Named(s, kind) \subseteq Named(t, kind)
    BY <1>1 DEF Named
  <2>3. kind = o.op => o.by \in Named(t, kind)
    <3>1. Len(s) + 1 \in DOMAIN t /\ t[Len(s) + 1] = o
      BY <1>1
    <3> QED
      BY <3>1 DEF Named
  <2> QED
    BY <2>1, <2>2, <2>3
<1> QED
  BY <1>1, <1>3, <1>4

\* The line without its first, and with one more.
LEMMA LineAfterHead ==
  ASSUME NEW s \in Seq(Ingredients), s # <<>>, Distinct(s)
  PROVE  /\ Tail(s) \in Seq(Ingredients) /\ Distinct(Tail(s))
         /\ Head(s) \in Range(s) /\ Range(Tail(s)) = Range(s) \ {Head(s)}
<1>1. Len(s) \in Nat \ {0} /\ DOMAIN s = 1 .. Len(s) /\ 1 \in DOMAIN s /\ Head(s) = s[1]
  OBVIOUS
<1>2. /\ Tail(s) \in Seq(Ingredients) /\ DOMAIN Tail(s) = 1 .. Len(s) - 1
      /\ \A i \in 1 .. Len(s) - 1 : i + 1 \in DOMAIN s /\ Tail(s)[i] = s[i + 1]
  BY <1>1
<1>3. Distinct(Tail(s))
  BY <1>1, <1>2 DEF Distinct
<1>4. Range(Tail(s)) \subseteq Range(s) \ {Head(s)}
  <2> SUFFICES ASSUME NEW i \in DOMAIN Tail(s) PROVE Tail(s)[i] \in Range(s) \ {Head(s)}
    BY DEF Range
  <2>1. i + 1 \in DOMAIN s /\ i + 1 # 1 /\ Tail(s)[i] = s[i + 1]
    BY <1>2
  <2> QED
    BY <1>1, <2>1 DEF Range, Distinct
<1>5. Range(s) \ {Head(s)} \subseteq Range(Tail(s))
  <2> SUFFICES ASSUME NEW i \in DOMAIN s, s[i] # Head(s) PROVE s[i] \in Range(Tail(s))
    BY DEF Range
  <2>1. i - 1 \in 1 .. Len(s) - 1 /\ (i - 1) + 1 = i
    BY <1>1
  <2>2. i - 1 \in DOMAIN Tail(s) /\ Tail(s)[i - 1] = s[i]
    BY <1>2, <2>1
  <2> QED
    BY <2>2 DEF Range
<1> QED
  BY <1>1, <1>2, <1>3, <1>4, <1>5 DEF Range

LEMMA LineAfterAppend ==
  ASSUME NEW s \in Seq(Ingredients), NEW c \in Ingredients, Distinct(s), c \notin Range(s)
  PROVE  /\ Append(s, c) \in Seq(Ingredients) /\ Distinct(Append(s, c))
         /\ Range(Append(s, c)) = Range(s) \cup {c}
<1>1. /\ Append(s, c) \in Seq(Ingredients) /\ DOMAIN s = 1 .. Len(s) /\ Len(s) \in Nat
      /\ DOMAIN Append(s, c) = 1 .. Len(s) + 1
      /\ \A i \in DOMAIN s : Append(s, c)[i] = s[i]
      /\ Append(s, c)[Len(s) + 1] = c
  OBVIOUS
<1>2. \A i \in DOMAIN Append(s, c) : i \in DOMAIN s \/ i = Len(s) + 1
  BY <1>1
<1>3. \A i \in DOMAIN s : s[i] # c
  BY DEF Range
<1>4. Distinct(Append(s, c))
  BY <1>1, <1>2, <1>3 DEF Distinct
<1>5. Range(Append(s, c)) = Range(s) \cup {c}
  <2>1. Range(Append(s, c)) \subseteq Range(s) \cup {c}
    BY <1>1, <1>2 DEF Range
  <2>2. Range(s) \subseteq Range(Append(s, c))
    BY <1>1 DEF Range
  <2>3. Len(s) + 1 \in DOMAIN Append(s, c)
    BY <1>1
  <2>4. c \in Range(Append(s, c))
    BY <1>1, <2>3 DEF Range
  <2> QED
    BY <2>1, <2>2, <2>4
<1> QED
  BY <1>1, <1>4, <1>5

-----------------------------------------------------------------------------
(* The steps *)

LEMMA CookerInit_Inv == CookerInit => CookerInv
<1> SUFFICES ASSUME CookerInit PROVE CookerInv
  OBVIOUS
<1> USE DEF CookerInit
<1>1. Burners \in Nat \ {0}
  BY CookerAssumption
<1>2. Named(ops, "use") = {} /\ Named(ops, "release") = {} /\ Range(pending) = {}
  BY DEF Named, Range
<1>3. Burning = {}
  BY <1>2 DEF Burning, InStrand, Named
<1> QED
  BY <1>1, <1>2, <1>3, FS_EmptySet
     DEF CookerInv, CookerTypes, OnePlaceEach, OneEach, Distinct, InUseCountsBurning

\* Burners in use, in the words of the invariant.
LEMMA BurningNamed ==
  /\ Burning = posted \cup (lit \ ended) \cup Named(ops, "release")
  /\ Burning' = posted' \cup (lit' \ ended') \cup Named(ops', "release")
BY DEF Burning, InStrand, Named

LEMMA StartCooking_Inv ==
  ASSUME CookerInv, NEW c \in Ingredients, StartCooking(<<c>>)
  PROVE  CookerInv'
<1> USE DEF CookerInv, CookerTypes, OnePlaceEach
<1>1. Range(<<c>>) = {c} /\ DOMAIN <<c>> = 1 .. 1 /\ <<c>>[1] = c
  BY DEF Range
<1>2. c \notin started /\ started' = started \cup {c}
  BY <1>1 DEF StartCooking
<1>3. ops' = Append(ops, Use(c))
  <2>1. [i \in DOMAIN <<c>> |-> Use(<<c>>[i])] = <<Use(c)>>
    BY <1>1
  <2> QED
    BY <2>1 DEF StartCooking
<1>4. Use(c) \in Operation /\ Use(c).by = c /\ Use(c).op = "use"
  BY DEF Use, Operation
<1>5. c \notin Named(ops, "use") \cup Named(ops, "release")
  BY <1>2
<1>6. /\ ops' \in Seq(Operation) /\ OneEach(ops')
      /\ Named(ops', "use") = Named(ops, "use") \cup {c}
      /\ Named(ops', "release") = Named(ops, "release")
  BY <1>3, <1>4, <1>5, StrandAfterAppend
<1>7. UNCHANGED <<inUse, pending, posted, lit, ended>>
  BY DEF StartCooking
<1>8. CookerTypes' /\ OnePlaceEach'
  BY <1>2, <1>5, <1>6, <1>7 DEF Range, Distinct
<1>9. Burning' = Burning
  BY <1>6, <1>7, BurningNamed
<1> QED
  BY <1>7, <1>8, <1>9 DEF InUseCountsBurning

LEMMA Light_Inv ==
  ASSUME CookerInv, NEW c \in Ingredients, Light(c)
  PROVE  CookerInv'
<1> USE DEF CookerInv, CookerTypes, OnePlaceEach, Light
<1>1. c \notin ended /\ c \notin lit
  OBVIOUS
<1>2. Burning' = Burning
  BY <1>1 DEF Burning, InStrand
<1>3. /\ OneEach(ops') <=> OneEach(ops)
      /\ Distinct(pending') <=> Distinct(pending)
      /\ \A kind : Named(ops', kind) = Named(ops, kind)
      /\ Range(pending') = Range(pending)
  OBVIOUS
<1>4. CookerTypes' /\ OnePlaceEach'
  BY <1>1, <1>3
<1> QED
  BY <1>2, <1>4 DEF InUseCountsBurning

LEMMA StopCooking_Inv ==
  ASSUME CookerInv, NEW c \in lit, StopCooking(c)
  PROVE  CookerInv'
<1> USE DEF CookerInv, CookerTypes, OnePlaceEach
<1>1. c \in Ingredients /\ c \notin ended /\ ended' = ended \cup {c} /\ ops' = Append(ops, Release(c))
  BY DEF StopCooking
<1>2. Release(c) \in Operation /\ Release(c).by = c /\ Release(c).op = "release"
  BY <1>1 DEF Release, Operation
<1>3. c \notin Named(ops, "use") \cup Named(ops, "release")
  BY <1>1
<1>4. /\ ops' \in Seq(Operation) /\ OneEach(ops')
      /\ Named(ops', "use") = Named(ops, "use")
      /\ Named(ops', "release") = Named(ops, "release") \cup {c}
  BY <1>1, <1>2, <1>3, StrandAfterAppend
<1>5. UNCHANGED <<inUse, pending, posted, started, lit>>
  BY DEF StopCooking
<1>6. CookerTypes' /\ OnePlaceEach'
  BY <1>1, <1>4, <1>5 DEF Range, Distinct
<1>7. Burning' = Burning
  BY <1>1, <1>4, <1>5, BurningNamed
<1> QED
  BY <1>5, <1>6, <1>7 DEF InUseCountsBurning

\* Those who burn are finitely many.
LEMMA BurningFinite ==
  ASSUME CookerInv
  PROVE  Burning \subseteq Ingredients /\ IsFiniteSet(Burning)
<1>1. Burning \subseteq Ingredients
  BY BurningNamed DEF CookerInv, CookerTypes, OnePlaceEach
<1> QED
  BY <1>1, CookerAssumption, FS_Subset

LEMMA Grant_Inv ==
  ASSUME CookerInv, RunStrand, Head(ops).op = "use"
  PROVE  CookerInv'
<1> DEFINE c == Head(ops).by
<1> USE DEF CookerInv, CookerTypes, OnePlaceEach
<1>1. /\ ops' \in Seq(Operation) /\ OneEach(ops')
      /\ Head(ops) \in Operation /\ c \in Named(ops, "use")
      /\ Named(ops', "use") = Named(ops, "use") \ {c}
      /\ Named(ops', "release") = Named(ops, "release")
  BY StrandAfterHead DEF RunStrand
<1>2. c \in Ingredients
  BY <1>1 DEF Operation
<1>3. c \notin posted \cup lit \cup Range(pending) /\ c \in started
  BY <1>1
<1>4. UNCHANGED <<started, lit, ended>> /\ GrantBurner(c)
  BY DEF RunStrand
<1>5. CASE inUse < Burners
  <2>1. inUse' = inUse + 1 /\ posted' = posted \cup {c} /\ UNCHANGED pending
    BY <1>4, <1>5 DEF GrantBurner
  <2>2. CookerTypes' /\ OnePlaceEach'
    BY <1>1, <1>2, <1>3, <1>4, <2>1 DEF Range, Distinct
  <2>3. Burning' = Burning \cup {c} /\ c \notin Burning
    BY <1>1, <1>3, <1>4, <2>1, BurningNamed
  <2>4. Cardinality(Burning') = Cardinality(Burning) + 1
    BY <2>3, BurningFinite, FS_AddElement
  <2>5. inUse' <= Burners
    BY <1>5, <2>1, CookerAssumption
  <2> QED
    BY <2>1, <2>2, <2>4, <2>5 DEF InUseCountsBurning
<1>6. CASE ~ (inUse < Burners)
  <2>1. pending' = Append(pending, c) /\ UNCHANGED <<inUse, posted>>
    BY <1>4, <1>6 DEF GrantBurner
  <2>2. pending' \in Seq(Ingredients) /\ Distinct(pending') /\ Range(pending') = Range(pending) \cup {c}
    BY <1>2, <1>3, <2>1, LineAfterAppend
  <2>3. CookerTypes' /\ OnePlaceEach'
    BY <1>1, <1>3, <1>4, <2>1, <2>2
  <2>4. Burning' = Burning
    BY <1>1, <1>4, <2>1, BurningNamed
  <2> QED
    BY <2>1, <2>3, <2>4 DEF InUseCountsBurning
<1> QED
  BY <1>5, <1>6

LEMMA Pass_Inv ==
  ASSUME CookerInv, RunStrand, Head(ops).op # "use"
  PROVE  CookerInv'
<1> DEFINE c == Head(ops).by
<1> USE DEF CookerInv, CookerTypes, OnePlaceEach
<1>1. /\ ops' \in Seq(Operation) /\ OneEach(ops') /\ Head(ops) \in Operation
      /\ c \in Named(ops, Head(ops).op)
      /\ \A kind : Named(ops', kind) =
                     IF kind = Head(ops).op THEN Named(ops, kind) \ {c} ELSE Named(ops, kind)
  BY StrandAfterHead DEF RunStrand
<1>2. Head(ops).op = "release"
  BY <1>1 DEF Operation
<1>3. /\ c \in Named(ops, "release") /\ Named(ops', "use") = Named(ops, "use")
      /\ Named(ops', "release") = Named(ops, "release") \ {c}
  BY <1>1, <1>2
<1>4. c \in ended /\ c \in lit /\ c \notin posted /\ c \in Burning
  BY <1>3, BurningNamed
<1>5. UNCHANGED <<started, lit, ended>> /\ PassBurner
  BY DEF RunStrand
<1>6. /\ IsFiniteSet(Burning \ {c}) /\ Cardinality(Burning \ {c}) = Cardinality(Burning) - 1
      /\ Cardinality(Burning) \in Nat /\ Cardinality(Burning \ {c}) \in Nat
  BY <1>4, BurningFinite, FS_RemoveElement, FS_CardinalityType
<1>7. CASE pending # <<>>
  <2> DEFINE h == Head(pending)
  <2>1. posted' = posted \cup {h} /\ pending' = Tail(pending) /\ UNCHANGED inUse
    BY <1>5, <1>7 DEF PassBurner
  <2>2. /\ pending' \in Seq(Ingredients) /\ Distinct(pending') /\ h \in Range(pending)
        /\ Range(pending') = Range(pending) \ {h}
    BY <1>7, <2>1, LineAfterHead
  <2>3. h \in Ingredients /\ h \notin lit /\ h \notin posted /\ h \in started
    BY <1>7, <2>2
  <2>4. CookerTypes' /\ OnePlaceEach'
    BY <1>1, <1>3, <1>5, <2>1, <2>2, <2>3
  <2>5. Burning' = (Burning \ {c}) \cup {h} /\ h \notin Burning
    BY <1>3, <1>4, <1>5, <2>1, <2>3, BurningNamed
  <2> DEFINE others == Burning \ {c}
  <2>6. Cardinality(Burning') = Cardinality(Burning)
    <3>1. Cardinality(others \cup {h}) = Cardinality(others) + 1
      BY <1>6, <2>5, FS_AddElement
    <3> QED
      BY <1>6, <2>5, <3>1
  <2> QED
    BY <2>1, <2>4, <2>6 DEF InUseCountsBurning
<1>8. CASE pending = <<>>
  <2>1. inUse' = inUse - 1 /\ UNCHANGED <<pending, posted>>
    BY <1>5, <1>8 DEF PassBurner
  <2>2. Burning' = Burning \ {c}
    BY <1>3, <1>4, <1>5, <2>1, BurningNamed
  <2>3. InUseCountsBurning'
    BY <1>6, <2>1, <2>2 DEF InUseCountsBurning
  <2>4. inUse' \in Nat /\ inUse' <= Burners
    BY <1>6, <2>1, <2>2, <2>3, CookerAssumption DEF InUseCountsBurning
  <2>5. CookerTypes' /\ OnePlaceEach'
    BY <1>1, <1>3, <1>5, <2>1, <2>4 DEF Range, Distinct
  <2> QED
    BY <2>3, <2>4, <2>5
<1> QED
  BY <1>7, <1>8

-----------------------------------------------------------------------------

LEMMA CookerInvStep == CookerInv /\ [CookerNext]_cookerVars => CookerInv'
<1> SUFFICES ASSUME CookerInv, [CookerNext]_cookerVars PROVE CookerInv'
  OBVIOUS
<1>1. CASE RunStrand
  BY <1>1, Grant_Inv, Pass_Inv
<1>2. ASSUME NEW c \in Ingredients, StartCooking(<<c>>) PROVE CookerInv'
  BY <1>2, StartCooking_Inv
<1>3. ASSUME NEW c \in Ingredients, Light(c) PROVE CookerInv'
  BY <1>3, Light_Inv
<1>4. ASSUME NEW c \in Ingredients, c \in lit, StopCooking(c) PROVE CookerInv'
  BY <1>4, StopCooking_Inv
<1>5. CASE UNCHANGED cookerVars
  BY <1>5, SMTT(30) DEF cookerVars, CookerInv, CookerTypes, OnePlaceEach, OneEach, Distinct, Named, Range,
              InUseCountsBurning, Burning, InStrand
<1> QED
  BY <1>1, <1>2, <1>3, <1>4, <1>5 DEF CookerNext

LEMMA CookerInvAlways == CookerSpec => []CookerInv
BY CookerInit_Inv, CookerInvStep, PTL DEF CookerSpec

(***************************************************************************)
(* For any number of ingredients, in any order of their calls:             *)
(* burners_in_use_ is the number of those who have a burner, and never     *)
(* more than there are (asserted at gascooker.h:35, 49, 65 and 73).        *)
(***************************************************************************)
THEOREM BurnersAreCounted == CookerSpec => [](InUseCountsBurning /\ inUse <= Burners)
<1>1. CookerInv => InUseCountsBurning /\ inUse <= Burners
  BY DEF CookerInv
<1> QED
  BY CookerInvAlways, <1>1, PTL

-----------------------------------------------------------------------------
(* The order of arrival *)

\* The values of the fold over s, one position after the other.
Unrolls(f, line, s) ==
  f[0] = line /\ \A i \in 1 .. Len(s) : f[i] = Arrival(f[i - 1], s[i])

LEMMA ArrivalType ==
  ASSUME NEW line \in Seq(Ingredients), NEW o \in Operation
  PROVE  Arrival(line, o) \in Seq(Ingredients)
BY DEF Arrival, Operation

LEMMA ArrivalsUnroll ==
  ASSUME NEW line \in Seq(Ingredients), NEW s \in Seq(Operation)
  PROVE  \E f \in [0 .. Len(s) -> Seq(Ingredients)] :
           Unrolls(f, line, s) /\ Arrivals(line, s) = f[Len(s)]
<1> DEFINE n == Len(s)
           T == Seq(Ingredients)
           App == [p \in T \X Operation |-> Arrival(p[1], p[2])]
           h == CHOOSE h : h = [I \in SUBSET DOMAIN s |->
                  IF I = {} THEN line ELSE Arrival(h[I \ {Max(I)}], s[Max(I)])]
<1>1. Arrivals(line, s) = h[DOMAIN s]
  BY DEF Arrivals, FoldLeft, MapThenFoldSet
<1>2. n \in Nat /\ DOMAIN s = 1 .. n /\ \A i \in 1 .. n : s[i] \in Operation
  OBVIOUS
<1>3. \A v \in T, o \in Operation : App[<<v, o>>] = Arrival(v, o) /\ Arrival(v, o) \in T
  BY ArrivalType
<1>4. line \in T
  OBVIOUS
<1> HIDE DEF App, n, T
<1>5. \A I \in SUBSET (1 .. n) : I # {} => Max(I) \in 1 .. n
  BY <1>2, MaxOf
<1>6. PICK g \in [SUBSET (1 .. n) -> T] : Folds(g, n, s, line, App)
  <2>1. \A i \in 1 .. n, v \in T : App[<<v, s[i]>>] \in T
    BY <1>2, <1>3
  <2>2. QED BY <1>2, <1>4, <2>1, FoldExists
<1>7. g = [I \in SUBSET (1 .. n) |->
             IF I = {} THEN line ELSE Arrival(g[I \ {Max(I)}], s[Max(I)])]
  <2>1. ASSUME NEW I \in SUBSET (1 .. n), I # {}
        PROVE  App[<<g[I \ {Max(I)}], s[Max(I)]>>] = Arrival(g[I \ {Max(I)}], s[Max(I)])
    <3>1. s[Max(I)] \in Operation /\ I \ {Max(I)} \in SUBSET (1 .. n)
      BY <1>2, <1>5, <2>1
    <3>2. g[I \ {Max(I)}] \in T
      BY <1>6, <3>1
    <3>3. QED BY <1>3, <3>1, <3>2
  <2>2. QED BY <1>6, <2>1 DEF Folds
<1>8. h = [I \in SUBSET (1 .. n) |->
             IF I = {} THEN line ELSE Arrival(h[I \ {Max(I)}], s[Max(I)])]
  BY <1>2, <1>7
<1> HIDE DEF h
<1>9. h[{}] = line
  BY <1>8
<1>10. ASSUME NEW i \in 1 .. n PROVE h[1 .. i] = Arrival(h[1 .. i - 1], s[i])
  <2>1. /\ 1 .. i \in SUBSET (1 .. n) /\ 1 .. i # {} /\ Max(1 .. i) = i
        /\ (1 .. i) \ {Max(1 .. i)} = 1 .. i - 1
    BY <1>2, FoldSteps
  <2>2. QED BY <1>8, <2>1
<1> DEFINE f == [i \in 0 .. n |-> h[1 .. i]]
           P == {i \in 0 .. n : h[1 .. i] \in T}
<1>11. 0 .. n \subseteq P
  <2>1. 0 \in P
    <3>1. 1 .. 0 = {}
      OBVIOUS
    <3>2. QED BY <1>2, <1>4, <1>9, <3>1
  <2>2. ASSUME NEW i \in 1 .. n, i - 1 \in P PROVE i \in P
    <3>1. h[1 .. i] = Arrival(h[1 .. i - 1], s[i]) /\ s[i] \in Operation /\ h[1 .. i - 1] \in T
          /\ i \in 0 .. n
      BY <1>2, <1>10, <2>2
    <3>2. QED BY <1>3, <3>1
  <2> HIDE DEF P
  <2>3. QED BY <1>2, <2>1, <2>2, NatSetInduction
<1>12. f \in [0 .. n -> T] /\ f[n] = h[DOMAIN s]
  BY <1>2, <1>11
<1>13. Unrolls(f, line, s)
  <2>1. f[0] = line
    <3>1. 1 .. 0 = {} /\ 0 \in 0 .. n
      BY <1>2
    <3>2. QED BY <1>9, <3>1
  <2>2. ASSUME NEW i \in 1 .. n PROVE f[i] = Arrival(f[i - 1], s[i])
    <3>1. i \in 0 .. n /\ i - 1 \in 0 .. n
      BY <1>2
    <3>2. f[i] = h[1 .. i] /\ f[i - 1] = h[1 .. i - 1]
      BY <3>1
    <3>3. QED BY <1>10, <3>2
  <2>3. QED BY <2>1, <2>2 DEF Unrolls, n
<1> HIDE DEF f
<1>14. QED BY <1>1, <1>12, <1>13 DEF n, T

LEMMA ArrivalsAre ==
  ASSUME NEW line \in Seq(Ingredients), NEW s \in Seq(Operation), NEW f, Unrolls(f, line, s)
  PROVE  Arrivals(line, s) = f[Len(s)]
<1>1. PICK g \in [0 .. Len(s) -> Seq(Ingredients)] :
        Unrolls(g, line, s) /\ Arrivals(line, s) = g[Len(s)]
  BY ArrivalsUnroll
<1> DEFINE n == Len(s)
           P == {i \in 0 .. n : f[i] = g[i]}
<1>2. n \in Nat
  OBVIOUS
<1>3. 0 \in P
  BY <1>1, <1>2 DEF Unrolls
<1>4. ASSUME NEW i \in 1 .. n, i - 1 \in P PROVE i \in P
  <2>1. f[i] = Arrival(f[i - 1], s[i]) /\ g[i] = Arrival(g[i - 1], s[i]) /\ i \in 0 .. n
    BY <1>1, <1>2 DEF Unrolls
  <2>2. QED BY <1>4, <2>1
<1>5. n \in P
  <2> HIDE DEF P
  <2>1. 0 .. n \subseteq P
    BY <1>2, <1>3, <1>4, NatSetInduction
  <2>2. QED BY <1>2, <2>1
<1>6. QED BY <1>1, <1>5

\* What a new operation does to the line; what the first does; and who stands first
\* stays first.
LEMMA ArrivalsAppend ==
  ASSUME NEW line \in Seq(Ingredients), NEW s \in Seq(Operation), NEW o \in Operation
  PROVE  Arrivals(line, Append(s, o)) = Arrival(Arrivals(line, s), o)
<1> DEFINE n == Len(s)
           t == Append(s, o)
<1>1. n \in Nat /\ t \in Seq(Operation) /\ Len(t) = n + 1 /\ t[n + 1] = o
      /\ \A i \in 1 .. n : t[i] = s[i]
  OBVIOUS
<1> HIDE DEF t
<1>2. PICK f \in [0 .. Len(t) -> Seq(Ingredients)] :
        Unrolls(f, line, t) /\ Arrivals(line, t) = f[Len(t)]
  BY <1>1, ArrivalsUnroll
<1>3. Unrolls(f, line, s)
  BY <1>1, <1>2 DEF Unrolls
<1>4. Arrivals(line, s) = f[n]
  BY <1>3, ArrivalsAre
<1>5. f[n + 1] = Arrival(f[n], o)
  <2>1. n + 1 \in 1 .. Len(t) /\ (n + 1) - 1 = n
    BY <1>1
  <2>2. f[n + 1] = Arrival(f[(n + 1) - 1], t[n + 1])
    BY <1>2, <2>1 DEF Unrolls
  <2>3. QED BY <1>1, <2>1, <2>2
<1>6. QED BY <1>1, <1>2, <1>4, <1>5 DEF t

LEMMA ArrivalsHead ==
  ASSUME NEW line \in Seq(Ingredients), NEW s \in Seq(Operation), s # <<>>
  PROVE  Arrivals(line, s) = Arrivals(Arrival(line, Head(s)), Tail(s))
<1> DEFINE n == Len(s)
           t == Tail(s)
<1>1. n \in Nat \ {0} /\ t \in Seq(Operation) /\ Len(t) = n - 1 /\ Head(s) = s[1]
      /\ \A i \in 1 .. n - 1 : t[i] = s[i + 1]
  OBVIOUS
<1>2. PICK f \in [0 .. n -> Seq(Ingredients)] :
        Unrolls(f, line, s) /\ Arrivals(line, s) = f[n]
  BY ArrivalsUnroll
<1> DEFINE g == [i \in 0 .. n - 1 |-> f[i + 1]]
<1> HIDE DEF t
<1>3. g[0] = Arrival(line, Head(s)) /\ g[n - 1] = f[n]
  <2>1. 1 \in 1 .. n /\ 1 - 1 = 0
    BY <1>1
  <2>2. f[1] = Arrival(f[1 - 1], s[1])
    BY <1>2, <2>1 DEF Unrolls
  <2>3. f[1] = Arrival(line, Head(s))
    BY <1>1, <1>2, <2>1, <2>2 DEF Unrolls
  <2>4. 0 \in 0 .. n - 1 /\ n - 1 \in 0 .. n - 1 /\ 0 + 1 = 1 /\ (n - 1) + 1 = n
    BY <1>1
  <2>5. QED BY <2>3, <2>4
<1>4. ASSUME NEW i \in 1 .. n - 1 PROVE g[i] = Arrival(g[i - 1], t[i])
  <2>1. i + 1 \in 1 .. n /\ (i + 1) - 1 = i /\ i \in 0 .. n - 1 /\ i - 1 \in 0 .. n - 1
        /\ (i - 1) + 1 = i
    BY <1>1
  <2>2. f[i + 1] = Arrival(f[(i + 1) - 1], s[i + 1])
    BY <1>2, <2>1 DEF Unrolls
  <2>3. g[i] = f[i + 1] /\ g[i - 1] = f[i]
    BY <2>1
  <2>4. QED BY <1>1, <2>1, <2>2, <2>3
<1> HIDE DEF g
<1>5. Unrolls(g, Arrival(line, Head(s)), t)
  BY <1>1, <1>3, <1>4 DEF Unrolls
<1>6. Arrival(line, Head(s)) \in Seq(Ingredients)
  BY ArrivalType
<1>7. Arrivals(Arrival(line, Head(s)), t) = g[n - 1]
  BY <1>1, <1>5, <1>6, ArrivalsAre
<1>8. QED BY <1>2, <1>3, <1>7 DEF t

LEMMA ArrivalsFirst ==
  ASSUME NEW line \in Seq(Ingredients), NEW s \in Seq(Operation), NEW c \in Ingredients
  PROVE  Arrivals(<<c>> \o line, s) = <<c>> \o Arrivals(line, s)
<1> DEFINE n == Len(s)
<1>1. n \in Nat /\ \A i \in 1 .. n : s[i] \in Operation
  OBVIOUS
<1>2. PICK f \in [0 .. n -> Seq(Ingredients)] :
        Unrolls(f, line, s) /\ Arrivals(line, s) = f[n]
  BY ArrivalsUnroll
<1> DEFINE g == [i \in 0 .. n |-> <<c>> \o f[i]]
<1>3. g[0] = <<c>> \o line /\ g[n] = <<c>> \o f[n]
  BY <1>1, <1>2 DEF Unrolls
<1>4. ASSUME NEW i \in 1 .. n PROVE g[i] = Arrival(g[i - 1], s[i])
  <2>1. i \in 0 .. n /\ i - 1 \in 0 .. n
    BY <1>1
  <2>2. f[i] = Arrival(f[i - 1], s[i]) /\ f[i - 1] \in Seq(Ingredients) /\ s[i] \in Operation
    BY <1>1, <1>2, <2>1 DEF Unrolls
  <2>3. g[i] = <<c>> \o f[i] /\ g[i - 1] = <<c>> \o f[i - 1]
    BY <2>1
  <2>4. ASSUME NEW l \in Seq(Ingredients), NEW o \in Operation
        PROVE  <<c>> \o Arrival(l, o) = Arrival(<<c>> \o l, o)
    <3>1. o.by \in Ingredients
      BY DEF Operation
    <3>2. <<c>> \o Append(l, o.by) = Append(<<c>> \o l, o.by)
      BY <3>1
    <3>3. QED BY <3>2 DEF Arrival
  <2>5. QED BY <2>2, <2>3, <2>4
<1> HIDE DEF g
<1>5. Unrolls(g, <<c>> \o line, s)
  BY <1>3, <1>4 DEF Unrolls
<1>6. <<c>> \o line \in Seq(Ingredients)
  OBVIOUS
<1>7. Arrivals(<<c>> \o line, s) = g[n]
  BY <1>5, <1>6, ArrivalsAre
<1>8. QED BY <1>2, <1>3, <1>7

-----------------------------------------------------------------------------
(* The cooker serves in order *)

\* Nobody waits while a burner is free.
NobodyWaitsInVain == inUse < Burners => pending = <<>>

LEMMA NobodyWaitsInVainStep ==
  ASSUME CookerInv, NobodyWaitsInVain, [CookerNext]_cookerVars
  PROVE  NobodyWaitsInVain'
<1>1. inUse \in Nat /\ Burners \in Nat
  BY CookerAssumption DEF CookerInv, CookerTypes
<1>2. CASE RunStrand
  BY <1>1, <1>2 DEF RunStrand, GrantBurner, PassBurner, NobodyWaitsInVain
<1>3. CASE UNCHANGED <<inUse, pending>>
  BY <1>3 DEF NobodyWaitsInVain
<1>4. QED BY <1>2, <1>3 DEF CookerNext, StartCooking, Light, StopCooking, cookerVars

\* What the first in line leaves behind.
LEMMA FirstInLine ==
  ASSUME NEW c \in Ingredients, NEW line \in Seq(Ingredients)
  PROVE  <<c>> \o line # <<>> /\ Head(<<c>> \o line) = c /\ Tail(<<c>> \o line) = line
<1>1. Len(<<c>> \o line) = Len(line) + 1 /\ (<<c>> \o line)[1] = c
  OBVIOUS
<1>2. Tail(<<c>> \o line) = line
  OBVIOUS
<1>3. QED BY <1>1, <1>2

LEMMA ArrivalsType ==
  ASSUME NEW line \in Seq(Ingredients), NEW s \in Seq(Operation)
  PROVE  Arrivals(line, s) \in Seq(Ingredients)
<1>1. Len(s) \in Nat
  OBVIOUS
<1>2. QED BY <1>1, ArrivalsUnroll

\* Every step of the cooker, as it is seen from outside.
LEMMA CookerServes ==
  ASSUME CookerInv, NobodyWaitsInVain, [CookerNext]_cookerVars
  PROVE  [F!Next]_<<Line, Burning>>
<1>1. /\ ops \in Seq(Operation) /\ pending \in Seq(Ingredients) /\ inUse \in Nat /\ Burners \in Nat
      /\ ended \subseteq lit
      /\ inUse = Cardinality(Burning)
  BY CookerAssumption DEF CookerInv, CookerTypes, OnePlaceEach, InUseCountsBurning
<1>2. Line = Arrivals(pending, ops) /\ Line' = Arrivals(pending', ops')
  BY DEF Line
<1>3. CASE RunStrand
  <2> DEFINE c == Head(ops).by
             rest == Tail(ops)
  <2>1. /\ ops # <<>> /\ ops' = rest /\ rest \in Seq(Operation) /\ Head(ops) \in Operation
        /\ c \in Ingredients /\ UNCHANGED <<started, lit, ended>>
    <3>1. ops # <<>> /\ ops' = rest /\ UNCHANGED <<started, lit, ended>>
      BY <1>3 DEF RunStrand
    <3>2. Head(ops) \in Operation /\ rest \in Seq(Operation)
      BY <1>1, <3>1, StrandAfterHead DEF CookerInv, OnePlaceEach
    <3>3. QED BY <3>1, <3>2 DEF Operation
  <2>2. /\ Head(ops).by \in Named(ops, Head(ops).op)
        /\ \A kind : Named(ops', kind) =
                       IF kind = Head(ops).op THEN Named(ops, kind) \ {c} ELSE Named(ops, kind)
    BY <1>1, <2>1, StrandAfterHead DEF CookerInv, OnePlaceEach
  <2>3. Line = Arrivals(Arrival(pending, Head(ops)), rest)
    BY <1>1, <1>2, <2>1, ArrivalsHead
  <2>4. CASE Head(ops).op = "use"
    <3>1. Arrival(pending, Head(ops)) = Append(pending, c) /\ GrantBurner(c)
      BY <1>3, <2>4 DEF Arrival, RunStrand
    <3>2. Named(ops', "release") = Named(ops, "release")
      BY <2>2, <2>4
    <3>3. CASE inUse < Burners
      <4>1. posted' = posted \cup {c} /\ pending' = <<>> /\ pending = <<>>
        BY <3>1, <3>3 DEF GrantBurner, NobodyWaitsInVain
      <4>2. Append(pending, c) = <<c>> \o <<>> /\ <<>> \in Seq(Ingredients)
        BY <4>1
      <4>3. Line = <<c>> \o Line' /\ Line' \in Seq(Ingredients)
        <5> DEFINE none == <<>>
        <5>1. Line = Arrivals(<<c>> \o none, rest) /\ Line' = Arrivals(none, rest)
          BY <1>2, <2>1, <2>3, <3>1, <4>1, <4>2
        <5>2. none \in Seq(Ingredients)
          BY <4>2
        <5> HIDE DEF c, rest, none
        <5>3. QED BY <2>1, <5>1, <5>2, ArrivalsFirst, ArrivalsType
      <4>4. Burning' = Burning \cup {c}
        BY <2>1, <3>2, <4>1, BurningNamed
      <4>5. Line # <<>> /\ Head(Line) = c /\ Tail(Line) = Line'
        BY <2>1, <4>3, FirstInLine
      <4>6. F!Light
        <5>1. Cardinality(Burning) < Burners
          BY <1>1, <3>3
        <5>2. Burning' = Burning \cup {Head(Line)}
          BY <4>4, <4>5
        <5>3. Line # <<>> /\ Line' = Tail(Line)
          BY <4>5
        <5>4. F!Cardinality(Burning) = Cardinality(Burning)
          BY DEF F!Cardinality, Cardinality
        <5>5. QED BY <5>1, <5>2, <5>3, <5>4 DEF F!Light
      <4>7. QED BY <4>6 DEF F!Next
    <3>4. CASE ~(inUse < Burners)
      <4>1. pending' = Append(pending, c) /\ posted' = posted
        BY <3>1, <3>4 DEF GrantBurner
      <4>2. Line' = Line
        BY <1>2, <2>1, <2>3, <3>1, <4>1
      <4>3. Burning' = Burning
        BY <2>1, <3>2, <4>1, BurningNamed
      <4>4. QED BY <4>2, <4>3
    <3>5. QED BY <3>3, <3>4
  <2>5. CASE Head(ops).op # "use"
    <3>1. Head(ops).op = "release" /\ Arrival(pending, Head(ops)) = pending /\ PassBurner
      BY <1>3, <2>1, <2>5 DEF Arrival, RunStrand, Operation
    <3>2. /\ c \in Named(ops, "release") /\ Named(ops', "release") = Named(ops, "release") \ {c}
          /\ c \in Burning /\ c \notin posted /\ c \notin lit \ ended
      BY <2>2, <3>1, BurningNamed DEF CookerInv, OnePlaceEach
    <3>3. CASE pending # <<>>
      <4> DEFINE first == Head(pending)
      <4>1. posted' = posted \cup {first} /\ pending' = Tail(pending)
        BY <3>1, <3>3 DEF PassBurner
      <4>2. /\ first \in Ingredients /\ pending' \in Seq(Ingredients)
            /\ pending = <<first>> \o pending'
        BY <1>1, <3>3, <4>1
      <4>3. first # c
        BY <1>1, <3>2, <3>3, LineAfterHead DEF CookerInv, OnePlaceEach
      <4>4. Line = <<first>> \o Line' /\ Line' \in Seq(Ingredients)
        <5> HIDE DEF first
        <5>1. Line = Arrivals(<<first>> \o pending', rest)
          BY <2>3, <3>1, <4>2
        <5>2. QED BY <1>2, <2>1, <4>2, <5>1, ArrivalsFirst, ArrivalsType
      <4>5. Burning' = (Burning \ {c}) \cup {first}
        BY <2>1, <3>2, <4>1, BurningNamed
      <4>6. Line # <<>> /\ Head(Line) = first /\ Tail(Line) = Line'
        BY <4>2, <4>4, FirstInLine
      <4>7. F!HandOver(c)
        BY <3>2, <4>5, <4>6 DEF F!HandOver
      <4>8. QED BY <2>1, <4>7 DEF F!Next
    <3>4. CASE pending = <<>>
      <4>1. UNCHANGED <<pending, posted>>
        BY <3>1, <3>4 DEF PassBurner
      <4>2. Line' = Line
        BY <1>2, <2>1, <2>3, <3>1, <4>1
      <4>3. Burning' = Burning \ {c}
        BY <2>1, <3>2, <4>1, BurningNamed
      <4>4. F!Leave(c)
        BY <3>2, <4>2, <4>3 DEF F!Leave
      <4>5. QED BY <2>1, <4>4 DEF F!Next
    <3>5. QED BY <3>3, <3>4
  <2>6. QED BY <2>4, <2>5
<1>4. ASSUME NEW c \in Ingredients, StartCooking(<<c>>) PROVE F!Next
  <2>1. ops' = Append(ops, Use(c)) /\ UNCHANGED <<inUse, pending, posted, lit, ended>>
    <3>1. [i \in DOMAIN <<c>> |-> Use(<<c>>[i])] = <<Use(c)>>
      OBVIOUS
    <3>2. QED BY <1>1, <1>4, <3>1 DEF StartCooking
  <2>2. Use(c) \in Operation /\ Use(c).op = "use" /\ Use(c).by = c /\ c \notin started
    BY <1>4 DEF Use, Operation, StartCooking, Range
  <2>3. Line' = Append(Line, c)
    BY <1>1, <1>2, <2>1, <2>2, ArrivalsAppend DEF Arrival
  <2>4. Named(ops', "release") = Named(ops, "release")
    <3>1. c \notin Named(ops, "use") \cup Named(ops, "release")
      BY <2>2 DEF CookerInv, OnePlaceEach
    <3>2. QED BY <1>1, <2>1, <2>2, <3>1, StrandAfterAppend DEF CookerInv, OnePlaceEach
  <2>5. Burning' = Burning
    BY <2>1, <2>4, BurningNamed
  <2>6. QED BY <2>3, <2>5 DEF F!Next, F!Enter
<1>5. ASSUME NEW c \in Ingredients, Light(c) PROVE UNCHANGED <<Line, Burning>>
  <2>1. UNCHANGED <<ops, pending, ended>> /\ posted' = posted \ {c} /\ lit' = lit \cup {c} /\ c \in posted
    BY <1>5 DEF Light
  <2>2. c \notin ended
    BY <1>1, <2>1 DEF CookerInv, OnePlaceEach
  <2>3. QED BY <1>2, <2>1, <2>2, BurningNamed
<1>6. ASSUME NEW c \in Ingredients, c \in lit, StopCooking(c) PROVE UNCHANGED <<Line, Burning>>
  <2>1. /\ ops' = Append(ops, Release(c)) /\ ended' = ended \cup {c} /\ c \notin ended
        /\ UNCHANGED <<pending, posted, lit>>
    BY <1>6 DEF StopCooking
  <2>2. Release(c) \in Operation /\ Release(c).op = "release" /\ Release(c).by = c
    BY DEF Release, Operation
  <2>3. Line' = Line
    BY <1>1, <1>2, <2>1, <2>2, ArrivalsAppend DEF Arrival
  <2>4. Named(ops', "release") = Named(ops, "release") \cup {c}
    <3>1. c \notin Named(ops, "use") \cup Named(ops, "release")
      BY <1>6, <2>1 DEF CookerInv, OnePlaceEach
    <3>2. QED BY <1>1, <2>1, <2>2, <3>1, StrandAfterAppend DEF CookerInv, OnePlaceEach
  <2>5. Burning' = Burning
    BY <1>6, <2>1, <2>4, BurningNamed
  <2>6. QED BY <2>3, <2>5
<1>7. CASE UNCHANGED cookerVars
  BY <1>2, <1>7 DEF cookerVars, Burning, InStrand
<1>8. QED BY <1>3, <1>4, <1>5, <1>6, <1>7 DEF CookerNext

\* Whatever happens in the strand, the burners go to those who came first: the
\* cooker implements FifoBurners.
THEOREM CookerServesInOrder == CookerSpec => ServesInOrder
<1>1. CookerInit => NobodyWaitsInVain /\ F!Init
  <2>1. SUFFICES ASSUME CookerInit PROVE NobodyWaitsInVain /\ F!Init
    OBVIOUS
  <2>2. pending = <<>> /\ ops = <<>> /\ <<>> \in Seq(Ingredients) /\ <<>> \in Seq(Operation) /\ Len(<<>>) = 0
    BY <2>1 DEF CookerInit
  <2>3. Line = <<>>
    <3>1. Unrolls([i \in {0} |-> <<>>], <<>>, <<>>)
      BY DEF Unrolls
    <3> DEFINE f == [i \in {0} |-> <<>>]
               none == <<>>
    <3>2. Unrolls(f, none, none) /\ f[0] = none
      BY <3>1
    <3> HIDE DEF f
    <3>3. Arrivals(none, none) = f[Len(none)]
      BY <2>2, <3>2, ArrivalsAre
    <3>4. QED BY <2>2, <3>2, <3>3 DEF Line
  <2>4. Burning = {}
    BY <2>1, <2>2 DEF CookerInit, Burning, InStrand
  <2>5. QED BY <2>2, <2>3, <2>4 DEF NobodyWaitsInVain, F!Init
<1>2. CookerInv /\ NobodyWaitsInVain /\ [CookerNext]_cookerVars => NobodyWaitsInVain'
  BY NobodyWaitsInVainStep
<1>3. CookerInv /\ NobodyWaitsInVain /\ [CookerNext]_cookerVars => [F!Next]_<<Line, Burning>>
  BY CookerServes
<1>4. QED BY CookerInvAlways, <1>1, <1>2, <1>3, PTL DEF CookerSpec, ServesInOrder, F!Spec

-----------------------------------------------------------------------------
(* The cafeteria *)

\* A timer is late by one unit at most, and what is off the burner was on it for as
\* long as it takes, whatever it had waited before.
CafeteriaInv ==
  /\ CookerInv
  /\ placed \in Nat /\ age \in [Ingredients -> Nat]
  /\ \A c \in lit \ ended : age[c] <= Timer(c[2]) + 1
  /\ \A c \in ended : LongEnough(c) /\ NotTooLong(c)
  /\ result \in [Orders -> {"none", "hot dog"}]

LEMMA KindOf ==
  ASSUME NEW c \in Ingredients
  PROVE  /\ c[1] \in Orders /\ c[2] \in Kinds /\ Timer(c[2]) \in Nat
         /\ Timer(c[2]) = IF c[2] = "sausage" THEN 3 ELSE 2
BY CafeteriaAssumption DEF Kinds, Timer

\* Two ingredients come to the cooker at once.
LEMMA StartTwo_Inv ==
  ASSUME CookerInv, NEW a \in Ingredients, NEW b \in Ingredients, a # b, StartCooking(<<a, b>>)
  PROVE  CookerInv'
<1> USE DEF CookerInv, CookerTypes, OnePlaceEach
<1>1. Range(<<a, b>>) = {a, b} /\ DOMAIN <<a, b>> = 1 .. 2
  <2>1. DOMAIN <<a, b>> = {1, 2} /\ <<a, b>>[1] = a /\ <<a, b>>[2] = b
    OBVIOUS
  <2>2. Range(<<a, b>>) = {a, b}
    BY <2>1 DEF Range
  <2> QED
    BY <2>1, <2>2
<1>2. a \notin started /\ b \notin started /\ started' = started \cup {a, b}
  BY <1>1 DEF StartCooking
<1>3. ops' = Append(Append(ops, Use(a)), Use(b))
  <2>1. [i \in DOMAIN <<a, b>> |-> Use(<<a, b>>[i])] = <<Use(a), Use(b)>>
    BY <1>1
  <2>2. Use(a) \in Operation /\ Use(b) \in Operation
    BY DEF Use, Operation
  <2>3. ops' = ops \o <<Use(a), Use(b)>>
    BY <2>1 DEF StartCooking
  <2> QED
    BY <2>2, <2>3
<1> DEFINE one == Append(ops, Use(a))
<1>4. /\ Use(a) \in Operation /\ Use(a).by = a /\ Use(a).op = "use"
      /\ Use(b) \in Operation /\ Use(b).by = b /\ Use(b).op = "use"
  BY DEF Use, Operation
<1>5. {a, b} \cap (Named(ops, "use") \cup Named(ops, "release")) = {}
  BY <1>2
<1>6. /\ one \in Seq(Operation) /\ OneEach(one)
      /\ Named(one, "use") = Named(ops, "use") \cup {a}
      /\ Named(one, "release") = Named(ops, "release")
  BY <1>4, <1>5, StrandAfterAppend
<1> HIDE DEF one
<1>7. /\ ops' \in Seq(Operation) /\ OneEach(ops')
      /\ Named(ops', "use") = Named(one, "use") \cup {b}
      /\ Named(ops', "release") = Named(one, "release")
  <2>1. ops' = Append(one, Use(b))
    BY <1>3 DEF one
  <2>2. b \notin Named(one, "use") \cup Named(one, "release")
    BY <1>5, <1>6
  <2> QED
    BY <1>4, <1>6, <2>1, <2>2, StrandAfterAppend
<1>8. UNCHANGED <<inUse, pending, posted, lit, ended>>
  BY DEF StartCooking
<1>9. CookerTypes' /\ OnePlaceEach'
  <2>1. CookerTypes'
    BY <1>2, <1>7, <1>8
  <2>2. /\ Named(ops', "use") = Named(ops, "use") \cup {a, b}
        /\ Named(ops', "release") = Named(ops, "release")
    BY <1>6, <1>7
  <2>3. Range(pending') = Range(pending) /\ Distinct(pending')
    BY <1>8
  <2> QED
    BY <1>2, <1>7, <1>8, <2>2, <2>3
<1>10. Burning' = Burning
  BY <1>6, <1>7, <1>8, BurningNamed
<1> QED
  BY <1>8, <1>9, <1>10 DEF InUseCountsBurning

LEMMA CafeteriaInvStep ==
  ASSUME CafeteriaInv, [Next]_vars
  PROVE  CafeteriaInv'
<1>1. /\ CookerInv /\ placed \in Nat /\ age \in [Ingredients -> Nat]
      /\ lit \subseteq Ingredients /\ ended \subseteq lit /\ posted \cap lit = {}
      /\ posted \subseteq Ingredients
  BY DEF CafeteriaInv, CookerInv, CookerTypes, OnePlaceEach
<1>2. ASSUME UNCHANGED <<age, result, lit, ended>>, CookerInv', placed' \in Nat PROVE CafeteriaInv'
  BY <1>2 DEF CafeteriaInv, LongEnough, NotTooLong
<1>3. ASSUME [CookerNext]_cookerVars PROVE CookerInv'
  BY <1>1, <1>3, CookerInvStep
<1>4. CASE Arrive \/ UNCHANGED vars
  BY <1>1, <1>2, <1>3, <1>4 DEF Arrive, vars, cookerVars
<1>5. CASE OrderHotDog
  <2> DEFINE a == <<placed + 1, "sausage">>
             b == <<placed + 1, "bread">>
  <2>1. placed + 1 \in Orders
    BY <1>1, <1>5, CafeteriaAssumption DEF OrderHotDog, Orders
  <2>2. a \in Ingredients /\ b \in Ingredients /\ a # b
    BY <2>1, CafeteriaAssumption DEF Kinds
  <2>3. CookerInv' /\ UNCHANGED <<lit, ended>>
    <3>1. StartCooking(<<a, b>>)
      BY <1>5 DEF OrderHotDog
    <3>2. UNCHANGED <<lit, ended>>
      BY <3>1 DEF StartCooking
    <3> HIDE DEF a, b
    <3>3. QED BY <1>1, <2>2, <3>1, <3>2, StartTwo_Inv
  <2>4. QED BY <1>1, <1>2, <1>5, <2>3 DEF OrderHotDog
<1>6. CASE Cooker
  BY <1>1, <1>2, <1>3, <1>6 DEF Cooker, RunStrand, CookerNext
<1>7. CASE TimePasses
  <2>1. /\ CookerInv' /\ UNCHANGED <<lit, ended, result, placed>>
        /\ \A c \in Ingredients : age'[c] = IF c \in started \ ended THEN age[c] + 1 ELSE age[c]
        /\ age' \in [Ingredients -> Nat]
    BY <1>1, <1>3, <1>7 DEF TimePasses, cookerVars
  <2>2. ASSUME NEW c \in lit \ ended PROVE age'[c] <= Timer(c[2]) + 1
    <3>1. age[c] < Timer(c[2]) + IF c \in LateTimers THEN 1 ELSE 0
      BY <1>7 DEF TimePasses
    <3>2. c \in Ingredients /\ age[c] \in Nat /\ Timer(c[2]) \in Nat
      BY <1>1, KindOf
    <3>3. QED BY <2>1, <3>1, <3>2
  <2>3. ASSUME NEW c \in ended PROVE age'[c] = age[c]
    BY <1>1, <2>1
  <2>4. QED BY <2>1, <2>2, <2>3 DEF CafeteriaInv, LongEnough, NotTooLong
<1>8. ASSUME NEW k \in Ingredients, StartTimer(k) PROVE CafeteriaInv'
  <2>1. /\ age' = [age EXCEPT ![k] = 0] /\ k \in posted /\ k \notin lit /\ k \notin ended
        /\ lit' = lit \cup {k} /\ UNCHANGED <<ended, result, placed>>
    BY <1>1, <1>8 DEF StartTimer, Light
  <2>2. CookerInv'
    BY <1>3, <1>8 DEF StartTimer, CookerNext
  <2>3. /\ age' \in [Ingredients -> Nat] /\ age'[k] = 0
        /\ \A c \in Ingredients : c # k => age'[c] = age[c]
    BY <1>1, <2>1
  <2>4. ASSUME NEW c \in lit' \ ended' PROVE age'[c] <= Timer(c[2]) + 1
    <3>1. CASE c = k
      BY <2>3, <3>1, KindOf
    <3>2. CASE c # k
      BY <1>1, <2>1, <2>3, <3>2 DEF CafeteriaInv
    <3>3. QED BY <3>1, <3>2
  <2>5. ASSUME NEW c \in ended PROVE age'[c] = age[c]
    BY <1>1, <2>1, <2>3
  <2>6. QED BY <2>1, <2>2, <2>3, <2>4, <2>5 DEF CafeteriaInv, LongEnough, NotTooLong
<1>9. ASSUME NEW k \in Ingredients, TimerFires(k) PROVE CafeteriaInv'
  <2>1. /\ k \in lit /\ age[k] >= Timer(k[2]) /\ k \notin ended /\ ended' = ended \cup {k}
        /\ UNCHANGED <<lit, age, placed>> /\ TryDeliver(k[1])
    BY <1>9 DEF TimerFires, StopCooking
  <2>2. CookerInv'
    BY <1>3, <1>9 DEF TimerFires, CookerNext
  <2>3. LongEnough(k) /\ NotTooLong(k)
    <3>1. age[k] <= Timer(k[2]) + 1 /\ age[k] \in Nat
      BY <1>1, <2>1 DEF CafeteriaInv
    <3>2. QED BY <2>1, <3>1, KindOf DEF LongEnough, NotTooLong
  <2>4. \A c \in ended' : LongEnough(c) /\ NotTooLong(c)
    BY <2>1, <2>3 DEF CafeteriaInv
  <2>5. result' \in [Orders -> {"none", "hot dog"}]
    <3>1. result \in [Orders -> {"none", "hot dog"}] /\ k[1] \in Orders
      BY KindOf DEF CafeteriaInv
    <3>2. Of(k[1]) \subseteq ended' => \A c \in Of(k[1]) : LongEnough(c) /\ NotTooLong(c)
      BY <2>4
    <3>3. result' = result \/ result' = [result EXCEPT ![k[1]] = "hot dog"]
      BY <2>1, <3>2 DEF TryDeliver
    <3>4. QED BY <3>1, <3>3
  <2>6. (\A c \in ended : LongEnough(c) /\ NotTooLong(c))' /\ \A c \in lit' \ ended' : age'[c] <= Timer(c[2]) + 1
    BY <2>1, <2>4 DEF CafeteriaInv, LongEnough, NotTooLong
  <2>7. QED BY <1>1, <2>1, <2>2, <2>5, <2>6 DEF CafeteriaInv
<1>10. QED BY <1>4, <1>5, <1>6, <1>7, <1>8, <1>9 DEF Next

(***************************************************************************)
(* However long the ingredients of an order wait for a burner, in whatever *)
(* order the threads work, and with a timer late by half a second: no      *)
(* order ends in an error (hotdogs.size() == num_orders, asserted at       *)
(* main.cpp:149).                                                          *)
(***************************************************************************)
THEOREM NoOrderEndsInError == Spec => []NoOrderFails
<1>1. Init => CafeteriaInv
  <2>1. SUFFICES ASSUME Init PROVE CafeteriaInv
    OBVIOUS
  <2>2. CookerInv /\ lit = {} /\ ended = {}
    BY <2>1, CookerInit_Inv DEF Init, CookerInit
  <2>3. QED BY <2>1, <2>2 DEF Init, CafeteriaInv
<1>2. CafeteriaInv => NoOrderFails
  BY DEF CafeteriaInv, NoOrderFails
<1>3. CafeteriaInv /\ [Next]_vars => CafeteriaInv'
  BY CafeteriaInvStep
<1>4. QED BY <1>1, <1>2, <1>3, PTL DEF Spec

-----------------------------------------------------------------------------
(***************************************************************************)
(* The restaurant.                                                         *)
(***************************************************************************)
Ordered(o)  == {"roast"} \cup IF o \in WithOnion THEN {"marinade"} ELSE {}
Expected(o) == IF o \in failed THEN {"error"}
               ELSE {"roasted", "packed"} \cup IF o \in WithOnion THEN {"onion"} ELSE {}

\* What is true of an order that waits for a timer, and of one that was answered.
Unanswered(o) ==
  /\ timers[o] # {} /\ o \notin failed /\ calls[o] = 0
  /\ hamburger[o] = IF "roast" \in timers[o] THEN {} ELSE {"roasted"}
  /\ o \in marinaded <=> o \in WithOnion /\ "marinade" \notin timers[o]
Answered(o) ==
  /\ calls[o] = 1 /\ orders[o] = Expected(o)
  /\ o \notin failed => timers[o] = {}

RestaurantTypes ==
  /\ DOMAIN timers = OrderIds /\ DOMAIN hamburger = OrderIds /\ DOMAIN calls = OrderIds
  /\ timers = [o \in OrderIds |-> timers[o]] /\ hamburger = [o \in OrderIds |-> hamburger[o]]
  /\ calls = [o \in OrderIds |-> calls[o]]
  /\ delivered \subseteq OrderIds /\ DOMAIN orders = delivered
  /\ \A o \in OrderIds : timers[o] \subseteq Ordered(o)

\* The invariant: an answer comes with the last timer or with the first error.
RestaurantInv ==
  /\ RestaurantTypes
  /\ \A o \in OrderIds : IF o \in delivered THEN Answered(o) ELSE Unanswered(o)

\* The callback of one timer, as far as both have it in common.
TimerEnds(o, timer, ec, h) ==
  /\ Ends(o, timer, ec) /\ CheckReadiness(o, ec, h)
  /\ marinaded' = IF timer = "marinade" /\ ~ec THEN marinaded \cup {o} ELSE marinaded
  /\ h = IF timer = "roast" /\ ~ec THEN hamburger[o] \cup {"roasted"} ELSE hamburger[o]

LEMMA OtherOrders ==
  ASSUME RestaurantInv, NEW o \in OrderIds, NEW timer, NEW ec \in BOOLEAN, NEW h,
         TimerEnds(o, timer, ec, h)
  PROVE  /\ \A q \in OrderIds \ {o} :
              IF q \in delivered' THEN Answered(q)' ELSE Unanswered(q)'
         /\ \A q \in OrderIds \ {o} : timers'[q] = timers[q]
<1> USE DEF RestaurantInv, RestaurantTypes, TimerEnds, Ends
<1>1. SUFFICES ASSUME NEW q \in OrderIds, q # o
      PROVE  /\ IF q \in delivered' THEN Answered(q)' ELSE Unanswered(q)'
             /\ timers'[q] = timers[q]
  OBVIOUS
<1>2. timers'[q] = timers[q]
  BY <1>1
<1>3. (q \in marinaded' <=> q \in marinaded) /\ (q \in failed' <=> q \in failed)
  BY <1>1
<1>4. /\ hamburger'[q] = hamburger[q] /\ calls'[q] = calls[q]
      /\ q \in delivered' <=> q \in delivered
      /\ q \in delivered => orders'[q] = orders[q]
  BY <1>1 DEF CheckReadiness, Deliver
<1> QED
  BY <1>1, <1>2, <1>3, <1>4 DEF Answered, Unanswered, Expected

LEMMA ThisOrder ==
  ASSUME RestaurantInv, NEW o \in OrderIds, NEW timer \in {"roast", "marinade"}, NEW ec \in BOOLEAN, NEW h,
         TimerEnds(o, timer, ec, h)
  PROVE  IF o \in delivered' THEN Answered(o)' ELSE Unanswered(o)'
<1> USE DEF RestaurantInv, RestaurantTypes, TimerEnds, Ends
<1>1. timer \in timers[o] /\ timers'[o] = timers[o] \ {timer}
  OBVIOUS
<1>2. CASE o \in delivered
  <2>1. o \in failed /\ o \in failed'
    BY <1>1, <1>2 DEF Answered
  <2>2. UNCHANGED <<delivered, orders, calls>>
    BY <1>2 DEF CheckReadiness
  <2> QED
    BY <1>2, <2>1, <2>2 DEF Answered, Expected
<1>3. CASE o \notin delivered
  <2>1. Unanswered(o)
    BY <1>3
  <2>2. CASE ec
    <3>1. /\ o \in failed' /\ o \in delivered' /\ calls'[o] = calls[o] + 1
          /\ orders'[o] = {"error"}
      BY <1>3, <2>2 DEF CheckReadiness, Deliver
    <3> QED
      BY <2>1, <3>1 DEF Unanswered, Answered, Expected
  <2>3. CASE ~ec
    <3>1. o \notin failed'
      BY <2>1, <2>3 DEF Unanswered
    <3>2. h = IF "roast" \in timers'[o] THEN {} ELSE {"roasted"}
      BY <1>1, <2>1, <2>3 DEF Unanswered
    <3>3. o \in marinaded' <=> o \in WithOnion /\ "marinade" \notin timers'[o]
      <4>1. timer = "marinade" => o \in WithOnion
        BY <1>1 DEF Ordered
      <4> QED
        BY <1>1, <2>1, <2>3, <4>1 DEF Unanswered
    <3>4. IsReadyToPack(o, AddOnion(o, h)) <=> timers'[o] = {}
      BY <1>1, <3>2, <3>3 DEF IsReadyToPack, AddOnion, Ordered
    <3>5. CASE timers'[o] = {}
      <4>1. AddOnion(o, h) = {"roasted"} \cup IF o \in WithOnion THEN {"onion"} ELSE {}
        BY <3>2, <3>3, <3>5 DEF AddOnion
      <4>2. /\ o \in delivered' /\ calls'[o] = calls[o] + 1
            /\ orders'[o] = AddOnion(o, h) \cup {"packed"}
        BY <1>3, <2>3, <3>4, <3>5 DEF CheckReadiness, Deliver
      <4> QED
        BY <2>1, <3>1, <3>5, <4>1, <4>2 DEF Unanswered, Answered, Expected
    <3>6. CASE timers'[o] # {}
      <4>1. hamburger'[o] = AddOnion(o, h) /\ UNCHANGED <<delivered, orders, calls>>
        BY <1>3, <2>3, <3>4, <3>6 DEF CheckReadiness
      <4>2. AddOnion(o, h) = h
        BY <1>1, <3>2, <3>3, <3>6 DEF AddOnion, Ordered
      <4> QED
        BY <1>3, <2>1, <3>1, <3>2, <3>3, <3>6, <4>1, <4>2 DEF Unanswered
    <3> QED
      BY <3>5, <3>6
  <2> QED
    BY <2>2, <2>3
<1> QED
  BY <1>2, <1>3

LEMMA TimerEnds_Inv ==
  ASSUME RestaurantInv, NEW o \in OrderIds, NEW timer \in {"roast", "marinade"}, NEW ec \in BOOLEAN, NEW h,
         TimerEnds(o, timer, ec, h)
  PROVE  RestaurantInv'
<1>1. \A q \in OrderIds : IF q \in delivered' THEN Answered(q)' ELSE Unanswered(q)'
  BY OtherOrders, ThisOrder
<1>2. /\ timers' = [timers EXCEPT ![o] = timers[o] \ {timer}]
      /\ \A q \in OrderIds : timers'[q] \subseteq timers[q]
  BY DEF TimerEnds, Ends, RestaurantInv, RestaurantTypes
<1>3. RestaurantTypes'
  <2>1. /\ DOMAIN hamburger' = OrderIds /\ hamburger' = [q \in OrderIds |-> hamburger'[q]]
        /\ DOMAIN calls' = OrderIds /\ calls' = [q \in OrderIds |-> calls'[q]]
        /\ delivered' \subseteq OrderIds /\ DOMAIN orders' = delivered'
    BY DEF RestaurantInv, RestaurantTypes, TimerEnds, CheckReadiness, Deliver
  <2> QED
    BY <1>2, <2>1 DEF RestaurantInv, RestaurantTypes, Ordered
<1> QED
  BY <1>1, <1>3 DEF RestaurantInv

(***************************************************************************)
(* Any number of orders: when io.run() returns the handler of every order  *)
(* has been called once, with the hamburger ordered or with an error, and  *)
(* with an error only if a timer failed (asserted at main.cpp:238-251).     *)
(***************************************************************************)
THEOREM OneRightAnswerEach == RestaurantSpec => [](EveryHandlerCalled /\ RightHamburger)
<1>1. RestaurantInit => RestaurantInv
  BY DEF RestaurantInit, RestaurantInv, RestaurantTypes, Ordered, Unanswered
<1>2. RestaurantInv /\ [RestaurantNext]_restaurantVars => RestaurantInv'
  <2> SUFFICES ASSUME RestaurantInv, [RestaurantNext]_restaurantVars PROVE RestaurantInv'
    OBVIOUS
  <2>1. ASSUME NEW o \in OrderIds, NEW ec \in BOOLEAN, OnRoasted(o, ec) PROVE RestaurantInv'
    <3>1. TimerEnds(o, "roast", ec, IF ec THEN hamburger[o] ELSE hamburger[o] \cup {"roasted"})
      BY <2>1 DEF OnRoasted, TimerEnds
    <3> QED
      BY <3>1, TimerEnds_Inv
  <2>2. ASSUME NEW o \in OrderIds, NEW ec \in BOOLEAN, OnOnionMarinaded(o, ec) PROVE RestaurantInv'
    <3>1. TimerEnds(o, "marinade", ec, hamburger[o])
      BY <2>2 DEF OnOnionMarinaded, TimerEnds
    <3> QED
      BY <3>1, TimerEnds_Inv
  <2>3. CASE UNCHANGED restaurantVars
    BY <2>3 DEF restaurantVars, RestaurantInv, RestaurantTypes, Answered, Unanswered, Expected
  <2> QED
    BY <2>1, <2>2, <2>3 DEF RestaurantNext
<1>3. RestaurantInv => EveryHandlerCalled /\ RightHamburger
  BY DEF RestaurantInv, RestaurantTypes, EveryHandlerCalled, RightHamburger, Done, Answered, Unanswered, Expected
<1> QED
  BY <1>1, <1>2, <1>3, PTL DEF RestaurantSpec

(***************************************************************************)
(* The first half: when io.run() returns, nobody is left without an answer *)
(* and nobody was answered twice (orders.size(), asserted at line 238).    *)
(***************************************************************************)
THEOREM HandlersAreCalled == RestaurantSpec => []EveryHandlerCalled
BY OneRightAnswerEach, PTL
=============================================================================
