------------------------- MODULE LeaderboardProofs -------------------------
(***************************************************************************)
(* For any records, tables of any length and pages of any size: a client   *)
(* that reads page by page while players retire skips no record that was   *)
(* there when it began, and is given no more rows twice than were inserted.*)
(*                                                                         *)
(* The argument is about one record at a time.  In every order of the      *)
(* table the copies of a record take the positions that follow those of    *)
(* the better ones, so the pages of a client have passed the better ones   *)
(* before they come to it; insertions only push it further away.           *)
(***************************************************************************)
EXTENDS Leaderboard, FoldFacts

\* The number of rows above a record, and how much of n positions lies within the
\* first x of them.
Copies(row, rows) == {i \in DOMAIN rows : rows[i] = row}
BetterRows(row)   == {i \in DOMAIN table : Above(table[i], row)}
Better(row)       == Cardinality(BetterRows(row))
Clip(x, n)        == IF x < 0 THEN 0 ELSE IF x > n THEN n ELSE x

-----------------------------------------------------------------------------
(* Counting rows *)

LEMMA CountType ==
  ASSUME NEW T, NEW rows \in Seq(T), NEW row
  PROVE  /\ IsFiniteSet(Copies(row, rows)) /\ Count(row, rows) = Cardinality(Copies(row, rows))
         /\ Count(row, rows) \in Nat
<1>1. Copies(row, rows) \in SUBSET (1 .. Len(rows)) /\ Len(rows) \in Nat
  BY DEF Copies
<1>2. IsFiniteSet(1 .. Len(rows))
  BY <1>1, FS_Interval
<1>3. IsFiniteSet(Copies(row, rows))
  BY <1>1, <1>2, FS_Subset
<1>4. Count(row, rows) = Cardinality(Copies(row, rows))
  BY DEF Count, Copies
<1>5. QED BY <1>3, <1>4, FS_CardinalityType

LEMMA CountEmpty == \A row : Count(row, <<>>) = 0
<1>1. \A row : Copies(row, <<>>) = {}
  BY DEF Copies
<1>2. \A row : Count(row, <<>>) = Cardinality(Copies(row, <<>>))
  BY DEF Count, Copies
<1>3. QED BY <1>1, <1>2, FS_EmptySet

LEMMA CountAppend ==
  ASSUME NEW T, NEW rows \in Seq(T), NEW x \in T, NEW row
  PROVE  Count(row, Append(rows, x)) = Count(row, rows) + IF x = row THEN 1 ELSE 0
<1> DEFINE n == Len(rows) + 1
           more == Append(rows, x)
<1>1. /\ more \in Seq(T) /\ DOMAIN more = DOMAIN rows \cup {n} /\ n \notin DOMAIN rows
      /\ \A i \in DOMAIN rows : more[i] = rows[i]
      /\ more[n] = x
  OBVIOUS
<1> HIDE DEF n, more
<1>2. Copies(row, more) = IF x = row THEN Copies(row, rows) \cup {n} ELSE Copies(row, rows)
  BY <1>1 DEF Copies
<1>3. n \notin Copies(row, rows)
  BY <1>1 DEF Copies
<1>4. IsFiniteSet(Copies(row, rows)) /\ Count(row, rows) = Cardinality(Copies(row, rows))
      /\ Count(row, rows) \in Nat /\ Count(row, more) = Cardinality(Copies(row, more))
  BY <1>1, CountType
<1>5. CASE x = row
  BY <1>2, <1>3, <1>4, <1>5, FS_AddElement DEF more
<1>6. CASE x # row
  BY <1>2, <1>4, <1>6 DEF more
<1>7. QED BY <1>5, <1>6

\* The rows of two pages are those of one and those of the other.
LEMMA CountConcat ==
  ASSUME NEW T, NEW s \in Seq(T), NEW t \in Seq(T), NEW row
  PROVE  Count(row, s \o t) = Count(row, s) + Count(row, t)
<1> DEFINE n == Len(s)
           m == Len(t)
           u == s \o t
           L == Copies(row, s)
           R == {i + n : i \in Copies(row, t)}
<1>1. /\ n \in Nat /\ m \in Nat /\ DOMAIN s = 1 .. n /\ DOMAIN t = 1 .. m
      /\ u \in Seq(T) /\ DOMAIN u = 1 .. n + m
      /\ \A i \in 1 .. n : u[i] = s[i]
      /\ \A i \in 1 .. m : u[i + n] = t[i]
  OBVIOUS
<1> HIDE DEF u, n, m
<1>2. Copies(row, u) = L \cup R
  <2>1. ASSUME NEW i \in Copies(row, u) PROVE i \in L \cup R
    <3>1. CASE i \in 1 .. n
      BY <1>1, <3>1 DEF Copies
    <3>2. CASE i \notin 1 .. n
      <4>1. i - n \in 1 .. m /\ (i - n) + n = i
        BY <1>1, <3>2 DEF Copies
      <4>2. t[i - n] = row
        BY <1>1, <4>1 DEF Copies
      <4>3. QED BY <1>1, <4>1, <4>2 DEF Copies
    <3>3. QED BY <3>1, <3>2
  <2>2. L \subseteq Copies(row, u)
    BY <1>1 DEF Copies
  <2>3. ASSUME NEW i \in Copies(row, t) PROVE i + n \in Copies(row, u)
    BY <1>1 DEF Copies
  <2>4. QED BY <2>1, <2>2, <2>3
<1>3. L \cap R = {}
  BY <1>1 DEF Copies
<1>4. IsFiniteSet(R) /\ Cardinality(R) = Cardinality(Copies(row, t))
  <2> DEFINE C == Copies(row, t)
             shift == [i \in C |-> i + n]
  <2>1. C \subseteq Int
    BY <1>1 DEF Copies
  <2>2. shift \in Bijection(C, R)
    <3>1. shift \in [C -> R]
      OBVIOUS
    <3>2. \A i, j \in C : shift[i] = shift[j] => i = j
      BY <1>1, <2>1
    <3>3. \A k \in R : \E i \in C : shift[i] = k
      OBVIOUS
    <3>4. QED BY <3>1, <3>2, <3>3 DEF Bijection, Injection, Surjection, IsInjective
  <2>3. IsFiniteSet(C)
    BY CountType
  <2> HIDE DEF C, R, shift
  <2>4. ExistsBijection(C, R)
    BY <2>2 DEF ExistsBijection
  <2>5. QED BY <2>3, <2>4, FS_Bijection DEF C
<1>5. IsFiniteSet(L) /\ Count(row, s) = Cardinality(L) /\ Count(row, s) \in Nat
      /\ Count(row, t) = Cardinality(Copies(row, t)) /\ Count(row, t) \in Nat
      /\ Count(row, u) = Cardinality(Copies(row, u))
  BY <1>1, CountType
<1> HIDE DEF L, R
<1>6. Cardinality(L \cup R) = Cardinality(L) + Cardinality(R) - Cardinality(L \cap R)
  BY <1>4, <1>5, FS_Union
<1>7. Cardinality(L \cap R) = 0
  BY <1>3, FS_EmptySet
<1>8. QED BY <1>2, <1>4, <1>5, <1>6, <1>7 DEF u

-----------------------------------------------------------------------------
(* Where the copies of a record are *)

\* ORDER BY score DESC, play_time ASC, name ASC leaves nothing open but the order of
\* equal rows.
LEMMA AboveOrders ==
  /\ \A r, s \in Rows : Above(r, s) \/ r = s \/ Above(s, r)
  /\ \A r, s, t \in Rows : Above(r, s) /\ Above(s, t) => Above(r, t)
  /\ \A r, s \in Rows : Above(r, s) => ~Above(s, r) /\ r # s
<1>1. \A r \in Rows : /\ r.name \in Int /\ r.score \in Int /\ r.play \in Int
                      /\ r = [name |-> r.name, score |-> r.score, play |-> r.play]
  BY LeaderboardAssumption
<1>2. \A r, s \in Rows : r.name = s.name /\ r.score = s.score /\ r.play = s.play => r = s
  BY <1>1
<1>3. QED BY <1>1, <1>2 DEF Above

\* A set of positions that lacks none before one of its own.
LEMMA DownClosed ==
  ASSUME NEW n \in Nat, NEW D \in SUBSET (1 .. n), \A j \in D : \A i \in 1 .. j : i \in D
  PROVE  Cardinality(D) \in 0 .. n /\ D = 1 .. Cardinality(D)
<1> DEFINE P == {k \in 0 .. n : \E m \in 0 .. k : D \cap (1 .. k) = 1 .. m}
<1>1. 0 \in P
  <2>1. D \cap (1 .. 0) = 1 .. 0 /\ 0 \in 0 .. 0 /\ 0 \in 0 .. n
    OBVIOUS
  <2>2. QED BY <2>1
<1>2. ASSUME NEW k \in 1 .. n, k - 1 \in P PROVE k \in P
  <2>1. PICK m \in 0 .. k - 1 : D \cap (1 .. k - 1) = 1 .. m
    BY <1>2
  <2>2. k \in 0 .. n /\ k \in 0 .. k /\ m \in 0 .. k /\ 1 .. k = (1 .. k - 1) \cup {k}
    OBVIOUS
  <2>3. CASE k \in D
    <3>1. D \cap (1 .. k) = 1 .. k
      BY <2>3
    <3>2. QED BY <2>2, <3>1
  <2>4. CASE k \notin D
    <3>1. D \cap (1 .. k) = 1 .. m
      BY <2>1, <2>2, <2>4
    <3>2. QED BY <2>2, <3>1
  <2>5. QED BY <2>3, <2>4
<1>3. n \in P
  <2> HIDE DEF P
  <2>1. 0 .. n \subseteq P
    BY <1>1, <1>2, NatSetInduction
  <2>2. QED BY <2>1
<1>4. PICK m \in 0 .. n : D \cap (1 .. n) = 1 .. m
  BY <1>3
<1>5. D = 1 .. m /\ m \in Int
  <2>1. D \cap (1 .. n) = D
    OBVIOUS
  <2>2. D = 1 .. m
    BY <1>4, <2>1
  <2>3. QED BY <2>2
<1>6. Cardinality(1 .. m) = m
  BY <1>5, FS_Interval
<1>7. QED BY <1>5, <1>6

\* A bijection of positions moves a set of rows, and keeps its size.
LEMMA MovedRows ==
  ASSUME NEW n \in Nat, NEW p \in Bijection(1 .. n, 1 .. n), NEW S \in SUBSET (1 .. n)
  PROVE  /\ IsFiniteSet(S) /\ IsFiniteSet({j \in 1 .. n : p[j] \in S})
         /\ Cardinality({j \in 1 .. n : p[j] \in S}) = Cardinality(S)
<1> DEFINE N == 1 .. n
           J == {j \in N : p[j] \in S}
           q == [j \in J |-> p[j]]
<1>1. IsFiniteSet(N)
  BY FS_Interval
<1>2. IsFiniteSet(J) /\ IsFiniteSet(S)
  BY <1>1, FS_Subset
<1>3. p \in [N -> N] /\ (\A i, j \in N : p[i] = p[j] => i = j) /\ \A k \in N : \E j \in N : p[j] = k
  BY DEF Bijection, Injection, Surjection, IsInjective
<1>4. q \in Bijection(J, S)
  <2>1. q \in [J -> S] /\ (\A i, j \in J : q[i] = q[j] => i = j)
    BY <1>3
  <2>2. \A k \in S : \E j \in J : q[j] = k
    BY <1>3
  <2>3. QED BY <2>1, <2>2 DEF Bijection, Injection, Surjection, IsInjective
<1> HIDE DEF J, q
<1>5. ExistsBijection(J, S)
  BY <1>4 DEF ExistsBijection
<1>6. Cardinality(S) = Cardinality(J)
  BY <1>2, <1>5, FS_Bijection
<1>7. QED BY <1>2, <1>6 DEF J

LEMMA BetterType ==
  ASSUME table \in Seq(Rows), NEW row
  PROVE  IsFiniteSet(BetterRows(row)) /\ Better(row) \in Nat /\ BetterRows(row) \in SUBSET (1 .. Len(table))
<1>1. BetterRows(row) \in SUBSET (1 .. Len(table)) /\ Len(table) \in Nat
  BY DEF BetterRows
<1>2. IsFiniteSet(1 .. Len(table))
  BY <1>1, FS_Interval
<1>3. IsFiniteSet(BetterRows(row))
  BY <1>1, <1>2, FS_Subset
<1>4. QED BY <1>1, <1>3, FS_CardinalityType DEF Better

\* The copies follow the better rows, in whichever of the orders.
LEMMA CopiesFollowBetter ==
  ASSUME table \in Seq(Rows), NEW p \in Orders, NEW row \in Rows
  PROVE  /\ Better(row) + Count(row, table) <= Len(table)
         /\ \A j \in 1 .. Len(table) :
              /\ p[j] \in 1 .. Len(table)
              /\ table[p[j]] = row <=> Better(row) < j /\ j <= Better(row) + Count(row, table)
<1> DEFINE n == Len(table)
           S == BetterRows(row)
           C == Copies(row, table)
           U == {j \in 1 .. n : p[j] \in S}
           V == {j \in 1 .. n : p[j] \in S \cup C}
<1>1. /\ n \in Nat /\ DOMAIN table = 1 .. n /\ p \in Bijection(1 .. n, 1 .. n)
      /\ p \in [1 .. n -> 1 .. n] /\ \A j \in 1 .. n : table[p[j]] \in Rows
      /\ \A i, j \in 1 .. n : i < j => ~Above(table[p[j]], table[p[i]])
  <2>1. n \in Nat /\ DOMAIN table = 1 .. n
    OBVIOUS
  <2>2. p \in Bijection(1 .. n, 1 .. n) /\ \A i, j \in 1 .. n : i < j => ~Above(table[p[j]], table[p[i]])
    BY <2>1 DEF Orders
  <2>3. p \in [1 .. n -> 1 .. n]
    BY <2>2 DEF Bijection, Injection
  <2>4. QED BY <2>1, <2>2, <2>3
<1>2. S \in SUBSET (1 .. n) /\ C \in SUBSET (1 .. n) /\ S \cap C = {}
  BY <1>1, AboveOrders DEF BetterRows, Copies
<1>3. /\ \A j \in 1 .. n : p[j] \in S <=> Above(table[p[j]], row)
      /\ \A j \in 1 .. n : p[j] \in C <=> table[p[j]] = row
  BY <1>1 DEF BetterRows, Copies
<1>4. ASSUME NEW j \in 1 .. n, NEW i \in 1 .. j, Above(table[p[j]], row)
      PROVE  i \in 1 .. n /\ Above(table[p[i]], row)
  <2>1. i \in 1 .. n /\ i <= j
    BY <1>1
  <2>2. i = j \/ ~Above(table[p[j]], table[p[i]])
    BY <1>1, <2>1
  <2>3. QED BY <1>1, <1>4, <2>1, <2>2, AboveOrders
<1>5. ASSUME NEW j \in 1 .. n, NEW i \in 1 .. j, table[p[j]] = row
      PROVE  i \in 1 .. n /\ (Above(table[p[i]], row) \/ table[p[i]] = row)
  <2>1. i \in 1 .. n /\ i <= j
    BY <1>1
  <2>2. i = j \/ ~Above(table[p[j]], table[p[i]])
    BY <1>1, <2>1
  <2>3. QED BY <1>1, <1>5, <2>1, <2>2, AboveOrders
<1> HIDE DEF n, S, C
<1>6. Cardinality(U) \in 0 .. n /\ U = 1 .. Cardinality(U)
  <2>1. U \in SUBSET (1 .. n) /\ \A j \in U : \A i \in 1 .. j : i \in U
    BY <1>3, <1>4
  <2> HIDE DEF U
  <2>2. QED BY <1>1, <2>1, DownClosed
<1>7. Cardinality(V) \in 0 .. n /\ V = 1 .. Cardinality(V)
  <2>1. V \in SUBSET (1 .. n) /\ \A j \in V : \A i \in 1 .. j : i \in V
    BY <1>3, <1>4, <1>5
  <2> HIDE DEF V
  <2>2. QED BY <1>1, <2>1, DownClosed
<1>8. Cardinality(U) = Better(row)
  BY <1>1, <1>2, MovedRows DEF Better, S
<1>9. Cardinality(V) = Better(row) + Count(row, table)
  <2>1. S \cup C \in SUBSET (1 .. n)
    BY <1>2
  <2> DEFINE B == S \cup C
  <2>2. V = {j \in 1 .. n : p[j] \in B}
    OBVIOUS
  <2> HIDE DEF B, V
  <2>3. Cardinality(V) = Cardinality(B)
    BY <1>1, <2>1, <2>2, MovedRows DEF B
  <2>4. IsFiniteSet(S) /\ IsFiniteSet(C) /\ Cardinality(S) = Better(row) /\ Cardinality(C) = Count(row, table)
        /\ Better(row) \in Nat /\ Count(row, table) \in Nat
    BY BetterType, CountType DEF S, C, Better
  <2>5. Cardinality(S \cup C) = Cardinality(S) + Cardinality(C) - Cardinality(S \cap C)
    BY <2>4, FS_Union
  <2>6. Cardinality(S \cap C) = 0
    BY <1>2, FS_EmptySet
  <2>7. QED BY <2>3, <2>4, <2>5, <2>6 DEF B
<1>10. \A j \in 1 .. n : table[p[j]] = row <=> j \in V /\ j \notin U
  BY <1>2, <1>3
<1> HIDE DEF U, V
<1>11. Better(row) \in Nat /\ Better(row) + Count(row, table) \in Nat
  BY BetterType, CountType
<1>12. ASSUME NEW j \in 1 .. n
       PROVE  table[p[j]] = row <=> Better(row) < j /\ j <= Better(row) + Count(row, table)
  <2>1. j \in U <=> j <= Better(row)
    BY <1>6, <1>8, <1>11
  <2>2. j \in V <=> j <= Better(row) + Count(row, table)
    BY <1>7, <1>9, <1>11
  <2>3. QED BY <1>10, <1>11, <2>1, <2>2
<1>13. QED BY <1>1, <1>7, <1>9, <1>12 DEF n

-----------------------------------------------------------------------------
(* What a page adds *)

\* A page is as long as it can be, and holds the copies of a record that lie between
\* its bounds.
LEMMA PageRows ==
  ASSUME table \in Seq(Rows), NEW p \in Orders, NEW start \in Nat, start <= Len(table),
         NEW max \in Nat
  PROVE  /\ Page(p, start, max) \in Seq(Rows)
         /\ Len(Page(p, start, max)) = Least(max, Len(table) - start)
         /\ \A i \in 1 .. Len(Page(p, start, max)) :
              /\ start + i \in 1 .. Len(table)
              /\ Page(p, start, max)[i] = table[p[start + i]]
<1> DEFINE n == Len(table)
           k == Least(max, n - start)
           rows == [i \in 1 .. k |-> table[p[start + i]]]
<1>1. n \in Nat /\ k \in Nat /\ k <= n - start /\ DOMAIN table = 1 .. n
  BY DEF Least
<1>2. p \in [1 .. n -> 1 .. n]
  BY <1>1 DEF Orders, Bijection, Injection
<1>3. \A i \in 1 .. k : start + i \in 1 .. n
  BY <1>1
<1>4. \A i \in 1 .. k : table[p[start + i]] \in Rows
  BY <1>1, <1>2, <1>3
<1> HIDE DEF n, k
<1>5. rows \in Seq(Rows) /\ Len(rows) = k /\ \A i \in 1 .. k : rows[i] = table[p[start + i]]
  BY <1>1, <1>4
<1>6. Page(p, start, max) = rows
  <2>1. CASE start >= n
    <3>1. k = 0
      BY <1>1, <2>1
    <3>2. rows = <<>>
      BY <3>1
    <3>3. QED BY <2>1, <3>2 DEF Page, n
  <2>2. CASE ~(start >= n)
    BY <2>2 DEF Page, n, k
  <2>3. QED BY <2>1, <2>2
<1>7. QED BY <1>3, <1>5, <1>6 DEF n, k

LEMMA PageCount ==
  ASSUME table \in Seq(Rows), NEW p \in Orders, NEW start \in Nat, start <= Len(table),
         NEW max \in Nat, NEW row \in Rows
  PROVE  LET page == Page(p, start, max)
             reach == start + Len(page) - Better(row)
         IN  Count(row, page) = Clip(reach, Count(row, table))
                                - Clip(start - Better(row), Count(row, table))
<1> DEFINE page == Page(p, start, max)
           n == Len(table)
           k == Len(page)
           b == Better(row)
           e == Count(row, table)
           low == IF b < start THEN 1 ELSE b - start + 1
           high == IF k < b + e - start THEN k ELSE b + e - start
<1>1. /\ n \in Nat /\ k \in Nat /\ start + k <= n /\ page \in Seq(Rows) /\ DOMAIN page = 1 .. k
      /\ \A i \in 1 .. k : start + i \in 1 .. n /\ page[i] = table[p[start + i]]
  <2>1. /\ page \in Seq(Rows) /\ Len(page) = Least(max, n - start)
        /\ \A i \in 1 .. k : start + i \in 1 .. n /\ page[i] = table[p[start + i]]
    BY PageRows
  <2>2. Least(max, n - start) \in Nat /\ start + Least(max, n - start) <= n /\ n \in Nat
    BY DEF Least
  <2> HIDE DEF page
  <2>3. QED BY <2>1, <2>2
<1>2. b \in Nat /\ e \in Nat /\ b + e <= n
  BY BetterType, CountType, CopiesFollowBetter
<1>3. \A j \in 1 .. n : table[p[j]] = row <=> b < j /\ j <= b + e
  BY CopiesFollowBetter
<1> HIDE DEF page, n, k, b, e
<1>4. Copies(row, page) = low .. high
  <2>1. ASSUME NEW i \in 1 .. k PROVE page[i] = row <=> low <= i /\ i <= high
    <3>1. page[i] = row <=> b < start + i /\ start + i <= b + e
      BY <1>1, <1>3
    <3>2. QED BY <1>1, <1>2, <3>1
  <2>2. low .. high \subseteq 1 .. k
    BY <1>1, <1>2
  <2>3. Copies(row, page) = {i \in 1 .. k : low <= i /\ i <= high}
    BY <1>1, <2>1 DEF Copies
  <2>4. low .. high = {i \in 1 .. k : low <= i /\ i <= high}
    BY <1>1, <1>2, <2>2
  <2>5. QED BY <2>3, <2>4
<1>5. Cardinality(low .. high) = IF low > high THEN 0 ELSE high - low + 1
  <2>1. low \in Int /\ high \in Int
    BY <1>1, <1>2
  <2> HIDE DEF low, high
  <2>2. QED BY <2>1, FS_Interval
<1>6. Count(row, page) = Cardinality(low .. high)
  BY <1>1, <1>4, CountType
<1>7. Count(row, page) = Clip(start + k - b, e) - Clip(start - b, e)
  <2>1. k \in Nat /\ b \in Nat /\ e \in Nat
    BY <1>1, <1>2
  <2>2. Count(row, page) = IF low > high THEN 0 ELSE high - low + 1
    BY <1>5, <1>6
  <2>3. QED BY <2>1, <2>2 DEF Clip
<1>8. QED BY <1>7 DEF page, k, b, e

-----------------------------------------------------------------------------
(* The client *)

\* A record that the client still lacks lies ahead of it; and what it has been given
\* of a record is what lies behind it, but for the rows inserted meanwhile.
NotPassed(row) ==
  \/ Count(row, before) <= Count(row, read)
  \/ ~ended /\ Len(read) <= Better(row) + Count(row, read)
FewRepeats(row) ==
  Count(row, read) <= Clip(Len(read) - Better(row), Count(row, table)) + (Len(table) - Len(before))

ReaderInv ==
  /\ table \in Seq(Rows) /\ before \in Seq(Rows) /\ read \in Seq(Rows)
  /\ size = 0 => read = <<>> /\ before = <<>>
  /\ Len(read) <= Len(table) /\ Len(before) <= Len(table)
  /\ \A row \in Rows :
       /\ Count(row, before) <= Count(row, table)
       /\ NotPassed(row) /\ FewRepeats(row)

LEMMA BetterAppend ==
  ASSUME table \in Seq(Rows), NEW x \in Rows, table' = Append(table, x), NEW row
  PROVE  Better(row)' = Better(row) + IF Above(x, row) THEN 1 ELSE 0
<1> DEFINE n == Len(table) + 1
<1>1. /\ DOMAIN table' = DOMAIN table \cup {n} /\ n \notin DOMAIN table
      /\ \A i \in DOMAIN table : table'[i] = table[i]
      /\ table'[n] = x
  OBVIOUS
<1> HIDE DEF n
<1>2. BetterRows(row)' = IF Above(x, row) THEN BetterRows(row) \cup {n} ELSE BetterRows(row)
  BY <1>1 DEF BetterRows
<1>3. n \notin BetterRows(row)
  BY <1>1 DEF BetterRows
<1>4. IsFiniteSet(BetterRows(row)) /\ Better(row) \in Nat
  BY BetterType
<1>5. CASE Above(x, row)
  BY <1>2, <1>3, <1>4, <1>5, FS_AddElement DEF Better
<1>6. CASE ~Above(x, row)
  BY <1>2, <1>4, <1>6 DEF Better
<1>7. QED BY <1>5, <1>6

LEMMA InsertKeepsReader ==
  ASSUME ReaderInv, NEW x \in Rows, InsertRetired(x)
  PROVE  ReaderInv'
<1>1. table' = Append(table, x) /\ UNCHANGED <<read, size, before, ended>>
  BY DEF InsertRetired
<1>2. table \in Seq(Rows) /\ table' \in Seq(Rows) /\ Len(table') = Len(table) + 1 /\ Len(table) \in Nat
      /\ Len(read) \in Nat /\ Len(before) \in Nat
  BY <1>1 DEF ReaderInv
<1>3. ASSUME NEW row \in Rows
      PROVE  Count(row, before') <= Count(row, table') /\ NotPassed(row)' /\ FewRepeats(row)'
  <2>1. Count(row, table') = Count(row, table) + IF x = row THEN 1 ELSE 0
    BY <1>1, <1>2, CountAppend
  <2>2. Better(row)' = Better(row) + IF Above(x, row) THEN 1 ELSE 0
    BY <1>1, <1>2, BetterAppend
  <2>3. /\ Count(row, table) \in Nat /\ Count(row, read) \in Nat /\ Count(row, before) \in Nat
        /\ Better(row) \in Nat
    BY CountType, BetterType DEF ReaderInv
  <2>4. Count(row, before) <= Count(row, table) /\ NotPassed(row) /\ FewRepeats(row)
    BY DEF ReaderInv
  <2>5. Count(row, before') <= Count(row, table')
    BY <1>1, <2>1, <2>3, <2>4
  <2>6. NotPassed(row)'
    BY <1>1, <1>2, <2>2, <2>3, <2>4 DEF NotPassed
  <2>7. FewRepeats(row)'
    BY <1>1, <1>2, <2>1, <2>2, <2>3, <2>4 DEF FewRepeats, Clip
  <2>8. QED BY <2>5, <2>6, <2>7
<1>4. QED BY <1>1, <1>2, <1>3 DEF ReaderInv

LEMMA ReadKeepsReader ==
  ASSUME ReaderInv, NEW max \in Requests, Read(max)
  PROVE  ReaderInv'
<1>1. /\ max \in Nat /\ max > 0 /\ ~Refused(Len(read), max) /\ ~ended /\ table' = table /\ size' = max
      /\ before' = IF size = 0 THEN table ELSE before
      /\ Len(read) \in Nat /\ Len(table) \in Nat /\ Len(before) \in Nat
      /\ table \in Seq(Rows) /\ read \in Seq(Rows) /\ before \in Seq(Rows)
      /\ Len(read) <= Len(table) /\ Len(before) <= Len(table)
  <2>1. table \in Seq(Rows) /\ read \in Seq(Rows) /\ before \in Seq(Rows)
        /\ Len(read) <= Len(table) /\ Len(before) <= Len(table)
    BY DEF ReaderInv
  <2>2. Len(read) \in Nat /\ Len(table) \in Nat /\ Len(before) \in Nat
    BY <2>1
  <2>3. max \in Int /\ max > 0 /\ ~Refused(0, max) /\ ~ended /\ table' = table /\ size' = max
        /\ before' = IF size = 0 THEN table ELSE before
    BY LeaderboardAssumption DEF Read
  <2>4. max \in Nat /\ ~Refused(Len(read), max)
    BY <2>2, <2>3, LeaderboardAssumption DEF Refused
  <2>5. QED BY <2>1, <2>2, <2>3, <2>4
<1>2. PICK p \in Orders : answer' = [status |-> "ok", rows |-> Page(p, Len(read), max)]
  BY <1>1 DEF Read, HandleRecords
<1> DEFINE page == Page(p, Len(read), max)
<1>3. read' = read \o page /\ ended' = (Len(page) < max)
  BY <1>2 DEF Read
<1>4. page \in Seq(Rows) /\ Len(page) = Least(max, Len(table) - Len(read)) /\ Len(page) \in Nat
  <2>1. page \in Seq(Rows) /\ Len(page) = Least(max, Len(table) - Len(read))
    BY <1>1, PageRows
  <2>2. Least(max, Len(table) - Len(read)) \in Nat
    BY <1>1 DEF Least
  <2>3. QED BY <2>1, <2>2
<1>5. \A row \in Rows : Count(row, page) = Clip(Len(read) + Len(page) - Better(row), Count(row, table))
                                           - Clip(Len(read) - Better(row), Count(row, table))
  BY <1>1, PageCount
<1> HIDE DEF page
<1>6. read' \in Seq(Rows) /\ Len(read') = Len(read) + Len(page) /\ Len(read') <= Len(table)
      /\ before' \in Seq(Rows) /\ Len(before') <= Len(table) /\ Len(before') \in Nat
  <2>1. read' \in Seq(Rows) /\ Len(read') = Len(read) + Len(page)
    <3>1. read \o page \in Seq(Rows) /\ Len(read \o page) = Len(read) + Len(page)
      <4>1. \A s, t \in Seq(Rows) : s \o t \in Seq(Rows) /\ Len(s \o t) = Len(s) + Len(t)
        OBVIOUS
      <4>2. QED BY <1>1, <1>4, <4>1
    <3>2. QED BY <1>3, <3>1
  <2>2. Len(read') <= Len(table)
    BY <1>1, <1>4, <2>1 DEF Least
  <2>3. before' \in Seq(Rows) /\ Len(before') <= Len(table)
    BY <1>1
  <2>4. QED BY <2>1, <2>2, <2>3
<1>7. ASSUME NEW row \in Rows
      PROVE  Count(row, before') <= Count(row, table') /\ NotPassed(row)' /\ FewRepeats(row)'
  <2>1. Count(row, read') = Count(row, read) + Count(row, page)
    BY <1>1, <1>3, <1>4, CountConcat
  <2>2. /\ Count(row, table) \in Nat /\ Count(row, read) \in Nat /\ Count(row, before) \in Nat
        /\ Better(row) \in Nat /\ Better(row)' = Better(row)
        /\ Better(row) + Count(row, table) <= Len(table)
    <3>1. Better(row)' = Better(row)
      BY <1>1 DEF Better, BetterRows
    <3>2. QED BY <1>1, <3>1, CountType, BetterType, CopiesFollowBetter DEF ReaderInv
  <2>3. Count(row, before') <= Count(row, table') /\ Count(row, before') \in Nat
    BY <1>1, <2>2 DEF ReaderInv
  <2>4. /\ Count(row, before') <= Count(row, read) \/ Len(read) <= Better(row) + Count(row, read)
        /\ Count(row, read) <= Clip(Len(read) - Better(row), Count(row, table))
                               + (Len(table) - Len(before'))
    <3>1. CASE size = 0
      <4>1. read = <<>> /\ before' = table
        BY <1>1, <3>1 DEF ReaderInv
      <4>2. Count(row, read) = 0 /\ Len(read) = 0
        BY <4>1, CountEmpty
      <4>3. QED BY <1>1, <2>2, <4>1, <4>2 DEF Clip
    <3>2. CASE size # 0
      BY <1>1, <3>2 DEF ReaderInv, NotPassed, FewRepeats
    <3>3. QED BY <3>1, <3>2
  <2>5. Count(row, page) = Clip(Len(read) + Len(page) - Better(row), Count(row, table))
                           - Clip(Len(read) - Better(row), Count(row, table))
    BY <1>5
  \* In numbers: of the record, e rows are in the table after b better ones, o were
  \* there when the client began, and c are among the n rows it has; the page brings k
  \* rows, and d of the record, which makes r among m.
  <2> DEFINE n == Len(read)
             k == Len(page)
             b == Better(row)
             e == Count(row, table)
             c == Count(row, read)
             o == Count(row, before')
             x == Len(table) - Len(before')
             d == Count(row, page)
             r == Count(row, read')
             m == Len(read')
  <2>6. (o <= r \/ m <= b + r) /\ r <= Clip(m - b, e) + x
    <3>1. n \in Nat /\ k \in Nat /\ b \in Nat /\ e \in Nat /\ c \in Nat /\ o \in Nat /\ x \in Int
      BY <1>1, <1>4, <1>6, <2>2, <2>3
    <3>2. d = Clip(n + k - b, e) - Clip(n - b, e) /\ m = n + k /\ r = c + d
      BY <1>6, <2>1, <2>5
    <3>3. (o <= c \/ n <= b + c) /\ c <= Clip(n - b, e) + x
      BY <2>4
    <3>4. o <= e
      BY <1>1, <2>3
    <3> HIDE DEF n, k, b, e, c, o, x, d, r, m
    <3>5. QED BY <3>1, <3>2, <3>3, <3>4 DEF Clip
  <2>7. /\ o <= Count(row, read') \/ Len(read') <= b + Count(row, read')
        /\ Count(row, read') <= Clip(Len(read') - b, e) + x
    BY <2>6
  <2>8. FewRepeats(row)'
    BY <1>1, <2>2, <2>7 DEF FewRepeats
  <2>9. NotPassed(row)'
    <3>2. ASSUME Len(page) < max PROVE Len(read') = Len(table)
      BY <1>1, <1>4, <1>6, <3>2 DEF Least
    <3>3. ASSUME Len(read') = Len(table), Len(read') <= Better(row) + Count(row, read')
          PROVE  Count(row, before') <= Count(row, read')
      <4>1. Count(row, read') \in Nat
        BY <1>6, CountType
      <4>2. QED BY <1>1, <2>2, <2>3, <3>3, <4>1
    <3>4. QED BY <1>3, <2>2, <2>7, <3>2, <3>3 DEF NotPassed
  <2>10. QED BY <2>3, <2>8, <2>9
<1>8. QED BY <1>1, <1>6, <1>7 DEF ReaderInv

LEMMA ReaderInvAlways == Spec => []ReaderInv
<1>1. Init => ReaderInv
  <2>1. SUFFICES ASSUME Init PROVE ReaderInv
    OBVIOUS
  <2>2. table = <<>> /\ before = <<>> /\ read = <<>> /\ size = 0 /\ <<>> \in Seq(Rows) /\ Len(<<>>) = 0
    BY <2>1 DEF Init
  <2>3. ASSUME NEW row \in Rows PROVE NotPassed(row) /\ FewRepeats(row)
    <3>1. Better(row) \in Nat
      BY <2>2, BetterType
    <3>2. QED BY <2>2, <3>1, CountEmpty DEF NotPassed, FewRepeats, Clip
  <2>4. QED BY <2>2, <2>3, CountEmpty DEF ReaderInv
<1>2. ReaderInv /\ [Next]_vars => ReaderInv'
  <2>1. SUFFICES ASSUME ReaderInv, [Next]_vars PROVE ReaderInv'
    OBVIOUS
  <2>2. ASSUME UNCHANGED <<table, read, size, before, ended>> PROVE ReaderInv'
    <3>1. \A row : Better(row)' = Better(row)
      BY <2>2 DEF Better, BetterRows
    <3>2. QED BY <2>1, <2>2, <3>1 DEF ReaderInv, NotPassed, FewRepeats
  <2>3. QED BY <2>1, <2>2, InsertKeepsReader, ReadKeepsReader DEF Next, Ask, vars
<1>3. QED BY <1>1, <1>2, PTL DEF Spec

\* Whatever is inserted while it reads, a client that has come to the end has every
\* record that was there when it began, as often as it was there.
THEOREM NoRecordIsSkipped == Spec => []NobodyIsSkipped
<1>1. ReaderInv => NobodyIsSkipped
  BY DEF ReaderInv, NotPassed, NobodyIsSkipped
<1>2. QED BY ReaderInvAlways, <1>1, PTL

\* And it is given a record again at most once for every row inserted meanwhile.
THEOREM RepeatsAreFew == Spec => []RepeatsAreInsertions
<1>1. ReaderInv => RepeatsAreInsertions
  <2>1. SUFFICES ASSUME ReaderInv, NEW row \in Rows
                 PROVE  Count(row, read) <= Count(row, table) + (Len(table) - Len(before))
    BY DEF RepeatsAreInsertions
  <2>2. /\ Count(row, table) \in Nat /\ Better(row) \in Nat /\ Count(row, read) \in Nat
        /\ Len(table) \in Nat /\ Len(before) \in Nat /\ Len(read) \in Nat
    BY <2>1, CountType, BetterType DEF ReaderInv
  <2>3. FewRepeats(row)
    BY <2>1 DEF ReaderInv
  <2>4. QED BY <2>2, <2>3 DEF FewRepeats, Clip
<1>2. QED BY ReaderInvAlways, <1>1, PTL
=============================================================================
