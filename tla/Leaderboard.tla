---------------------------- MODULE Leaderboard ----------------------------
(***************************************************************************)
(* The table of retired players and GET /api/v1/game/records               *)
(* (state_serialization/solution/src: retirement_db.cpp and HandleRecords  *)
(* of request_handler.h), read page by page by a client while players keep *)
(* retiring.  A page is one transaction; between two pages the client only *)
(* remembers how many records it has been given.                           *)
(***************************************************************************)
EXTENDS Integers, Sequences, FiniteSets, Functions

CONSTANTS
  Rows,        \* possible records, [name, score, play]; names as numbers
  MaxRecords,  \* bound: rows in the table
  MaxItems,    \* the largest maxItems the server accepts (100)
  Requests     \* the values of maxItems and start a client may send

ASSUME LeaderboardAssumption ==
  /\ Rows \subseteq [name : Int, score : Int, play : Nat]
  /\ MaxRecords \in Nat /\ MaxItems \in Nat \ {0} /\ Requests \subseteq Int

VARIABLES
  table,    \* retired_players, by id
  answer,   \* the last response: its status and rows
  read,     \* the client: all rows of its pages so far
  size,     \* the client: its maxItems, or 0 before it has started to read
  before,   \* history: the table when the client started
  ended     \* the client has got a page that is not full
vars == <<table, answer, read, size, before, ended>>

\* ORDER BY score DESC, play_time ASC, name ASC.
Above(r, s) ==
  \/ r.score > s.score
  \/ r.score = s.score /\ r.play < s.play
  \/ r.score = s.score /\ r.play = s.play /\ r.name < s.name

Orders_Unsorted == Bijection(DOMAIN table, DOMAIN table)
\* The orders in which the database may return the rows; equal rows in any order.
Orders ==
  {p \in Bijection(DOMAIN table, DOMAIN table) :
     \A i, j \in DOMAIN table : i < j => ~Above(table[p[j]], table[p[i]])}

Least(m, n) == IF m < n THEN m ELSE n

\* LIMIT max OFFSET start.
Page_FromOne(p, start, max) ==
  [i \in 1 .. Least(max, Len(table) - start) |-> table[p[Least(start + i + 1, Len(table))]]]
Page(p, start, max) ==
  IF start >= Len(table) THEN <<>>
  ELSE [i \in 1 .. Least(max, Len(table) - start) |-> table[p[start + i]]]

Init ==
  /\ table = <<>> /\ before = <<>>
  /\ answer = [status |-> "none", rows |-> <<>>]
  /\ read = <<>> /\ size = 0 /\ ended = FALSE

\* InsertRetired, called by a tick.
InsertRetired(row) ==
  /\ Len(table) < MaxRecords
  /\ table' = Append(table, row)
  /\ UNCHANGED <<answer, read, size, before, ended>>

Refused(start, max) == max > MaxItems \/ start < 0 \/ max < 0

\* HandleRecords and FetchRecords.
HandleRecords(start, max) ==
  IF Refused(start, max) THEN answer' = [status |-> "bad request", rows |-> <<>>]
  ELSE \E p \in Orders : answer' = [status |-> "ok", rows |-> Page(p, start, max)]

\* A request of no particular client.
Ask(start, max) ==
  HandleRecords(start, max) /\ UNCHANGED <<table, read, size, before, ended>>

\* The client asks for the page after those it has.
Read(max) ==
  /\ ~ended /\ max > 0 /\ ~Refused(0, max) /\ size \in {0, max}
  /\ HandleRecords(Len(read), max)
  /\ read' = read \o answer'.rows
  /\ ended' = (Len(answer'.rows) < max)
  /\ size' = max
  /\ before' = IF size = 0 THEN table ELSE before
  /\ UNCHANGED table

Next ==
  \/ \E row \in Rows : InsertRetired(row)
  \/ \E start, max \in Requests : Ask(start, max)
  \/ \E max \in Requests : Read(max)

Spec == Init /\ [][Next]_vars

-----------------------------------------------------------------------------

Count(row, rows) == Cardinality({i \in DOMAIN rows : rows[i] = row})

\* A client that reads to the end has been given every record that was there when
\* it started: players who retire in between push records down, never past it.
NobodyIsSkipped ==
  ended => \A row \in Rows : Count(row, before) <= Count(row, read)

\* What it is given twice is no more than what was inserted while it read.
RepeatsAreInsertions ==
  \A row \in Rows : Count(row, read) <= Count(row, table) + (Len(table) - Len(before))
=============================================================================
