------------------------------ MODULE Postgres ------------------------------
(***************************************************************************)
(* External: what bookypedia relies on in PostgreSQL.  Several sessions    *)
(* run transactions at the isolation level READ COMMITTED, which           *)
(* pqxx::work has unless told otherwise: a statement sees what was         *)
(* committed when it began and what its own transaction did, waits for     *)
(* the locks of others, and then goes by the newest version of its rows.   *)
(*                                                                         *)
(* A row is a record with the name of its table; a transaction is the      *)
(* list of statements in todo.  A statement that has several rows locks    *)
(* them at once.  The tables and their constraints are those of Database   *)
(* (postgres.cpp:219-232): unique names of authors, books that reference   *)
(* an author, tags that reference a book.                                  *)
(***************************************************************************)
EXTENDS Naturals, Sequences, FiniteSets, SequencesExt, Relation

CONSTANT Users

VARIABLES
  db,      \* the committed rows
  todo,    \* of every user, the statements of its transaction still to run
  aim,     \* of every user, the rows its statement found when it began
  new,     \* of every user, the rows its transaction has written
  locks    \* of every user, the <<row, mode>> pairs its transaction has locked
dbVars == <<db, todo, aim, new, locks>>

\* A tag has no id in its table; n tells it from the tags of other commands.
Key(r) == IF r.table = "tags" THEN <<"tags", r.n, r.tag>> ELSE <<r.table, r.id>>
NoAim == {<<"none">>}

DbInit(rows) ==
  /\ db = rows
  /\ todo = [u \in Users |-> <<>>] /\ aim = [u \in Users |-> NoAim]
  /\ new = [u \in Users |-> {}] /\ locks = [u \in Users |-> {}]

(***************************************************************************)
(* Statements.  A DELETE is followed by the check of the foreign keys that *)
(* reference what it deleted.  "strict" is a look at affected_rows().      *)
(***************************************************************************)
Insert(r) == [op |-> "insert", row |-> r]
Update(key, field, value, strict) ==
  [op |-> "update", key |-> key, field |-> field, value |-> value, strict |-> strict]
Delete(table, column, value, strict) ==
  << [op |-> "delete", table |-> table, column |-> column, value |-> value, strict |-> strict],
     [op |-> "check"] >>

(***************************************************************************)
(* What a transaction sees, and whom it must wait for.                     *)
(***************************************************************************)
Written(u) == {k[1] : k \in {p \in locks[u] : p[2] # "KEY_SHARE"}}
View(u) == {r \in db : Key(r) \notin Written(u)} \cup new[u]

References(r) == CASE r.table = "books" -> {<<"authors", r.author>>}
                   [] r.table = "tags"  -> {<<"books", r.book>>}
                   [] OTHER             -> {}

\* WHERE column = value; a row without the column is looked up by its book (the subselect).
Matches(r, s, rows) ==
  /\ r.table = s.table
  /\ IF s.column \in DOMAIN r THEN r[s.column] = s.value
     ELSE \E b \in rows : b.table = "books" /\ b.id = r.book /\ b[s.column] = s.value

\* An UPDATE of a column that a foreign key could use locks like a DELETE.
Mode(s) == IF s.op = "update" /\ s.field = "title" THEN "NO_KEY_UPDATE" ELSE "UPDATE"

Clash(m, n) == {m, n} # {"KEY_SHARE"} /\ {m, n} # {"KEY_SHARE", "NO_KEY_UPDATE"}

Holders(u, keys, mode) ==
  {v \in Users \ {u} : \E p \in locks[v] : p[1] \in keys /\ Clash(p[2], mode)}

\* Others that have written, renamed or deleted an author of this name and not committed.
NameTakers(u, n) ==
  {v \in Users \ {u} : \E r \in new[v] \cup {x \in db : Key(x) \in Written(v)} :
                          r.table = "authors" /\ r.name = n}

\* Rows that its deletions have left without the row they reference.
Dangling(u) == {r \in View(u) : ~ References(r) \subseteq {Key(x) : x \in View(u)}}

NameWanted(s) == CASE s.op = "insert" /\ s.row.table = "authors" -> {s.row.name}
                   [] s.op = "update" /\ s.field = "name" -> {s.value}
                   [] OTHER -> {}

Blockers(u) ==
  LET s == Head(todo[u])
  IN (UNION {NameTakers(u, n) : n \in NameWanted(s)})
     \cup CASE s.op = "insert" -> Holders(u, References(s.row), "KEY_SHARE")
            [] s.op = "check"  -> Holders(u, {Key(r) : r \in Dangling(u)}, "KEY_SHARE")
            [] OTHER           -> Holders(u, aim[u], Mode(s))

\* The statement throws: a constraint, or no row where the code wants one.
Throws(u, s) ==
  LET rows == {r \in View(u) : Key(r) \in aim[u]}
  IN \/ s.op = "insert" /\ ~ References(s.row) \subseteq {Key(r) : r \in View(u)}
     \/ s.op = "check" /\ Dangling(u) # {}
     \/ s.op \in {"update", "delete"} /\ s.strict /\ rows = {}
     \/ \E n \in NameWanted(s), r \in View(u) \ rows : r.table = "authors" /\ r.name = n

(***************************************************************************)
(* The steps of a transaction.  ROLLBACK is what the destructor of a       *)
(* pqxx::work does that was not committed.                                 *)
(***************************************************************************)
Begin(u, statements) == todo' = [todo EXCEPT ![u] = statements] /\ UNCHANGED <<db, aim, new, locks>>

\* The snapshot of the first statement.
Snapshot(u) ==
  /\ todo[u] # <<>> /\ aim[u] = NoAim
  /\ LET s == Head(todo[u])
     IN aim' = [aim EXCEPT ![u] =
                  CASE s.op = "update" -> {Key(r) : r \in {x \in View(u) : Key(x) = s.key}}
                    [] s.op = "delete" -> {Key(r) : r \in {x \in View(u) : Matches(x, s, View(u))}}
                    [] OTHER -> {}]
  /\ UNCHANGED <<db, todo, new, locks>>

Ready(u) == todo[u] # <<>> /\ aim[u] # NoAim

Execute(u) ==
  /\ Ready(u) /\ Blockers(u) = {} /\ ~ Throws(u, Head(todo[u]))
  /\ LET s == Head(todo[u])
         rows == {r \in View(u) : Key(r) \in aim[u]}
         keys == {Key(r) : r \in rows}
     IN /\ new' = [new EXCEPT ![u] =
                     CASE s.op = "insert" -> @ \cup {s.row}
                       [] s.op = "update" -> (@ \ rows) \cup {[r EXCEPT ![s.field] = s.value] : r \in rows}
                       [] OTHER           -> @ \ rows]
        /\ locks' = [locks EXCEPT ![u] = @ \cup
                       IF s.op = "insert" THEN References(s.row) \X {"KEY_SHARE"}
                       ELSE IF s.op = "check" THEN {} ELSE keys \X {Mode(s)}]
        /\ todo' = [todo EXCEPT ![u] = Tail(@)]
        /\ aim' = [aim EXCEPT ![u] = NoAim]
        /\ UNCHANGED db

Ends(u) ==
  /\ todo' = [todo EXCEPT ![u] = <<>>] /\ aim' = [aim EXCEPT ![u] = NoAim]
  /\ new' = [new EXCEPT ![u] = {}] /\ locks' = [locks EXCEPT ![u] = {}]

Commit(u) == db' = View(u) /\ Ends(u)

Deadlocked(u) ==
  LET waits == [v, w \in Users |-> Ready(v) /\ w \in Blockers(v)]
  IN TransitiveClosure(waits, Users)[u, u]

Rollback(u) ==
  /\ Ready(u)
  /\ \/ Blockers(u) = {} /\ Throws(u, Head(todo[u]))
     \/ Deadlocked(u)
  /\ UNCHANGED db /\ Ends(u)
=============================================================================
