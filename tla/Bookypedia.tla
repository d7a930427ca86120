----------------------------- MODULE Bookypedia -----------------------------
(***************************************************************************)
(* The catalogue of books (sprint4/problems/bookypedia-2/solution): the    *)
(* commands of ui/view.cpp as the use cases of app/use_cases_impl.cpp      *)
(* carry them out, by several users, each with a program and a connection  *)
(* of its own, on one database.  A command chooses an author or a book     *)
(* from what is in the tables, asks the user for the rest, and runs one    *)
(* transaction; EditBook and AddBook read once more before that.           *)
(*                                                                         *)
(* An exception is shown as "Failed to ..." and the next command read.     *)
(* The n-th command gives the ids n to what it adds.  The year of a book   *)
(* is treated like its title and left out, and so are commands that only   *)
(* show something and those refused at once for an empty name or title.    *)
(***************************************************************************)
EXTENDS Postgres

CONSTANTS Names, Titles, Tags,
          Keep,          \* an empty line in place of a new title
          MaxCommands    \* bound: commands of all users

ASSUME BookypediaAssumption ==
  /\ Keep \notin Titles /\ MaxCommands \in Nat
  /\ IsFiniteSet(Tags)   \* varchar(30)

VARIABLES
  stage,   \* of every user: "idle", "asked" (before the transaction), "working"
  cmd,     \* of every user, its last command
  count,   \* the number of commands so far
  told,    \* history: how every user's last command ended
  given    \* history: of every book, the title and tags of the last command that wrote it
vars == <<dbVars, stage, cmd, count, told, given>>

Author(id, name) == [table |-> "authors", id |-> id, name |-> name]
Book(id, title, author) == [table |-> "books", id |-> id, title |-> title, author |-> author]
Tag(n, b, tag) == [table |-> "tags", n |-> n, book |-> b, tag |-> tag]

Rows(table) == {r \in db : r.table = table}
NoCommand == [op |-> "none"]

\* What earlier sessions left: nothing, or one book of one author.
Init ==
  /\ \/ DbInit({}) /\ given = [b \in {} |-> {}]
     \/ \E n \in Names, t \in Titles, tags \in SUBSET Tags :
          /\ DbInit({Author(0, n), Book(0, t, 0)} \cup {Tag(0, 0, x) : x \in tags})
          /\ given = [b \in {0} |-> [title |-> t, tags |-> tags]]
  /\ stage = [u \in Users |-> "idle"] /\ cmd = [u \in Users |-> NoCommand]
  /\ told = [u \in Users |-> "nothing"] /\ count = 0

(***************************************************************************)
(* The statements of the use cases.                                        *)
(***************************************************************************)
SetTags(n, b, tags) ==
  Delete("tags", "book", b, FALSE)
  \o [i \in DOMAIN SetToSeq(tags) |-> Insert(Tag(n, b, SetToSeq(tags)[i]))]

SaveBook(n, title, author, tags) == <<Insert(Book(n, title, author))>> \o SetTags(n, n, tags)

DeleteAuthorWork(a) ==
  Delete("tags", "author", a, FALSE) \o Delete("books", "author", a, FALSE)
  \o Delete("authors", "id", a, TRUE)

DeleteBookWork(b) == Delete("tags", "book", b, FALSE) \o Delete("books", "id", b, FALSE)

EditAuthorWork_Unchecked(a, name) == <<Update(<<"authors", a>>, "name", name, FALSE)>>
EditAuthorWork(a, name) == <<Update(<<"authors", a>>, "name", name, TRUE)>>

EditBookWork_TagsFirst(n, b, title, tags) ==
  SetTags(n, b, tags) \o <<Update(<<"books", b>>, "title", title, FALSE)>>
EditBookWork(n, b, title, tags) ==
  <<Update(<<"books", b>>, "title", title, FALSE)>> \o SetTags(n, b, tags)

(***************************************************************************)
(* The commands.                                                           *)
(***************************************************************************)
Command(u, c) ==
  /\ stage[u] = "idle" /\ count < MaxCommands
  /\ count' = count + 1 /\ cmd' = [cmd EXCEPT ![u] = c]
  /\ UNCHANGED <<told, given>>

Work(u, statements) == stage' = [stage EXCEPT ![u] = "working"] /\ Begin(u, statements)
Ask(u) == stage' = [stage EXCEPT ![u] = "asked"] /\ UNCHANGED dbVars

N == count + 1

AddAuthor(u, name) ==
  /\ Command(u, [op |-> "AddAuthor", n |-> N, name |-> name])
  /\ Work(u, <<Insert(Author(N, name))>>)

DeleteAuthor(u, a) ==
  /\ Command(u, [op |-> "DeleteAuthor", author |-> a])
  /\ Work(u, DeleteAuthorWork(a))

EditAuthor(u, a, name) ==
  /\ Command(u, [op |-> "EditAuthor", author |-> a, name |-> name])
  /\ Work(u, EditAuthorWork(a, name))

DeleteBook(u, b) ==
  /\ Command(u, [op |-> "DeleteBook", book |-> b])
  /\ Work(u, DeleteBookWork(b))

\* An author that is there, from the list or by name, or the name of a new one.
AddBook(u, title, name, tags) ==
  LET c == [op |-> "AddBook", book |-> N, title |-> title, name |-> name, tags |-> tags]
      known == {r \in Rows("authors") : r.name = name}
  IN /\ Command(u, c)
     /\ IF known = {} THEN Ask(u)
        ELSE \E r \in known : Work(u, SaveBook(N, title, r.id, tags))

EditBook(u, b, title, tags) ==
  /\ Command(u, [op |-> "EditBook", n |-> N, book |-> b, title |-> title, tags |-> tags])
  /\ Ask(u)

\* AddBook of the use cases, for a name that was unknown to the view.
AuthorByName(u) ==
  LET c == cmd[u]
      known == {r \in Rows("authors") : r.name = c.name}
  IN /\ stage[u] = "asked" /\ c.op = "AddBook"
     /\ IF known = {}
        THEN Work(u, <<Insert(Author(c.book, c.name))>> \o SaveBook(c.book, c.title, c.book, c.tags))
        ELSE \E r \in known : Work(u, SaveBook(c.book, c.title, r.id, c.tags))
     /\ UNCHANGED <<cmd, count, told, given>>

Finish(u, answer) ==
  /\ stage' = [stage EXCEPT ![u] = "idle"] /\ told' = [told EXCEPT ![u] = answer]
  /\ UNCHANGED <<cmd, count>>

\* EditBook of the use cases: GetDetails, in a transaction of its own.
GetDetails(u) ==
  /\ stage[u] = "asked" /\ cmd[u].op = "EditBook"
  /\ LET c == cmd[u]
         found == {r \in Rows("books") : r.id = c.book}
     IN IF found = {}
        THEN Finish(u, "failed") /\ UNCHANGED <<dbVars, given>>
        ELSE \E r \in found :
               LET title == IF c.title = Keep THEN r.title ELSE c.title
               IN /\ cmd' = [cmd EXCEPT ![u].title = title]
                  /\ Work(u, EditBookWork(c.n, c.book, title, c.tags))
                  /\ UNCHANGED <<count, told, given>>

Statement(u) ==
  /\ Snapshot(u) \/ Execute(u)
  /\ UNCHANGED <<stage, cmd, count, told, given>>

Fails(u) == Rollback(u) /\ Finish(u, "failed") /\ UNCHANGED given

Commits(u) ==
  /\ stage[u] = "working" /\ todo[u] = <<>>
  /\ Commit(u) /\ Finish(u, "done")
  /\ LET c == cmd[u]
     IN given' = IF c.op \in {"AddBook", "EditBook"} /\ \E r \in View(u) : Key(r) = <<"books", c.book>>
                 THEN [b \in DOMAIN given \cup {c.book} |->
                         IF b = c.book THEN [title |-> c.title, tags |-> c.tags] ELSE given[b]]
                 ELSE given

\* Everybody may be gone.
Rest == (\A u \in Users : stage[u] = "idle") /\ UNCHANGED vars

Next ==
  \/ \E u \in Users :
       \/ \E name \in Names : AddAuthor(u, name)
       \/ \E a \in Rows("authors") : DeleteAuthor(u, a.id)
       \/ \E a \in Rows("authors"), name \in Names : EditAuthor(u, a.id, name)
       \/ \E title \in Titles, name \in Names, tags \in SUBSET Tags : AddBook(u, title, name, tags)
       \/ \E b \in Rows("books") : DeleteBook(u, b.id)
       \/ \E b \in Rows("books"), title \in Titles \cup {Keep}, tags \in SUBSET Tags :
            EditBook(u, b.id, title, tags)
       \/ AuthorByName(u) \/ GetDetails(u) \/ Statement(u) \/ Fails(u) \/ Commits(u)
  \/ Rest

Spec == Init /\ [][Next]_vars

(***************************************************************************)
(* Two edits of one book (use_cases_impl.cpp:140-159): the table has no    *)
(* key for tags, EditBook reads in one transaction and writes in another,  *)
(* and still a book has the title and the tags of one command, each tag    *)
(* once: the UPDATE that comes first keeps a second edit away until the    *)
(* commit.  A title that was kept is the one that was read, though a       *)
(* second user may have changed it since.                                  *)
(***************************************************************************)
BooksAreOfOneCommand ==
  \A r \in Rows("books") :
    LET tags == {x \in Rows("tags") : x.book = r.id}
    IN /\ r.title = given[r.id].title
       /\ {x.tag : x \in tags} = given[r.id].tags
       /\ Cardinality(tags) = Cardinality(given[r.id].tags)

(***************************************************************************)
(* A command that ends without "Failed to ..." has done what it was asked, *)
(* whatever happened to its author or book since the user chose it         *)
(* (postgres.cpp:55-69 count the rows, the constraints do the rest).       *)
(* Not so EditBook: an UPDATE of a book that is gone changes no row and    *)
(* goes unnoticed, unless there are tags to insert.                        *)
(***************************************************************************)
Fulfilled(c) ==
  LET books == {r \in Rows("books") : r.id = c.book}
      authors == {r \in Rows("authors") : r.id = c.author}
  IN CASE c.op = "AddAuthor"    -> Author(c.n, c.name) \in db
       [] c.op = "EditAuthor"   -> authors = {Author(c.author, c.name)}
       [] c.op = "DeleteAuthor" -> authors = {} /\ \A r \in Rows("books") : r.author # c.author
       [] c.op = "DeleteBook"   -> books = {} /\ \A r \in Rows("tags") : r.book # c.book
       [] c.op = "AddBook"      -> \E r \in books : r.title = c.title
       [] c.op = "EditBook"     -> \A r \in books : r.title = c.title

DoneMeansDone ==
  [][\A u \in Users :
       stage[u] # "idle" /\ stage'[u] = "idle" /\ told'[u] = "done" => Fulfilled(cmd[u])']_vars
=============================================================================
