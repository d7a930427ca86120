-------------------------- MODULE BookypediaProofs --------------------------
(***************************************************************************)
(* The catalogue of books, for any number of users and commands: a book    *)
(* has the title and the tags of one command, and a command that ends well *)
(* has done what it was asked.                                             *)
(*                                                                         *)
(* What is known of a user is said of its command c, the rows d of the     *)
(* database and the components t, a, w, L of its transaction (todo, aim,   *)
(* new, locks), so that a step of another user, which leaves these alone,  *)
(* leaves it as it was.                                                    *)
(***************************************************************************)
EXTENDS Bookypedia, FiniteSetTheorems, SequenceTheorems, TLAPS

Keys(S)      == {Key(r) : r \in S}
Number(r)    == IF r.table = "tags" THEN r.n ELSE r.id
AuthorKey(i) == <<"authors", i>>
BookKey(i)   == <<"books", i>>

IsRow(r) ==
  \/ r.table = "authors" /\ r = Author(r.id, r.name)
  \/ r.table = "books" /\ r = Book(r.id, r.title, r.author)
  \/ r.table = "tags" /\ r = Tag(r.n, r.book, r.tag)

\* Rows with the constraints of Database: primary and foreign keys.
Sound(d) ==
  /\ \A r \in d : IsRow(r) /\ References(r) \subseteq Keys(d)
  /\ \A r, q \in d : Key(r) = Key(q) => r = q

TagsOf(d, b) == {r \in d : r.table = "tags" /\ r.book = b}

WrittenIn(L)  == {p[1] : p \in {q \in L : q[2] # "KEY_SHARE"}}
Kept(d, L)    == {r \in d : Key(r) \notin WrittenIn(L)}
Locked(d, L)  == {r \in d : Key(r) \in WrittenIn(L)}
Seen(d, w, L) == Kept(d, L) \cup w

Modes == {"KEY_SHARE", "NO_KEY_UPDATE", "UPDATE"}

\* A lock is of a row that is there, and a renamed one is in the new rows.
LocksHold(d, w, L) ==
  /\ \A p \in L : p = <<p[1], p[2]>> /\ p[2] \in Modes /\ p[1] \in Keys(d) \cup Keys(w)
  /\ WrittenIn(L) \subseteq Keys(d)
  /\ \A p \in L : p[2] = "NO_KEY_UPDATE" => p[1] \in Keys(w)

\* The number that a command gives to what it adds.
OwnedBy(c, i) ==
  \/ c.op = "AddBook" /\ c.book = i
  \/ c.op \in {"AddAuthor", "EditBook"} /\ c.n = i

\* A new row has the command's number and keeps what it references, or it takes
\* the place of a row that the transaction has locked.
Replaces(d, r, L) ==
  \E q \in d : Key(q) = Key(r) /\ Key(q) \in WrittenIn(L) /\ References(q) = References(r)
NewRows(c, d, w, L) ==
  \A r \in w :
    /\ IsRow(r)
    /\ \/ OwnedBy(c, Number(r)) /\ \A k \in References(r) : <<k, "KEY_SHARE">> \in L
       \/ Replaces(d, r, L)

-----------------------------------------------------------------------------
(***************************************************************************)
(* Rows and keys.                                                          *)
(***************************************************************************)
LEMMA RowFacts ==
  ASSUME NEW r, IsRow(r)
  PROVE  /\ r.table \in {"authors", "books", "tags"}
         /\ r.table = "authors" => Key(r) = AuthorKey(r.id) /\ References(r) = {} /\ Number(r) = r.id
         /\ r.table = "books" => Key(r) = BookKey(r.id) /\ References(r) = {AuthorKey(r.author)} /\ Number(r) = r.id
         /\ r.table = "tags" => Key(r) = <<"tags", r.n, r.tag>> /\ References(r) = {BookKey(r.book)} /\ Number(r) = r.n
         /\ Key(r)[1] = r.table /\ Key(r)[2] = Number(r)
BY DEF IsRow, Key, References, AuthorKey, BookKey, Number

LEMMA AuthorFacts ==
  ASSUME NEW i, NEW x
  PROVE  LET r == Author(i, x)
         IN /\ IsRow(r) /\ r.table = "authors" /\ r.id = i /\ r.name = x
            /\ Key(r) = AuthorKey(i) /\ References(r) = {} /\ Number(r) = i
BY DEF IsRow, Author, Key, References, Number, AuthorKey

LEMMA BookFacts ==
  ASSUME NEW i, NEW x, NEW y
  PROVE  LET r == Book(i, x, y)
         IN /\ IsRow(r) /\ r.table = "books" /\ r.id = i /\ r.title = x /\ r.author = y
            /\ Key(r) = BookKey(i) /\ References(r) = {AuthorKey(y)} /\ Number(r) = i
BY DEF IsRow, Book, Key, References, Number, AuthorKey, BookKey

LEMMA TagFacts ==
  ASSUME NEW i, NEW x, NEW y
  PROVE  LET r == Tag(i, x, y)
         IN /\ IsRow(r) /\ r.table = "tags" /\ r.n = i /\ r.book = x /\ r.tag = y
            /\ Key(r) = <<"tags", i, y>> /\ References(r) = {BookKey(x)} /\ Number(r) = i
BY DEF IsRow, Tag, Key, References, Number, BookKey

LEMMA WrittenInIs ==
  ASSUME NEW L, NEW k
  PROVE  k \in WrittenIn(L) <=> \E p \in L : p[1] = k /\ p[2] # "KEY_SHARE"
BY DEF WrittenIn

LEMMA ClashIs ==
  ASSUME NEW m \in Modes, NEW n \in Modes
  PROVE  Clash(m, n) <=> ~ \/ m = "KEY_SHARE" /\ n # "UPDATE"
                           \/ n = "KEY_SHARE" /\ m # "UPDATE"
BY DEF Clash, Modes

LEMMA ViewIs ==
  ASSUME NEW u
  PROVE  Written(u) = WrittenIn(locks[u]) /\ View(u) = Seen(db, new[u], locks[u])
BY DEF Written, WrittenIn, View, Seen, Kept

-----------------------------------------------------------------------------
(***************************************************************************)
(* The statements of a transaction, as what is left of them.               *)
(***************************************************************************)
Then(s, rest) == <<s>> \o rest
IsSeq(s)      == \E S : s \in Seq(S)

Check == [op |-> "check"]
DeleteOf(table, column, value, strict) ==
  [op |-> "delete", table |-> table, column |-> column, value |-> value, strict |-> strict]
Checked(rest) == Then(Check, rest)

BookTags(b)   == DeleteOf("tags", "book", b, FALSE)
TheBook(b)    == DeleteOf("books", "id", b, FALSE)
ItsTags(a)    == DeleteOf("tags", "author", a, FALSE)
ItsBooks(a)   == DeleteOf("books", "author", a, FALSE)
TheAuthor(a)  == DeleteOf("authors", "id", a, TRUE)

Inserts(n, b, s)   == [i \in DOMAIN s |-> Insert(Tag(n, b, s[i]))]
FromBook(b)        == Then(TheBook(b), <<Check>>)
FromBookTags(b)    == Then(BookTags(b), Checked(FromBook(b)))
FromAuthor(a)      == Then(TheAuthor(a), <<Check>>)
FromItsBooks(a)    == Then(ItsBooks(a), Checked(FromAuthor(a)))
FromItsTags(a)     == Then(ItsTags(a), Checked(FromItsBooks(a)))
FromTags(n, b, s)  == Then(BookTags(b), Checked(Inserts(n, b, s)))

LEMMA ThenFacts ==
  ASSUME NEW s, NEW rest, IsSeq(rest)
  PROVE  /\ IsSeq(Then(s, rest)) /\ Then(s, rest) # <<>>
         /\ Head(Then(s, rest)) = s /\ Tail(Then(s, rest)) = rest
<1>1. PICK S : rest \in Seq(S)
  BY DEF IsSeq
<1>2. DEFINE T == S \cup {s}
<1>3. s \in T /\ rest \in Seq(T)
  BY <1>1
<1> HIDE DEF T
<1>4. <<s>> \in Seq(T) /\ <<s>> \o rest \in Seq(T)
  BY <1>3
<1>5. /\ <<s>> \o rest # <<>> /\ Head(<<s>> \o rest) = s /\ Tail(<<s>> \o rest) = rest
  BY <1>3, <1>4
<1> QED
  BY <1>4, <1>5 DEF IsSeq, Then

LEMMA OneStatement ==
  ASSUME NEW s
  PROVE  IsSeq(<<s>>) /\ <<s>> # <<>> /\ Head(<<s>>) = s /\ Tail(<<s>>) = <<>>
<1>1. <<s>> \in Seq({s})
  OBVIOUS
<1>2. IsSeq(<<s>>)
  BY <1>1 DEF IsSeq
<1>3. <<s>> # <<>> /\ Head(<<s>>) = s /\ Tail(<<s>>) = <<>>
  OBVIOUS
<1> QED
  BY <1>2, <1>3

LEMMA TwoStatements ==
  ASSUME NEW e, NEW f
  PROVE  <<e, f>> = <<e>> \o <<f>>
<1> DEFINE S == {e, f}
<1>1. e \in S /\ f \in S
  OBVIOUS
<1> HIDE DEF S
<1>2. /\ <<e>> \in Seq(S) /\ <<f>> \in Seq(S) /\ <<e, f>> \in Seq(S)
      /\ Len(<<e>>) = 1 /\ Len(<<f>>) = 1 /\ Len(<<e, f>>) = 2
  BY <1>1
<1>3. /\ <<e>> \o <<f>> \in Seq(S) /\ Len(<<e>> \o <<f>>) = 2
      /\ (<<e>> \o <<f>>)[1] = e /\ (<<e>> \o <<f>>)[2] = f
  BY <1>2
<1>4. \A i \in 1 .. 2 : i = 1 \/ i = 2
  OBVIOUS
<1>5. \A i \in 1 .. 2 : <<e, f>>[i] = (<<e>> \o <<f>>)[i]
  BY <1>3, <1>4
<1> QED
  BY <1>2, <1>3, <1>5, SeqEqual

\* Two deletions in a row, as lists and one statement at a time.
LEMMA DeleteThen ==
  ASSUME NEW table, NEW column, NEW value, NEW strict, NEW rest, IsSeq(rest)
  PROVE  /\ Delete(table, column, value, strict) \o rest
              = Then(DeleteOf(table, column, value, strict), Checked(rest))
         /\ IsSeq(Delete(table, column, value, strict) \o rest)
<1> DEFINE e == DeleteOf(table, column, value, strict)
           f == Check
<1>1. Delete(table, column, value, strict) = <<e, f>>
  BY DEF Delete, DeleteOf, Check
<1> HIDE DEF e, f
<1>2. PICK S : rest \in Seq(S)
  BY DEF IsSeq
<1> DEFINE T == S \cup {e, f}
<1>3. e \in T /\ f \in T /\ rest \in Seq(T)
  BY <1>2
<1> HIDE DEF T
<1>4. <<e>> \in Seq(T) /\ <<f>> \in Seq(T) /\ <<e, f>> = <<e>> \o <<f>>
  BY <1>3, TwoStatements
<1>5. <<e, f>> \o rest = <<e>> \o (<<f>> \o rest) /\ <<e, f>> \o rest \in Seq(T)
  BY <1>3, <1>4, ConcatAssociative, ConcatProperties
<1> QED
  BY <1>1, <1>5 DEF Then, Checked, IsSeq, e, f

LEMMA LastDelete ==
  ASSUME NEW table, NEW column, NEW value, NEW strict
  PROVE  /\ Delete(table, column, value, strict) = Then(DeleteOf(table, column, value, strict), <<Check>>)
         /\ IsSeq(Delete(table, column, value, strict))
<1> DEFINE e == DeleteOf(table, column, value, strict)
           f == Check
<1>1. Delete(table, column, value, strict) = <<e, f>>
  BY DEF Delete, DeleteOf, Check
<1> HIDE DEF e, f
<1> DEFINE T == {e, f}
<1>a. e \in T /\ f \in T
  OBVIOUS
<1> HIDE DEF T
<1>2. <<e, f>> = <<e>> \o <<f>> /\ <<e, f>> \in Seq(T)
  BY <1>a, TwoStatements
<1> QED
  BY <1>1, <1>2 DEF Then, IsSeq, e, f

LEMMA InsertsFacts ==
  ASSUME NEW n, NEW b, NEW s, IsSeq(s)
  PROVE  /\ IsSeq(Inserts(n, b, s))
         /\ Inserts(n, b, s) = <<>> => Range(s) = {}
         /\ Inserts(n, b, s) # <<>> =>
              \E x, rest : /\ IsSeq(rest) /\ Range(s) = {x} \cup Range(rest)
                           /\ Head(Inserts(n, b, s)) = Insert(Tag(n, b, x))
                           /\ Tail(Inserts(n, b, s)) = Inserts(n, b, rest)
<1>1. PICK S : s \in Seq(S)
  BY DEF IsSeq
<1> DEFINE J(x) == Insert(Tag(n, b, x))
           I == [i \in DOMAIN s |-> J(s[i])]
           R == {J(x) : x \in S}
<1>2. \A x \in S : J(x) \in R
  OBVIOUS
<1>3. I = Inserts(n, b, s)
  BY DEF Inserts
<1> HIDE DEF J, R
<1>4. /\ I \in Seq(R) /\ Len(I) = Len(s) /\ Len(s) \in Nat /\ DOMAIN s = 1 .. Len(s)
      /\ \A i \in 1 .. Len(s) : I[i] = J(s[i]) /\ s[i] \in S
  BY <1>1, <1>2
<1> HIDE DEF I
<1>5. CASE s = <<>>
  <2>1. Range(s) = {} /\ I = <<>>
    BY <1>4, <1>5 DEF Range
  <2> QED
    BY <1>3, <1>4, <2>1 DEF IsSeq
<1>6. CASE s # <<>>
  <2> DEFINE x == Head(s)
             rest == Tail(s)
  <2>1. /\ Len(s) > 0 /\ x = s[1] /\ rest \in Seq(S) /\ Len(rest) = Len(s) - 1
        /\ \A i \in 1 .. Len(s) - 1 : rest[i] = s[i + 1]
    BY <1>1, <1>6
  <2>2. DOMAIN rest = 1 .. Len(s) - 1
    BY <2>1
  <2>3. Range(s) = {x} \cup Range(rest)
    <3> HIDE DEF x, rest
    <3>1. ASSUME NEW z \in Range(s) PROVE z = x \/ z \in Range(rest)
      <4>1. PICK i \in 1 .. Len(s) : z = s[i]
        BY <1>4 DEF Range
      <4>2. i = 1 \/ (i - 1 \in 1 .. Len(s) - 1 /\ (i - 1) + 1 = i)
        BY <1>4, <4>1
      <4> QED
        BY <2>1, <2>2, <4>1, <4>2 DEF Range
    <3>2. ASSUME NEW z \in Range(rest) PROVE z \in Range(s)
      <4>1. PICK i \in 1 .. Len(s) - 1 : z = rest[i]
        BY <2>2 DEF Range
      <4>2. i + 1 \in 1 .. Len(s)
        BY <1>4, <4>1
      <4> QED
        BY <1>4, <2>1, <4>1, <4>2 DEF Range
    <3>3. x \in Range(s)
      <4>1. 1 \in 1 .. Len(s)
        BY <1>4, <2>1
      <4> QED
        BY <1>4, <2>1, <4>1 DEF Range
    <3> QED
      BY <3>1, <3>2, <3>3
  <2>4. I # <<>> /\ Head(I) = J(x) /\ Tail(I) \in Seq(R) /\ Len(Tail(I)) = Len(s) - 1
    BY <1>4, <2>1
  <2>5. Tail(I) = [i \in DOMAIN rest |-> J(rest[i])]
    <3> HIDE DEF x, rest
    <3>1. DOMAIN Tail(I) = 1 .. Len(s) - 1
      BY <2>4
    <3>2. ASSUME NEW i \in 1 .. Len(s) - 1 PROVE Tail(I)[i] = J(rest[i])
      <4>1. i + 1 \in 1 .. Len(s)
        BY <1>4
      <4>2. Tail(I)[i] = I[i + 1]
        BY <1>4, <2>4
      <4> QED
        BY <1>4, <2>1, <4>1, <4>2
    <3>3. Tail(I) = [i \in 1 .. Len(s) - 1 |-> Tail(I)[i]]
      <4>1. Tail(I) \in [1 .. Len(Tail(I)) -> R]
        BY <2>4, LenProperties
      <4> QED
        BY <2>4, <4>1
    <3> QED
      BY <2>2, <3>2, <3>3
  <2>6. IsSeq(rest) /\ IsSeq(I)
    BY <1>4, <2>1 DEF IsSeq
  <2> QED
    BY <1>3, <2>3, <2>4, <2>5, <2>6 DEF J, Inserts
<1> QED
  BY <1>5, <1>6

\* SetToSeq enumerates a finite set.
LEMMA SetToSeqRange ==
  ASSUME NEW S, IsFiniteSet(S)
  PROVE  IsSeq(SetToSeq(S)) /\ Range(SetToSeq(S)) = S
<1> DEFINE n == Cardinality(S)
           s == SetToSeq(S)
<1>1. n \in Nat /\ ExistsBijection(1 .. n, S)
  BY FS_CardinalityType
<1>2. PICK g : g \in Bijection(1 .. n, S)
  BY <1>1 DEF ExistsBijection
<1>3. g \in [1 .. n -> S] /\ IsInjective(g)
  BY <1>2 DEF Bijection, Injection, IsInjective
<1>4. s \in [1 .. n -> S] /\ IsInjective(s)
  BY <1>3 DEF SetToSeq
<1> HIDE DEF s
<1>5. s \in Injection(1 .. n, S)
  BY <1>4 DEF Injection, IsInjective
<1>6. IsFiniteSet(1 .. n) /\ Cardinality(1 .. n) = n
  BY <1>1, FS_Interval
<1>7. s \in Surjection(1 .. n, S)
  BY <1>5, <1>6, FS_Injection
<1>8. Range(s) = S
  BY <1>7 DEF Surjection, Range
<1>9. s \in Seq(S)
  BY <1>1, <1>4
<1> QED
  BY <1>8, <1>9 DEF IsSeq, s

-----------------------------------------------------------------------------
(***************************************************************************)
(* How far a command has come: what is left to do, what it has written and *)
(* what it holds.                                                          *)
(***************************************************************************)
AddingAuthor(c, t, w, L) ==
  LET r == Author(c.n, c.name)
  IN L = {} /\ \/ t = <<Insert(r)>> /\ w = {}
               \/ t = <<>> /\ w = {r}

EditingAuthor(c, t, a, w, L) ==
  LET k == AuthorKey(c.author)
  IN \/ /\ t = EditAuthorWork(c.author, c.name) /\ w = {} /\ L = {}
        /\ a # NoAim => a \subseteq {k}
     \/ t = <<>> /\ w = {Author(c.author, c.name)} /\ L = {<<k, "UPDATE">>}

\* No row that is left references one that the transaction has deleted.
Unreferenced(d, L) == \A r \in Kept(d, L) : References(r) \cap WrittenIn(L) = {}

\* The books of the tags that are locked are among K.
TagsWithin(d, L, K) == \A r \in Locked(d, L) : r.table = "tags" => BookKey(r.book) \in K

Gone(d, b) == BookKey(b) \notin Keys(d)

DeletingBook(c, d, t, a, w, L) ==
  LET b == c.book
      held == Gone(d, b) \/ BookKey(b) \in WrittenIn(L)
  IN /\ w = {} /\ \A p \in L : p[2] = "UPDATE"
     /\ TagsWithin(d, L, {BookKey(b)})
     /\ \/ /\ t = FromBookTags(b)
           /\ a # NoAim => \A r \in d : Key(r) \in a => r.table = "tags" /\ r.book = b
        \/ t = Checked(FromBook(b))
        \/ t = FromBook(b) /\ (a # NoAim => a \subseteq {BookKey(b)} /\ (held \/ BookKey(b) \in a))
        \/ t = <<Check>> /\ held
        \/ t = <<>> /\ held /\ Unreferenced(d, L)

\* The tags that the subselect finds: those of the books of an author.
ByAuthor(d, r, i) ==
  r.table = "tags" /\ \E q \in d : q.table = "books" /\ q.id = r.book /\ q.author = i

DeletingAuthor(c, d, t, a, w, L) ==
  LET i == c.author
      onlyTags == \A r \in Locked(d, L) : r.table = "tags"
      closed == TagsWithin(d, L, WrittenIn(L))
  IN /\ w = {} /\ \A p \in L : p[2] = "UPDATE"
     /\ \A r \in Locked(d, L) : r.table = "tags" => ByAuthor(d, r, i)
     /\ \/ /\ t = FromItsTags(i) /\ onlyTags
           /\ a # NoAim => \A r \in d : Key(r) \in a => ByAuthor(d, r, i)
        \/ t = Checked(FromItsBooks(i)) /\ onlyTags
        \/ /\ t = FromItsBooks(i) /\ onlyTags
           /\ a # NoAim => TagsWithin(d, L, a) /\ \A k \in a : k[1] = "books"
        \/ t = Checked(FromAuthor(i)) /\ closed
        \/ t = FromAuthor(i) /\ closed /\ (a # NoAim => a \subseteq {AuthorKey(i)})
        \/ t = <<Check>> /\ closed /\ AuthorKey(i) \in WrittenIn(L)
        \/ t = <<>> /\ closed /\ AuthorKey(i) \in WrittenIn(L) /\ Unreferenced(d, L)

\* The book of the command is among the new rows, with the tags of D; those of s
\* are still to be inserted.
WritingTags(c, d, t, a, w, L, n, b, others) ==
  \E author, s, D :
    /\ IsSeq(s) /\ D \cup Range(s) = c.tags
    /\ w = others \cup {Book(b, c.title, author)} \cup {Tag(n, b, x) : x \in D}
    /\ \A r \in Locked(d, L) : Key(r) = BookKey(b) \/ r \in TagsOf(d, b)
    /\ \/ /\ t = FromTags(n, b, s) /\ D = {}
          /\ a # NoAim => a \subseteq Keys(TagsOf(d, b)) /\ Keys(TagsOf(d, b)) \subseteq a \cup WrittenIn(L)
       \/ /\ t \in {Checked(Inserts(n, b, s)), Inserts(n, b, s)}
          /\ Keys(TagsOf(d, b)) \subseteq WrittenIn(L)

\* The UPDATE of EditBook has found the book, which its lock keeps to this edit, or
\* it has not, and then only an edit without tags ends.
BeforeUpdate(c, d, t, a, w, L) ==
  LET k == BookKey(c.book)
  IN /\ \E s : /\ IsSeq(s) /\ Range(s) = c.tags
               /\ t = Then(Update(k, "title", c.title, FALSE), FromTags(c.n, c.book, s))
     /\ w = {} /\ L = {}
     /\ a # NoAim => a \subseteq {k} /\ (Gone(d, c.book) \/ k \in a)
Missed(c, d, t, a, w, L) ==
  /\ Gone(d, c.book) /\ w = {} /\ L = {}
  /\ a # NoAim => a = {}
  /\ \E s : IsSeq(s) /\ t \in {FromTags(c.n, c.book, s), Checked(Inserts(c.n, c.book, s)), Inserts(c.n, c.book, s)}
EditingBook(c, d, t, a, w, L) ==
  \/ BeforeUpdate(c, d, t, a, w, L)
  \/ <<BookKey(c.book), "NO_KEY_UPDATE">> \in L /\ WritingTags(c, d, t, a, w, L, c.n, c.book, {})
  \/ Missed(c, d, t, a, w, L)

\* SaveBook, after the INSERT of the author if that is a new one.
BeforeBook(c, t, w, L) ==
  /\ L = {}
  /\ \E s, author :
       LET rest == Then(Insert(Book(c.book, c.title, author)), FromTags(c.book, c.book, s))
       IN /\ IsSeq(s) /\ Range(s) = c.tags
          /\ \/ w \in {{}, {Author(c.book, c.name)}} /\ t = rest
             \/ w = {} /\ t = Then(Insert(Author(c.book, c.name)), rest)
AddingBook(c, d, t, a, w, L) ==
  /\ \A p \in L : p[2] = "KEY_SHARE"
  /\ \/ BeforeBook(c, t, w, L)
     \/ \E others \in {{}, {Author(c.book, c.name)}} :
          WritingTags(c, d, t, a, w, L, c.book, c.book, others)

Progress(c, d, t, a, w, L) ==
  /\ c.op = "AddAuthor"    => AddingAuthor(c, t, w, L)
  /\ c.op = "EditAuthor"   => EditingAuthor(c, t, a, w, L)
  /\ c.op = "DeleteAuthor" => DeletingAuthor(c, d, t, a, w, L)
  /\ c.op = "DeleteBook"   => DeletingBook(c, d, t, a, w, L)
  /\ c.op = "EditBook"     => EditingBook(c, d, t, a, w, L)
  /\ c.op = "AddBook"      => AddingBook(c, d, t, a, w, L)

IsCommand(c) ==
  /\ c.op \in {"AddAuthor", "EditAuthor", "DeleteAuthor", "AddBook", "EditBook", "DeleteBook"}
  /\ c.op \in {"AddBook", "EditBook"} => c.tags \subseteq Tags
  /\ c.op = "EditBook" => "title" \in DOMAIN c

\* An aim is of rows of others, and there is none for an INSERT or a check.
AimOK(t, a, w) ==
  /\ t = <<>> => a = NoAim
  /\ a # NoAim => a \cap Keys(w) = {}
  /\ a # NoAim /\ Head(t).op \in {"insert", "check"} => a = {}

\* A transaction on its way, and a user without one.
Running(c, d, t, a, w, L) ==
  /\ Progress(c, d, t, a, w, L) /\ AimOK(t, a, w)
  /\ LocksHold(d, w, L) /\ NewRows(c, d, w, L)
Resting(t, a, w, L) == t = <<>> /\ a = NoAim /\ w = {} /\ L = {}

UserIs(st, c, d, t, a, w, L) ==
  \/ st = "idle" /\ Resting(t, a, w, L)
  \/ st = "asked" /\ IsCommand(c) /\ c.op \in {"AddBook", "EditBook"} /\ Resting(t, a, w, L)
  \/ st = "working" /\ IsCommand(c) /\ Running(c, d, t, a, w, L)

-----------------------------------------------------------------------------
(***************************************************************************)
(* The numbers that were given out and are not of a command under way.     *)
(***************************************************************************)
Owns(u, i) == stage[u] # "idle" /\ OwnedBy(cmd[u], i)
Issued == {i \in 0 .. count : \A v \in Users : ~Owns(v, i)}

\* A command has a number of its own and is about something that is there or was.
Numbered(u) ==
  stage[u] # "idle" =>
    /\ \A i : OwnedBy(cmd[u], i) => i \in 0 .. count
    /\ \A v \in Users \ {u} : \A i : OwnedBy(cmd[u], i) => ~Owns(v, i)
    /\ cmd[u].op \in {"EditBook", "DeleteBook"} => cmd[u].book \in Issued
    /\ cmd[u].op \in {"EditAuthor", "DeleteAuthor"} => cmd[u].author \in Issued
    /\ aim[u] # NoAim => \A k \in aim[u] : k[2] \in Issued

\* The locks of two users do not clash.
Apart(L, M) == \A p \in L, q \in M : p[1] = q[1] => ~Clash(p[2], q[2])

\* What BooksAreOfOneCommand says of a row, with the number of that command.
BookIsWhole(d, g, r) ==
  /\ r.id \in DOMAIN g /\ r.title = g[r.id].title /\ g[r.id].tags \subseteq Tags
  /\ \E n : TagsOf(d, r.id) = {Tag(n, r.id, x) : x \in g[r.id].tags}

Functions ==
  /\ stage = [u \in Users |-> stage[u]] /\ cmd = [u \in Users |-> cmd[u]]
  /\ told = [u \in Users |-> told[u]]
  /\ todo = [u \in Users |-> todo[u]] /\ aim = [u \in Users |-> aim[u]]
  /\ new = [u \in Users |-> new[u]] /\ locks = [u \in Users |-> locks[u]]

CatalogueOK ==
  /\ Sound(db) /\ \A r \in db : Number(r) \in Issued
  /\ \A r \in Rows("books") : BookIsWhole(db, given, r)

BookInv ==
  /\ Functions /\ count \in Nat
  /\ CatalogueOK
  /\ \A u \in Users : UserIs(stage[u], cmd[u], db, todo[u], aim[u], new[u], locks[u]) /\ Numbered(u)
  /\ \A u, v \in Users : u # v => Apart(locks[u], locks[v])

-----------------------------------------------------------------------------
(***************************************************************************)
(* One statement.                                                          *)
(***************************************************************************)
Hit(d, a, L) == {r \in Kept(d, L) : Key(r) \in a}

\* The snapshot of a statement s, and what it does with the rows it has aimed at.
AimOf(d, s, w, L) ==
  CASE s.op = "update" -> {Key(r) : r \in {x \in Seen(d, w, L) : Key(x) = s.key}}
    [] s.op = "delete" -> {Key(r) : r \in {x \in Seen(d, w, L) : Matches(x, s, Seen(d, w, L))}}
    [] OTHER -> {}

Does(d, s, a, w, L, w2, L2) ==
  \/ /\ s.op = "insert" /\ References(s.row) \subseteq Keys(Seen(d, w, L))
     /\ w2 = w \cup {s.row} /\ L2 = L \cup (References(s.row) \X {"KEY_SHARE"})
  \/ /\ s.op = "check" /\ \A r \in Seen(d, w, L) : References(r) \subseteq Keys(Seen(d, w, L))
     /\ w2 = w /\ L2 = L
  \/ /\ s.op = "update" /\ (s.strict => Hit(d, a, L) # {})
     /\ w2 = w \cup {[r EXCEPT ![s.field] = s.value] : r \in Hit(d, a, L)}
     /\ L2 = L \cup (Keys(Hit(d, a, L)) \X {Mode(s)})
  \/ /\ s.op = "delete" /\ (s.strict => Hit(d, a, L) # {})
     /\ w2 = w /\ L2 = L \cup (Keys(Hit(d, a, L)) \X {"UPDATE"})

\* The statements that a command may have.
Fits(c, s, a, w) ==
  \/ s.op = "insert" /\ IsRow(s.row) /\ OwnedBy(c, Number(s.row))
  \/ s.op \in {"check", "delete"}
  \/ /\ s.op = "update" /\ w = {}
     /\ \E i : \/ a \subseteq {AuthorKey(i)} /\ s.field = "name"
               \/ a \subseteq {BookKey(i)} /\ s.field = "title"

LEMMA SnapshotDoes ==
  ASSUME NEW u \in Users, Functions, Snapshot(u)
  PROVE  /\ todo[u] # <<>> /\ aim[u] = NoAim
         /\ aim'[u] = AimOf(db, Head(todo[u]), new[u], locks[u])
         /\ \A v \in Users \ {u} : aim'[v] = aim[v]
         /\ UNCHANGED <<db, todo, new, locks>>
<1> DEFINE s == Head(todo[u])
           V == View(u)
           a == CASE s.op = "update" -> {Key(r) : r \in {x \in V : Key(x) = s.key}}
                  [] s.op = "delete" -> {Key(r) : r \in {x \in V : Matches(x, s, V)}}
                  [] OTHER -> {}
<1>1. /\ todo[u] # <<>> /\ aim[u] = NoAim /\ aim' = [aim EXCEPT ![u] = a]
      /\ UNCHANGED <<db, todo, new, locks>>
  BY DEF Snapshot
<1>2. a = AimOf(db, s, new[u], locks[u])
  BY ViewIs DEF AimOf
<1> HIDE DEF a
<1> QED
  BY <1>1, <1>2 DEF Functions

LEMMA ExecuteDoes ==
  ASSUME NEW u \in Users, Functions, Execute(u), AimOK(todo[u], aim[u], new[u]),
         Fits(cmd[u], Head(todo[u]), aim[u], new[u])
  PROVE  /\ todo[u] # <<>> /\ aim[u] # NoAim
         /\ Does(db, Head(todo[u]), aim[u], new[u], locks[u], new'[u], locks'[u])
         /\ todo'[u] = Tail(todo[u]) /\ aim'[u] = NoAim
         /\ \A v \in Users \ {u} : /\ todo'[v] = todo[v] /\ aim'[v] = aim[v]
                                   /\ new'[v] = new[v] /\ locks'[v] = locks[v]
         /\ db' = db
<1> DEFINE s == Head(todo[u])
           V == View(u)
           rows == {r \in V : Key(r) \in aim[u]}
           hit == Hit(db, aim[u], locks[u])
           w2 == CASE s.op = "insert" -> new[u] \cup {s.row}
                   [] s.op = "update" -> (new[u] \ rows) \cup {[r EXCEPT ![s.field] = s.value] : r \in rows}
                   [] OTHER           -> new[u] \ rows
           L2 == locks[u] \cup
                   IF s.op = "insert" THEN References(s.row) \X {"KEY_SHARE"}
                   ELSE IF s.op = "check" THEN {} ELSE {Key(r) : r \in rows} \X {Mode(s)}
<1>1. /\ todo[u] # <<>> /\ aim[u] # NoAim /\ ~Throws(u, s)
      /\ new' = [new EXCEPT ![u] = w2] /\ locks' = [locks EXCEPT ![u] = L2]
      /\ todo' = [todo EXCEPT ![u] = Tail(todo[u])] /\ aim' = [aim EXCEPT ![u] = NoAim] /\ db' = db
  BY DEF Execute, Ready
<1>2. V = Seen(db, new[u], locks[u])
  BY ViewIs
<1>3. rows = hit /\ new[u] \ rows = new[u]
  BY <1>1, <1>2 DEF AimOK, Hit, Seen, Keys
<1>4. new'[u] = w2 /\ locks'[u] = L2
  BY <1>1 DEF Functions
<1>5. Does(db, s, aim[u], new[u], locks[u], w2, L2)
  <2> HIDE DEF V, s
  <2>1. CASE s.op = "insert"
    <3>1. References(s.row) \subseteq Keys(V)
      BY <1>1, <2>1 DEF Throws, Keys, V
    <3> QED
      BY <1>2, <2>1, <3>1 DEF Does
  <2>2. CASE s.op = "check"
    <3>1. \A r \in V : References(r) \subseteq Keys(V)
      BY <1>1, <2>2 DEF Throws, Dangling, Keys, V
    <3>2. w2 = new[u] /\ L2 = locks[u]
      BY <1>3, <2>2
    <3> HIDE DEF w2, L2
    <3> QED
      BY <1>2, <2>2, <3>1, <3>2 DEF Does
  <2>3. CASE s.op = "update"
    <3>1. /\ w2 = new[u] \cup {[r EXCEPT ![s.field] = s.value] : r \in hit}
          /\ L2 = locks[u] \cup (Keys(hit) \X {Mode(s)})
      BY <1>3, <2>3 DEF Keys
    <3>2. s.strict => rows # {}
      BY <1>1, <2>3 DEF Throws, V
    <3>3. s.strict => hit # {}
      BY <1>3, <3>2
    <3> HIDE DEF w2, L2, hit, rows
    <3> QED
      BY <2>3, <3>1, <3>3 DEF Does, hit
  <2>4. CASE s.op = "delete"
    <3>1. s.strict => rows # {}
      BY <1>1, <2>4 DEF Throws, V
    <3>2. Mode(s) = "UPDATE"
      BY <2>4 DEF Mode
    <3>3. w2 = new[u] /\ L2 = locks[u] \cup (Keys(hit) \X {"UPDATE"})
      BY <1>3, <2>4, <3>2 DEF Keys
    <3>4. s.strict => hit # {}
      BY <1>3, <3>1
    <3> HIDE DEF w2, L2, hit, rows
    <3> QED
      BY <2>4, <3>3, <3>4 DEF Does, hit
  <2> QED
    BY <2>1, <2>2, <2>3, <2>4 DEF Fits, s
<1> HIDE DEF w2, L2
<1>6. \A v \in Users \ {u} : /\ todo'[v] = todo[v] /\ aim'[v] = aim[v]
                             /\ new'[v] = new[v] /\ locks'[v] = locks[v]
  BY <1>1 DEF Functions
<1>7. todo'[u] = Tail(todo[u]) /\ aim'[u] = NoAim
  BY <1>1 DEF Functions
<1> QED
  BY <1>1, <1>4, <1>5, <1>6, <1>7

\* A renamed row keeps its key and what it references.
LEMMA Renamed ==
  ASSUME NEW r, IsRow(r), NEW field, NEW x,
         \/ r.table = "authors" /\ field = "name"
         \/ r.table = "books" /\ field = "title"
  PROVE  /\ IsRow([r EXCEPT ![field] = x])
         /\ Key([r EXCEPT ![field] = x]) = Key(r) /\ References([r EXCEPT ![field] = x]) = References(r)
         /\ r.table = "authors" => [r EXCEPT ![field] = x] = Author(r.id, x)
         /\ r.table = "books" => [r EXCEPT ![field] = x] = Book(r.id, x, r.author)
<1>1. CASE r.table = "authors"
  <2> DEFINE i == r.id
             m == r.name
  <2>1. r = Author(i, m)
    BY <1>1 DEF IsRow
  <2>2. field = "name"
    BY <1>1
  <2> HIDE DEF i, m
  <2>3. [Author(i, m) EXCEPT !["name"] = x] = Author(i, x)
    BY DEF Author
  <2> DEFINE q == [r EXCEPT ![field] = x]
  <2>4. q = Author(i, x)
    BY <2>1, <2>2, <2>3
  <2>5. IsRow(Author(i, x)) /\ IsRow(r)
    BY AuthorFacts
  <2> HIDE DEF q
  <2>6. IsRow(q) /\ Key(q) = Key(r) /\ References(q) = References(r)
    <3>1. IsRow(q) /\ Key(q) = AuthorKey(i) /\ References(q) = {}
      BY <2>4, <2>5, AuthorFacts
    <3>2. Key(r) = AuthorKey(i) /\ References(r) = {}
      BY <1>1, <2>5, RowFacts DEF i
    <3> QED
      BY <3>1, <3>2
  <2> QED
    BY <1>1, <2>4, <2>6 DEF i, q
<1>2. CASE r.table = "books"
  <2> DEFINE i == r.id
             m == r.title
             z == r.author
  <2>1. r = Book(i, m, z)
    BY <1>2 DEF IsRow
  <2>2. field = "title"
    BY <1>2
  <2> HIDE DEF i, m, z
  <2>3. [Book(i, m, z) EXCEPT !["title"] = x] = Book(i, x, z)
    BY DEF Book
  <2> DEFINE q == [r EXCEPT ![field] = x]
  <2>4. q = Book(i, x, z)
    BY <2>1, <2>2, <2>3
  <2>5. IsRow(Book(i, x, z)) /\ IsRow(r)
    BY BookFacts
  <2> HIDE DEF q
  <2>6. IsRow(q) /\ Key(q) = Key(r) /\ References(q) = References(r)
    <3>1. IsRow(q) /\ Key(q) = BookKey(i) /\ References(q) = {AuthorKey(z)}
      BY <2>4, <2>5, BookFacts
    <3>2. Key(r) = BookKey(i) /\ References(r) = {AuthorKey(z)}
      BY <1>2, <2>5, RowFacts DEF i, z
    <3> QED
      BY <3>1, <3>2
  <2> QED
    BY <1>2, <2>4, <2>6 DEF i, z, q
<1> QED
  BY <1>1, <1>2

LEMMA PairFacts ==
  ASSUME NEW K, NEW m, NEW p \in K \X {m}
  PROVE  p = <<p[1], p[2]>> /\ p[1] \in K /\ p[2] = m
OBVIOUS

LEMMA WrittenGrows ==
  ASSUME NEW L, NEW K, NEW m
  PROVE  WrittenIn(L \cup (K \X {m})) = IF m = "KEY_SHARE" THEN WrittenIn(L) ELSE WrittenIn(L) \cup K
<1> DEFINE P == K \X {m}
           M == L \cup P
<1>1. \A p \in P : p[1] \in K /\ p[2] = m
  BY PairFacts
<1>2. \A k \in K : <<k, m>> \in P /\ <<k, m>>[1] = k /\ <<k, m>>[2] = m
  OBVIOUS
<1>3. \A p : p \in M <=> p \in L \/ p \in P
  OBVIOUS
<1> HIDE DEF P, M
<1>4. /\ \A k : k \in WrittenIn(M) <=> \E p \in M : p[1] = k /\ p[2] # "KEY_SHARE"
      /\ \A k : k \in WrittenIn(L) <=> \E p \in L : p[1] = k /\ p[2] # "KEY_SHARE"
  BY WrittenInIs
<1>5. ASSUME NEW k
      PROVE  k \in WrittenIn(M) <=> k \in WrittenIn(L) \/ (m # "KEY_SHARE" /\ k \in K)
  <2>1. k \in WrittenIn(M) => k \in WrittenIn(L) \/ (m # "KEY_SHARE" /\ k \in K)
    BY <1>1, <1>3, <1>4
  <2>2. m # "KEY_SHARE" /\ k \in K => k \in WrittenIn(M)
    BY <1>2, <1>3, <1>4
  <2>3. k \in WrittenIn(L) => k \in WrittenIn(M)
    BY <1>3, <1>4
  <2> QED
    BY <2>1, <2>2, <2>3
<1> QED
  BY <1>5 DEF M, P

\* What a transaction has locked for writing after a statement.
LEMMA WrittenAfter ==
  ASSUME NEW d, NEW s, NEW a, NEW w, NEW L, NEW w2, NEW L2, Does(d, s, a, w, L, w2, L2)
  PROVE  WrittenIn(L2) = IF s.op \in {"update", "delete"} THEN WrittenIn(L) \cup (a \cap Keys(d)) ELSE WrittenIn(L)
<1> DEFINE hit == Keys(Hit(d, a, L))
<1>1. WrittenIn(L) \cup hit = WrittenIn(L) \cup (a \cap Keys(d))
  BY DEF Hit, Kept, Keys
<1>2. Mode(s) # "KEY_SHARE"
  BY DEF Mode
<1> HIDE DEF hit
<1>3. CASE s.op = "insert"
  <2>1. L2 = L \cup (References(s.row) \X {"KEY_SHARE"})
    BY <1>3 DEF Does
  <2>2. WrittenIn(L2) = WrittenIn(L)
    BY <2>1, WrittenGrows
  <2> QED
    BY <1>3, <2>2
<1>4. CASE s.op = "check"
  <2>1. L2 = L
    BY <1>4 DEF Does
  <2> QED
    BY <1>4, <2>1
<1>5. CASE s.op = "update"
  <2>1. L2 = L \cup (hit \X {Mode(s)})
    BY <1>5 DEF Does, hit
  <2> QED
    BY <1>1, <1>2, <1>5, <2>1, WrittenGrows
<1>6. CASE s.op = "delete"
  <2>1. L2 = L \cup (hit \X {"UPDATE"})
    BY <1>6 DEF Does, hit
  <2> QED
    BY <1>1, <1>6, <2>1, WrittenGrows
<1> QED
  BY <1>3, <1>4, <1>5, <1>6 DEF Does

\* Locks and new rows only grow.
LEMMA StepGrows ==
  ASSUME NEW d, NEW s, NEW a, NEW w, NEW L, NEW w2, NEW L2, Does(d, s, a, w, L, w2, L2)
  PROVE  w \subseteq w2 /\ L \subseteq L2
BY DEF Does

LEMMA StepLocks ==
  ASSUME NEW c, NEW d, NEW s, NEW a, NEW w, NEW L, NEW w2, NEW L2,
         Sound(d), LocksHold(d, w, L), Fits(c, s, a, w), Does(d, s, a, w, L, w2, L2)
  PROVE  LocksHold(d, w2, L2)
<1>1. /\ \A p \in L : p = <<p[1], p[2]>> /\ p[2] \in Modes /\ p[1] \in Keys(d) \cup Keys(w)
      /\ WrittenIn(L) \subseteq Keys(d)
      /\ \A p \in L : p[2] = "NO_KEY_UPDATE" => p[1] \in Keys(w)
  BY DEF LocksHold
<1>2. w \subseteq w2 /\ Keys(w) \subseteq Keys(w2)
  BY StepGrows DEF Keys
<1>3. WrittenIn(L2) \subseteq Keys(d)
  <2>1. WrittenIn(L2) \in {WrittenIn(L), WrittenIn(L) \cup (a \cap Keys(d))}
    BY WrittenAfter
  <2> QED
    BY <1>1, <2>1
<1>4. ASSUME NEW p \in L2, p \notin L
      PROVE  /\ p = <<p[1], p[2]>> /\ p[2] \in Modes /\ p[1] \in Keys(d) \cup Keys(w2)
             /\ p[2] = "NO_KEY_UPDATE" => p[1] \in Keys(w2)
  <2> DEFINE hit == Hit(d, a, L)
  <2>1. hit \subseteq d /\ Keys(hit) \subseteq Keys(d)
    BY DEF Hit, Kept, Keys
  <2> HIDE DEF hit
  <2>2. CASE s.op = "insert"
    <3> DEFINE R == References(s.row)
               m == "KEY_SHARE"
    <3>1. R \subseteq Keys(Seen(d, w, L))
      BY <2>2 DEF Does
    <3>4. p \in R \X {m}
      BY <1>4, <2>2 DEF Does
    <3> HIDE DEF R, m
    <3>2. Keys(Seen(d, w, L)) \subseteq Keys(d) \cup Keys(w)
      BY DEF Seen, Kept, Keys
    <3>3. p = <<p[1], p[2]>> /\ p[1] \in R /\ p[2] = m
      BY <3>4, PairFacts
    <3> QED
      BY <1>2, <3>1, <3>2, <3>3 DEF Modes, m
  <2>3. CASE s.op = "check"
    BY <1>4, <2>3 DEF Does
  <2>4. CASE s.op = "delete"
    <3>1. p \in Keys(hit) \X {"UPDATE"}
      BY <1>4, <2>4 DEF Does, hit
    <3>2. p = <<p[1], p[2]>> /\ p[1] \in Keys(hit) /\ p[2] = "UPDATE"
      BY <3>1, PairFacts
    <3> QED
      BY <2>1, <3>2 DEF Modes
  <2>5. CASE s.op = "update"
    <3>1. p \in Keys(hit) \X {Mode(s)} /\ Mode(s) \in Modes
      BY <1>4, <2>5 DEF Does, hit, Mode, Modes
    <3>2. Keys(hit) \subseteq Keys(w2)
      <4> SUFFICES ASSUME NEW r \in hit PROVE Key(r) \in Keys(w2)
        BY DEF Keys
      <4> DEFINE q == [r EXCEPT ![s.field] = s.value]
      <4>1. q \in w2
        BY <2>5 DEF Does, hit
      <4>2. IsRow(r) /\ Key(r) \in a
        BY <2>1 DEF Sound, hit, Hit
      <4>3. \/ Key(r)[1] = "authors" /\ s.field = "name"
            \/ Key(r)[1] = "books" /\ s.field = "title"
        BY <2>5, <4>2 DEF Fits, AuthorKey, BookKey
      <4>4. Key(q) = Key(r)
        BY <4>2, <4>3, RowFacts, Renamed
      <4> HIDE DEF q
      <4> QED
        BY <4>1, <4>4 DEF Keys
    <3>3. p = <<p[1], p[2]>> /\ p[1] \in Keys(hit) /\ p[2] = Mode(s)
      BY <3>1, PairFacts
    <3> QED
      BY <2>1, <3>1, <3>2, <3>3
  <2> QED
    BY <2>2, <2>3, <2>4, <2>5 DEF Does
<1> QED
  BY <1>1, <1>2, <1>3, <1>4 DEF LocksHold

LEMMA StepRows ==
  ASSUME NEW c, NEW d, NEW s, NEW a, NEW w, NEW L, NEW w2, NEW L2,
         Sound(d), NewRows(c, d, w, L), Fits(c, s, a, w), Does(d, s, a, w, L, w2, L2)
  PROVE  NewRows(c, d, w2, L2)
<1>1. L \subseteq L2 /\ WrittenIn(L) \subseteq WrittenIn(L2)
  BY StepGrows, WrittenAfter
<1>2. ASSUME NEW r \in w
      PROVE  /\ IsRow(r)
             /\ \/ OwnedBy(c, Number(r)) /\ \A k \in References(r) : <<k, "KEY_SHARE">> \in L2
                \/ Replaces(d, r, L2)
  BY <1>1 DEF NewRows, Replaces
<1>3. CASE s.op = "insert"
  <2>1. /\ w2 = w \cup {s.row} /\ IsRow(s.row) /\ OwnedBy(c, Number(s.row))
        /\ \A k \in References(s.row) : <<k, "KEY_SHARE">> \in L2
    BY <1>3 DEF Does, Fits
  <2> QED
    BY <1>2, <2>1 DEF NewRows
<1>4. CASE s.op \in {"check", "delete"}
  <2>1. w2 = w
    BY <1>4 DEF Does
  <2> QED
    BY <1>2, <2>1 DEF NewRows
<1>5. CASE s.op = "update"
  <2> SUFFICES ASSUME NEW r \in Hit(d, a, L)
               PROVE  IsRow([r EXCEPT ![s.field] = s.value]) /\ Replaces(d, [r EXCEPT ![s.field] = s.value], L2)
    <3>1. w2 = w \cup {[r EXCEPT ![s.field] = s.value] : r \in Hit(d, a, L)}
      BY <1>5 DEF Does
    <3> QED
      BY <1>2, <3>1 DEF NewRows
  <2> DEFINE q == [r EXCEPT ![s.field] = s.value]
  <2>2. IsRow(r) /\ r \in d /\ Key(r) \in a /\ Key(r) \in Keys(d)
    BY DEF Sound, Hit, Kept, Keys
  <2>3. \/ Key(r)[1] = "authors" /\ s.field = "name"
        \/ Key(r)[1] = "books" /\ s.field = "title"
    BY <1>5, <2>2 DEF Fits, AuthorKey, BookKey
  <2>4. IsRow(q) /\ Key(q) = Key(r) /\ References(q) = References(r)
    BY <2>2, <2>3, RowFacts, Renamed
  <2>5. Key(r) \in WrittenIn(L2)
    BY <1>5, <2>2, WrittenAfter
  <2> HIDE DEF q
  <2>6. IsRow(q) /\ Replaces(d, q, L2)
    BY <2>2, <2>4, <2>5 DEF Replaces
  <2> QED
    BY <2>6 DEF q
<1> QED
  BY <1>3, <1>4, <1>5 DEF Does

-----------------------------------------------------------------------------
(***************************************************************************)
(* The four kinds of statements.                                           *)
(***************************************************************************)
LEMMA InsertDoes ==
  ASSUME NEW r, NEW d, NEW a, NEW w, NEW L, NEW w2, NEW L2, Does(d, Insert(r), a, w, L, w2, L2)
  PROVE  /\ w2 = w \cup {r} /\ References(r) \subseteq Keys(Seen(d, w, L))
         /\ L2 = L \cup (References(r) \X {"KEY_SHARE"}) /\ WrittenIn(L2) = WrittenIn(L)
<1>1. Insert(r).op = "insert" /\ Insert(r).row = r
  BY DEF Insert
<1>2. WrittenIn(L2) = WrittenIn(L)
  BY <1>1, WrittenAfter
<1> QED
  BY <1>1, <1>2 DEF Does

LEMMA CheckDoes ==
  ASSUME NEW d, NEW a, NEW w, NEW L, NEW w2, NEW L2, Does(d, Check, a, w, L, w2, L2)
  PROVE  /\ \A r \in Seen(d, w, L) : References(r) \subseteq Keys(Seen(d, w, L))
         /\ w2 = w /\ L2 = L
<1>1. Check.op = "check"
  BY DEF Check
<1> QED
  BY <1>1 DEF Does

LEMMA DeleteDoes ==
  ASSUME NEW s, s.op = "delete",
         NEW d, NEW a, NEW w, NEW L, NEW w2, NEW L2, Does(d, s, a, w, L, w2, L2)
  PROVE  /\ w2 = w /\ WrittenIn(L2) = WrittenIn(L) \cup (a \cap Keys(d))
         /\ s.strict => a \cap Keys(d) # {}
         /\ \A p \in L2 : p \in L \/ p[2] = "UPDATE"
         /\ a \cap Keys(d) = {} => L2 = L
<1> DEFINE K == Keys(Hit(d, a, L))
<1>1. WrittenIn(L2) = WrittenIn(L) \cup (a \cap Keys(d))
  BY WrittenAfter
<1>2. w2 = w /\ (s.strict => Hit(d, a, L) # {}) /\ L2 = L \cup (K \X {"UPDATE"})
  BY DEF Does
<1>3. K \subseteq a \cap Keys(d) /\ (Hit(d, a, L) # {} => K # {})
  BY DEF Hit, Kept, Keys
<1> HIDE DEF K
<1>4. \A p \in K \X {"UPDATE"} : p[2] = "UPDATE"
  BY PairFacts
<1> QED
  BY <1>1, <1>2, <1>3, <1>4

LEMMA DeletionFacts ==
  ASSUME NEW i
  PROVE  /\ BookTags(i).op = "delete" /\ TheBook(i).op = "delete" /\ ItsTags(i).op = "delete"
         /\ ItsBooks(i).op = "delete" /\ TheAuthor(i).op = "delete" /\ TheAuthor(i).strict
         /\ Check.op = "check"
BY DEF BookTags, TheBook, ItsTags, ItsBooks, TheAuthor, DeleteOf, Check

LEMMA UpdateDoes ==
  ASSUME NEW key, NEW field, NEW x, NEW strict, NEW d, NEW a, NEW w, NEW L, NEW w2, NEW L2,
         Does(d, Update(key, field, x, strict), a, w, L, w2, L2)
  PROVE  /\ w2 = w \cup {[r EXCEPT ![field] = x] : r \in Hit(d, a, L)}
         /\ L2 = L \cup (Keys(Hit(d, a, L)) \X {IF field = "title" THEN "NO_KEY_UPDATE" ELSE "UPDATE"})
<1> DEFINE s == Update(key, field, x, strict)
           R == Hit(d, a, L)
           K == Keys(R)
<1>1. s.op = "update" /\ s.field = field /\ s.value = x
  BY DEF Update
<1> HIDE DEF s
<1>2. w2 = w \cup {[r EXCEPT ![s.field] = s.value] : r \in R} /\ L2 = L \cup (K \X {Mode(s)})
  BY <1>1 DEF Does, s
<1>3. Mode(s) = IF field = "title" THEN "NO_KEY_UPDATE" ELSE "UPDATE"
  BY <1>1 DEF Mode
<1> HIDE DEF R, K
<1> QED
  BY <1>1, <1>2, <1>3 DEF K, R

LEMMA AimOfDelete ==
  ASSUME NEW s, s.op = "delete", NEW d, NEW w, NEW L, NEW k
  PROVE  k \in AimOf(d, s, w, L) <=> \E r \in Seen(d, w, L) : Key(r) = k /\ Matches(r, s, Seen(d, w, L))
<1> DEFINE V == Seen(d, w, L)
<1> HIDE DEF V
<1>1. AimOf(d, s, w, L) = {Key(r) : r \in {x \in V : Matches(x, s, V)}}
  BY DEF AimOf, V
<1>2. k \in AimOf(d, s, w, L) <=> \E r \in V : Key(r) = k /\ Matches(r, s, V)
  BY <1>1
<1> QED
  BY <1>2 DEF V

LEMMA AimOfUpdate ==
  ASSUME NEW key, NEW field, NEW x, NEW strict, NEW d, NEW w, NEW L
  PROVE  AimOf(d, Update(key, field, x, strict), w, L) = {key} \cap Keys(Seen(d, w, L))
<1> DEFINE s == Update(key, field, x, strict)
           V == Seen(d, w, L)
<1>1. s.op = "update" /\ s.key = key
  BY DEF Update
<1> HIDE DEF s, V
<1>2. AimOf(d, s, w, L) = {Key(r) : r \in {q \in V : Key(q) = s.key}}
  BY <1>1 DEF AimOf, V
<1>3. AimOf(d, s, w, L) = {key} \cap Keys(V)
  BY <1>1, <1>2 DEF Keys
<1> QED
  BY <1>3 DEF s, V

LEMMA AimOfOthers ==
  ASSUME NEW s, s.op \in {"insert", "check"}, NEW d, NEW w, NEW L
  PROVE  AimOf(d, s, w, L) = {}
BY DEF AimOf

\* The WHERE clauses of the five deletions.
LEMMA MatchesIs ==
  ASSUME NEW r, IsRow(r), NEW i, NEW V
  PROVE  /\ Matches(r, BookTags(i), V) <=> r.table = "tags" /\ r.book = i
         /\ Matches(r, TheBook(i), V) <=> r.table = "books" /\ r.id = i
         /\ Matches(r, ItsBooks(i), V) <=> r.table = "books" /\ r.author = i
         /\ Matches(r, TheAuthor(i), V) <=> r.table = "authors" /\ r.id = i
         /\ Matches(r, ItsTags(i), V) <=>
              r.table = "tags" /\ \E q \in V : q.table = "books" /\ q.id = r.book /\ q.author = i
<1>1. CASE r.table = "authors"
  <2>1. DOMAIN r = {"table", "id", "name"}
    BY <1>1 DEF IsRow, Author
  <2> QED
    BY <1>1, <2>1 DEF Matches, DeleteOf, BookTags, TheBook, ItsBooks, TheAuthor, ItsTags
<1>2. CASE r.table = "books"
  <2>1. DOMAIN r = {"table", "id", "title", "author"}
    BY <1>2 DEF IsRow, Book
  <2> QED
    BY <1>2, <2>1 DEF Matches, DeleteOf, BookTags, TheBook, ItsBooks, TheAuthor, ItsTags
<1>3. CASE r.table = "tags"
  <2>1. DOMAIN r = {"table", "n", "book", "tag"}
    BY <1>3 DEF IsRow, Tag
  <2> QED
    BY <1>3, <2>1 DEF Matches, DeleteOf, BookTags, TheBook, ItsBooks, TheAuthor, ItsTags
<1> QED
  BY <1>1, <1>2, <1>3, RowFacts

-----------------------------------------------------------------------------
(***************************************************************************)
(* The commands, one by one: what a snapshot finds, which statement may    *)
(* come next, and where a statement leads.                                 *)
(***************************************************************************)
AimsAt(d, w, a) == a \subseteq Keys(d) /\ a \cap Keys(w) = {}

LEMMA SeenAreRows ==
  ASSUME NEW c, NEW d, NEW w, NEW L, Sound(d), NewRows(c, d, w, L), NEW r \in Seen(d, w, L)
  PROVE  IsRow(r)
BY DEF Seen, Kept, Sound, NewRows

LEMMA SeenWithoutNew ==
  ASSUME NEW d, NEW L
  PROVE  Seen(d, {}, L) = Kept(d, L) /\ Keys(Seen(d, {}, L)) = Keys(d) \ WrittenIn(L)
BY DEF Seen, Kept, Keys

LEMMA NoLocks ==
  ASSUME NEW d
  PROVE  WrittenIn({}) = {} /\ Kept(d, {}) = d /\ Locked(d, {}) = {}
<1>1. WrittenIn({}) = {}
  BY DEF WrittenIn
<1> QED
  BY <1>1 DEF Kept, Locked

LEMMA AddingAuthor_Aim ==
  ASSUME NEW c, NEW d, NEW t, NEW w, NEW L, AddingAuthor(c, t, w, L), t # <<>>
  PROVE  AimOf(d, Head(t), w, L) = {}
<1>1. Head(t) = Insert(Author(c.n, c.name))
  BY OneStatement DEF AddingAuthor
<1>2. Head(t).op = "insert"
  BY <1>1 DEF Insert
<1> QED
  BY <1>2, AimOfOthers

LEMMA AddingAuthor_Step ==
  ASSUME NEW c, NEW d, NEW t, NEW a, NEW w, NEW L, NEW w2, NEW L2,
         c.op = "AddAuthor", AddingAuthor(c, t, w, L), t # <<>>,
         Does(d, Head(t), a, w, L, w2, L2)
  PROVE  Fits(c, Head(t), a, w) /\ AddingAuthor(c, Tail(t), w2, L2)
<1> DEFINE r == Author(c.n, c.name)
<1>1. t = <<Insert(r)>> /\ w = {} /\ L = {}
  BY DEF AddingAuthor
<1>2. IsRow(r) /\ Number(r) = c.n /\ References(r) = {}
  BY AuthorFacts
<1> HIDE DEF r
<1>3. Head(t) = Insert(r) /\ Tail(t) = <<>>
  BY <1>1, OneStatement
<1>4. Fits(c, Head(t), a, w)
  BY <1>2, <1>3 DEF Fits, Insert, OwnedBy
<1>5. Does(d, Insert(r), a, w, L, w2, L2)
  BY <1>3
<1>6. w2 = w \cup {r} /\ L2 = L \cup (References(r) \X {"KEY_SHARE"})
  BY <1>5, InsertDoes
<1>7. L2 = {} \cup ({} \X {"KEY_SHARE"})
  BY <1>1, <1>2, <1>6
<1>8. w2 = {r} /\ L2 = {}
  BY <1>1, <1>6, <1>7
<1> QED
  BY <1>3, <1>4, <1>8 DEF AddingAuthor, r

LEMMA EditingAuthor_Aim ==
  ASSUME NEW c, NEW d, NEW t, NEW w, NEW L, EditingAuthor(c, t, NoAim, w, L), t # <<>>
  PROVE  EditingAuthor(c, t, AimOf(d, Head(t), w, L), w, L) /\ AimsAt(d, w, AimOf(d, Head(t), w, L))
<1> DEFINE k == AuthorKey(c.author)
           yes == TRUE
           s == Update(k, "name", c.name, yes)
<1>1. t = <<s>> /\ w = {} /\ L = {} /\ t = EditAuthorWork(c.author, c.name)
  BY DEF EditingAuthor, EditAuthorWork, AuthorKey
<1> HIDE DEF s, yes
<1>2. Head(t) = s
  BY <1>1, OneStatement
<1>3. AimOf(d, Head(t), w, L) \subseteq {k} \cap Keys(d)
  <2>1. AimOf(d, s, w, L) = {k} \cap Keys(Seen(d, w, L))
    BY AimOfUpdate DEF s
  <2> QED
    BY <1>1, <1>2, <2>1, SeenWithoutNew
<1>4. Keys(w) = {}
  BY <1>1 DEF Keys
<1> QED
  BY <1>1, <1>3, <1>4 DEF EditingAuthor, AimsAt

LEMMA EditingAuthor_Fits ==
  ASSUME NEW c, NEW t, NEW a, NEW w, NEW L,
         EditingAuthor(c, t, a, w, L), t # <<>>, a # NoAim
  PROVE  Fits(c, Head(t), a, w)
<1>1. /\ t = <<Update(AuthorKey(c.author), "name", c.name, TRUE)>>
      /\ w = {} /\ a \subseteq {AuthorKey(c.author)}
  BY DEF EditingAuthor, EditAuthorWork, AuthorKey
<1>2. Head(t) = Update(AuthorKey(c.author), "name", c.name, TRUE)
  BY <1>1, OneStatement
<1>3. Head(t).op = "update" /\ Head(t).field = "name"
  BY <1>2 DEF Update
<1> QED
  BY <1>1, <1>3 DEF Fits

LEMMA EditingAuthor_Step ==
  ASSUME NEW c, NEW d, NEW t, NEW a, NEW w, NEW L, NEW w2, NEW L2,
         Sound(d), EditingAuthor(c, t, a, w, L), t # <<>>, a # NoAim,
         Does(d, Head(t), a, w, L, w2, L2)
  PROVE  EditingAuthor(c, Tail(t), NoAim, w2, L2)
<1> DEFINE k == AuthorKey(c.author)
           name == c.name
           yes == TRUE
           s == Update(k, "name", name, yes)
           R == Hit(d, a, L)
           Rename(r) == [r EXCEPT !["name"] = name]
<1>1. t = <<s>> /\ w = {} /\ L = {} /\ a \subseteq {k}
  BY DEF EditingAuthor, EditAuthorWork, AuthorKey
<1> HIDE DEF s, yes, name
<1>2. Head(t) = s /\ Tail(t) = <<>>
  BY <1>1, OneStatement
<1>3. Does(d, s, a, w, L, w2, L2)
  BY <1>2
<1>4. w2 = w \cup {Rename(r) : r \in R} /\ L2 = L \cup (Keys(R) \X {"UPDATE"})
  BY <1>3, UpdateDoes DEF s
<1>5. R # {}
  <2>1. s.op = "update" /\ s.strict
    BY DEF s, yes, Update
  <2> QED
    BY <1>3, <2>1 DEF Does
<1>6. PICK q \in R : TRUE
  BY <1>5
<1>7. \A r \in R : r \in d /\ Key(r) = k
  BY <1>1 DEF Hit, Kept
<1>8. R = {q} /\ Keys(R) = {k}
  BY <1>6, <1>7 DEF Sound, Keys
<1>9. Rename(q) = Author(c.author, name)
  <2>1. IsRow(q) /\ q.table = "authors" /\ q.id = c.author
    BY <1>6, <1>7, RowFacts DEF Sound, AuthorKey, BookKey
  <2> QED
    BY <2>1, Renamed
<1>10. w2 = {Author(c.author, name)} /\ L2 = {<<k, "UPDATE">>}
  <2>1. {Rename(r) : r \in R} = {Author(c.author, name)}
    BY <1>8, <1>9
  <2> HIDE DEF Rename
  <2>2. L2 = {k} \X {"UPDATE"}
    BY <1>1, <1>4, <1>8
  <2> QED
    BY <1>1, <1>4, <2>1, <2>2
<1> QED
  BY <1>2, <1>10 DEF EditingAuthor, name

\* What is left of the transactions that delete.
LEMMA Statements ==
  ASSUME NEW i
  PROVE  /\ IsSeq(<<Check>>) /\ Head(<<Check>>) = Check /\ Tail(<<Check>>) = <<>>
         /\ Head(FromBook(i)) = TheBook(i) /\ Tail(FromBook(i)) = <<Check>>
         /\ Head(Checked(FromBook(i))) = Check /\ Tail(Checked(FromBook(i))) = FromBook(i)
         /\ Head(FromBookTags(i)) = BookTags(i) /\ Tail(FromBookTags(i)) = Checked(FromBook(i))
         /\ Head(FromAuthor(i)) = TheAuthor(i) /\ Tail(FromAuthor(i)) = <<Check>>
         /\ Head(Checked(FromAuthor(i))) = Check /\ Tail(Checked(FromAuthor(i))) = FromAuthor(i)
         /\ Head(FromItsBooks(i)) = ItsBooks(i) /\ Tail(FromItsBooks(i)) = Checked(FromAuthor(i))
         /\ Head(Checked(FromItsBooks(i))) = Check /\ Tail(Checked(FromItsBooks(i))) = FromItsBooks(i)
         /\ Head(FromItsTags(i)) = ItsTags(i) /\ Tail(FromItsTags(i)) = Checked(FromItsBooks(i))
<1>1. IsSeq(<<Check>>) /\ Head(<<Check>>) = Check /\ Tail(<<Check>>) = <<>>
  BY OneStatement
<1>2. \A s, rest : IsSeq(rest) => /\ IsSeq(Then(s, rest))
                                  /\ Head(Then(s, rest)) = s /\ Tail(Then(s, rest)) = rest
  BY ThenFacts
<1>3. IsSeq(FromBook(i)) /\ IsSeq(FromAuthor(i))
  BY <1>1, <1>2 DEF FromBook, FromAuthor
<1>4. IsSeq(Checked(FromBook(i))) /\ IsSeq(Checked(FromAuthor(i)))
  BY <1>2, <1>3 DEF Checked
<1>5. IsSeq(FromItsBooks(i)) /\ IsSeq(Checked(FromItsBooks(i)))
  BY <1>2, <1>4 DEF FromItsBooks, Checked
<1>6. Head(FromBook(i)) = TheBook(i) /\ Tail(FromBook(i)) = <<Check>>
  BY <1>1, <1>2 DEF FromBook
<1>7. Head(FromAuthor(i)) = TheAuthor(i) /\ Tail(FromAuthor(i)) = <<Check>>
  BY <1>1, <1>2 DEF FromAuthor
<1>8. /\ Head(Checked(FromBook(i))) = Check /\ Tail(Checked(FromBook(i))) = FromBook(i)
      /\ Head(Checked(FromAuthor(i))) = Check /\ Tail(Checked(FromAuthor(i))) = FromAuthor(i)
      /\ Head(Checked(FromItsBooks(i))) = Check /\ Tail(Checked(FromItsBooks(i))) = FromItsBooks(i)
  BY <1>2, <1>3, <1>5 DEF Checked
<1>9. Head(FromBookTags(i)) = BookTags(i) /\ Tail(FromBookTags(i)) = Checked(FromBook(i))
  BY <1>2, <1>4 DEF FromBookTags
<1>10. Head(FromItsBooks(i)) = ItsBooks(i) /\ Tail(FromItsBooks(i)) = Checked(FromAuthor(i))
  BY <1>2, <1>4 DEF FromItsBooks
<1>11. Head(FromItsTags(i)) = ItsTags(i) /\ Tail(FromItsTags(i)) = Checked(FromItsBooks(i))
  BY <1>2, <1>5 DEF FromItsTags
<1> QED
  BY <1>1, <1>6, <1>7, <1>8, <1>9, <1>10, <1>11

LEMMA AimWithoutNew ==
  ASSUME NEW d, NEW s, NEW L
  PROVE  AimsAt(d, {}, AimOf(d, s, {}, L))
<1>1. Seen(d, {}, L) = Kept(d, L) /\ Keys(Kept(d, L)) \subseteq Keys(d)
  BY SeenWithoutNew DEF Kept, Keys
<1>2. AimOf(d, s, {}, L) \subseteq Keys(Seen(d, {}, L))
  BY DEF AimOf, Keys
<1>3. Keys({}) = {}
  BY DEF Keys
<1> QED
  BY <1>1, <1>2, <1>3 DEF AimsAt

LEMMA DeletingBook_Fits ==
  ASSUME NEW c, NEW d, NEW t, NEW a, NEW w, NEW L, DeletingBook(c, d, t, a, w, L), t # <<>>
  PROVE  Fits(c, Head(t), a, w)
<1>1. Head(t) \in {BookTags(c.book), TheBook(c.book), Check}
  BY Statements DEF DeletingBook
<1>2. Head(t).op \in {"check", "delete"}
  BY <1>1, DeletionFacts
<1> QED
  BY <1>2 DEF Fits

LEMMA DeletingBook_Aim ==
  ASSUME NEW c, NEW d, NEW t, NEW w, NEW L, Sound(d), DeletingBook(c, d, t, NoAim, w, L), t # <<>>
  PROVE  DeletingBook(c, d, t, AimOf(d, Head(t), w, L), w, L) /\ AimsAt(d, w, AimOf(d, Head(t), w, L))
<1> DEFINE b == c.book
           s == Head(t)
           K == AimOf(d, s, w, L)
<1>1. w = {} /\ AimsAt(d, w, K)
  BY AimWithoutNew DEF DeletingBook
<1>2. Seen(d, w, L) = Kept(d, L)
  BY <1>1, SeenWithoutNew
<1>3. CASE t = FromBookTags(b)
  <2>1. s = BookTags(b)
    BY <1>3, Statements
  <2>2. ASSUME NEW r \in d, Key(r) \in K PROVE r.table = "tags" /\ r.book = b
    <3>1. PICK q \in Kept(d, L) : Key(q) = Key(r) /\ Matches(q, s, Kept(d, L))
      BY <1>2, <2>1, <2>2, AimOfDelete, DeletionFacts
    <3>2. q = r /\ IsRow(r)
      BY <3>1 DEF Kept, Sound
    <3> QED
      BY <2>1, <3>1, <3>2, MatchesIs
  <2> QED
    BY <1>1, <1>3, <2>2 DEF DeletingBook
<1>4. CASE t = FromBook(b)
  <2>1. s = TheBook(b)
    BY <1>4, Statements
  <2>2. ASSUME NEW k \in K PROVE k = BookKey(b)
    <3>1. PICK q \in Kept(d, L) : Key(q) = k /\ Matches(q, s, Kept(d, L))
      BY <1>2, <2>1, <2>2, AimOfDelete, DeletionFacts
    <3>2. IsRow(q)
      BY <3>1 DEF Kept, Sound
    <3> QED
      BY <2>1, <3>1, <3>2, MatchesIs, RowFacts
  <2>3. Gone(d, b) \/ BookKey(b) \in WrittenIn(L) \/ BookKey(b) \in K
    <3> SUFFICES ASSUME ~Gone(d, b), BookKey(b) \notin WrittenIn(L) PROVE BookKey(b) \in K
      OBVIOUS
    <3>1. PICK q \in d : Key(q) = BookKey(b)
      BY DEF Gone, Keys
    <3>2. q \in Kept(d, L) /\ IsRow(q)
      BY <3>1 DEF Kept, Sound
    <3>3. q.table = "books" /\ q.id = b
      BY <3>1, <3>2, RowFacts DEF BookKey, AuthorKey
    <3>4. Matches(q, s, Kept(d, L))
      BY <2>1, <3>2, <3>3, MatchesIs
    <3> QED
      BY <1>2, <2>1, <3>1, <3>2, <3>4, AimOfDelete, DeletionFacts
  <2> QED
    BY <1>1, <1>4, <2>2, <2>3 DEF DeletingBook
<1>5. CASE t = Checked(FromBook(b)) \/ (t = <<Check>> /\ (Gone(d, b) \/ BookKey(b) \in WrittenIn(L)))
  BY <1>1, <1>5 DEF DeletingBook
<1>6. \/ t = FromBookTags(b) \/ t = FromBook(b)
      \/ t = Checked(FromBook(b)) \/ (t = <<Check>> /\ (Gone(d, b) \/ BookKey(b) \in WrittenIn(L)))
  BY DEF DeletingBook
<1> QED
  BY <1>3, <1>4, <1>5, <1>6

\* After a check without error.
LEMMA NobodyDangles ==
  ASSUME NEW d, NEW L, \A r \in Kept(d, L) : References(r) \subseteq Keys(Kept(d, L))
  PROVE  Unreferenced(d, L)
<1>1. Keys(Kept(d, L)) \cap WrittenIn(L) = {}
  BY DEF Kept, Keys
<1> QED
  BY <1>1 DEF Unreferenced

LEMMA DeletingBook_Step ==
  ASSUME NEW c, NEW d, NEW t, NEW a, NEW w, NEW L, NEW w2, NEW L2,
         Sound(d), DeletingBook(c, d, t, a, w, L), t # <<>>, a # NoAim,
         Does(d, Head(t), a, w, L, w2, L2)
  PROVE  DeletingBook(c, d, Tail(t), NoAim, w2, L2)
<1> DEFINE b == c.book
           W == WrittenIn(L)
           held == Gone(d, b) \/ BookKey(b) \in W
<1>1. w = {} /\ (\A p \in L : p[2] = "UPDATE") /\ TagsWithin(d, L, {BookKey(b)})
  BY DEF DeletingBook
<1>2. CASE t = FromBookTags(b) /\ \A r \in d : Key(r) \in a => r.table = "tags" /\ r.book = b
  <2>1. Head(t) = BookTags(b) /\ Tail(t) = Checked(FromBook(b))
    BY <1>2, Statements
  <2>2. /\ w2 = {} /\ WrittenIn(L2) = W \cup (a \cap Keys(d))
        /\ \A p \in L2 : p[2] = "UPDATE"
    BY <1>1, <2>1, DeleteDoes, DeletionFacts
  <2>3. TagsWithin(d, L2, {BookKey(b)})
    BY <1>1, <1>2, <2>2 DEF TagsWithin, Locked
  <2> QED
    BY <2>1, <2>2, <2>3 DEF DeletingBook
<1>3. CASE t = Checked(FromBook(b)) \/ (t = <<Check>> /\ held)
  <2>1. Head(t) = Check
    BY <1>3, Statements
  <2>2. /\ w2 = w /\ L2 = L
        /\ \A r \in Seen(d, w, L) : References(r) \subseteq Keys(Seen(d, w, L))
    BY <2>1, CheckDoes
  <2>3. Unreferenced(d, L)
    BY <1>1, <2>2, SeenWithoutNew, NobodyDangles
  <2>4. Tail(t) = FromBook(b) \/ (Tail(t) = <<>> /\ held)
    BY <1>3, Statements
  <2> QED
    BY <1>1, <2>2, <2>3, <2>4 DEF DeletingBook
<1>4. CASE t = FromBook(b) /\ a \subseteq {BookKey(b)} /\ (held \/ BookKey(b) \in a)
  <2>1. Head(t) = TheBook(b) /\ Tail(t) = <<Check>>
    BY <1>4, Statements
  <2>2. /\ w2 = {} /\ WrittenIn(L2) = W \cup (a \cap Keys(d))
        /\ \A p \in L2 : p[2] = "UPDATE"
    BY <1>1, <2>1, DeleteDoes, DeletionFacts
  <2>3. TagsWithin(d, L2, {BookKey(b)})
    <3>1. ASSUME NEW r \in d, r.table = "tags" PROVE Key(r) \notin a
      BY <1>4, <3>1, RowFacts DEF Sound, BookKey
    <3> QED
      BY <1>1, <2>2, <3>1 DEF TagsWithin, Locked
  <2>4. Gone(d, b) \/ BookKey(b) \in WrittenIn(L2)
    BY <1>4, <2>2 DEF Gone
  <2> QED
    BY <2>1, <2>2, <2>3, <2>4 DEF DeletingBook
<1>5. \/ t = FromBookTags(b) /\ \A r \in d : Key(r) \in a => r.table = "tags" /\ r.book = b
      \/ t = Checked(FromBook(b)) \/ (t = <<Check>> /\ held)
      \/ t = FromBook(b) /\ a \subseteq {BookKey(b)} /\ (held \/ BookKey(b) \in a)
  BY DEF DeletingBook
<1> QED
  BY <1>2, <1>3, <1>4, <1>5

OnlyTags(d, L) == \A r \in Locked(d, L) : r.table = "tags"

LEMMA DeletingAuthor_Fits ==
  ASSUME NEW c, NEW d, NEW t, NEW a, NEW w, NEW L, DeletingAuthor(c, d, t, a, w, L), t # <<>>
  PROVE  Fits(c, Head(t), a, w)
<1>1. Head(t) \in {ItsTags(c.author), ItsBooks(c.author), TheAuthor(c.author), Check}
  BY Statements DEF DeletingAuthor
<1>2. Head(t).op \in {"check", "delete"}
  BY <1>1, DeletionFacts
<1> QED
  BY <1>2 DEF Fits

LEMMA DeletingAuthor_Aim ==
  ASSUME NEW c, NEW d, NEW t, NEW w, NEW L, Sound(d), DeletingAuthor(c, d, t, NoAim, w, L), t # <<>>
  PROVE  DeletingAuthor(c, d, t, AimOf(d, Head(t), w, L), w, L) /\ AimsAt(d, w, AimOf(d, Head(t), w, L))
<1> DEFINE i == c.author
           s == Head(t)
           K == AimOf(d, s, w, L)
<1>1. w = {} /\ AimsAt(d, w, K)
  BY AimWithoutNew DEF DeletingAuthor
<1>2. Seen(d, w, L) = Kept(d, L)
  BY <1>1, SeenWithoutNew
<1>3. \A q \in Kept(d, L) : q \in d /\ IsRow(q)
  BY DEF Kept, Sound
<1>4. CASE t = FromItsTags(i) /\ OnlyTags(d, L)
  <2>1. s = ItsTags(i) /\ s.op = "delete"
    BY <1>4, Statements, DeletionFacts
  <2>2. ASSUME NEW r \in d, Key(r) \in K PROVE ByAuthor(d, r, i)
    <3>1. PICK q \in Kept(d, L) : Key(q) = Key(r) /\ Matches(q, s, Kept(d, L))
      BY <1>2, <2>1, <2>2, AimOfDelete
    <3>2. q = r /\ IsRow(r)
      BY <3>1 DEF Kept, Sound
    <3>3. r.table = "tags" /\ \E b \in Kept(d, L) : b.table = "books" /\ b.id = r.book /\ b.author = i
      BY <2>1, <3>1, <3>2, MatchesIs
    <3> QED
      BY <1>3, <3>3 DEF ByAuthor
  <2> QED
    BY <1>1, <1>4, <2>2 DEF DeletingAuthor, OnlyTags
<1>5. CASE t = FromItsBooks(i) /\ OnlyTags(d, L)
  <2>1. s = ItsBooks(i) /\ s.op = "delete"
    BY <1>5, Statements, DeletionFacts
  <2>2. ASSUME NEW k \in K PROVE k[1] = "books"
    <3>1. PICK q \in Kept(d, L) : Key(q) = k /\ Matches(q, s, Kept(d, L))
      BY <1>2, <2>1, <2>2, AimOfDelete
    <3> QED
      BY <1>3, <2>1, <3>1, MatchesIs, RowFacts
  <2>3. ASSUME NEW r \in Locked(d, L), r.table = "tags" PROVE BookKey(r.book) \in K
    <3>1. PICK q \in d : q.table = "books" /\ q.id = r.book /\ q.author = i
      BY <2>3 DEF DeletingAuthor, ByAuthor
    <3>2. q \in Kept(d, L) /\ IsRow(q)
      BY <1>5, <3>1 DEF OnlyTags, Locked, Kept, Sound
    <3>3. Matches(q, s, Kept(d, L)) /\ Key(q) = BookKey(r.book)
      BY <2>1, <3>1, <3>2, MatchesIs, RowFacts
    <3> QED
      BY <1>2, <2>1, <3>2, <3>3, AimOfDelete
  <2>4. TagsWithin(d, L, K)
    BY <2>3 DEF TagsWithin
  <2> QED
    BY <1>1, <1>5, <2>2, <2>4 DEF DeletingAuthor, OnlyTags
<1>6. CASE t = FromAuthor(i) /\ TagsWithin(d, L, WrittenIn(L))
  <2>1. s = TheAuthor(i) /\ s.op = "delete"
    BY <1>6, Statements, DeletionFacts
  <2>2. ASSUME NEW k \in K PROVE k = AuthorKey(i)
    <3>1. PICK q \in Kept(d, L) : Key(q) = k /\ Matches(q, s, Kept(d, L))
      BY <1>2, <2>1, <2>2, AimOfDelete
    <3> QED
      BY <1>3, <2>1, <3>1, MatchesIs, RowFacts
  <2> QED
    BY <1>1, <1>6, <2>2 DEF DeletingAuthor
<1>7. CASE \/ (t = Checked(FromItsBooks(i)) /\ OnlyTags(d, L))
           \/ (t = Checked(FromAuthor(i)) /\ TagsWithin(d, L, WrittenIn(L)))
           \/ (t = <<Check>> /\ TagsWithin(d, L, WrittenIn(L)) /\ AuthorKey(i) \in WrittenIn(L))
  BY <1>1, <1>7 DEF DeletingAuthor, OnlyTags
<1>8. \/ (t = FromItsTags(i) /\ OnlyTags(d, L)) \/ (t = FromItsBooks(i) /\ OnlyTags(d, L))
      \/ (t = FromAuthor(i) /\ TagsWithin(d, L, WrittenIn(L)))
      \/ (t = Checked(FromItsBooks(i)) /\ OnlyTags(d, L))
      \/ (t = Checked(FromAuthor(i)) /\ TagsWithin(d, L, WrittenIn(L)))
      \/ (t = <<Check>> /\ TagsWithin(d, L, WrittenIn(L)) /\ AuthorKey(i) \in WrittenIn(L))
  BY DEF DeletingAuthor, OnlyTags
<1> QED
  BY <1>4, <1>5, <1>6, <1>7, <1>8

LEMMA DeletingAuthor_Step ==
  ASSUME NEW c, NEW d, NEW t, NEW a, NEW w, NEW L, NEW w2, NEW L2,
         Sound(d), DeletingAuthor(c, d, t, a, w, L), t # <<>>, a # NoAim,
         Does(d, Head(t), a, w, L, w2, L2)
  PROVE  DeletingAuthor(c, d, Tail(t), NoAim, w2, L2)
<1> DEFINE i == c.author
           W == WrittenIn(L)
           closed == TagsWithin(d, L, W)
<1>1. /\ w = {} /\ \A p \in L : p[2] = "UPDATE"
      /\ \A r \in d : Key(r) \in W /\ r.table = "tags" => ByAuthor(d, r, i)
  BY DEF DeletingAuthor, Locked
<1>2. ASSUME Head(t).op = "delete"
      PROVE  w2 = {} /\ WrittenIn(L2) = W \cup (a \cap Keys(d)) /\ \A p \in L2 : p[2] = "UPDATE"
  BY <1>1, <1>2, DeleteDoes
<1>3. ASSUME NEW r \in d PROVE IsRow(r) /\ Key(r) \in Keys(d) /\ Key(r)[1] = r.table
  BY RowFacts DEF Sound, Keys
<1>4. CASE t = FromItsTags(i) /\ OnlyTags(d, L) /\ \A r \in d : Key(r) \in a => ByAuthor(d, r, i)
  <2>1. Head(t) = ItsTags(i) /\ Tail(t) = Checked(FromItsBooks(i)) /\ Head(t).op = "delete"
    BY <1>4, Statements, DeletionFacts
  <2>2. ASSUME NEW r \in Locked(d, L2) PROVE r.table = "tags" /\ ByAuthor(d, r, i)
    BY <1>1, <1>2, <1>4, <2>1 DEF Locked, OnlyTags, ByAuthor
  <2> QED
    BY <1>2, <2>1, <2>2 DEF DeletingAuthor
<1>5. CASE \/ (t = Checked(FromItsBooks(i)) /\ OnlyTags(d, L))
           \/ (t = Checked(FromAuthor(i)) /\ closed)
           \/ (t = <<Check>> /\ closed /\ AuthorKey(i) \in W)
  <2>1. Head(t) = Check
    BY <1>5, Statements
  <2>2. /\ w2 = w /\ L2 = L
        /\ \A r \in Seen(d, w, L) : References(r) \subseteq Keys(Seen(d, w, L))
    BY <2>1, CheckDoes
  <2>3. Unreferenced(d, L)
    BY <1>1, <2>2, SeenWithoutNew, NobodyDangles
  <2>4. \/ (Tail(t) = FromItsBooks(i) /\ OnlyTags(d, L))
        \/ (Tail(t) = FromAuthor(i) /\ closed)
        \/ (Tail(t) = <<>> /\ closed /\ AuthorKey(i) \in W)
    BY <1>5, Statements
  <2> QED
    BY <1>1, <2>2, <2>3, <2>4 DEF DeletingAuthor, OnlyTags, Locked
<1>6. CASE t = FromItsBooks(i) /\ OnlyTags(d, L) /\ TagsWithin(d, L, a) /\ \A k \in a : k[1] = "books"
  <2>1. Head(t) = ItsBooks(i) /\ Tail(t) = Checked(FromAuthor(i)) /\ Head(t).op = "delete"
    BY <1>6, Statements, DeletionFacts
  <2>2. ASSUME NEW r \in Locked(d, L2), r.table = "tags"
        PROVE  ByAuthor(d, r, i) /\ BookKey(r.book) \in WrittenIn(L2)
    <3>1. r \in d /\ Key(r) \notin a
      BY <1>3, <1>6, <2>2 DEF Locked
    <3>2. Key(r) \in W
      BY <1>2, <2>1, <2>2, <3>1 DEF Locked
    <3>3. BookKey(r.book) \in a
      BY <1>6, <2>2, <3>1, <3>2 DEF TagsWithin, Locked
    <3>4. BookKey(r.book) \in Keys(d)
      BY <1>3, <2>2, <3>1, RowFacts DEF Sound
    <3> QED
      BY <1>1, <1>2, <2>1, <2>2, <3>1, <3>2, <3>3, <3>4
  <2> QED
    BY <1>2, <2>1, <2>2 DEF DeletingAuthor, TagsWithin
<1>7. CASE t = FromAuthor(i) /\ closed /\ a \subseteq {AuthorKey(i)}
  <2>1. Head(t) = TheAuthor(i) /\ Tail(t) = <<Check>> /\ Head(t).op = "delete" /\ Head(t).strict
    BY <1>7, Statements, DeletionFacts
  <2>2. AuthorKey(i) \in WrittenIn(L2)
    <3>1. a \cap Keys(d) # {}
      BY <2>1, DeleteDoes
    <3> QED
      BY <1>2, <1>7, <2>1, <3>1
  <2>3. ASSUME NEW r \in Locked(d, L2), r.table = "tags"
        PROVE  ByAuthor(d, r, i) /\ BookKey(r.book) \in WrittenIn(L2)
    <3>1. r \in d /\ Key(r) \notin a
      BY <1>3, <1>7, <2>3 DEF Locked, AuthorKey
    <3>2. Key(r) \in W
      BY <1>2, <2>1, <2>3, <3>1 DEF Locked
    <3> QED
      BY <1>1, <1>2, <1>7, <2>1, <2>3, <3>1, <3>2 DEF TagsWithin, Locked
  <2> QED
    BY <1>2, <2>1, <2>2, <2>3 DEF DeletingAuthor, TagsWithin
<1>8. \/ (t = FromItsTags(i) /\ OnlyTags(d, L) /\ \A r \in d : Key(r) \in a => ByAuthor(d, r, i))
      \/ \/ (t = Checked(FromItsBooks(i)) /\ OnlyTags(d, L))
         \/ (t = Checked(FromAuthor(i)) /\ closed)
         \/ (t = <<Check>> /\ closed /\ AuthorKey(i) \in W)
      \/ (t = FromItsBooks(i) /\ OnlyTags(d, L) /\ TagsWithin(d, L, a) /\ \A k \in a : k[1] = "books")
      \/ (t = FromAuthor(i) /\ closed /\ a \subseteq {AuthorKey(i)})
  BY DEF DeletingAuthor, OnlyTags
<1> QED
  BY <1>4, <1>5, <1>6, <1>7, <1>8

LEMMA TagStatements ==
  ASSUME NEW n, NEW b, NEW s, IsSeq(s)
  PROVE  /\ IsSeq(FromTags(n, b, s)) /\ FromTags(n, b, s) # <<>>
         /\ Head(FromTags(n, b, s)) = BookTags(b) /\ Tail(FromTags(n, b, s)) = Checked(Inserts(n, b, s))
         /\ Head(Checked(Inserts(n, b, s))) = Check /\ Tail(Checked(Inserts(n, b, s))) = Inserts(n, b, s)
<1>1. \A e, rest : IsSeq(rest) => /\ IsSeq(Then(e, rest)) /\ Then(e, rest) # <<>>
                                  /\ Head(Then(e, rest)) = e /\ Tail(Then(e, rest)) = rest
  BY ThenFacts
<1>2. IsSeq(Inserts(n, b, s))
  BY InsertsFacts
<1>3. /\ Head(Checked(Inserts(n, b, s))) = Check /\ Tail(Checked(Inserts(n, b, s))) = Inserts(n, b, s)
      /\ IsSeq(Checked(Inserts(n, b, s)))
  BY <1>1, <1>2 DEF Checked
<1> QED
  BY <1>1, <1>3 DEF FromTags

\* The parts of WritingTags.
LEMMA WritingTagsIs ==
  ASSUME NEW c, NEW d, NEW t, NEW a, NEW w, NEW L, NEW n, NEW b, NEW others
  PROVE  WritingTags(c, d, t, a, w, L, n, b, others) <=>
           \E author, s, D :
             /\ IsSeq(s) /\ D \cup Range(s) = c.tags
             /\ w = others \cup {Book(b, c.title, author)} \cup {Tag(n, b, x) : x \in D}
             /\ \A r \in Locked(d, L) : Key(r) = BookKey(b) \/ r \in TagsOf(d, b)
             /\ \/ /\ t = FromTags(n, b, s) /\ D = {}
                   /\ a # NoAim => a \subseteq Keys(TagsOf(d, b)) /\ Keys(TagsOf(d, b)) \subseteq a \cup WrittenIn(L)
                \/ /\ t = Checked(Inserts(n, b, s)) \/ t = Inserts(n, b, s)
                   /\ Keys(TagsOf(d, b)) \subseteq WrittenIn(L)
BY DEF WritingTags

LEMMA WritingTags_Fits ==
  ASSUME NEW c, NEW d, NEW t, NEW a, NEW w, NEW L, NEW n, NEW b, NEW others,
         WritingTags(c, d, t, a, w, L, n, b, others), t # <<>>, OwnedBy(c, n)
  PROVE  Fits(c, Head(t), a, w)
<1>1. PICK s : /\ IsSeq(s)
               /\ t = FromTags(n, b, s) \/ t = Checked(Inserts(n, b, s)) \/ t = Inserts(n, b, s)
  BY WritingTagsIs
<1>2. CASE t = FromTags(n, b, s) \/ t = Checked(Inserts(n, b, s))
  <2>1. Head(t) = BookTags(b) \/ Head(t) = Check
    BY <1>1, <1>2, TagStatements
  <2>2. Head(t).op \in {"check", "delete"}
    BY <2>1, DeletionFacts
  <2> QED
    BY <2>2 DEF Fits
<1>3. CASE t = Inserts(n, b, s)
  <2>1. PICK x : Head(t) = Insert(Tag(n, b, x))
    BY <1>1, <1>3, InsertsFacts
  <2>2. IsRow(Tag(n, b, x)) /\ Number(Tag(n, b, x)) = n
    BY TagFacts
  <2>3. Head(t).op = "insert" /\ Head(t).row = Tag(n, b, x)
    BY <2>1 DEF Insert
  <2> QED
    BY <2>2, <2>3 DEF Fits
<1> QED
  BY <1>1, <1>2, <1>3

LEMMA WritingTags_Aim ==
  ASSUME NEW c, NEW d, NEW t, NEW w, NEW L, NEW n, NEW b, NEW others,
         Sound(d), WritingTags(c, d, t, NoAim, w, L, n, b, others), t # <<>>,
         \A r \in others : IsRow(r) /\ r.table = "authors"
  PROVE  /\ WritingTags(c, d, t, AimOf(d, Head(t), w, L), w, L, n, b, others)
         /\ AimsAt(d, w, AimOf(d, Head(t), w, L))
<1> DEFINE e == Head(t)
           K == AimOf(d, e, w, L)
<1>1. PICK author, s, D :
        /\ IsSeq(s) /\ D \cup Range(s) = c.tags
        /\ w = others \cup {Book(b, c.title, author)} \cup {Tag(n, b, x) : x \in D}
        /\ \A r \in Locked(d, L) : Key(r) = BookKey(b) \/ r \in TagsOf(d, b)
        /\ \/ t = FromTags(n, b, s) /\ D = {}
           \/ /\ t = Checked(Inserts(n, b, s)) \/ t = Inserts(n, b, s)
              /\ Keys(TagsOf(d, b)) \subseteq WrittenIn(L)
  BY WritingTagsIs
<1>2. CASE t = FromTags(n, b, s) /\ D = {}
  <2>1. e = BookTags(b) /\ e.op = "delete"
    BY <1>1, <1>2, TagStatements, DeletionFacts
  <2>2. \A r \in w : IsRow(r) /\ r.table # "tags"
    <3>1. w = others \cup {Book(b, c.title, author)}
      BY <1>1, <1>2
    <3> QED
      BY <3>1, BookFacts
  <2>3. \A r \in d : IsRow(r)
    BY DEF Sound
  <2>4. ASSUME NEW k \in K PROVE k \in Keys(TagsOf(d, b))
    <3>1. PICK q \in Seen(d, w, L) : Key(q) = k /\ Matches(q, e, Seen(d, w, L))
      BY <2>1, <2>4, AimOfDelete
    <3>2. IsRow(q)
      BY <2>2, <2>3 DEF Seen, Kept
    <3>3. q.table = "tags" /\ q.book = b
      BY <2>1, <3>1, <3>2, MatchesIs
    <3>4. q \in d
      BY <2>2, <3>3 DEF Seen, Kept
    <3> QED
      BY <3>1, <3>3, <3>4 DEF TagsOf, Keys
  <2>5. ASSUME NEW r \in TagsOf(d, b), Key(r) \notin WrittenIn(L) PROVE Key(r) \in K
    <3>1. r \in Seen(d, w, L) /\ IsRow(r) /\ r.table = "tags" /\ r.book = b
      BY <2>3, <2>5 DEF Seen, Kept, TagsOf
    <3>2. Matches(r, e, Seen(d, w, L))
      BY <2>1, <3>1, MatchesIs
    <3> QED
      BY <2>1, <3>1, <3>2, AimOfDelete
  <2>6. Keys(TagsOf(d, b)) \subseteq K \cup WrittenIn(L)
    BY <2>5 DEF Keys
  <2>7. AimsAt(d, w, K)
    <3>1. K \subseteq Keys(d)
      BY <2>4 DEF Keys, TagsOf
    <3>2. ASSUME NEW k \in K PROVE k[1] = "tags"
      <4>1. PICK q \in TagsOf(d, b) : Key(q) = k
        BY <2>4, <3>2 DEF Keys
      <4> QED
        BY <2>3, <4>1, RowFacts DEF TagsOf
    <3>3. ASSUME NEW k \in Keys(w) PROVE k[1] # "tags"
      BY <2>2, <3>3, RowFacts DEF Keys
    <3> QED
      BY <3>1, <3>2, <3>3 DEF AimsAt
  <2> HIDE DEF K
  <2>8. WritingTags(c, d, t, K, w, L, n, b, others)
    BY <1>1, <1>2, <2>4, <2>6, WritingTagsIs
  <2> QED
    BY <2>7, <2>8 DEF K
<1>3. CASE /\ t = Checked(Inserts(n, b, s)) \/ t = Inserts(n, b, s)
           /\ Keys(TagsOf(d, b)) \subseteq WrittenIn(L)
  <2>1. e.op \in {"insert", "check"}
    <3>1. CASE t = Checked(Inserts(n, b, s))
      BY <1>1, <3>1, TagStatements, DeletionFacts
    <3>2. CASE t = Inserts(n, b, s)
      <4>1. PICK x : e = Insert(Tag(n, b, x))
        BY <1>1, <3>2, InsertsFacts
      <4> QED
        BY <4>1 DEF Insert
    <3> QED
      BY <1>3, <3>1, <3>2
  <2>2. K = {}
    BY <2>1, AimOfOthers
  <2> HIDE DEF K
  <2>3. WritingTags(c, d, t, K, w, L, n, b, others)
    BY <1>1, <1>3, WritingTagsIs
  <2> QED
    BY <2>2, <2>3 DEF AimsAt, K
<1> QED
  BY <1>1, <1>2, <1>3

LEMMA WritingTags_Step ==
  ASSUME NEW c, NEW d, NEW t, NEW a, NEW w, NEW L, NEW w2, NEW L2, NEW n, NEW b, NEW others,
         Sound(d), WritingTags(c, d, t, a, w, L, n, b, others), t # <<>>, a # NoAim,
         Does(d, Head(t), a, w, L, w2, L2)
  PROVE  WritingTags(c, d, Tail(t), NoAim, w2, L2, n, b, others)
<1> DEFINE W == WrittenIn(L)
           T == TagsOf(d, b)
<1>1. PICK author, s, D :
        /\ IsSeq(s) /\ D \cup Range(s) = c.tags
        /\ w = others \cup {Book(b, c.title, author)} \cup {Tag(n, b, x) : x \in D}
        /\ \A r \in Locked(d, L) : Key(r) = BookKey(b) \/ r \in T
        /\ \/ t = FromTags(n, b, s) /\ D = {} /\ a \subseteq Keys(T) /\ Keys(T) \subseteq a \cup W
           \/ /\ t = Checked(Inserts(n, b, s)) \/ t = Inserts(n, b, s)
              /\ Keys(T) \subseteq W
  BY WritingTagsIs
<1>2. CASE t = FromTags(n, b, s) /\ D = {} /\ a \subseteq Keys(T) /\ Keys(T) \subseteq a \cup W
  <2>1. Head(t).op = "delete" /\ Tail(t) = Checked(Inserts(n, b, s))
    BY <1>1, <1>2, TagStatements, DeletionFacts
  <2>2. w2 = w /\ WrittenIn(L2) = W \cup (a \cap Keys(d))
    BY <2>1, DeleteDoes
  <2>3. Keys(T) \subseteq Keys(d)
    BY DEF Keys, TagsOf
  <2>4. \A r \in Locked(d, L2) : Key(r) = BookKey(b) \/ r \in T
    <3> SUFFICES ASSUME NEW r \in d, Key(r) \in a PROVE r \in T
      BY <1>1, <2>2 DEF Locked
    <3>1. PICK q \in T : Key(q) = Key(r)
      BY <1>2 DEF Keys
    <3> QED
      BY <3>1 DEF Sound, TagsOf
  <2> HIDE DEF T
  <2>5. Keys(T) \subseteq WrittenIn(L2)
    BY <1>2, <2>2, <2>3
  <2> QED
    BY <1>1, <2>1, <2>2, <2>4, <2>5, WritingTagsIs DEF T
<1>3. CASE t = Checked(Inserts(n, b, s)) /\ Keys(T) \subseteq W
  <2>1. Head(t) = Check /\ Tail(t) = Inserts(n, b, s)
    BY <1>1, <1>3, TagStatements
  <2>2. w2 = w /\ L2 = L
    BY <2>1, CheckDoes
  <2> QED
    BY <1>1, <1>3, <2>1, <2>2, WritingTagsIs
<1>4. CASE t = Inserts(n, b, s) /\ Keys(T) \subseteq W
  <2>1. PICK x, rest : /\ IsSeq(rest) /\ Range(s) = {x} \cup Range(rest)
                       /\ Head(t) = Insert(Tag(n, b, x)) /\ Tail(t) = Inserts(n, b, rest)
    BY <1>1, <1>4, InsertsFacts
  <2>2. w2 = w \cup {Tag(n, b, x)} /\ WrittenIn(L2) = W
    <3> DEFINE row == Tag(n, b, x)
    <3> HIDE DEF row
    <3>1. Does(d, Insert(row), a, w, L, w2, L2)
      BY <2>1 DEF row
    <3> QED
      BY <3>1, InsertDoes DEF row
  <2> DEFINE D2 == D \cup {x}
  <2>3. D2 \cup Range(rest) = c.tags
    BY <1>1, <2>1
  <2>4. {Tag(n, b, z) : z \in D2} = {Tag(n, b, z) : z \in D} \cup {Tag(n, b, x)}
    OBVIOUS
  <2>5. w2 = others \cup {Book(b, c.title, author)} \cup {Tag(n, b, z) : z \in D2}
    BY <1>1, <2>2, <2>4
  <2>6. Locked(d, L2) = Locked(d, L)
    BY <2>2 DEF Locked
  <2> HIDE DEF D2
  <2> QED
    BY <1>1, <1>4, <2>1, <2>2, <2>3, <2>5, <2>6, WritingTagsIs, ZenonT(40)
<1> QED
  BY <1>1, <1>2, <1>3, <1>4

LEMMA EditingBook_Fits ==
  ASSUME NEW c, NEW d, NEW t, NEW a, NEW w, NEW L,
         c.op = "EditBook", EditingBook(c, d, t, a, w, L), t # <<>>, a # NoAim
  PROVE  Fits(c, Head(t), a, w)
<1>0. OwnedBy(c, c.n)
  BY DEF OwnedBy
<1>1. CASE BeforeUpdate(c, d, t, a, w, L)
  <2> DEFINE strict == FALSE
             e == Update(BookKey(c.book), "title", c.title, strict)
  <2>1. PICK s : IsSeq(s) /\ t = Then(e, FromTags(c.n, c.book, s))
    BY <1>1 DEF BeforeUpdate
  <2>2. w = {} /\ a \subseteq {BookKey(c.book)}
    BY <1>1 DEF BeforeUpdate
  <2>3. e.op = "update" /\ e.field = "title"
    BY DEF Update
  <2> HIDE DEF e
  <2>4. Head(t) = e
    BY <2>1, TagStatements, ThenFacts
  <2> QED
    BY <2>2, <2>3, <2>4 DEF Fits
<1>2. CASE WritingTags(c, d, t, a, w, L, c.n, c.book, {})
  BY <1>0, <1>2, WritingTags_Fits
<1>3. CASE Missed(c, d, t, a, w, L)
  <2>1. PICK s : /\ IsSeq(s)
                 /\ \/ t = FromTags(c.n, c.book, s) \/ t = Checked(Inserts(c.n, c.book, s))
                    \/ t = Inserts(c.n, c.book, s)
    BY <1>3 DEF Missed
  <2>2. CASE t = FromTags(c.n, c.book, s) \/ t = Checked(Inserts(c.n, c.book, s))
    <3>1. Head(t).op \in {"check", "delete"}
      BY <2>1, <2>2, TagStatements, DeletionFacts
    <3> QED
      BY <3>1 DEF Fits
  <2>3. CASE t = Inserts(c.n, c.book, s)
    <3>1. PICK x : Head(t) = Insert(Tag(c.n, c.book, x))
      BY <2>1, <2>3, InsertsFacts
    <3>2. IsRow(Tag(c.n, c.book, x)) /\ Number(Tag(c.n, c.book, x)) = c.n
      BY TagFacts
    <3>3. Head(t).op = "insert" /\ Head(t).row = Tag(c.n, c.book, x)
      BY <3>1 DEF Insert
    <3> QED
      BY <1>0, <3>2, <3>3 DEF Fits
  <2> QED
    BY <2>1, <2>2, <2>3
<1> QED
  BY <1>1, <1>2, <1>3 DEF EditingBook

LEMMA EditingBook_Aim ==
  ASSUME NEW c, NEW d, NEW t, NEW w, NEW L, Sound(d), EditingBook(c, d, t, NoAim, w, L), t # <<>>
  PROVE  EditingBook(c, d, t, AimOf(d, Head(t), w, L), w, L) /\ AimsAt(d, w, AimOf(d, Head(t), w, L))
<1> DEFINE K == AimOf(d, Head(t), w, L)
           b == c.book
<1>1. CASE BeforeUpdate(c, d, t, NoAim, w, L)
  <2> DEFINE strict == FALSE
             title == c.title
             k == BookKey(b)
             e == Update(k, "title", title, strict)
  <2>1. PICK s : IsSeq(s) /\ t = Then(e, FromTags(c.n, c.book, s))
    BY <1>1 DEF BeforeUpdate
  <2>2. w = {} /\ L = {}
    BY <1>1 DEF BeforeUpdate
  <2> HIDE DEF strict, title, k
  <2>3. Head(t) = e
    BY <2>1, TagStatements, ThenFacts
  <2>4. K = {k} \cap Keys(Seen(d, w, L))
    BY <2>3, AimOfUpdate
  <2>5. K = {k} \cap Keys(d)
    BY <2>2, <2>4, SeenWithoutNew, NoLocks
  <2>6. K \subseteq {BookKey(b)} /\ (Gone(d, b) \/ BookKey(b) \in K)
    BY <2>5 DEF Gone, k
  <2>7. AimsAt(d, w, K)
    BY <2>2, AimWithoutNew
  <2> HIDE DEF K
  <2>8. BeforeUpdate(c, d, t, K, w, L)
    BY <1>1, <2>6 DEF BeforeUpdate
  <2> QED
    BY <2>7, <2>8 DEF EditingBook, K
<1>2. CASE <<BookKey(b), "NO_KEY_UPDATE">> \in L /\ WritingTags(c, d, t, NoAim, w, L, c.n, b, {})
  <2>1. WritingTags(c, d, t, K, w, L, c.n, b, {}) /\ AimsAt(d, w, K)
    BY <1>2, WritingTags_Aim
  <2> HIDE DEF K
  <2> QED
    BY <1>2, <2>1 DEF EditingBook, K
<1>3. CASE Missed(c, d, t, NoAim, w, L)
  <2>1. PICK s : /\ IsSeq(s)
                 /\ \/ t = FromTags(c.n, b, s) \/ t = Checked(Inserts(c.n, b, s)) \/ t = Inserts(c.n, b, s)
    BY <1>3 DEF Missed
  <2>2. w = {} /\ L = {} /\ Gone(d, b)
    BY <1>3 DEF Missed
  <2>3. K = {}
    <3>1. CASE t = FromTags(c.n, b, s)
      <4>1. Head(t) = BookTags(b) /\ Head(t).op = "delete"
        BY <2>1, <3>1, TagStatements, DeletionFacts
      <4>2. ASSUME NEW k \in K PROVE FALSE
        <5>1. PICK q \in Seen(d, w, L) : Key(q) = k /\ Matches(q, Head(t), Seen(d, w, L))
          BY <4>1, <4>2, AimOfDelete
        <5>2. q \in d /\ IsRow(q)
          BY <2>2, SeenWithoutNew, NoLocks DEF Sound
        <5>3. q.table = "tags" /\ q.book = b
          BY <4>1, <5>1, <5>2, MatchesIs
        <5>4. BookKey(b) \in Keys(d)
          BY <5>2, <5>3, RowFacts DEF Sound
        <5> QED
          BY <2>2, <5>4 DEF Gone
      <4> QED
        BY <4>2
    <3>2. CASE t = Checked(Inserts(c.n, b, s))
      <4>1. Head(t).op = "check"
        BY <2>1, <3>2, TagStatements, DeletionFacts
      <4> QED
        BY <4>1, AimOfOthers
    <3>3. CASE t = Inserts(c.n, b, s)
      <4>1. PICK x : Head(t) = Insert(Tag(c.n, b, x))
        BY <2>1, <3>3, InsertsFacts
      <4>2. Head(t).op = "insert"
        BY <4>1 DEF Insert
      <4> QED
        BY <4>2, AimOfOthers
    <3> QED
      BY <2>1, <3>1, <3>2, <3>3
  <2> HIDE DEF K
  <2>4. Missed(c, d, t, K, w, L)
    BY <1>3, <2>3 DEF Missed
  <2> QED
    BY <2>3, <2>4 DEF EditingBook, AimsAt, K
<1> QED
  BY <1>1, <1>2, <1>3 DEF EditingBook

LEMMA OneLock ==
  ASSUME NEW k, NEW m
  PROVE  {} \cup ({k} \X {m}) = {<<k, m>>}
OBVIOUS

LEMMA EditingBook_Step ==
  ASSUME NEW c, NEW d, NEW t, NEW a, NEW w, NEW L, NEW w2, NEW L2,
         Sound(d), EditingBook(c, d, t, a, w, L), t # <<>>, a # NoAim,
         Does(d, Head(t), a, w, L, w2, L2)
  PROVE  EditingBook(c, d, Tail(t), NoAim, w2, L2)
<1> DEFINE b == c.book
<1>1. CASE BeforeUpdate(c, d, t, a, w, L)
  <2> DEFINE strict == FALSE
             title == c.title
             k == BookKey(b)
             e == Update(k, "title", title, strict)
             R == Hit(d, a, L)
             Rename(r) == [r EXCEPT !["title"] = title]
  <2>1. PICK s : IsSeq(s) /\ Range(s) = c.tags /\ t = Then(e, FromTags(c.n, b, s))
    BY <1>1 DEF BeforeUpdate
  <2>2. w = {} /\ L = {} /\ a \subseteq {k} /\ (Gone(d, b) \/ k \in a)
    BY <1>1 DEF BeforeUpdate
  <2> HIDE DEF strict, title, k
  <2>3. Head(t) = e /\ Tail(t) = FromTags(c.n, b, s)
    BY <2>1, TagStatements, ThenFacts
  <2>4. Does(d, e, a, w, L, w2, L2)
    BY <2>3
  <2>5. w2 = {Rename(r) : r \in R} /\ L2 = Keys(R) \X {"NO_KEY_UPDATE"}
    BY <2>2, <2>4, UpdateDoes
  <2>6. \A r \in R : r \in d /\ Key(r) = k
    BY <2>2 DEF Hit, Kept
  <2>7. CASE Gone(d, b)
    <3>1. R = {}
      BY <2>6, <2>7 DEF Gone, Keys, k
    <3>2. w2 = {} /\ L2 = {}
      BY <2>5, <3>1 DEF Keys
    <3> QED
      BY <2>1, <2>3, <2>7, <3>2 DEF EditingBook, Missed
  <2>8. CASE ~Gone(d, b)
    <3>1. PICK q \in d : Key(q) = k
      BY <2>8 DEF Gone, Keys, k
    <3>2. R = {q} /\ Keys(R) = {k}
      <4>1. q \in R
        BY <2>2, <2>8, <3>1, NoLocks DEF Hit
      <4> QED
        BY <2>6, <3>1, <4>1 DEF Sound, Keys
    <3>3. Rename(q) = Book(b, title, q.author)
      <4>1. IsRow(q) /\ q.table = "books" /\ q.id = b
        BY <3>1, RowFacts DEF Sound, AuthorKey, BookKey, k
      <4> QED
        BY <4>1, Renamed
    <3>4. w2 = {Book(b, title, q.author)}
      <4>1. {Rename(r) : r \in R} = {Rename(q)}
        BY <3>2
      <4> QED
        BY <2>5, <3>3, <4>1
    <3>5. L2 = {<<k, "NO_KEY_UPDATE">>} /\ L2 = {} \cup ({k} \X {"NO_KEY_UPDATE"})
      <4>1. L2 = {k} \X {"NO_KEY_UPDATE"}
        BY <2>5, <3>2
      <4>2. L2 = {} \cup ({k} \X {"NO_KEY_UPDATE"})
        BY <4>1
      <4> QED
        BY <4>2, OneLock
    <3>6. WrittenIn(L2) = {k}
      <4> DEFINE none == {}
                 one == {k}
                 m == "NO_KEY_UPDATE"
      <4>2. L2 = none \cup (one \X {m})
        BY <3>5
      <4>3. m # "KEY_SHARE"
        OBVIOUS
      <4> HIDE DEF none, one, m
      <4>4. WrittenIn(L2) = WrittenIn(none) \cup one
        BY <4>2, <4>3, WrittenGrows
      <4>1. WrittenIn(L2) = WrittenIn({}) \cup {k}
        BY <4>4 DEF none, one
      <4> QED
        BY <4>1, NoLocks
    <3>7. \A r \in Locked(d, L2) : Key(r) = BookKey(b)
      BY <3>6 DEF Locked, k
    <3>8. WritingTags(c, d, Tail(t), NoAim, w2, L2, c.n, b, {})
      <4> DEFINE D == {}
                 none == {}
      <4>1. D \cup Range(s) = c.tags
        BY <2>1
      <4>2. w2 = none \cup {Book(b, c.title, q.author)} \cup {Tag(c.n, b, x) : x \in D}
        BY <3>4 DEF title
      <4>3. D = {}
        OBVIOUS
      <4> HIDE DEF D, none
      <4>4. WritingTags(c, d, Tail(t), NoAim, w2, L2, c.n, b, none)
        BY <2>1, <2>3, <3>7, <4>1, <4>2, <4>3, WritingTagsIs
      <4> QED
        BY <4>4 DEF none
    <3> QED
      BY <3>5, <3>8 DEF EditingBook, k
  <2> QED
    BY <2>7, <2>8
<1>2. CASE <<BookKey(b), "NO_KEY_UPDATE">> \in L /\ WritingTags(c, d, t, a, w, L, c.n, b, {})
  <2>1. WritingTags(c, d, Tail(t), NoAim, w2, L2, c.n, b, {})
    BY <1>2, WritingTags_Step
  <2>2. <<BookKey(b), "NO_KEY_UPDATE">> \in L2
    BY <1>2, StepGrows
  <2> QED
    BY <2>1, <2>2 DEF EditingBook
<1>3. CASE Missed(c, d, t, a, w, L)
  <2>1. PICK s : /\ IsSeq(s)
                 /\ \/ t = FromTags(c.n, b, s) \/ t = Checked(Inserts(c.n, b, s)) \/ t = Inserts(c.n, b, s)
    BY <1>3 DEF Missed
  <2>2. w = {} /\ L = {} /\ Gone(d, b) /\ a = {}
    BY <1>3 DEF Missed
  <2>3. CASE t = FromTags(c.n, b, s)
    <3>1. Head(t).op = "delete" /\ Tail(t) = Checked(Inserts(c.n, b, s))
      BY <2>1, <2>3, TagStatements, DeletionFacts
    <3>2. w2 = {} /\ L2 = {}
      BY <2>2, <3>1, DeleteDoes
    <3> QED
      BY <2>1, <2>2, <3>1, <3>2 DEF EditingBook, Missed
  <2>4. CASE t = Checked(Inserts(c.n, b, s))
    <3>1. Head(t) = Check /\ Tail(t) = Inserts(c.n, b, s)
      BY <2>1, <2>4, TagStatements
    <3>2. w2 = {} /\ L2 = {}
      BY <2>2, <3>1, CheckDoes
    <3> QED
      BY <2>1, <2>2, <3>1, <3>2 DEF EditingBook, Missed
  <2>5. CASE t = Inserts(c.n, b, s)
    <3>1. PICK x : Head(t) = Insert(Tag(c.n, b, x))
      BY <2>1, <2>5, InsertsFacts
    <3> DEFINE row == Tag(c.n, b, x)
    <3>2. References(row) = {BookKey(b)}
      BY TagFacts
    <3> HIDE DEF row
    <3>3. Does(d, Insert(row), a, w, L, w2, L2)
      BY <3>1 DEF row
    <3>4. BookKey(b) \in Keys(Seen(d, w, L))
      BY <3>2, <3>3, InsertDoes
    <3> QED
      BY <2>2, <3>4, SeenWithoutNew, NoLocks DEF Gone
  <2> QED
    BY <2>1, <2>3, <2>4, <2>5
<1> QED
  BY <1>1, <1>2, <1>3 DEF EditingBook

\* A book of a number that no row has yet is without tags.
LEMMA NoBookYet ==
  ASSUME NEW d, NEW n, Sound(d), \A r \in d : Number(r) # n
  PROVE  BookKey(n) \notin Keys(d) /\ TagsOf(d, n) = {}
<1>1. BookKey(n) \notin Keys(d)
  <2> SUFFICES ASSUME NEW q \in d, Key(q) = BookKey(n) PROVE FALSE
    BY DEF Keys
  <2>1. IsRow(q)
    BY DEF Sound
  <2>2. Key(q)[2] = Number(q) /\ BookKey(n)[2] = n
    BY <2>1, RowFacts DEF BookKey
  <2> QED
    BY <2>2
<1>2. ASSUME NEW r \in TagsOf(d, n) PROVE FALSE
  <2>1. r \in d /\ IsRow(r) /\ r.table = "tags" /\ r.book = n
    BY DEF TagsOf, Sound
  <2>2. References(r) = {BookKey(n)}
    BY <2>1, RowFacts
  <2> QED
    BY <1>1, <2>1, <2>2 DEF Sound
<1> QED
  BY <1>1, <1>2

LEMMA BeforeBookIs ==
  ASSUME NEW c, NEW t, NEW w, NEW L, BeforeBook(c, t, w, L)
  PROVE  /\ L = {}
         /\ \E s, author, rest :
              /\ IsSeq(s) /\ Range(s) = c.tags /\ IsSeq(rest)
              /\ rest = Then(Insert(Book(c.book, c.title, author)), FromTags(c.book, c.book, s))
              /\ Head(rest) = Insert(Book(c.book, c.title, author)) /\ Tail(rest) = FromTags(c.book, c.book, s)
              /\ \/ (w = {} \/ w = {Author(c.book, c.name)}) /\ t = rest
                 \/ /\ w = {} /\ t = Then(Insert(Author(c.book, c.name)), rest)
                    /\ Head(t) = Insert(Author(c.book, c.name)) /\ Tail(t) = rest
<1>1. PICK s, author :
        LET rest == Then(Insert(Book(c.book, c.title, author)), FromTags(c.book, c.book, s))
        IN /\ IsSeq(s) /\ Range(s) = c.tags
           /\ \/ w \in {{}, {Author(c.book, c.name)}} /\ t = rest
              \/ w = {} /\ t = Then(Insert(Author(c.book, c.name)), rest)
  BY DEF BeforeBook
<1> DEFINE e == Insert(Book(c.book, c.title, author))
           f == Insert(Author(c.book, c.name))
           more == FromTags(c.book, c.book, s)
           rest == Then(e, more)
<1> HIDE DEF e, f, more
<1>2. IsSeq(more)
  BY <1>1, TagStatements DEF more
<1>3. IsSeq(rest) /\ Head(rest) = e /\ Tail(rest) = more
  BY <1>2, ThenFacts
<1> HIDE DEF rest
<1>4. Head(Then(f, rest)) = f /\ Tail(Then(f, rest)) = rest
  BY <1>3, ThenFacts
<1>5. /\ IsSeq(s) /\ Range(s) = c.tags
      /\ \/ w \in {{}, {Author(c.book, c.name)}} /\ t = rest
         \/ w = {} /\ t = Then(f, rest)
  BY <1>1 DEF rest, e, f, more
<1>6. L = {}
  BY DEF BeforeBook
<1> QED
  BY <1>3, <1>4, <1>5, <1>6 DEF rest, e, f, more

LEMMA AddingBook_Fits ==
  ASSUME NEW c, NEW d, NEW t, NEW a, NEW w, NEW L,
         c.op = "AddBook", AddingBook(c, d, t, a, w, L), t # <<>>
  PROVE  Fits(c, Head(t), a, w)
<1>0. OwnedBy(c, c.book)
  BY DEF OwnedBy
<1>1. CASE BeforeBook(c, t, w, L)
  <2>1. PICK r : Head(t) = Insert(r) /\ IsRow(r) /\ Number(r) = c.book
    BY <1>1, BeforeBookIs, AuthorFacts, BookFacts
  <2>2. Head(t).op = "insert" /\ Head(t).row = r
    BY <2>1 DEF Insert
  <2> QED
    BY <1>0, <2>1, <2>2 DEF Fits
<1>2. ASSUME NEW others, WritingTags(c, d, t, a, w, L, c.book, c.book, others)
      PROVE  Fits(c, Head(t), a, w)
  BY <1>0, <1>2, WritingTags_Fits
<1> QED
  BY <1>1, <1>2 DEF AddingBook

LEMMA AddingBook_Aim ==
  ASSUME NEW c, NEW d, NEW t, NEW w, NEW L, Sound(d), AddingBook(c, d, t, NoAim, w, L), t # <<>>
  PROVE  AddingBook(c, d, t, AimOf(d, Head(t), w, L), w, L) /\ AimsAt(d, w, AimOf(d, Head(t), w, L))
<1> DEFINE K == AimOf(d, Head(t), w, L)
<1>1. CASE BeforeBook(c, t, w, L)
  <2>1. PICK r : Head(t) = Insert(r)
    BY <1>1, BeforeBookIs
  <2>2. Head(t).op = "insert"
    BY <2>1 DEF Insert
  <2>3. K = {}
    BY <2>2, AimOfOthers
  <2> HIDE DEF K
  <2>4. AddingBook(c, d, t, K, w, L)
    BY <1>1 DEF AddingBook
  <2> QED
    BY <2>3, <2>4 DEF AimsAt, K
<1>2. ASSUME NEW others \in {{}, {Author(c.book, c.name)}},
             WritingTags(c, d, t, NoAim, w, L, c.book, c.book, others)
      PROVE  AddingBook(c, d, t, K, w, L) /\ AimsAt(d, w, K)
  <2>1. \A r \in others : IsRow(r) /\ r.table = "authors"
    BY <1>2, AuthorFacts
  <2>2. WritingTags(c, d, t, K, w, L, c.book, c.book, others) /\ AimsAt(d, w, K)
    BY <1>2, <2>1, WritingTags_Aim
  <2> HIDE DEF K
  <2> QED
    BY <1>2, <2>2 DEF AddingBook
<1> QED
  BY <1>1, <1>2 DEF AddingBook

LEMMA AddingBook_Step ==
  ASSUME NEW c, NEW d, NEW t, NEW a, NEW w, NEW L, NEW w2, NEW L2,
         Sound(d), AddingBook(c, d, t, a, w, L), t # <<>>, a # NoAim,
         Does(d, Head(t), a, w, L, w2, L2), \A r \in d : Number(r) # c.book
  PROVE  AddingBook(c, d, Tail(t), NoAim, w2, L2)
<1> DEFINE n == c.book
<1>0. TagsOf(d, n) = {} /\ Keys(TagsOf(d, n)) = {}
  <2>1. TagsOf(d, n) = {}
    BY NoBookYet
  <2> QED
    BY <2>1 DEF Keys
<1>1. CASE BeforeBook(c, t, w, L)
  <2>1. PICK s, author, rest :
          /\ IsSeq(s) /\ Range(s) = c.tags
          /\ rest = Then(Insert(Book(n, c.title, author)), FromTags(n, n, s))
          /\ Head(rest) = Insert(Book(n, c.title, author)) /\ Tail(rest) = FromTags(n, n, s)
          /\ \/ (w = {} \/ w = {Author(n, c.name)}) /\ t = rest
             \/ /\ w = {} /\ t = Then(Insert(Author(n, c.name)), rest)
                /\ Head(t) = Insert(Author(n, c.name)) /\ Tail(t) = rest
    BY <1>1, BeforeBookIs
  <2>2. L = {}
    BY <1>1, BeforeBookIs
  <2>3. CASE (w = {} \/ w = {Author(n, c.name)}) /\ t = rest
    <3> DEFINE row == Book(n, c.title, author)
               share == "KEY_SHARE"
               K == {AuthorKey(author)}
    <3>1. Does(d, Insert(row), a, w, L, w2, L2)
      BY <2>1, <2>3
    <3>2. References(row) = K
      BY BookFacts
    <3> HIDE DEF row, K
    <3>3. w2 = w \cup {row} /\ L2 = L \cup (K \X {share}) /\ WrittenIn(L2) = WrittenIn(L)
      BY <3>1, <3>2, InsertDoes
    <3> HIDE DEF share
    <3>4. \A p \in L2 : p[2] = "KEY_SHARE"
      BY <2>2, <3>3, PairFacts DEF share
    <3>5. Locked(d, L2) = {}
      BY <2>2, <3>3, NoLocks DEF Locked
    <3>6. WritingTags(c, d, Tail(t), NoAim, w2, L2, n, n, w)
      <4> DEFINE D == {}
      <4>1. D \cup Range(s) = c.tags
        BY <2>1
      <4>2. w2 = w \cup {Book(n, c.title, author)} \cup {Tag(n, n, x) : x \in D}
        BY <3>3 DEF row
      <4>3. D = {}
        OBVIOUS
      <4> HIDE DEF D
      <4>4. Tail(t) = FromTags(n, n, s)
        BY <2>1, <2>3
      <4> QED
        BY <2>1, <3>5, <4>1, <4>2, <4>3, <4>4, WritingTagsIs
    <3>7. w \in {{}, {Author(c.book, c.name)}}
      BY <2>3
    <3> QED
      BY <3>4, <3>6, <3>7 DEF AddingBook
  <2>4. CASE w = {} /\ Head(t) = Insert(Author(n, c.name)) /\ Tail(t) = rest
    <3> DEFINE row == Author(n, c.name)
               share == "KEY_SHARE"
               K == {}
    <3>1. Does(d, Insert(row), a, w, L, w2, L2)
      BY <2>4
    <3>2. References(row) = K
      BY AuthorFacts
    <3> HIDE DEF row, K
    <3>3. w2 = w \cup {row} /\ L2 = L \cup (K \X {share})
      BY <3>1, <3>2, InsertDoes
    <3> HIDE DEF share
    <3>4. L2 = {}
      <4>1. \A p \in K \X {share} : p[1] \in K
        BY PairFacts
      <4> QED
        BY <2>2, <3>3, <4>1 DEF K
    <3>5. w2 = {Author(c.book, c.name)}
      BY <2>4, <3>3 DEF row
    <3>6. BeforeBook(c, Tail(t), w2, L2)
      BY <2>1, <2>4, <3>4, <3>5 DEF BeforeBook
    <3> QED
      BY <3>4, <3>6 DEF AddingBook
  <2> QED
    BY <2>1, <2>3, <2>4
<1>2. ASSUME NEW others \in {{}, {Author(c.book, c.name)}},
             WritingTags(c, d, t, a, w, L, n, n, others), \A p \in L : p[2] = "KEY_SHARE"
      PROVE  AddingBook(c, d, Tail(t), NoAim, w2, L2)
  <2>1. WritingTags(c, d, Tail(t), NoAim, w2, L2, n, n, others)
    BY <1>2, WritingTags_Step
  <2>2. PICK s : /\ IsSeq(s)
                 /\ \/ t = FromTags(n, n, s) /\ a \subseteq Keys(TagsOf(d, n))
                    \/ t = Checked(Inserts(n, n, s)) \/ t = Inserts(n, n, s)
    BY <1>2, WritingTagsIs
  <2>3. \A p \in L2 : p[2] = "KEY_SHARE"
    <3>1. CASE t = FromTags(n, n, s) /\ a \subseteq Keys(TagsOf(d, n))
      <4>1. Head(t).op = "delete" /\ a \cap Keys(d) = {}
        BY <1>0, <2>2, <3>1, TagStatements, DeletionFacts
      <4>2. L2 = L
        BY <4>1, DeleteDoes
      <4> QED
        BY <1>2, <4>2
    <3>2. CASE t = Checked(Inserts(n, n, s))
      <4>1. Head(t) = Check
        BY <2>2, <3>2, TagStatements
      <4>2. L2 = L
        BY <4>1, CheckDoes
      <4> QED
        BY <1>2, <4>2
    <3>3. CASE t = Inserts(n, n, s)
      <4>1. PICK x : Head(t) = Insert(Tag(n, n, x))
        BY <2>2, <3>3, InsertsFacts
      <4> DEFINE row == Tag(n, n, x)
                 K == References(row)
                 share == "KEY_SHARE"
      <4> HIDE DEF row
      <4>2. Does(d, Insert(row), a, w, L, w2, L2)
        BY <4>1 DEF row
      <4>3. L2 = L \cup (K \X {share})
        BY <4>2, InsertDoes
      <4> HIDE DEF K, share
      <4> QED
        BY <1>2, <4>3, PairFacts DEF share
    <3> QED
      BY <2>2, <3>1, <3>2, <3>3
  <2> QED
    BY <1>2, <2>1, <2>3 DEF AddingBook
<1> QED
  BY <1>1, <1>2 DEF AddingBook

-----------------------------------------------------------------------------
(***************************************************************************)
(* A snapshot and a statement of any command.                              *)
(***************************************************************************)
LEMMA AddingAuthor_Fits ==
  ASSUME NEW c, NEW t, NEW a, NEW w, NEW L, c.op = "AddAuthor", AddingAuthor(c, t, w, L), t # <<>>
  PROVE  Fits(c, Head(t), a, w)
<1> DEFINE r == Author(c.n, c.name)
<1>1. Head(t) = Insert(r)
  BY OneStatement DEF AddingAuthor
<1>2. IsRow(r) /\ Number(r) = c.n
  BY AuthorFacts
<1> HIDE DEF r
<1>3. Head(t).op = "insert" /\ Head(t).row = r
  BY <1>1 DEF Insert
<1> QED
  BY <1>2, <1>3 DEF Fits, OwnedBy

LEMMA Running_Fits ==
  ASSUME NEW c, NEW d, NEW t, NEW a, NEW w, NEW L,
         IsCommand(c), Running(c, d, t, a, w, L), t # <<>>, a # NoAim
  PROVE  Fits(c, Head(t), a, w)
<1>1. CASE c.op = "AddAuthor"
  BY <1>1, AddingAuthor_Fits DEF Running, Progress
<1>2. CASE c.op = "EditAuthor"
  BY <1>2, EditingAuthor_Fits DEF Running, Progress
<1>3. CASE c.op = "DeleteAuthor"
  BY <1>3, DeletingAuthor_Fits DEF Running, Progress
<1>4. CASE c.op = "DeleteBook"
  BY <1>4, DeletingBook_Fits DEF Running, Progress
<1>5. CASE c.op = "EditBook"
  BY <1>5, EditingBook_Fits DEF Running, Progress
<1>6. CASE c.op = "AddBook"
  BY <1>6, AddingBook_Fits DEF Running, Progress
<1> QED
  BY <1>1, <1>2, <1>3, <1>4, <1>5, <1>6 DEF IsCommand

LEMMA Running_Aim ==
  ASSUME NEW c, NEW d, NEW t, NEW w, NEW L,
         IsCommand(c), Sound(d), Running(c, d, t, NoAim, w, L), t # <<>>
  PROVE  /\ Running(c, d, t, AimOf(d, Head(t), w, L), w, L)
         /\ AimOf(d, Head(t), w, L) \subseteq Keys(d)
<1> DEFINE K == AimOf(d, Head(t), w, L)
<1>1. Progress(c, d, t, NoAim, w, L)
  BY DEF Running
<1>2. Progress(c, d, t, K, w, L) /\ AimsAt(d, w, K)
  <2>1. CASE c.op = "AddAuthor"
    <3>1. K = {} /\ AddingAuthor(c, t, w, L)
      BY <1>1, <2>1, AddingAuthor_Aim DEF Progress
    <3> HIDE DEF K
    <3> QED
      BY <2>1, <3>1 DEF Progress, AimsAt
  <2>2. CASE c.op = "EditAuthor"
    <3>1. EditingAuthor(c, t, K, w, L) /\ AimsAt(d, w, K)
      BY <1>1, <2>2, EditingAuthor_Aim DEF Progress
    <3> HIDE DEF K
    <3> QED
      BY <2>2, <3>1 DEF Progress
  <2>3. CASE c.op = "DeleteAuthor"
    <3>1. DeletingAuthor(c, d, t, K, w, L) /\ AimsAt(d, w, K)
      BY <1>1, <2>3, DeletingAuthor_Aim DEF Progress
    <3> HIDE DEF K
    <3> QED
      BY <2>3, <3>1 DEF Progress
  <2>4. CASE c.op = "DeleteBook"
    <3>1. DeletingBook(c, d, t, K, w, L) /\ AimsAt(d, w, K)
      BY <1>1, <2>4, DeletingBook_Aim DEF Progress
    <3> HIDE DEF K
    <3> QED
      BY <2>4, <3>1 DEF Progress
  <2>5. CASE c.op = "EditBook"
    <3>1. EditingBook(c, d, t, K, w, L) /\ AimsAt(d, w, K)
      BY <1>1, <2>5, EditingBook_Aim DEF Progress
    <3> HIDE DEF K
    <3> QED
      BY <2>5, <3>1 DEF Progress
  <2>6. CASE c.op = "AddBook"
    <3>1. AddingBook(c, d, t, K, w, L) /\ AimsAt(d, w, K)
      BY <1>1, <2>6, AddingBook_Aim DEF Progress
    <3> HIDE DEF K
    <3> QED
      BY <2>6, <3>1 DEF Progress
  <2> QED
    BY <2>1, <2>2, <2>3, <2>4, <2>5, <2>6 DEF IsCommand
<1>3. Head(t).op \in {"insert", "check"} => K = {}
  BY AimOfOthers
<1> HIDE DEF K
<1>4. AimOK(t, K, w)
  BY <1>2, <1>3 DEF AimOK, AimsAt
<1> QED
  BY <1>2, <1>4 DEF Running, AimsAt, K

LEMMA Running_Step ==
  ASSUME NEW c, NEW d, NEW t, NEW a, NEW w, NEW L, NEW w2, NEW L2,
         IsCommand(c), Sound(d), Running(c, d, t, a, w, L), t # <<>>, a # NoAim,
         \A r \in d : ~OwnedBy(c, Number(r)),
         Does(d, Head(t), a, w, L, w2, L2)
  PROVE  Running(c, d, Tail(t), NoAim, w2, L2)
<1>1. Progress(c, d, t, a, w, L) /\ LocksHold(d, w, L) /\ NewRows(c, d, w, L)
  BY DEF Running
<1>2. Fits(c, Head(t), a, w)
  BY Running_Fits
<1>3. LocksHold(d, w2, L2) /\ NewRows(c, d, w2, L2)
  BY <1>1, <1>2, StepLocks, StepRows
<1>4. AimOK(Tail(t), NoAim, w2)
  BY DEF AimOK
<1>5. Progress(c, d, Tail(t), NoAim, w2, L2)
  <2>1. CASE c.op = "AddAuthor"
    <3>1. AddingAuthor(c, Tail(t), w2, L2)
      BY <1>1, <2>1, AddingAuthor_Step DEF Progress
    <3> QED
      BY <2>1, <3>1 DEF Progress
  <2>2. CASE c.op = "EditAuthor"
    <3>1. EditingAuthor(c, Tail(t), NoAim, w2, L2)
      BY <1>1, <2>2, EditingAuthor_Step DEF Progress
    <3> QED
      BY <2>2, <3>1 DEF Progress
  <2>3. CASE c.op = "DeleteAuthor"
    <3>1. DeletingAuthor(c, d, Tail(t), NoAim, w2, L2)
      BY <1>1, <2>3, DeletingAuthor_Step DEF Progress
    <3> QED
      BY <2>3, <3>1 DEF Progress
  <2>4. CASE c.op = "DeleteBook"
    <3>1. DeletingBook(c, d, Tail(t), NoAim, w2, L2)
      BY <1>1, <2>4, DeletingBook_Step DEF Progress
    <3> QED
      BY <2>4, <3>1 DEF Progress
  <2>5. CASE c.op = "EditBook"
    <3>1. EditingBook(c, d, Tail(t), NoAim, w2, L2)
      BY <1>1, <2>5, EditingBook_Step DEF Progress
    <3> QED
      BY <2>5, <3>1 DEF Progress
  <2>6. CASE c.op = "AddBook"
    <3>1. \A r \in d : Number(r) # c.book
      BY <2>6 DEF OwnedBy
    <3>2. AddingBook(c, d, Tail(t), NoAim, w2, L2)
      BY <1>1, <2>6, <3>1, AddingBook_Step DEF Progress
    <3> QED
      BY <2>6, <3>2 DEF Progress
  <2> QED
    BY <2>1, <2>2, <2>3, <2>4, <2>5, <2>6 DEF IsCommand
<1> QED
  BY <1>3, <1>4, <1>5 DEF Running

-----------------------------------------------------------------------------
(***************************************************************************)
(* A transaction that has run all its statements, and its commit.          *)
(***************************************************************************)
\* The book of a command, written with all its tags in place of what was there.
Whole(c, d, w, L, n, b, others) ==
  /\ \E author : w = others \cup {Book(b, c.title, author)} \cup {Tag(n, b, x) : x \in c.tags}
  /\ \A r \in Locked(d, L) : Key(r) = BookKey(b) \/ r \in TagsOf(d, b)
  /\ Keys(TagsOf(d, b)) \subseteq WrittenIn(L)

\* What is deleted without a new version is not referenced by what stays.
Deleted(c, d, w, L) ==
  /\ w = {} /\ Unreferenced(d, L)
  /\ \/ c.op = "DeleteBook" /\ (Gone(d, c.book) \/ BookKey(c.book) \in WrittenIn(L))
     \/ c.op = "DeleteAuthor" /\ AuthorKey(c.author) \in WrittenIn(L)
  /\ TagsWithin(d, L, WrittenIn(L))

Edited(c, d, w, L) ==
  \/ Gone(d, c.book) /\ w = {} /\ L = {}
  \/ <<BookKey(c.book), "NO_KEY_UPDATE">> \in L /\ Whole(c, d, w, L, c.n, c.book, {})

Added(c, d, w, L) ==
  /\ \A p \in L : p[2] = "KEY_SHARE"
  /\ \E others \in {{}, {Author(c.book, c.name)}} : Whole(c, d, w, L, c.book, c.book, others)

Finished(c, d, w, L) ==
  \/ c.op = "AddAuthor" /\ w = {Author(c.n, c.name)} /\ L = {}
  \/ c.op = "EditAuthor" /\ w = {Author(c.author, c.name)} /\ L = {<<AuthorKey(c.author), "UPDATE">>}
  \/ c.op \in {"DeleteAuthor", "DeleteBook"} /\ Deleted(c, d, w, L)
  \/ c.op = "EditBook" /\ Edited(c, d, w, L)
  \/ c.op = "AddBook" /\ Added(c, d, w, L)

LEMMA WholeAtLast ==
  ASSUME NEW c, NEW d, NEW a, NEW w, NEW L, NEW n, NEW b, NEW others,
         WritingTags(c, d, <<>>, a, w, L, n, b, others)
  PROVE  Whole(c, d, w, L, n, b, others)
<1> DEFINE t == <<>>
<1>0. t = <<>>
  OBVIOUS
<1> HIDE DEF t
<1>1. PICK author, s, D :
        /\ IsSeq(s) /\ D \cup Range(s) = c.tags
        /\ w = others \cup {Book(b, c.title, author)} \cup {Tag(n, b, x) : x \in D}
        /\ \A r \in Locked(d, L) : Key(r) = BookKey(b) \/ r \in TagsOf(d, b)
        /\ \/ t = FromTags(n, b, s)
           \/ /\ t = Checked(Inserts(n, b, s)) \/ t = Inserts(n, b, s)
              /\ Keys(TagsOf(d, b)) \subseteq WrittenIn(L)
  BY WritingTagsIs DEF t
<1>2. FromTags(n, b, s) # <<>> /\ Checked(Inserts(n, b, s)) # <<>>
  BY <1>1, TagStatements, InsertsFacts, ThenFacts DEF Checked
<1>3. t = Inserts(n, b, s) /\ Keys(TagsOf(d, b)) \subseteq WrittenIn(L)
  BY <1>0, <1>1, <1>2
<1>4. Range(s) = {}
  BY <1>0, <1>1, <1>3, InsertsFacts
<1>5. D = c.tags
  BY <1>1, <1>4
<1> QED
  BY <1>1, <1>3, <1>5 DEF Whole

LEMMA NotAtLast ==
  ASSUME NEW i
  PROVE  /\ FromBook(i) # <<>> /\ Checked(FromBook(i)) # <<>> /\ FromBookTags(i) # <<>>
         /\ FromAuthor(i) # <<>> /\ Checked(FromAuthor(i)) # <<>>
         /\ FromItsBooks(i) # <<>> /\ Checked(FromItsBooks(i)) # <<>> /\ FromItsTags(i) # <<>>
<1>1. IsSeq(<<Check>>)
  BY OneStatement
<1>2. \A s, rest : IsSeq(rest) => IsSeq(Then(s, rest)) /\ Then(s, rest) # <<>>
  BY ThenFacts
<1>3. /\ IsSeq(FromBook(i)) /\ IsSeq(FromAuthor(i)) /\ FromBook(i) # <<>> /\ FromAuthor(i) # <<>>
  BY <1>1, <1>2 DEF FromBook, FromAuthor
<1>4. /\ IsSeq(Checked(FromBook(i))) /\ IsSeq(Checked(FromAuthor(i)))
      /\ Checked(FromBook(i)) # <<>> /\ Checked(FromAuthor(i)) # <<>>
  BY <1>2, <1>3 DEF Checked
<1>5. /\ IsSeq(FromItsBooks(i)) /\ IsSeq(Checked(FromItsBooks(i)))
      /\ FromItsBooks(i) # <<>> /\ Checked(FromItsBooks(i)) # <<>>
  BY <1>2, <1>4 DEF FromItsBooks, Checked
<1>6. FromBookTags(i) # <<>> /\ FromItsTags(i) # <<>>
  BY <1>2, <1>4, <1>5 DEF FromBookTags, FromItsTags
<1> QED
  BY <1>3, <1>4, <1>5, <1>6

LEMMA FinishedIs ==
  ASSUME NEW c, NEW d, NEW a, NEW w, NEW L, IsCommand(c), Sound(d),
         Progress(c, d, <<>>, a, w, L)
  PROVE  Finished(c, d, w, L)
<1> DEFINE t == <<>>
<1>0. t = <<>> /\ Progress(c, d, t, a, w, L)
  OBVIOUS
<1> HIDE DEF t
<1>a. \A s : <<s>> # <<>>
  BY OneStatement
<1>1. CASE c.op = "AddAuthor"
  BY <1>0, <1>1, <1>a DEF Progress, AddingAuthor, Finished
<1>2. CASE c.op = "EditAuthor"
  BY <1>0, <1>2, <1>a DEF Progress, EditingAuthor, EditAuthorWork, Finished
<1>3. CASE c.op = "DeleteAuthor"
  <2>1. DeletingAuthor(c, d, t, a, w, L)
    BY <1>0, <1>3 DEF Progress
  <2>2. /\ w = {} /\ Unreferenced(d, L) /\ AuthorKey(c.author) \in WrittenIn(L)
        /\ TagsWithin(d, L, WrittenIn(L))
    BY <1>0, <1>a, <2>1, NotAtLast DEF DeletingAuthor
  <2> QED
    BY <1>3, <2>2 DEF Finished, Deleted
<1>4. CASE c.op = "DeleteBook"
  <2>1. DeletingBook(c, d, t, a, w, L)
    BY <1>0, <1>4 DEF Progress
  <2>2. /\ w = {} /\ Unreferenced(d, L) /\ TagsWithin(d, L, {BookKey(c.book)})
        /\ Gone(d, c.book) \/ BookKey(c.book) \in WrittenIn(L)
    BY <1>0, <1>a, <2>1, NotAtLast DEF DeletingBook
  <2>3. TagsWithin(d, L, WrittenIn(L))
    <3> SUFFICES ASSUME NEW r \in Locked(d, L), r.table = "tags" PROVE BookKey(r.book) \in WrittenIn(L)
      BY DEF TagsWithin
    <3>1. BookKey(r.book) = BookKey(c.book) /\ r \in d /\ IsRow(r)
      BY <2>2 DEF TagsWithin, Locked, Sound
    <3>2. BookKey(r.book) \in Keys(d)
      BY <3>1, RowFacts DEF Sound
    <3> QED
      BY <2>2, <3>1, <3>2 DEF Gone
  <2> QED
    BY <1>4, <2>2, <2>3 DEF Finished, Deleted
<1>5. CASE c.op = "EditBook"
  <2>1. EditingBook(c, d, t, a, w, L)
    BY <1>0, <1>5 DEF Progress
  <2>2. ~BeforeUpdate(c, d, t, a, w, L)
    <3> SUFFICES ASSUME BeforeUpdate(c, d, t, a, w, L) PROVE FALSE
      OBVIOUS
    <3>1. PICK e, s : IsSeq(s) /\ t = Then(e, FromTags(c.n, c.book, s))
      BY DEF BeforeUpdate
    <3> QED
      BY <1>0, <3>1, TagStatements, ThenFacts
  <2>3. Edited(c, d, w, L)
    BY <1>0, <2>1, <2>2, WholeAtLast DEF EditingBook, Missed, Edited
  <2> QED
    BY <1>5, <2>3 DEF Finished
<1>6. CASE c.op = "AddBook"
  <2>1. AddingBook(c, d, t, a, w, L)
    BY <1>0, <1>6 DEF Progress
  <2>2. ~BeforeBook(c, t, w, L)
    <3> SUFFICES ASSUME BeforeBook(c, t, w, L) PROVE FALSE
      OBVIOUS
    <3>1. PICK s, author, rest :
            /\ IsSeq(s) /\ IsSeq(rest)
            /\ rest = Then(Insert(Book(c.book, c.title, author)), FromTags(c.book, c.book, s))
            /\ t = rest \/ t = Then(Insert(Author(c.book, c.name)), rest)
      BY BeforeBookIs
    <3>2. IsSeq(FromTags(c.book, c.book, s))
      BY <3>1, TagStatements
    <3> QED
      BY <1>0, <3>1, <3>2, ThenFacts
  <2>3. Added(c, d, w, L)
    BY <1>0, <2>1, <2>2, WholeAtLast DEF AddingBook, Added
  <2> QED
    BY <1>6, <2>3 DEF Finished
<1> QED
  BY <1>1, <1>2, <1>3, <1>4, <1>5, <1>6 DEF IsCommand

\* The author that a command has added with a book, if any.
OneAuthor(S) == (\A r \in S : IsRow(r) /\ r.table = "authors") /\ \A r, q \in S : r = q

\* The new rows of a command that writes a book.
LEMMA WholeRows ==
  ASSUME NEW c, NEW d, NEW w, NEW L, NEW n, NEW b, NEW others,
         OneAuthor(others), Whole(c, d, w, L, n, b, others)
  PROVE  /\ \A r, q \in w : Key(r) = Key(q) => r = q
         /\ \E author : /\ Book(b, c.title, author) \in w
                        /\ \A r \in w : r.table = "books" => r = Book(b, c.title, author)
         /\ \A r : r \in w /\ r.table = "tags" <=> \E x \in c.tags : r = Tag(n, b, x)
<1>1. PICK author : w = others \cup {Book(b, c.title, author)} \cup {Tag(n, b, x) : x \in c.tags}
  BY DEF Whole
<1>2. ASSUME NEW r \in w
      PROVE  /\ \/ r \in others \/ r = Book(b, c.title, author) \/ \E x \in c.tags : r = Tag(n, b, x)
             /\ IsRow(r)
  BY <1>1, BookFacts, TagFacts DEF OneAuthor
<1>3. \A r \in w : r.table = "authors" => r \in others
  BY <1>2, BookFacts, TagFacts
<1>4. \A r \in w : r.table = "books" => r = Book(b, c.title, author)
  BY <1>2, TagFacts DEF OneAuthor
<1>5. \A r \in w : r.table = "tags" => \E x \in c.tags : r = Tag(n, b, x)
  BY <1>2, BookFacts DEF OneAuthor
<1>6. ASSUME NEW r \in w, NEW q \in w, Key(r) = Key(q) PROVE r = q
  <2>1. r.table = q.table /\ r.table \in {"authors", "books", "tags"}
    BY <1>2, <1>6, RowFacts
  <2>2. CASE r.table = "tags"
    <3>1. PICK x \in c.tags, z \in c.tags : r = Tag(n, b, x) /\ q = Tag(n, b, z)
      BY <1>5, <2>1, <2>2
    <3>2. <<"tags", n, x>> = <<"tags", n, z>>
      BY <1>6, <3>1, TagFacts
    <3> QED
      BY <3>1, <3>2
  <2> QED
    BY <1>3, <1>4, <2>1, <2>2 DEF OneAuthor
<1>7. \A x \in c.tags : Tag(n, b, x) \in w /\ Tag(n, b, x).table = "tags"
  BY <1>1, TagFacts
<1>8. Book(b, c.title, author) \in w
  BY <1>1
<1> QED
  BY <1>4, <1>5, <1>6, <1>7, <1>8

LEMMA WholeTags ==
  ASSUME NEW c, NEW d, NEW w, NEW L, NEW n, NEW b, NEW others,
         OneAuthor(others), Whole(c, d, w, L, n, b, others)
  PROVE  TagsOf(Seen(d, w, L), b) = {Tag(n, b, x) : x \in c.tags}
<1>1. Keys(TagsOf(d, b)) \subseteq WrittenIn(L)
  BY DEF Whole
<1>2. ASSUME NEW r \in TagsOf(Seen(d, w, L), b) PROVE r \in w
  <2>1. r \in Seen(d, w, L) /\ r.table = "tags" /\ r.book = b
    BY DEF TagsOf
  <2>2. r \notin Kept(d, L)
    BY <1>1, <2>1 DEF Kept, TagsOf, Keys
  <2> QED
    BY <2>1, <2>2 DEF Seen
<1>3. ASSUME NEW x \in c.tags PROVE Tag(n, b, x) \in TagsOf(Seen(d, w, L), b)
  BY WholeRows, TagFacts DEF TagsOf, Seen
<1>4. \A r \in TagsOf(Seen(d, w, L), b) : r.table = "tags"
  BY DEF TagsOf
<1>5. \A r \in TagsOf(Seen(d, w, L), b) : \E x \in c.tags : r = Tag(n, b, x)
  BY <1>2, <1>4, WholeRows
<1> QED
  BY <1>3, <1>5

\* What the commits of all commands have in common.
Orderly(c, d, w, L) ==
  /\ \A r, q \in w : Key(r) = Key(q) => r = q
  /\ \A k \in WrittenIn(L) : k[1] = "tags" \/ k \in Keys(w) \/ (w = {} /\ Unreferenced(d, L))
  /\ TagsWithin(d, L, WrittenIn(L))
  /\ \A r \in w : r.table = "tags" => OwnedBy(c, r.book) \/ BookKey(r.book) \in WrittenIn(L)
  /\ \A r \in w : r.table = "books" => c.op \in {"AddBook", "EditBook"} /\ r.id = c.book /\ r.title = c.title

LEMMA LockedFacts ==
  ASSUME NEW d, NEW w, NEW L, Sound(d), LocksHold(d, w, L)
  PROVE  /\ \A r \in Locked(d, L) : r \in d /\ IsRow(r) /\ Key(r) \in WrittenIn(L)
         /\ \A k \in WrittenIn(L) : \E r \in Locked(d, L) : Key(r) = k
BY DEF Locked, Sound, LocksHold, Keys

LEMMA AuthorIsOrderly ==
  ASSUME NEW c, NEW d, NEW L, NEW i, NEW x, Sound(d), LocksHold(d, {Author(i, x)}, L),
         L = {} \/ L = {<<AuthorKey(i), "UPDATE">>}
  PROVE  Orderly(c, d, {Author(i, x)}, L)
<1> DEFINE q == Author(i, x)
           w == {q}
<1>1. IsRow(q) /\ q.table = "authors" /\ Key(q) = AuthorKey(i)
  BY AuthorFacts
<1>2. LocksHold(d, w, L)
  OBVIOUS
<1> HIDE DEF q
<1>3. WrittenIn(L) \subseteq {AuthorKey(i)}
  BY WrittenInIs
<1>4. \A k \in WrittenIn(L) : k \in Keys(w)
  BY <1>1, <1>3 DEF Keys
<1>5. TagsWithin(d, L, WrittenIn(L))
  BY <1>2, <1>3, LockedFacts, RowFacts DEF TagsWithin, AuthorKey
<1>6. \A r \in w : r = q
  OBVIOUS
<1> HIDE DEF w
<1>7. Orderly(c, d, w, L)
  BY <1>1, <1>4, <1>5, <1>6 DEF Orderly
<1> QED
  BY <1>7 DEF w, q

LEMMA WholeIsOrderly ==
  ASSUME NEW c, NEW d, NEW w, NEW L, NEW n, NEW others, Sound(d), LocksHold(d, w, L),
         OneAuthor(others), Whole(c, d, w, L, n, c.book, others), c.op \in {"AddBook", "EditBook"},
         \/ OwnedBy(c, c.book) /\ WrittenIn(L) = {}
         \/ BookKey(c.book) \in WrittenIn(L)
  PROVE  Orderly(c, d, w, L)
<1> DEFINE b == c.book
           title == c.title
<1>1. PICK author : /\ Book(b, title, author) \in w
                    /\ \A r \in w : r.table = "books" => r = Book(b, title, author)
  BY WholeRows
<1>2. \A r, q \in w : Key(r) = Key(q) => r = q
  BY WholeRows
<1>3. \A r \in w : r.table = "tags" => r.book = b
  <2>1. \A r \in w : r.table = "tags" => \E x \in c.tags : r = Tag(n, b, x)
    BY WholeRows
  <2> HIDE DEF b
  <2> QED
    BY <2>1, TagFacts
<1>4. \A r \in Locked(d, L) : Key(r) = BookKey(b) \/ (r.table = "tags" /\ r.book = b)
  BY DEF Whole, TagsOf
<1>5. \/ OwnedBy(c, b) /\ WrittenIn(L) = {}
      \/ BookKey(b) \in WrittenIn(L)
  OBVIOUS
<1> HIDE DEF b, title
<1>6. BookKey(b) \in Keys(w)
  BY <1>1, BookFacts DEF Keys
<1>7. \A k \in WrittenIn(L) : k[1] = "tags" \/ k \in Keys(w)
  BY <1>4, <1>6, LockedFacts, RowFacts
<1>8. TagsWithin(d, L, WrittenIn(L))
  <2> SUFFICES ASSUME NEW r \in Locked(d, L), r.table = "tags" PROVE BookKey(r.book) \in WrittenIn(L)
    BY DEF TagsWithin
  <2>1. IsRow(r) /\ Key(r) \in WrittenIn(L)
    BY LockedFacts
  <2>2. r.book = b
    BY <1>4, <2>1, RowFacts DEF BookKey
  <2> QED
    BY <1>5, <2>1, <2>2
<1>9. \A r \in w : r.table = "tags" => OwnedBy(c, r.book) \/ BookKey(r.book) \in WrittenIn(L)
  BY <1>3, <1>5
<1>10. \A r \in w : r.table = "books" => r.id = b /\ r.title = title
  BY <1>1, BookFacts
<1> QED
  BY <1>2, <1>7, <1>8, <1>9, <1>10 DEF Orderly, b, title

LEMMA EditIsLocked ==
  ASSUME NEW c, NEW L, <<BookKey(c.book), "NO_KEY_UPDATE">> \in L
  PROVE  BookKey(c.book) \in WrittenIn(L)
<1> DEFINE k == BookKey(c.book)
           m == "NO_KEY_UPDATE"
<1>1. <<k, m>> \in L /\ m # "KEY_SHARE"
  OBVIOUS
<1> HIDE DEF k, m
<1>2. <<k, m>>[1] = k /\ <<k, m>>[2] = m
  OBVIOUS
<1> QED
  BY <1>1, <1>2, WrittenInIs DEF k

LEMMA NoAuthor == OneAuthor({})
BY DEF OneAuthor

LEMMA NewAuthor ==
  ASSUME NEW i, NEW x, NEW others \in {{}, {Author(i, x)}}
  PROVE  OneAuthor(others)
BY AuthorFacts DEF OneAuthor

LEMMA FinishedFacts ==
  ASSUME NEW c, NEW d, NEW w, NEW L, Sound(d), LocksHold(d, w, L), Finished(c, d, w, L)
  PROVE  Orderly(c, d, w, L)
<1>1. CASE w = {} /\ L = {}
  <2>1. WrittenIn(L) = {} /\ Locked(d, L) = {}
    BY <1>1, NoLocks
  <2> QED
    BY <1>1, <2>1 DEF Orderly, TagsWithin
<1>2. CASE c.op \in {"DeleteAuthor", "DeleteBook"} /\ Deleted(c, d, w, L)
  BY <1>2 DEF Deleted, Orderly
<1>3. CASE c.op = "AddAuthor" /\ w = {Author(c.n, c.name)} /\ L = {}
  BY <1>3, AuthorIsOrderly
<1>4. CASE c.op = "EditAuthor" /\ w = {Author(c.author, c.name)} /\ L = {<<AuthorKey(c.author), "UPDATE">>}
  BY <1>4, AuthorIsOrderly
<1>5. CASE c.op = "EditBook" /\ Edited(c, d, w, L)
  <2>1. CASE <<BookKey(c.book), "NO_KEY_UPDATE">> \in L /\ Whole(c, d, w, L, c.n, c.book, {})
    <3> DEFINE none == {}
    <3>1. OneAuthor(none) /\ Whole(c, d, w, L, c.n, c.book, none)
      BY <2>1, NoAuthor
    <3> HIDE DEF none
    <3>2. BookKey(c.book) \in WrittenIn(L)
      BY <2>1, EditIsLocked
    <3> QED
      BY <1>5, <3>1, <3>2, WholeIsOrderly
  <2> QED
    BY <1>1, <1>5, <2>1 DEF Edited
<1>6. CASE c.op = "AddBook" /\ Added(c, d, w, L)
  <2>1. PICK others \in {{}, {Author(c.book, c.name)}} : Whole(c, d, w, L, c.book, c.book, others)
    BY <1>6 DEF Added
  <2>2. OneAuthor(others)
    BY NewAuthor
  <2>3. WrittenIn(L) = {} /\ OwnedBy(c, c.book)
    BY <1>6, WrittenInIs DEF Added, OwnedBy
  <2> QED
    BY <1>6, <2>1, <2>2, <2>3, WholeIsOrderly
<1> QED
  BY <1>2, <1>3, <1>4, <1>5, <1>6 DEF Finished

\* What a row references is a book or an author.
LEMMA ReferencesAre ==
  ASSUME NEW r, IsRow(r), NEW k \in References(r)
  PROVE  k[1] # "tags"
BY RowFacts DEF AuthorKey, BookKey

LEMMA CommitIsSound ==
  ASSUME NEW c, NEW d, NEW w, NEW L, Sound(d), LocksHold(d, w, L), NewRows(c, d, w, L),
         Orderly(c, d, w, L), \A r \in d : ~OwnedBy(c, Number(r))
  PROVE  Sound(Seen(d, w, L))
<1> DEFINE V == Seen(d, w, L)
           W == WrittenIn(L)
<1>1. \A r : r \in V <=> (r \in d /\ Key(r) \notin W) \/ r \in w
  BY DEF Seen, Kept
<1> HIDE DEF V
<1>2. \A r \in V : IsRow(r)
  BY <1>1 DEF Sound, NewRows
<1>3. ASSUME NEW r \in d, Key(r) \notin W, NEW q \in w, Key(r) = Key(q) PROVE FALSE
  <2>1. IsRow(r) /\ IsRow(q) /\ ~Replaces(d, q, L)
    BY <1>3 DEF Sound, NewRows, Replaces
  <2>2. Number(q) = Number(r)
    BY <1>3, <2>1, RowFacts
  <2> QED
    BY <2>1, <2>2 DEF NewRows
<1>4. ASSUME NEW r \in V, NEW q \in V, Key(r) = Key(q) PROVE r = q
  BY <1>1, <1>3, <1>4 DEF Sound, Orderly
<1>5. ASSUME NEW k \in Keys(d), k[1] # "tags", w # {} \/ k \notin W PROVE k \in Keys(V)
  <2>1. CASE k \in W
    BY <1>1, <1>5, <2>1 DEF Orderly, Keys
  <2>2. CASE k \notin W
    BY <1>1, <2>2 DEF Keys
  <2> QED
    BY <2>1, <2>2
<1>6. ASSUME NEW r \in V, NEW k \in References(r) PROVE k \in Keys(V)
  <2>1. k[1] # "tags"
    BY <1>2, <1>6, ReferencesAre
  <2>2. CASE r \in d /\ Key(r) \notin W
    <3>1. k \in Keys(d)
      BY <1>6, <2>2 DEF Sound
    <3>2. k \in W => ~Unreferenced(d, L)
      BY <1>6, <2>2 DEF Unreferenced, Kept
    <3>3. CASE k \in W
      <4>1. k \in Keys(w)
        BY <2>1, <3>2, <3>3 DEF Orderly
      <4> QED
        BY <1>1, <4>1 DEF Keys
    <3>4. CASE k \notin W
      BY <1>5, <2>1, <3>1, <3>4
    <3> QED
      BY <3>3, <3>4
  <2>3. CASE r \in w
    <3>1. k \in Keys(d) \cup Keys(w)
      <4>1. CASE Replaces(d, r, L)
        BY <1>6, <4>1 DEF Replaces, Sound
      <4>2. CASE \A l \in References(r) : <<l, "KEY_SHARE">> \in L
        <5>1. <<k, "KEY_SHARE">> \in L
          BY <1>6, <4>2
        <5>2. <<k, "KEY_SHARE">>[1] = k
          OBVIOUS
        <5> QED
          BY <5>1, <5>2 DEF LocksHold
      <4> QED
        BY <2>3, <4>1, <4>2 DEF NewRows
    <3>2. k \in Keys(w) => k \in Keys(V)
      BY <1>1 DEF Keys
    <3> QED
      BY <1>5, <2>1, <2>3, <3>1, <3>2
  <2> QED
    BY <1>1, <2>2, <2>3
<1>7. Sound(V)
  BY <1>2, <1>4, <1>6 DEF Sound
<1> QED
  BY <1>7 DEF V

\* The tags of a book that a commit leaves alone.
LEMMA OtherTags ==
  ASSUME NEW c, NEW d, NEW w, NEW L, NEW b, Sound(d), Orderly(c, d, w, L),
         ~OwnedBy(c, b), BookKey(b) \notin WrittenIn(L)
  PROVE  TagsOf(Seen(d, w, L), b) = TagsOf(d, b)
<1>1. ASSUME NEW r \in TagsOf(Seen(d, w, L), b) PROVE r \in TagsOf(d, b)
  BY DEF TagsOf, Seen, Kept, Orderly
<1>2. ASSUME NEW r \in TagsOf(d, b) PROVE r \in TagsOf(Seen(d, w, L), b)
  BY DEF TagsOf, Seen, Kept, Locked, Orderly, TagsWithin
<1> QED
  BY <1>1, <1>2

\* "given" after the commit.
Given(c, V, g) ==
  IF c.op \in {"AddBook", "EditBook"} /\ \E r \in V : Key(r) = BookKey(c.book)
  THEN [b \in DOMAIN g \cup {c.book} |->
          IF b = c.book THEN [title |-> c.title, tags |-> c.tags] ELSE g[b]]
  ELSE g

LEMMA CommitKeepsBooks ==
  ASSUME NEW c, NEW d, NEW w, NEW L, NEW g, IsCommand(c), Sound(d), LocksHold(d, w, L), NewRows(c, d, w, L),
         Finished(c, d, w, L), Orderly(c, d, w, L), \A r \in d : ~OwnedBy(c, Number(r)),
         \A r \in d : r.table = "books" => BookIsWhole(d, g, r),
         NEW r \in Seen(d, w, L), r.table = "books"
  PROVE  BookIsWhole(Seen(d, w, L), Given(c, Seen(d, w, L), g), r)
<1> DEFINE V == Seen(d, w, L)
           h == Given(c, V, g)
<1>1. \A q : q \in V <=> (q \in d /\ Key(q) \notin WrittenIn(L)) \/ q \in w
  BY DEF Seen, Kept
<1>2. IsRow(r) /\ Key(r) = BookKey(r.id) /\ Number(r) = r.id
  BY SeenAreRows, RowFacts
<1>3. CASE r \in w
  <2> DEFINE b == c.book
             z == [title |-> c.title, tags |-> c.tags]
  <2>1. c.op \in {"AddBook", "EditBook"} /\ r.id = b /\ r.title = c.title
    BY <1>3 DEF Orderly
  <2>2. \E n : TagsOf(V, b) = {Tag(n, b, x) : x \in c.tags}
    <3>1. CASE c.op = "EditBook"
      <4> DEFINE none == {}
      <4>1. OneAuthor(none) /\ Whole(c, d, w, L, c.n, b, none)
        BY <1>3, <3>1, NoAuthor DEF Finished, Edited
      <4> HIDE DEF none, b
      <4>2. TagsOf(V, b) = {Tag(c.n, b, x) : x \in c.tags}
        BY <4>1, WholeTags
      <4> QED
        BY <4>2
    <3>2. CASE c.op = "AddBook"
      <4>1. PICK others \in {{}, {Author(b, c.name)}} : Whole(c, d, w, L, b, b, others)
        BY <3>2 DEF Finished, Added
      <4>2. OneAuthor(others)
        BY NewAuthor
      <4> HIDE DEF b
      <4>3. TagsOf(V, b) = {Tag(b, b, x) : x \in c.tags}
        BY <4>1, <4>2, WholeTags
      <4> QED
        BY <4>3
    <3> QED
      BY <2>1, <3>1, <3>2
  <2>3. h = [i \in DOMAIN g \cup {b} |-> IF i = b THEN z ELSE g[i]]
    BY <1>2, <2>1 DEF Given
  <2>4. z.title = c.title /\ z.tags = c.tags /\ z.tags \subseteq Tags
    BY <2>1 DEF IsCommand
  <2> HIDE DEF z, h
  <2>5. b \in DOMAIN h /\ h[b] = z
    BY <2>3
  <2>6. BookIsWhole(V, h, r)
    BY <2>1, <2>2, <2>4, <2>5 DEF BookIsWhole
  <2> QED
    BY <2>6 DEF h
<1>4. CASE r \in d /\ Key(r) \notin WrittenIn(L)
  <2>1. BookIsWhole(d, g, r) /\ ~OwnedBy(c, r.id)
    BY <1>2, <1>4
  <2>2. TagsOf(V, r.id) = TagsOf(d, r.id)
    BY <1>2, <1>4, <2>1, OtherTags
  <2>3. c.op = "EditBook" /\ r.id = c.book => FALSE
    <3> SUFFICES ASSUME c.op = "EditBook", r.id = c.book PROVE FALSE
      OBVIOUS
    <3>1. ~Gone(d, c.book)
      BY <1>2, <1>4 DEF Gone, Keys
    <3>2. BookKey(c.book) \in WrittenIn(L)
      BY <3>1, EditIsLocked DEF Finished, Edited
    <3> QED
      BY <1>2, <1>4, <3>2
  <2>4. c.op = "AddBook" => r.id # c.book
    BY <2>1 DEF OwnedBy
  <2> DEFINE z == [title |-> c.title, tags |-> c.tags]
             b == c.book
             i == r.id
  <2>5. \/ h = g
        \/ i # b /\ h = [j \in DOMAIN g \cup {b} |-> IF j = b THEN z ELSE g[j]]
    BY <2>3, <2>4 DEF Given
  <2>6. i \in DOMAIN g
    BY <2>1 DEF BookIsWhole
  <2> HIDE DEF z, h, b
  <2>7. i \in DOMAIN h /\ h[i] = g[i]
    BY <2>5, <2>6
  <2>8. BookIsWhole(V, h, r)
    BY <2>1, <2>2, <2>7 DEF BookIsWhole
  <2> QED
    BY <2>8 DEF h
<1> QED
  BY <1>1, <1>3, <1>4

\* What a command has done, of the rows after its commit.
Fulfils(c, d) ==
  LET books == {r \in d : r.table = "books" /\ r.id = c.book}
      authors == {r \in d : r.table = "authors" /\ r.id = c.author}
  IN CASE c.op = "AddAuthor"    -> Author(c.n, c.name) \in d
       [] c.op = "EditAuthor"   -> authors = {Author(c.author, c.name)}
       [] c.op = "DeleteAuthor" -> authors = {} /\ \A r \in d : r.table = "books" => r.author # c.author
       [] c.op = "DeleteBook"   -> books = {} /\ \A r \in d : r.table = "tags" => r.book # c.book
       [] c.op = "AddBook"      -> \E r \in books : r.title = c.title
       [] c.op = "EditBook"     -> \A r \in books : r.title = c.title

LEMMA CommitFulfils ==
  ASSUME NEW c, NEW d, NEW w, NEW L, IsCommand(c), Sound(d), LocksHold(d, w, L), NewRows(c, d, w, L),
         Finished(c, d, w, L), Orderly(c, d, w, L)
  PROVE  Fulfils(c, Seen(d, w, L))
<1> DEFINE V == Seen(d, w, L)
           W == WrittenIn(L)
<1>1. \A r : r \in V <=> (r \in d /\ Key(r) \notin W) \/ r \in w
  BY DEF Seen, Kept
<1>2. \A r \in V : IsRow(r)
  BY SeenAreRows
<1> HIDE DEF V
<1>3. CASE c.op = "AddAuthor"
  <2>1. Author(c.n, c.name) \in V
    BY <1>1, <1>3 DEF Finished
  <2> QED
    BY <1>3, <2>1 DEF Fulfils, V
<1>4. CASE c.op = "EditAuthor"
  <2> DEFINE i == c.author
             x == c.name
             k == AuthorKey(i)
             m == "UPDATE"
  <2>1. w = {Author(i, x)} /\ L = {<<k, m>>} /\ m # "KEY_SHARE"
    BY <1>4 DEF Finished
  <2> HIDE DEF i, x, k, m
  <2>2. k \in W
    <3>1. <<k, m>> \in L /\ <<k, m>>[1] = k /\ <<k, m>>[2] = m
      BY <2>1
    <3> QED
      BY <2>1, <3>1, WrittenInIs
  <2>3. \A r \in V : r.table = "authors" /\ r.id = i => r = Author(i, x)
    BY <1>1, <1>2, <2>1, <2>2, RowFacts DEF k
  <2>4. Author(i, x) \in V /\ Author(i, x).table = "authors" /\ Author(i, x).id = i
    BY <1>1, <2>1, AuthorFacts
  <2>5. {r \in V : r.table = "authors" /\ r.id = i} = {Author(i, x)}
    BY <2>3, <2>4
  <2> QED
    BY <1>4, <2>5 DEF Fulfils, V, i, x
<1>5. CASE c.op = "DeleteAuthor"
  <2>1. w = {} /\ Unreferenced(d, L) /\ AuthorKey(c.author) \in W
    BY <1>5 DEF Finished, Deleted
  <2>2. \A r \in V : r.table = "authors" => r.id # c.author
    BY <1>1, <1>2, <2>1, RowFacts
  <2>3. ASSUME NEW r \in V, r.table = "books", r.author = c.author PROVE FALSE
    <3>1. r \in Kept(d, L) /\ AuthorKey(c.author) \in References(r)
      BY <1>1, <1>2, <2>1, <2>3, RowFacts DEF Kept
    <3> QED
      BY <2>1, <3>1 DEF Unreferenced
  <2>4. {r \in V : r.table = "authors" /\ r.id = c.author} = {}
    BY <2>2
  <2>5. \A r \in V : r.table = "books" => r.author # c.author
    BY <2>3
  <2> QED
    BY <1>5, <2>4, <2>5 DEF Fulfils, V
<1>6. CASE c.op = "DeleteBook"
  <2>1. w = {} /\ Unreferenced(d, L) /\ (Gone(d, c.book) \/ BookKey(c.book) \in W)
    BY <1>6 DEF Finished, Deleted
  <2>2. \A r \in V : r \in Kept(d, L) /\ r \in d /\ IsRow(r)
    BY <1>1, <1>2, <2>1 DEF Kept
  <2>3. ASSUME NEW r \in V, r.table = "books", r.id = c.book PROVE FALSE
    <3>1. Key(r) = BookKey(c.book) /\ Key(r) \in Keys(d) /\ Key(r) \notin W
      BY <2>2, <2>3, RowFacts DEF Keys, Kept
    <3> QED
      BY <2>1, <3>1 DEF Gone
  <2>4. ASSUME NEW r \in V, r.table = "tags", r.book = c.book PROVE FALSE
    <3>1. BookKey(c.book) \in References(r)
      BY <2>2, <2>4, RowFacts
    <3>2. BookKey(c.book) \in Keys(d)
      BY <2>2, <3>1 DEF Sound
    <3> QED
      BY <2>1, <2>2, <3>1, <3>2 DEF Unreferenced, Gone
  <2>5. {r \in V : r.table = "books" /\ r.id = c.book} = {}
    BY <2>3
  <2>6. \A r \in V : r.table = "tags" => r.book # c.book
    BY <2>4
  <2> QED
    BY <1>6, <2>5, <2>6 DEF Fulfils, V
<1>7. CASE c.op = "AddBook"
  <2>1. PICK others \in {{}, {Author(c.book, c.name)}} : Whole(c, d, w, L, c.book, c.book, others)
    BY <1>7 DEF Finished, Added
  <2>2. OneAuthor(others)
    BY NewAuthor
  <2>3. PICK author : Book(c.book, c.title, author) \in w
    BY <2>1, <2>2, WholeRows
  <2> DEFINE b == c.book
             x == c.title
             q == Book(b, x, author)
  <2>4. q \in V
    BY <1>1, <2>3
  <2> HIDE DEF b, x
  <2>5. q.table = "books" /\ q.id = b /\ q.title = x
    BY BookFacts
  <2> HIDE DEF q
  <2>6. \E r \in {r \in V : r.table = "books" /\ r.id = b} : r.title = x
    BY <2>4, <2>5
  <2> QED
    BY <1>7, <2>6 DEF Fulfils, V, b, x
<1>8. CASE c.op = "EditBook"
  <2>1. ASSUME NEW r \in V, r.table = "books", r.id = c.book PROVE r.title = c.title
    <3>1. Key(r) = BookKey(c.book)
      BY <1>2, <2>1, RowFacts
    <3>2. CASE r \in w
      BY <2>1, <3>2 DEF Orderly
    <3>3. CASE r \in d /\ Key(r) \notin W
      <4>1. ~Gone(d, c.book)
        BY <3>1, <3>3 DEF Gone, Keys
      <4>2. BookKey(c.book) \in W
        BY <1>8, <4>1, EditIsLocked DEF Finished, Edited
      <4> QED
        BY <3>1, <3>3, <4>2
    <3> QED
      BY <1>1, <3>2, <3>3
  <2>2. \A r \in {q \in V : q.table = "books" /\ q.id = c.book} : r.title = c.title
    BY <2>1
  <2> QED
    BY <1>8, <2>2 DEF Fulfils, V
<1> QED
  BY <1>3, <1>4, <1>5, <1>6, <1>7, <1>8 DEF IsCommand

-----------------------------------------------------------------------------
(***************************************************************************)
(* A commit and the transactions of the others.  I are the numbers that    *)
(* the rows have which the commit finds, and L what somebody else holds.   *)
(***************************************************************************)
\* A row of V in the place of r: the same key, the same references.
Stays(V, r) == \E q \in V : Key(q) = Key(r) /\ References(q) = References(r)

Stable(d, V, I, L) ==
  /\ Locked(V, L) = Locked(d, L)
  /\ \A b : BookKey(b) \in WrittenIn(L) => TagsOf(V, b) = TagsOf(d, b)
  /\ \A r \in V : Number(r) \in I => Stays(d, r)
  /\ \A r \in V : \A k \in References(r) : <<k, "UPDATE">> \in L => Stays(d, r)
  /\ \A p \in L : p[1] \in Keys(d) => p[1] \in Keys(V)

LEMMA ApartFacts ==
  ASSUME NEW d, NEW e, NEW w, NEW v, NEW L, NEW M, LocksHold(d, w, L), LocksHold(e, v, M), Apart(L, M),
         NEW p \in L, NEW q \in M, p[1] = q[1]
  PROVE  \/ p[2] = "KEY_SHARE" /\ q[2] # "UPDATE"
         \/ q[2] = "KEY_SHARE" /\ p[2] # "UPDATE"
<1>1. p[2] \in Modes /\ q[2] \in Modes /\ ~Clash(p[2], q[2])
  BY DEF LocksHold, Apart
<1> QED
  BY <1>1, ClashIs

LEMMA CommitIsStable ==
  ASSUME NEW c, NEW d, NEW w, NEW L, NEW v, NEW M, NEW I,
         Sound(d), LocksHold(d, w, L), NewRows(c, d, w, L), Orderly(c, d, w, L),
         LocksHold(d, v, M), Apart(M, L),
         \A r \in d : Number(r) \in I, \A i \in I : ~OwnedBy(c, i)
  PROVE  Stable(d, Seen(d, w, L), I, M)
<1> DEFINE V == Seen(d, w, L)
<1>1. \A r : r \in V <=> (r \in d /\ Key(r) \notin WrittenIn(L)) \/ r \in w
  BY DEF Seen, Kept
<1> HIDE DEF V
<1>2. \A r \in w : IsRow(r) /\ (OwnedBy(c, Number(r)) \/ Replaces(d, r, L))
  BY DEF NewRows
<1>3. \A r \in d : IsRow(r)
  BY DEF Sound
<1>4. ASSUME NEW k \in WrittenIn(M) PROVE k \notin WrittenIn(L) /\ k \in Keys(d)
  <2>1. PICK p \in M : p[1] = k /\ p[2] # "KEY_SHARE"
    BY WrittenInIs
  <2>2. ASSUME NEW q \in L, q[1] = k, q[2] # "KEY_SHARE" PROVE FALSE
    BY <2>1, <2>2, ApartFacts
  <2> QED
    BY <2>2, WrittenInIs DEF LocksHold
<1>5. ASSUME NEW k \in Keys(d) PROVE \E r \in d : Key(r) = k /\ k[2] = Number(r) /\ k[2] \in I /\ ~OwnedBy(c, k[2])
  <2>1. PICK r \in d : Key(r) = k
    BY DEF Keys
  <2> QED
    BY <1>3, <2>1, RowFacts
<1>6. ASSUME NEW r \in w, Key(r) \in Keys(d) PROVE Key(r) \in WrittenIn(L)
  <2>1. ~OwnedBy(c, Number(r))
    BY <1>2, <1>5, <1>6, RowFacts
  <2> QED
    BY <1>2, <2>1 DEF Replaces
<1>7. Locked(V, M) = Locked(d, M)
  BY <1>1, <1>4, <1>6 DEF Locked
<1>8. ASSUME NEW b, BookKey(b) \in WrittenIn(M) PROVE TagsOf(V, b) = TagsOf(d, b)
  <2>1. BookKey(b) \notin WrittenIn(L) /\ BookKey(b) \in Keys(d)
    BY <1>4, <1>8
  <2>2. BookKey(b)[2] = b
    BY DEF BookKey
  <2>3. ~OwnedBy(c, b)
    BY <1>5, <2>1, <2>2
  <2> QED
    BY <2>1, <2>3, OtherTags DEF V
<1>9. ASSUME NEW r \in d PROVE Stays(d, r)
  BY DEF Stays
<1>10. ASSUME NEW r \in w, Replaces(d, r, L) PROVE Stays(d, r)
  BY <1>10 DEF Replaces, Stays
<1>11. \A r \in V : Number(r) \in I => Stays(d, r)
  BY <1>1, <1>2, <1>9, <1>10
<1>12. ASSUME NEW r \in V, NEW k \in References(r), <<k, "UPDATE">> \in M PROVE Stays(d, r)
  <2>1. CASE r \in w /\ \A l \in References(r) : <<l, "KEY_SHARE">> \in L
    <3>1. <<k, "KEY_SHARE">> \in L
      BY <1>12, <2>1
    <3> DEFINE p == <<k, "UPDATE">>
               q == <<k, "KEY_SHARE">>
    <3>2. p \in M /\ q \in L /\ p[1] = q[1] /\ p[2] = "UPDATE" /\ q[2] = "KEY_SHARE"
      BY <1>12, <3>1
    <3> HIDE DEF p, q
    <3> QED
      BY <3>2, ApartFacts
  <2>2. r \in w => Replaces(d, r, L) \/ \A l \in References(r) : <<l, "KEY_SHARE">> \in L
    BY DEF NewRows
  <2> QED
    BY <1>1, <1>9, <1>10, <2>1, <2>2
<1>13. ASSUME NEW p \in M, p[1] \in Keys(d) PROVE p[1] \in Keys(V)
  <2>1. PICK r \in d : Key(r) = p[1]
    BY <1>13 DEF Keys
  <2>2. CASE p[1] \notin WrittenIn(L)
    BY <1>1, <2>1, <2>2 DEF Keys
  <2>3. CASE p[1] \in WrittenIn(L)
    <3>1. PICK q \in L : q[1] = p[1] /\ q[2] # "KEY_SHARE"
      BY <2>3, WrittenInIs
    <3>2. q[2] # "UPDATE"
      BY <3>1, ApartFacts
    <3>3. q[2] = "NO_KEY_UPDATE"
      BY <3>1, <3>2 DEF LocksHold, Modes
    <3>4. p[1] \in Keys(w)
      BY <3>1, <3>3 DEF LocksHold
    <3> QED
      BY <1>1, <3>4 DEF Keys
  <2> QED
    BY <2>2, <2>3
<1>14. Stable(d, V, I, M)
  BY <1>7, <1>8, <1>11, <1>12, <1>13 DEF Stable
<1> QED
  BY <1>14 DEF V

LEMMA LocksStay ==
  ASSUME NEW d, NEW V, NEW I, NEW w, NEW L, Stable(d, V, I, L), LocksHold(d, w, L)
  PROVE  LocksHold(V, w, L)
<1>1. \A p \in L : p[1] \in Keys(d) \cup Keys(w) => p[1] \in Keys(V) \cup Keys(w)
  BY DEF Stable
<1>2. WrittenIn(L) \subseteq Keys(V)
  <2> SUFFICES ASSUME NEW k \in WrittenIn(L) PROVE k \in Keys(V)
    OBVIOUS
  <2>1. PICK p \in L : p[1] = k
    BY WrittenInIs
  <2>2. k \in Keys(d)
    BY DEF LocksHold
  <2> QED
    BY <2>1, <2>2 DEF Stable
<1> QED
  BY <1>1, <1>2 DEF LocksHold

LEMMA NewRowsStay ==
  ASSUME NEW c, NEW d, NEW V, NEW I, NEW w, NEW L, Stable(d, V, I, L), NewRows(c, d, w, L)
  PROVE  NewRows(c, V, w, L)
<1>1. ASSUME NEW r \in w, Replaces(d, r, L) PROVE Replaces(V, r, L)
  <2>1. PICK q \in Locked(d, L) : Key(q) = Key(r) /\ Key(q) \in WrittenIn(L) /\ References(q) = References(r)
    BY <1>1 DEF Replaces, Locked
  <2>2. q \in V
    BY <2>1 DEF Stable, Locked
  <2> QED
    BY <2>1, <2>2 DEF Replaces
<1> QED
  BY <1>1 DEF NewRows

\* A book that is gone stays so: its number is not given out again.
LEMMA StaysGone ==
  ASSUME NEW d, NEW V, NEW I, NEW L, Sound(V), Stable(d, V, I, L), NEW b \in I, Gone(d, b)
  PROVE  Gone(V, b)
<1> SUFFICES ASSUME NEW r \in V, Key(r) = BookKey(b) PROVE FALSE
  BY DEF Gone, Keys
<1>1. Key(r)[2] = Number(r) /\ Key(r)[2] = b
  BY RowFacts DEF Sound, BookKey
<1>2. Stays(d, r)
  BY <1>1 DEF Stable
<1> QED
  BY <1>2 DEF Stays, Gone, Keys

LEMMA StaysUnreferenced ==
  ASSUME NEW d, NEW V, NEW I, NEW L, Stable(d, V, I, L), \A p \in L : p[2] = "UPDATE" /\ p = <<p[1], p[2]>>,
         Unreferenced(d, L)
  PROVE  Unreferenced(V, L)
<1> SUFFICES ASSUME NEW r \in Kept(V, L), NEW k \in References(r), k \in WrittenIn(L) PROVE FALSE
  BY DEF Unreferenced
<1>1. PICK p \in L : p[1] = k
  BY WrittenInIs
<1>2. <<k, "UPDATE">> \in L
  BY <1>1
<1>3. Stays(d, r)
  BY <1>2 DEF Stable, Kept
<1>4. PICK q \in d : Key(q) = Key(r) /\ References(q) = References(r)
  BY <1>3 DEF Stays
<1> QED
  BY <1>4 DEF Unreferenced, Kept

LEMMA KeysDiffer ==
  ASSUME NEW i, NEW j
  PROVE  (BookKey(i) = BookKey(j) => i = j) /\ (AuthorKey(i) = AuthorKey(j) => i = j)
BY DEF BookKey, AuthorKey

\* A row that was aimed at.
LEMMA StaysAimed ==
  ASSUME NEW d, NEW V, NEW I, NEW L, Sound(d), Sound(V), Stable(d, V, I, L),
         NEW r \in V, Key(r)[2] \in I
  PROVE  \E q \in d : /\ Key(q) = Key(r) /\ References(q) = References(r) /\ q.table = r.table
                      /\ r.table = "tags" => q.book = r.book
                      /\ r.table = "books" => q.author = r.author /\ q.id = r.id
<1>1. IsRow(r)
  BY DEF Sound
<1>2. Stays(d, r)
  BY <1>1, RowFacts DEF Stable
<1>3. PICK q \in d : Key(q) = Key(r) /\ References(q) = References(r)
  BY <1>2 DEF Stays
<1>4. IsRow(q)
  BY DEF Sound
<1>5. q.table = r.table /\ Number(q) = Number(r)
  BY <1>1, <1>3, <1>4, RowFacts
<1>6. r.table = "tags" => q.book = r.book
  <2> SUFFICES ASSUME r.table = "tags" PROVE q.book = r.book
    OBVIOUS
  <2>1. References(r) = {BookKey(r.book)} /\ References(q) = {BookKey(q.book)}
    BY <1>1, <1>4, <1>5, RowFacts
  <2>2. BookKey(r.book) = BookKey(q.book)
    BY <1>3, <2>1
  <2> QED
    BY <2>2, KeysDiffer
<1>7. r.table = "books" => q.author = r.author /\ q.id = r.id
  <2> SUFFICES ASSUME r.table = "books" PROVE q.author = r.author /\ q.id = r.id
    OBVIOUS
  <2>1. /\ References(r) = {AuthorKey(r.author)} /\ References(q) = {AuthorKey(q.author)}
        /\ Key(r) = BookKey(r.id) /\ Key(q) = BookKey(q.id)
    BY <1>1, <1>4, <1>5, RowFacts
  <2>2. AuthorKey(r.author) = AuthorKey(q.author) /\ BookKey(r.id) = BookKey(q.id)
    BY <1>3, <2>1
  <2> QED
    BY <2>2, KeysDiffer
<1> QED
  BY <1>3, <1>5, <1>6, <1>7

LEMMA StaysByAuthor ==
  ASSUME NEW d, NEW V, NEW I, NEW L, Sound(d), Sound(V), Stable(d, V, I, L), \A r \in d : Number(r) \in I,
         NEW q \in d, NEW r \in V, r.table = "tags", q.book = r.book, NEW i, ByAuthor(d, q, i)
  PROVE  ByAuthor(V, r, i)
<1>1. PICK x \in d : x.table = "books" /\ x.id = q.book /\ x.author = i
  BY DEF ByAuthor
<1>2. IsRow(x) /\ Key(x) = BookKey(r.book) /\ Number(x) \in I /\ Key(x)[2] = Number(x)
  BY <1>1, RowFacts DEF Sound
<1>3. References(r) = {BookKey(r.book)}
  BY RowFacts DEF Sound
<1>4. PICK y \in V : Key(y) = BookKey(r.book)
  BY <1>3 DEF Sound, Keys
<1>5. PICK z \in d : /\ Key(z) = Key(y) /\ z.table = y.table
                     /\ y.table = "books" => z.author = y.author /\ z.id = y.id
  BY <1>2, <1>4, StaysAimed
<1>6. z = x
  BY <1>2, <1>4, <1>5 DEF Sound
<1>7. y.table = "books" /\ y.id = r.book /\ y.author = i
  BY <1>1, <1>5, <1>6
<1> QED
  BY <1>7 DEF ByAuthor

LEMMA DeletingBook_Stays ==
  ASSUME NEW c, NEW d, NEW V, NEW I, NEW t, NEW a, NEW w, NEW L,
         Sound(d), Sound(V), Stable(d, V, I, L), LocksHold(d, w, L), c.book \in I, \A k \in a : a # NoAim => k[2] \in I,
         DeletingBook(c, d, t, a, w, L)
  PROVE  DeletingBook(c, V, t, a, w, L)
<1> DEFINE b == c.book
           held == Gone(d, b) \/ BookKey(b) \in WrittenIn(L)
<1>1. w = {} /\ (\A p \in L : p[2] = "UPDATE") /\ TagsWithin(V, L, {BookKey(b)})
  BY DEF DeletingBook, TagsWithin, Stable
<1>2. held => Gone(V, b) \/ BookKey(b) \in WrittenIn(L)
  BY StaysGone
<1>3. CASE t = FromBookTags(b) /\ (a # NoAim => \A r \in d : Key(r) \in a => r.table = "tags" /\ r.book = b)
  <2>1. ASSUME a # NoAim, NEW r \in V, Key(r) \in a PROVE r.table = "tags" /\ r.book = b
    <3>1. Key(r)[2] \in I
      BY <2>1
    <3>2. PICK q \in d : Key(q) = Key(r) /\ q.table = r.table /\ (r.table = "tags" => q.book = r.book)
      BY <3>1, StaysAimed
    <3> QED
      BY <1>3, <2>1, <3>2
  <2> QED
    BY <1>1, <1>3, <2>1 DEF DeletingBook
<1>4. CASE \/ t = Checked(FromBook(b))
           \/ t = FromBook(b) /\ (a # NoAim => a \subseteq {BookKey(b)} /\ (held \/ BookKey(b) \in a))
           \/ t = <<Check>> /\ held
  BY <1>1, <1>2, <1>4 DEF DeletingBook
<1>5. CASE t = <<>> /\ held /\ Unreferenced(d, L)
  <2>1. Unreferenced(V, L)
    BY <1>1, <1>5, StaysUnreferenced DEF LocksHold
  <2> QED
    BY <1>1, <1>2, <1>5, <2>1 DEF DeletingBook
<1>6. \/ t = FromBookTags(b) /\ (a # NoAim => \A r \in d : Key(r) \in a => r.table = "tags" /\ r.book = b)
      \/ t = Checked(FromBook(b))
      \/ t = FromBook(b) /\ (a # NoAim => a \subseteq {BookKey(b)} /\ (held \/ BookKey(b) \in a))
      \/ t = <<Check>> /\ held
      \/ t = <<>> /\ held /\ Unreferenced(d, L)
  BY DEF DeletingBook
<1> QED
  BY <1>3, <1>4, <1>5, <1>6

LEMMA DeletingAuthor_Stays ==
  ASSUME NEW c, NEW d, NEW V, NEW I, NEW t, NEW a, NEW w, NEW L,
         Sound(d), Sound(V), Stable(d, V, I, L), LocksHold(d, w, L), \A r \in d : Number(r) \in I,
         \A k \in a : a # NoAim => k[2] \in I,
         DeletingAuthor(c, d, t, a, w, L)
  PROVE  DeletingAuthor(c, V, t, a, w, L)
<1> DEFINE i == c.author
           onlyTags == \A r \in Locked(d, L) : r.table = "tags"
           closed == TagsWithin(d, L, WrittenIn(L))
<1>1. Locked(V, L) = Locked(d, L) /\ \A K : TagsWithin(V, L, K) <=> TagsWithin(d, L, K)
  BY DEF Stable, TagsWithin
<1>2. w = {} /\ \A p \in L : p[2] = "UPDATE"
  BY DEF DeletingAuthor
<1>3. \A r \in Locked(V, L) : r.table = "tags" => ByAuthor(V, r, i)
  <2> SUFFICES ASSUME NEW r \in Locked(V, L), r.table = "tags" PROVE ByAuthor(V, r, i)
    OBVIOUS
  <2>1. r \in d /\ r \in V /\ ByAuthor(d, r, i)
    BY <1>1 DEF Locked, DeletingAuthor
  <2> QED
    BY <2>1, StaysByAuthor
<1>4. CASE t = FromItsTags(i) /\ onlyTags /\ (a # NoAim => \A r \in d : Key(r) \in a => ByAuthor(d, r, i))
  <2>1. ASSUME a # NoAim, NEW r \in V, Key(r) \in a PROVE ByAuthor(V, r, i)
    <3>1. Key(r)[2] \in I
      BY <2>1
    <3>2. PICK q \in d : Key(q) = Key(r) /\ q.table = r.table /\ (r.table = "tags" => q.book = r.book)
      BY <3>1, StaysAimed
    <3>3. ByAuthor(d, q, i) /\ r.table = "tags"
      BY <1>4, <2>1, <3>2 DEF ByAuthor
    <3> QED
      BY <3>2, <3>3, StaysByAuthor
  <2> QED
    BY <1>1, <1>2, <1>3, <1>4, <2>1 DEF DeletingAuthor
<1>5. CASE \/ t = Checked(FromItsBooks(i)) /\ onlyTags
           \/ t = FromItsBooks(i) /\ onlyTags /\ (a # NoAim => TagsWithin(d, L, a) /\ \A k \in a : k[1] = "books")
  BY <1>1, <1>2, <1>3, <1>5 DEF DeletingAuthor
<1>6. CASE \/ t = Checked(FromAuthor(i)) /\ closed
           \/ t = FromAuthor(i) /\ closed /\ (a # NoAim => a \subseteq {AuthorKey(i)})
           \/ t = <<Check>> /\ closed /\ AuthorKey(i) \in WrittenIn(L)
  BY <1>1, <1>2, <1>3, <1>6 DEF DeletingAuthor
<1>7. CASE t = <<>> /\ closed /\ AuthorKey(i) \in WrittenIn(L) /\ Unreferenced(d, L)
  <2>1. Unreferenced(V, L)
    BY <1>2, <1>7, StaysUnreferenced DEF LocksHold
  <2> QED
    BY <1>1, <1>2, <1>3, <1>7, <2>1 DEF DeletingAuthor
<1>8. \/ t = FromItsTags(i) /\ onlyTags /\ (a # NoAim => \A r \in d : Key(r) \in a => ByAuthor(d, r, i))
      \/ t = Checked(FromItsBooks(i)) /\ onlyTags
      \/ t = FromItsBooks(i) /\ onlyTags /\ (a # NoAim => TagsWithin(d, L, a) /\ \A k \in a : k[1] = "books")
      \/ t = Checked(FromAuthor(i)) /\ closed
      \/ t = FromAuthor(i) /\ closed /\ (a # NoAim => a \subseteq {AuthorKey(i)})
      \/ t = <<Check>> /\ closed /\ AuthorKey(i) \in WrittenIn(L)
      \/ t = <<>> /\ closed /\ AuthorKey(i) \in WrittenIn(L) /\ Unreferenced(d, L)
  BY DEF DeletingAuthor
<1> QED
  BY <1>4, <1>5, <1>6, <1>7, <1>8

LEMMA WritingTags_Stays ==
  ASSUME NEW c, NEW d, NEW V, NEW t, NEW a, NEW w, NEW L, NEW n, NEW b, NEW others,
         Locked(V, L) = Locked(d, L), TagsOf(V, b) = TagsOf(d, b),
         WritingTags(c, d, t, a, w, L, n, b, others)
  PROVE  WritingTags(c, V, t, a, w, L, n, b, others)
BY DEF WritingTags

LEMMA Progress_Stays ==
  ASSUME NEW c, NEW d, NEW V, NEW I, NEW t, NEW a, NEW w, NEW L,
         IsCommand(c), Sound(d), Sound(V), Stable(d, V, I, L), LocksHold(d, w, L), \A r \in d : Number(r) \in I,
         c.op \in {"EditBook", "DeleteBook"} => c.book \in I, \A k \in a : a # NoAim => k[2] \in I,
         \A r \in d : ~OwnedBy(c, Number(r)), \A r \in V : ~OwnedBy(c, Number(r)),
         Progress(c, d, t, a, w, L)
  PROVE  Progress(c, V, t, a, w, L)
<1>0. Locked(V, L) = Locked(d, L)
  BY DEF Stable
<1>1. CASE c.op \in {"AddAuthor", "EditAuthor"}
  BY <1>1 DEF Progress
<1>2. CASE c.op = "DeleteAuthor"
  BY <1>2, DeletingAuthor_Stays DEF Progress
<1>3. CASE c.op = "DeleteBook"
  <2>1. c.book \in I /\ DeletingBook(c, d, t, a, w, L)
    BY <1>3 DEF Progress
  <2>2. DeletingBook(c, V, t, a, w, L)
    BY <2>1, DeletingBook_Stays
  <2> QED
    BY <1>3, <2>2 DEF Progress
<1>4. CASE c.op = "EditBook"
  <2>1. EditingBook(c, d, t, a, w, L) /\ c.book \in I
    BY <1>4 DEF Progress
  <2>2. Gone(d, c.book) => Gone(V, c.book)
    BY <2>1, StaysGone
  <2>3. BeforeUpdate(c, d, t, a, w, L) => BeforeUpdate(c, V, t, a, w, L)
    BY <2>2 DEF BeforeUpdate
  <2>4. Missed(c, d, t, a, w, L) => Missed(c, V, t, a, w, L)
    BY <2>2 DEF Missed
  <2>5. ASSUME <<BookKey(c.book), "NO_KEY_UPDATE">> \in L, WritingTags(c, d, t, a, w, L, c.n, c.book, {})
        PROVE  WritingTags(c, V, t, a, w, L, c.n, c.book, {})
    <3>1. BookKey(c.book) \in WrittenIn(L)
      BY <2>5, EditIsLocked
    <3>2. TagsOf(V, c.book) = TagsOf(d, c.book)
      BY <3>1 DEF Stable
    <3> QED
      BY <1>0, <2>5, <3>2, WritingTags_Stays
  <2>6. EditingBook(c, V, t, a, w, L)
    BY <2>1, <2>3, <2>4, <2>5 DEF EditingBook
  <2> QED
    BY <1>4, <2>6 DEF Progress
<1>5. CASE c.op = "AddBook"
  <2>1. AddingBook(c, d, t, a, w, L)
    BY <1>5 DEF Progress
  <2>2. TagsOf(d, c.book) = {} /\ TagsOf(V, c.book) = {}
    <3>1. (\A r \in d : Number(r) # c.book) /\ \A r \in V : Number(r) # c.book
      BY <1>5 DEF OwnedBy
    <3> QED
      BY <3>1, NoBookYet
  <2>3. ASSUME NEW others, WritingTags(c, d, t, a, w, L, c.book, c.book, others)
        PROVE  WritingTags(c, V, t, a, w, L, c.book, c.book, others)
    BY <1>0, <2>2, <2>3, WritingTags_Stays
  <2>4. AddingBook(c, V, t, a, w, L)
    BY <2>1, <2>3 DEF AddingBook
  <2> QED
    BY <1>5, <2>4 DEF Progress
<1> QED
  BY <1>1, <1>2, <1>3, <1>4, <1>5 DEF IsCommand

LEMMA Running_Stays ==
  ASSUME NEW c, NEW d, NEW V, NEW I, NEW t, NEW a, NEW w, NEW L,
         IsCommand(c), Sound(d), Sound(V), Stable(d, V, I, L), \A r \in d : Number(r) \in I,
         c.op \in {"EditBook", "DeleteBook"} => c.book \in I, \A k \in a : a # NoAim => k[2] \in I,
         \A r \in d : ~OwnedBy(c, Number(r)), \A r \in V : ~OwnedBy(c, Number(r)),
         Running(c, d, t, a, w, L)
  PROVE  Running(c, V, t, a, w, L)
BY Progress_Stays, LocksStay, NewRowsStay DEF Running

-----------------------------------------------------------------------------
(***************************************************************************)
(* A transaction that begins.                                              *)
(***************************************************************************)
LEMMA Begins ==
  ASSUME NEW c, NEW d, NEW t, Progress(c, d, t, NoAim, {}, {})
  PROVE  Running(c, d, t, NoAim, {}, {})
<1> DEFINE w == {}
           L == {}
<1>1. \A p \in L : FALSE
  OBVIOUS
<1>2. \A r \in w : FALSE
  OBVIOUS
<1>3. WrittenIn(L) = {}
  BY NoLocks
<1>4. Progress(c, d, t, NoAim, w, L)
  OBVIOUS
<1> HIDE DEF w, L
<1>5. LocksHold(d, w, L) /\ NewRows(c, d, w, L) /\ AimOK(t, NoAim, w)
  BY <1>1, <1>2, <1>3 DEF LocksHold, NewRows, AimOK
<1>6. Running(c, d, t, NoAim, w, L)
  BY <1>4, <1>5 DEF Running
<1> QED
  BY <1>6 DEF w, L

LEMMA BeginAddAuthor ==
  ASSUME NEW c, NEW d, c.op = "AddAuthor"
  PROVE  Running(c, d, <<Insert(Author(c.n, c.name))>>, NoAim, {}, {})
<1>1. Progress(c, d, <<Insert(Author(c.n, c.name))>>, NoAim, {}, {})
  BY DEF Progress, AddingAuthor
<1> QED
  BY <1>1, Begins

LEMMA BeginEditAuthor ==
  ASSUME NEW c, NEW d, c.op = "EditAuthor"
  PROVE  Running(c, d, EditAuthorWork(c.author, c.name), NoAim, {}, {})
<1>1. Progress(c, d, EditAuthorWork(c.author, c.name), NoAim, {}, {})
  BY DEF Progress, EditingAuthor
<1> QED
  BY <1>1, Begins

\* Nothing is locked at the beginning.
LEMMA NothingLocked ==
  ASSUME NEW d, NEW K
  PROVE  TagsWithin(d, {}, K) /\ (\A r \in Locked(d, {}) : FALSE) /\ \A p \in {} : p[2] = "UPDATE"
<1>1. Locked(d, {}) = {}
  BY NoLocks
<1> QED
  BY <1>1 DEF TagsWithin

LEMMA BeginDeleteBook ==
  ASSUME NEW c, NEW d, c.op = "DeleteBook"
  PROVE  Running(c, d, DeleteBookWork(c.book), NoAim, {}, {})
<1> DEFINE b == c.book
           L == {}
           rest == Delete("books", "id", b, FALSE)
<1>1. rest = FromBook(b) /\ IsSeq(rest)
  BY LastDelete DEF FromBook, TheBook
<1> HIDE DEF rest
<1>2. Delete("tags", "book", b, FALSE) \o rest = FromBookTags(b)
  BY <1>1, DeleteThen, ZenonT(40) DEF FromBookTags, BookTags
<1>3. DeleteBookWork(b) = FromBookTags(b)
  BY <1>2 DEF DeleteBookWork, rest
<1>4. TagsWithin(d, L, {BookKey(b)}) /\ \A p \in L : p[2] = "UPDATE"
  BY NothingLocked
<1> HIDE DEF L
<1>5. DeletingBook(c, d, FromBookTags(b), NoAim, {}, L)
  BY <1>4 DEF DeletingBook
<1>6. Progress(c, d, DeleteBookWork(b), NoAim, {}, L)
  BY <1>3, <1>5 DEF Progress
<1> QED
  BY <1>6, Begins DEF L

LEMMA BeginDeleteAuthor ==
  ASSUME NEW c, NEW d, c.op = "DeleteAuthor"
  PROVE  Running(c, d, DeleteAuthorWork(c.author), NoAim, {}, {})
<1> DEFINE i == c.author
           L == {}
           A == Delete("tags", "author", i, FALSE)
           B == Delete("books", "author", i, FALSE)
           C == Delete("authors", "id", i, TRUE)
<1>1. C = FromAuthor(i) /\ IsSeq(C)
  <2> DEFINE yes == TRUE
             D == Delete("authors", "id", i, yes)
  <2>1. D = Then(DeleteOf("authors", "id", i, yes), <<Check>>) /\ IsSeq(D)
    <3> HIDE DEF yes
    <3> QED
      BY LastDelete
  <2> QED
    BY <2>1 DEF FromAuthor, TheAuthor
<1>2. \A rest : IsSeq(rest) => B \o rest = Then(ItsBooks(i), Checked(rest)) /\ IsSeq(B \o rest)
  BY DeleteThen DEF ItsBooks
<1>3. \A rest : IsSeq(rest) => A \o rest = Then(ItsTags(i), Checked(rest))
  BY DeleteThen, ZenonT(40) DEF ItsTags
<1>4. (A \o B) \o C = A \o (B \o C)
  <2>1. IsSeq(A) /\ IsSeq(B)
    BY LastDelete
  <2> HIDE DEF A, B, C
  <2>2. PICK S1 : A \in Seq(S1)
    BY <2>1 DEF IsSeq
  <2>3. PICK S2 : B \in Seq(S2)
    BY <2>1 DEF IsSeq
  <2>4. PICK S3 : C \in Seq(S3)
    BY <1>1 DEF IsSeq
  <2> DEFINE S == S1 \cup S2 \cup S3
  <2>5. A \in Seq(S) /\ B \in Seq(S) /\ C \in Seq(S)
    BY <2>2, <2>3, <2>4
  <2> HIDE DEF S
  <2> QED
    BY <2>5, ConcatAssociative
<1>5. DeleteAuthorWork(i) = (A \o B) \o C
  BY DEF DeleteAuthorWork
<1> HIDE DEF A, B, C
<1>6. DeleteAuthorWork(i) = FromItsTags(i)
  <2>1. B \o C = FromItsBooks(i) /\ IsSeq(B \o C)
    BY <1>1, <1>2 DEF FromItsBooks
  <2>2. A \o (B \o C) = FromItsTags(i)
    BY <1>3, <2>1 DEF FromItsTags
  <2> QED
    BY <1>4, <1>5, <2>2
<1>7. (\A r \in Locked(d, L) : FALSE) /\ \A p \in L : p[2] = "UPDATE"
  BY NothingLocked
<1> HIDE DEF L
<1>8. DeletingAuthor(c, d, FromItsTags(i), NoAim, {}, L)
  BY <1>7 DEF DeletingAuthor
<1>9. Progress(c, d, DeleteAuthorWork(i), NoAim, {}, L)
  BY <1>6, <1>8 DEF Progress
<1> QED
  BY <1>9, Begins DEF L

\* The statements that write the tags of a book.
LEMMA SetTagsIs ==
  ASSUME NEW n, NEW b, NEW tags, tags \subseteq Tags
  PROVE  \E s : IsSeq(s) /\ Range(s) = tags /\ SetTags(n, b, tags) = FromTags(n, b, s)
<1> DEFINE s == SetToSeq(tags)
<1>1. IsFiniteSet(tags)
  BY FS_Subset, BookypediaAssumption
<1>2. IsSeq(s) /\ Range(s) = tags
  BY <1>1, SetToSeqRange
<1>3. SetTags(n, b, tags) = Delete("tags", "book", b, FALSE) \o Inserts(n, b, s)
  BY DEF SetTags, Inserts
<1> HIDE DEF s
<1>4. IsSeq(Inserts(n, b, s))
  BY <1>2, InsertsFacts
<1>5. SetTags(n, b, tags) = FromTags(n, b, s)
  BY <1>3, <1>4, DeleteThen DEF FromTags, BookTags
<1> QED
  BY <1>2, <1>5

LEMMA BeginEditBook ==
  ASSUME NEW c, NEW d, c.op = "EditBook", c.tags \subseteq Tags
  PROVE  Running(c, d, EditBookWork(c.n, c.book, c.title, c.tags), NoAim, {}, {})
<1>1. PICK s : IsSeq(s) /\ Range(s) = c.tags /\ SetTags(c.n, c.book, c.tags) = FromTags(c.n, c.book, s)
  BY SetTagsIs
<1>2. EditBookWork(c.n, c.book, c.title, c.tags)
        = Then(Update(BookKey(c.book), "title", c.title, FALSE), FromTags(c.n, c.book, s))
  BY <1>1 DEF EditBookWork, Then, BookKey
<1>3. BeforeUpdate(c, d, EditBookWork(c.n, c.book, c.title, c.tags), NoAim, {}, {})
  BY <1>1, <1>2 DEF BeforeUpdate
<1>4. Progress(c, d, EditBookWork(c.n, c.book, c.title, c.tags), NoAim, {}, {})
  BY <1>3 DEF Progress, EditingBook
<1> QED
  BY <1>4, Begins

LEMMA BeginAddBook ==
  ASSUME NEW c, NEW d, NEW author, c.op = "AddBook", c.tags \subseteq Tags
  PROVE  Running(c, d, SaveBook(c.book, c.title, author, c.tags), NoAim, {}, {})
<1> DEFINE w == {}
           L == {}
           t == SaveBook(c.book, c.title, author, c.tags)
<1>1. PICK s : IsSeq(s) /\ Range(s) = c.tags /\ SetTags(c.book, c.book, c.tags) = FromTags(c.book, c.book, s)
  BY SetTagsIs
<1>2. t = Then(Insert(Book(c.book, c.title, author)), FromTags(c.book, c.book, s))
  BY <1>1 DEF SaveBook, Then
<1>3. BeforeBook(c, t, w, L)
  BY <1>1, <1>2 DEF BeforeBook
<1>4. \A p \in L : FALSE
  OBVIOUS
<1> HIDE DEF w, L, t
<1>5. Progress(c, d, t, NoAim, w, L)
  BY <1>3, <1>4 DEF Progress, AddingBook
<1> QED
  BY <1>5, Begins DEF w, L, t

LEMMA BeginAddBookAndAuthor ==
  ASSUME NEW c, NEW d, NEW author, c.op = "AddBook", c.tags \subseteq Tags
  PROVE  Running(c, d, <<Insert(Author(c.book, c.name))>> \o SaveBook(c.book, c.title, author, c.tags), NoAim, {}, {})
<1> DEFINE w == {}
           L == {}
           t == <<Insert(Author(c.book, c.name))>> \o SaveBook(c.book, c.title, author, c.tags)
<1>1. PICK s : IsSeq(s) /\ Range(s) = c.tags /\ SetTags(c.book, c.book, c.tags) = FromTags(c.book, c.book, s)
  BY SetTagsIs
<1>2. t = Then(Insert(Author(c.book, c.name)),
               Then(Insert(Book(c.book, c.title, author)), FromTags(c.book, c.book, s)))
  BY <1>1 DEF SaveBook, Then
<1>3. BeforeBook(c, t, w, L)
  BY <1>1, <1>2 DEF BeforeBook
<1>4. \A p \in L : FALSE
  OBVIOUS
<1> HIDE DEF w, L, t
<1>5. Progress(c, d, t, NoAim, w, L)
  BY <1>3, <1>4 DEF Progress, AddingBook
<1> QED
  BY <1>5, Begins DEF w, L, t

-----------------------------------------------------------------------------
(***************************************************************************)
(* The steps of one user.                                                  *)
(***************************************************************************)
Others(u) ==
  \A v \in Users \ {u} : /\ stage'[v] = stage[v] /\ cmd'[v] = cmd[v]
                         /\ todo'[v] = todo[v] /\ aim'[v] = aim[v]
                         /\ new'[v] = new[v] /\ locks'[v] = locks[v]

\* What a command under way is about has one of the numbers of I.
About(c, a, I) ==
  /\ c.op \in {"EditBook", "DeleteBook"} => c.book \in I
  /\ c.op \in {"EditAuthor", "DeleteAuthor"} => c.author \in I
  /\ a # NoAim => \A k \in a : k[2] \in I

\* A user gets no number but the next one.
OwnsNext(u) ==
  /\ count' \in {count, count + 1}
  /\ \A i : stage'[u] # "idle" /\ OwnedBy(cmd'[u], i) => Owns(u, i) \/ (i = count + 1 /\ count' = count + 1)

LEMMA UserFacts ==
  ASSUME BookInv, NEW u \in Users
  PROVE  /\ stage[u] \in {"idle", "asked", "working"}
         /\ stage[u] # "working" => Resting(todo[u], aim[u], new[u], locks[u])
         /\ stage[u] # "idle" => IsCommand(cmd[u]) /\ About(cmd[u], aim[u], Issued)
         /\ stage[u] = "working" => Running(cmd[u], db, todo[u], aim[u], new[u], locks[u])
         /\ todo[u] # <<>> => stage[u] = "working"
         /\ stage[u] # "idle" => \A i \in Issued : ~OwnedBy(cmd[u], i)
<1>1. UserIs(stage[u], cmd[u], db, todo[u], aim[u], new[u], locks[u]) /\ Numbered(u)
  BY DEF BookInv
<1>2. stage[u] # "idle" => About(cmd[u], aim[u], Issued)
  BY <1>1 DEF Numbered, About
<1>3. stage[u] # "idle" => \A i \in Issued : ~OwnedBy(cmd[u], i)
  BY DEF Issued, Owns
<1> QED
  BY <1>1, <1>2, <1>3 DEF UserIs, Resting

LEMMA IssuedGrows ==
  ASSUME BookInv, NEW u \in Users, Others(u), OwnsNext(u)
  PROVE  /\ Issued \subseteq Issued'
         /\ \A v \in Users \ {u} : Numbered(v)'
<1>0. count \in Nat /\ count' \in {count, count + 1}
  BY DEF BookInv, OwnsNext
<1>1. \A i \in 0 .. count : i \in 0 .. count' /\ i # count + 1
  BY <1>0
<1>2. \A v \in Users : Numbered(v)
  BY DEF BookInv
<1>3. ASSUME NEW v \in Users, NEW i \in 0 .. count, ~Owns(v, i)
      PROVE  ~(stage'[v] # "idle" /\ OwnedBy(cmd'[v], i))
  <2>1. CASE v = u
    BY <1>1, <1>3, <2>1 DEF OwnsNext
  <2>2. CASE v # u
    BY <1>3, <2>2 DEF Others, Owns
  <2> QED
    BY <2>1, <2>2
<1>4. Issued \subseteq Issued'
  BY <1>1, <1>3 DEF Issued, Owns
<1>5. ASSUME NEW v \in Users \ {u} PROVE Numbered(v)'
  <2>1. stage'[v] = stage[v] /\ cmd'[v] = cmd[v] /\ aim'[v] = aim[v]
    BY DEF Others
  <2> SUFFICES ASSUME stage[v] # "idle"
               PROVE  /\ \A i : OwnedBy(cmd[v], i) => i \in 0 .. count'
                      /\ \A x \in Users \ {v} : \A i : OwnedBy(cmd[v], i) => ~(stage'[x] # "idle" /\ OwnedBy(cmd'[x], i))
                      /\ About(cmd[v], aim[v], Issued')
    BY <2>1 DEF Numbered, About, Owns
  <2>2. \A i : OwnedBy(cmd[v], i) => i \in 0 .. count
    BY <1>2 DEF Numbered
  <2>3. \A x \in Users \ {v} : \A i : OwnedBy(cmd[v], i) => ~Owns(x, i)
    BY <1>2 DEF Numbered
  <2>4. About(cmd[v], aim[v], Issued')
    BY <1>2, <1>4 DEF Numbered, About
  <2> QED
    BY <1>1, <1>3, <2>2, <2>3, <2>4
<1> QED
  BY <1>4, <1>5

LEMMA NumberedNext ==
  ASSUME BookInv, NEW u \in Users, Others(u), OwnsNext(u),
         stage'[u] # "idle" => About(cmd'[u], aim'[u], Issued)
  PROVE  Numbered(u)'
<1>0. count \in Nat /\ count' \in {count, count + 1}
  BY DEF BookInv, OwnsNext
<1>1. Issued \subseteq Issued'
  BY IssuedGrows
<1> SUFFICES ASSUME stage'[u] # "idle"
             PROVE  /\ \A i : OwnedBy(cmd'[u], i) => i \in 0 .. count'
                    /\ \A v \in Users \ {u} : \A i : OwnedBy(cmd'[u], i) => ~(stage'[v] # "idle" /\ OwnedBy(cmd'[v], i))
                    /\ About(cmd'[u], aim'[u], Issued')
  BY DEF Numbered, About, Owns
<1>2. ASSUME NEW i, OwnedBy(cmd'[u], i)
      PROVE  /\ i \in 0 .. count'
             /\ \A v \in Users \ {u} : ~(stage'[v] # "idle" /\ OwnedBy(cmd'[v], i))
  <2>1. \A v \in Users \ {u} : (stage'[v] # "idle" /\ OwnedBy(cmd'[v], i)) <=> Owns(v, i)
    BY DEF Others, Owns
  <2>2. CASE Owns(u, i)
    <3>1. i \in 0 .. count /\ \A v \in Users \ {u} : ~Owns(v, i)
      BY <2>2 DEF BookInv, Numbered, Owns
    <3> QED
      BY <1>0, <2>1, <3>1
  <2>3. CASE i = count + 1 /\ count' = count + 1
    <3>1. \A v \in Users : Owns(v, i) => i \in 0 .. count
      BY DEF BookInv, Numbered, Owns
    <3> QED
      BY <1>0, <2>1, <2>3, <3>1
  <2> QED
    BY <1>2, <2>2, <2>3 DEF OwnsNext
<1>3. About(cmd'[u], aim'[u], Issued')
  BY <1>1 DEF About
<1> QED
  BY <1>2, <1>3

\* Steps other than a commit.
LEMMA OwnStep ==
  ASSUME BookInv, NEW u \in Users, Functions', Others(u), OwnsNext(u), db' = db, given' = given,
         UserIs(stage'[u], cmd'[u], db, todo'[u], aim'[u], new'[u], locks'[u]),
         stage'[u] # "idle" => About(cmd'[u], aim'[u], Issued),
         \A v \in Users \ {u} : Apart(locks'[u], locks[v]) /\ Apart(locks[v], locks'[u])
  PROVE  BookInv'
<1>1. count' \in Nat
  BY DEF BookInv, OwnsNext
<1>2. Issued \subseteq Issued' /\ \A v \in Users : Numbered(v)'
  BY IssuedGrows, NumberedNext
<1>3. CatalogueOK'
  BY <1>2 DEF BookInv, CatalogueOK, Rows
<1>4. ASSUME NEW v \in Users PROVE UserIs(stage'[v], cmd'[v], db', todo'[v], aim'[v], new'[v], locks'[v])
  <2>1. CASE v = u
    BY <2>1
  <2>2. CASE v # u
    BY <2>2 DEF BookInv, Others
  <2> QED
    BY <2>1, <2>2
<1>5. ASSUME NEW v \in Users, NEW x \in Users, v # x PROVE Apart(locks'[v], locks'[x])
  <2>1. CASE v # u /\ x # u
    BY <1>5, <2>1 DEF BookInv, Others
  <2>2. CASE v = u \/ x = u
    BY <1>5, <2>2 DEF Others
  <2> QED
    BY <2>1, <2>2
<1> QED
  BY <1>1, <1>2, <1>3, <1>4, <1>5 DEF BookInv

LEMMA CommandStep ==
  ASSUME BookInv, NEW u \in Users, NEW c, Command(u, c), IsCommand(c),
         \A i : OwnedBy(c, i) => i = N, About(c, NoAim, Issued),
         \/ Ask(u) /\ c.op \in {"AddBook", "EditBook"}
         \/ \E t : Work(u, t) /\ Running(c, db, t, NoAim, {}, {})
  PROVE  BookInv'
<1>0. Functions /\ stage[u] = "idle" /\ Resting(todo[u], aim[u], new[u], locks[u])
  BY UserFacts DEF BookInv, Command
<1>1. /\ cmd' = [cmd EXCEPT ![u] = c] /\ count' = count + 1 /\ told' = told /\ given' = given
      /\ db' = db /\ aim' = aim /\ new' = new /\ locks' = locks
  BY DEF Command, Ask, Work, Begin, dbVars
<1>2. PICK s, t : /\ stage' = [stage EXCEPT ![u] = s] /\ todo' = [todo EXCEPT ![u] = t]
                  /\ \/ s = "asked" /\ t = <<>> /\ c.op \in {"AddBook", "EditBook"}
                     \/ s = "working" /\ Running(c, db, t, NoAim, {}, {})
  <2>1. CASE Ask(u) /\ c.op \in {"AddBook", "EditBook"}
    <3>1. stage' = [stage EXCEPT ![u] = "asked"] /\ todo' = todo
      BY <2>1 DEF Ask, dbVars
    <3>2. todo = [todo EXCEPT ![u] = <<>>]
      BY <1>0 DEF Functions, Resting
    <3> QED
      BY <2>1, <3>1, <3>2
  <2>2. ASSUME NEW t, Work(u, t), Running(c, db, t, NoAim, {}, {})
        PROVE  /\ stage' = [stage EXCEPT ![u] = "working"] /\ todo' = [todo EXCEPT ![u] = t]
               /\ Running(c, db, t, NoAim, {}, {})
    BY <2>2 DEF Work, Begin
  <2> QED
    BY <2>1, <2>2
<1>3. Functions'
  BY <1>0, <1>1, <1>2 DEF Functions
<1>4. Others(u)
  BY <1>0, <1>1, <1>2 DEF Functions, Others
<1>5. /\ stage'[u] = s /\ cmd'[u] = c /\ todo'[u] = t /\ aim'[u] = NoAim /\ new'[u] = {} /\ locks'[u] = {}
  BY <1>0, <1>1, <1>2 DEF Functions, Resting
<1>6. OwnsNext(u)
  BY <1>1, <1>5 DEF OwnsNext, N
<1>7. UserIs(stage'[u], cmd'[u], db, todo'[u], aim'[u], new'[u], locks'[u])
  <2>1. UserIs(s, c, db, t, NoAim, {}, {})
    BY <1>2 DEF UserIs, Resting
  <2> QED
    BY <1>5, <2>1
<1>8. \A v \in Users \ {u} : Apart(locks'[u], locks[v]) /\ Apart(locks[v], locks'[u])
  BY <1>1 DEF BookInv
<1> QED
  BY <1>1, <1>3, <1>4, <1>5, <1>6, <1>7, <1>8, OwnStep

\* A row that the user chooses has a number that was given out.
LEMMA ChosenFacts ==
  ASSUME BookInv
  PROVE  /\ Sound(db) /\ \A r \in db : Number(r) \in Issued
         /\ \A r \in Rows("authors") : r.id \in Issued
         /\ \A r \in Rows("books") : r.id \in Issued
         /\ \A k \in Keys(db) : k[2] \in Issued
<1>1. Sound(db) /\ \A r \in db : Number(r) \in Issued
  BY DEF BookInv, CatalogueOK
<1>2. \A r \in db : IsRow(r)
  BY <1>1 DEF Sound
<1>3. \A r \in db : r.table \in {"authors", "books"} => r.id \in Issued
  BY <1>1, <1>2, RowFacts
<1>4. \A k \in Keys(db) : k[2] \in Issued
  BY <1>1, <1>2, RowFacts DEF Keys
<1> QED
  BY <1>1, <1>3, <1>4 DEF Rows

LEMMA AddAuthorStep ==
  ASSUME BookInv, NEW u \in Users, NEW name, AddAuthor(u, name)
  PROVE  BookInv'
<1> DEFINE c == [op |-> "AddAuthor", n |-> N, name |-> name]
           t == <<Insert(Author(N, name))>>
<1>1. Command(u, c) /\ Work(u, t)
  BY DEF AddAuthor
<1>2. c.op = "AddAuthor" /\ c.n = N /\ c.name = name
  OBVIOUS
<1> HIDE DEF c
<1>3. IsCommand(c) /\ (\A i : OwnedBy(c, i) => i = N) /\ About(c, NoAim, Issued)
  BY <1>2 DEF IsCommand, OwnedBy, About
<1>4. Running(c, db, t, NoAim, {}, {})
  BY <1>2, BeginAddAuthor
<1> QED
  BY <1>1, <1>3, <1>4, CommandStep

LEMMA DeleteAuthorStep ==
  ASSUME BookInv, NEW u \in Users, NEW r \in Rows("authors"), DeleteAuthor(u, r.id)
  PROVE  BookInv'
<1> DEFINE c == [op |-> "DeleteAuthor", author |-> r.id]
           t == DeleteAuthorWork(r.id)
<1>1. Command(u, c) /\ Work(u, t)
  BY DEF DeleteAuthor
<1>2. c.op = "DeleteAuthor" /\ c.author = r.id /\ r.id \in Issued
  BY ChosenFacts
<1> HIDE DEF c
<1>3. IsCommand(c) /\ (\A i : OwnedBy(c, i) => i = N) /\ About(c, NoAim, Issued)
  BY <1>2 DEF IsCommand, OwnedBy, About
<1>4. Running(c, db, t, NoAim, {}, {})
  BY <1>2, BeginDeleteAuthor
<1> QED
  BY <1>1, <1>3, <1>4, CommandStep

LEMMA EditAuthorStep ==
  ASSUME BookInv, NEW u \in Users, NEW r \in Rows("authors"), NEW name, EditAuthor(u, r.id, name)
  PROVE  BookInv'
<1> DEFINE c == [op |-> "EditAuthor", author |-> r.id, name |-> name]
           t == EditAuthorWork(r.id, name)
<1>1. Command(u, c) /\ Work(u, t)
  BY DEF EditAuthor
<1>2. c.op = "EditAuthor" /\ c.author = r.id /\ c.name = name /\ r.id \in Issued
  BY ChosenFacts
<1> HIDE DEF c
<1>3. IsCommand(c) /\ (\A i : OwnedBy(c, i) => i = N) /\ About(c, NoAim, Issued)
  BY <1>2 DEF IsCommand, OwnedBy, About
<1>4. Running(c, db, t, NoAim, {}, {})
  BY <1>2, BeginEditAuthor
<1> QED
  BY <1>1, <1>3, <1>4, CommandStep

LEMMA DeleteBookStep ==
  ASSUME BookInv, NEW u \in Users, NEW r \in Rows("books"), DeleteBook(u, r.id)
  PROVE  BookInv'
<1> DEFINE c == [op |-> "DeleteBook", book |-> r.id]
           t == DeleteBookWork(r.id)
<1>1. Command(u, c) /\ Work(u, t)
  BY DEF DeleteBook
<1>2. c.op = "DeleteBook" /\ c.book = r.id /\ r.id \in Issued
  BY ChosenFacts
<1> HIDE DEF c
<1>3. IsCommand(c) /\ (\A i : OwnedBy(c, i) => i = N) /\ About(c, NoAim, Issued)
  BY <1>2 DEF IsCommand, OwnedBy, About
<1>4. Running(c, db, t, NoAim, {}, {})
  BY <1>2, BeginDeleteBook
<1> QED
  BY <1>1, <1>3, <1>4, CommandStep

LEMMA AddBookStep ==
  ASSUME BookInv, NEW u \in Users, NEW title, NEW name, NEW tags \in SUBSET Tags, AddBook(u, title, name, tags)
  PROVE  BookInv'
<1> DEFINE c == [op |-> "AddBook", book |-> N, title |-> title, name |-> name, tags |-> tags]
<1>1. Command(u, c) /\ (Ask(u) \/ \E r \in Rows("authors") : Work(u, SaveBook(N, title, r.id, tags)))
  BY DEF AddBook
<1>2. c.op = "AddBook" /\ c.book = N /\ c.title = title /\ c.name = name /\ c.tags = tags
  OBVIOUS
<1> HIDE DEF c
<1>3. IsCommand(c) /\ (\A i : OwnedBy(c, i) => i = N) /\ About(c, NoAim, Issued)
  BY <1>2 DEF IsCommand, OwnedBy, About
<1>4. \A author : Running(c, db, SaveBook(N, title, author, tags), NoAim, {}, {})
  BY <1>2, BeginAddBook
<1> QED
  BY <1>1, <1>2, <1>3, <1>4, CommandStep

LEMMA EditBookStep ==
  ASSUME BookInv, NEW u \in Users, NEW r \in Rows("books"), NEW title, NEW tags \in SUBSET Tags,
         EditBook(u, r.id, title, tags)
  PROVE  BookInv'
<1> DEFINE c == [op |-> "EditBook", n |-> N, book |-> r.id, title |-> title, tags |-> tags]
<1>1. Command(u, c) /\ Ask(u)
  BY DEF EditBook
<1>2. "title" \in DOMAIN c /\ c.op = "EditBook" /\ c.n = N /\ c.book = r.id /\ c.tags = tags /\ r.id \in Issued
  BY ChosenFacts
<1> HIDE DEF c
<1>3. IsCommand(c) /\ (\A i : OwnedBy(c, i) => i = N) /\ About(c, NoAim, Issued)
  BY <1>2 DEF IsCommand, OwnedBy, About
<1> QED
  BY <1>1, <1>2, <1>3, CommandStep

\* The second half of AddBook and EditBook: the transaction begins.
LEMMA WorkStep ==
  ASSUME BookInv, NEW u \in Users, NEW c, NEW t, stage[u] = "asked", Work(u, t),
         cmd' = [cmd EXCEPT ![u] = c], UNCHANGED <<count, told, given>>,
         IsCommand(c), \A i : OwnedBy(c, i) => OwnedBy(cmd[u], i), About(c, NoAim, Issued),
         Running(c, db, t, NoAim, {}, {})
  PROVE  BookInv'
<1>0. Functions /\ Resting(todo[u], aim[u], new[u], locks[u])
  BY UserFacts DEF BookInv
<1>1. /\ stage' = [stage EXCEPT ![u] = "working"] /\ todo' = [todo EXCEPT ![u] = t]
      /\ count' = count /\ told' = told /\ given' = given
      /\ db' = db /\ aim' = aim /\ new' = new /\ locks' = locks
  BY DEF Work, Begin
<1>2. Functions'
  BY <1>0, <1>1 DEF Functions
<1>3. Others(u)
  BY <1>0, <1>1 DEF Functions, Others
<1>4. /\ stage'[u] = "working" /\ cmd'[u] = c /\ todo'[u] = t
      /\ aim'[u] = NoAim /\ new'[u] = {} /\ locks'[u] = {}
  BY <1>0, <1>1 DEF Functions, Resting
<1>5. OwnsNext(u)
  BY <1>1, <1>4 DEF OwnsNext, Owns
<1>6. UserIs(stage'[u], cmd'[u], db, todo'[u], aim'[u], new'[u], locks'[u])
  <2>1. UserIs("working", c, db, t, NoAim, {}, {})
    BY DEF UserIs
  <2> QED
    BY <1>4, <2>1
<1>7. \A v \in Users \ {u} : Apart(locks'[u], locks[v]) /\ Apart(locks[v], locks'[u])
  BY <1>1 DEF BookInv
<1> QED
  BY <1>1, <1>2, <1>3, <1>4, <1>5, <1>6, <1>7, OwnStep

LEMMA AuthorByNameStep ==
  ASSUME BookInv, NEW u \in Users, AuthorByName(u)
  PROVE  BookInv'
<1> DEFINE c == cmd[u]
<1>1. /\ stage[u] = "asked" /\ c.op = "AddBook" /\ UNCHANGED <<cmd, count, told, given>>
      /\ \/ Work(u, <<Insert(Author(c.book, c.name))>> \o SaveBook(c.book, c.title, c.book, c.tags))
         \/ \E r \in Rows("authors") : Work(u, SaveBook(c.book, c.title, r.id, c.tags))
  BY DEF AuthorByName
<1>2. IsCommand(c) /\ About(c, NoAim, Issued)
  BY <1>1, UserFacts DEF About
<1>3. cmd' = [cmd EXCEPT ![u] = c]
  BY <1>1 DEF BookInv, Functions
<1> HIDE DEF c
<1>4. c.tags \subseteq Tags
  BY <1>1, <1>2 DEF IsCommand
<1>5. \A author : /\ Running(c, db, SaveBook(c.book, c.title, author, c.tags), NoAim, {}, {})
                  /\ Running(c, db, <<Insert(Author(c.book, c.name))>> \o SaveBook(c.book, c.title, author, c.tags),
                             NoAim, {}, {})
  BY <1>1, <1>4, BeginAddBook, BeginAddBookAndAuthor
<1>6. PICK t : Work(u, t) /\ Running(c, db, t, NoAim, {}, {})
  BY <1>1, <1>5
<1>7. \A i : OwnedBy(c, i) => OwnedBy(cmd[u], i)
  BY DEF c
<1> QED
  BY <1>1, <1>2, <1>3, <1>6, <1>7, WorkStep

\* A transaction, or a command before it, that ends without a commit.
LEMMA EndStep ==
  ASSUME BookInv, NEW u \in Users, Finish(u, "failed"), db' = db, given' = given, Ends(u)
  PROVE  BookInv'
<1>0. Functions
  BY DEF BookInv
<1>1. /\ stage' = [stage EXCEPT ![u] = "idle"] /\ told' = [told EXCEPT ![u] = "failed"]
      /\ cmd' = cmd /\ count' = count
      /\ todo' = [todo EXCEPT ![u] = <<>>] /\ aim' = [aim EXCEPT ![u] = NoAim]
      /\ new' = [new EXCEPT ![u] = {}] /\ locks' = [locks EXCEPT ![u] = {}]
  BY DEF Finish, Ends
<1>2. Functions'
  BY <1>0, <1>1 DEF Functions
<1>3. Others(u)
  BY <1>0, <1>1 DEF Functions, Others
<1>4. /\ stage'[u] = "idle" /\ todo'[u] = <<>> /\ aim'[u] = NoAim /\ new'[u] = {} /\ locks'[u] = {}
  BY <1>0, <1>1 DEF Functions
<1>5. OwnsNext(u)
  BY <1>1, <1>4 DEF OwnsNext
<1>6. UserIs(stage'[u], cmd'[u], db, todo'[u], aim'[u], new'[u], locks'[u])
  BY <1>4 DEF UserIs, Resting
<1>7. \A v \in Users \ {u} : Apart(locks'[u], locks[v]) /\ Apart(locks[v], locks'[u])
  BY <1>4 DEF Apart
<1> QED
  BY <1>2, <1>3, <1>4, <1>5, <1>6, <1>7, OwnStep

LEMMA GetDetailsStep ==
  ASSUME BookInv, NEW u \in Users, GetDetails(u)
  PROVE  BookInv'
<1> DEFINE c == cmd[u]
<1>0. Functions
  BY DEF BookInv
<1>1. /\ stage[u] = "asked" /\ c.op = "EditBook"
      /\ \/ Finish(u, "failed") /\ UNCHANGED <<dbVars, given>>
         \/ \E title : /\ cmd' = [cmd EXCEPT ![u].title = title]
                       /\ Work(u, EditBookWork(c.n, c.book, title, c.tags))
                       /\ UNCHANGED <<count, told, given>>
  BY DEF GetDetails
<1>2. IsCommand(c) /\ About(c, NoAim, Issued) /\ Resting(todo[u], aim[u], new[u], locks[u])
  BY <1>1, UserFacts DEF About
<1>3. CASE Finish(u, "failed") /\ UNCHANGED <<dbVars, given>>
  <2>1. db' = db /\ given' = given /\ todo' = todo /\ aim' = aim /\ new' = new /\ locks' = locks
    BY <1>3 DEF dbVars
  <2>2. Ends(u)
    BY <1>0, <1>2, <2>1 DEF Functions, Resting, Ends
  <2> QED
    BY <1>3, <2>1, <2>2, EndStep
<1>4. ASSUME NEW title, cmd' = [cmd EXCEPT ![u].title = title],
             Work(u, EditBookWork(c.n, c.book, title, c.tags)), UNCHANGED <<count, told, given>>
      PROVE  BookInv'
  <2> DEFINE e == [c EXCEPT !.title = title]
             t == EditBookWork(c.n, c.book, title, c.tags)
  <2>1. cmd' = [cmd EXCEPT ![u] = e]
    BY <1>4
  <2>2. /\ e.op = c.op /\ e.n = c.n /\ e.book = c.book /\ e.tags = c.tags
        /\ DOMAIN e = DOMAIN c
    OBVIOUS
  <2>3. "title" \in DOMAIN c => e.title = title
    OBVIOUS
  <2>4. "title" \in DOMAIN c
    BY <1>1, <1>2 DEF IsCommand
  <2> HIDE DEF c, e
  <2>5. e.op = "EditBook" /\ e.title = title
    BY <1>1, <2>2, <2>3, <2>4
  <2>6. IsCommand(e) /\ About(e, NoAim, Issued) /\ e.tags \subseteq Tags
    BY <1>1, <1>2, <2>2, <2>4, <2>5 DEF IsCommand, About
  <2>7. t = EditBookWork(e.n, e.book, e.title, e.tags)
    BY <2>2, <2>5
  <2>8. Running(e, db, t, NoAim, {}, {})
    BY <2>5, <2>6, <2>7, BeginEditBook
  <2>9. \A i : OwnedBy(e, i) => OwnedBy(cmd[u], i)
    BY <1>1, <2>2, <2>5 DEF OwnedBy, c
  <2> HIDE DEF t
  <2>10. Work(u, t)
    BY <1>4 DEF t
  <2> QED
    BY <1>1, <1>4, <2>1, <2>6, <2>8, <2>9, <2>10, WorkStep
<1> QED
  BY <1>1, <1>3, <1>4

LEMMA SnapshotStep ==
  ASSUME BookInv, NEW u \in Users, Snapshot(u), UNCHANGED <<stage, cmd, count, told, given>>
  PROVE  BookInv'
<1> DEFINE c == cmd[u]
           t == todo[u]
           w == new[u]
           L == locks[u]
           a == AimOf(db, Head(t), w, L)
<1>0. Functions
  BY DEF BookInv
<1>1. /\ t # <<>> /\ aim[u] = NoAim /\ aim'[u] = a
      /\ \A v \in Users \ {u} : aim'[v] = aim[v]
      /\ UNCHANGED <<db, todo, new, locks>>
  BY <1>0, SnapshotDoes
<1>2. stage[u] = "working" /\ IsCommand(c) /\ About(c, NoAim, Issued) /\ Running(c, db, t, NoAim, w, L)
  BY <1>1, UserFacts
<1>3. Sound(db) /\ \A k \in Keys(db) : k[2] \in Issued
  BY ChosenFacts
<1>4. Running(c, db, t, a, w, L) /\ a \subseteq Keys(db)
  BY <1>1, <1>2, <1>3, Running_Aim
<1>5. About(c, a, Issued)
  BY <1>2, <1>3, <1>4 DEF About
<1>6. Functions'
  <2>1. \E x : aim' = [aim EXCEPT ![u] = x]
    BY DEF Snapshot
  <2>2. aim' = [v \in Users |-> aim'[v]]
    BY <1>0, <2>1 DEF Functions
  <2> QED
    BY <1>0, <1>1, <2>2 DEF Functions
<1>7. Others(u)
  BY <1>1 DEF Others
<1>8. OwnsNext(u)
  BY DEF OwnsNext, Owns
<1>9. UserIs(stage'[u], cmd'[u], db, todo'[u], aim'[u], new'[u], locks'[u])
  <2>1. UserIs("working", c, db, t, a, w, L)
    BY <1>2, <1>4 DEF UserIs
  <2> HIDE DEF a
  <2> QED
    BY <1>1, <1>2, <2>1
<1>10. \A v \in Users \ {u} : Apart(locks'[u], locks[v]) /\ Apart(locks[v], locks'[u])
  BY <1>1 DEF BookInv
<1> HIDE DEF a
<1>11. About(cmd'[u], aim'[u], Issued)
  BY <1>1, <1>5
<1> QED
  BY <1>1, <1>6, <1>7, <1>8, <1>9, <1>10, <1>11, OwnStep

\* A statement waits until its locks clash with nobody's.
LEMMA ExecuteLocks ==
  ASSUME NEW u \in Users, Functions, Execute(u), NEW v \in Users \ {u}, Apart(locks[u], locks[v])
  PROVE  Apart(locks'[u], locks[v])
<1> DEFINE s == Head(todo[u])
           rows == {r \in View(u) : Key(r) \in aim[u]}
           K == {Key(r) : r \in rows}
           M == IF s.op = "insert" THEN References(s.row) \X {"KEY_SHARE"}
                ELSE IF s.op = "check" THEN {} ELSE K \X {Mode(s)}
<1>1. Blockers(u) = {} /\ locks' = [locks EXCEPT ![u] = locks[u] \cup M]
  BY DEF Execute
<1>2. locks'[u] = locks[u] \cup M
  BY <1>1 DEF Functions
<1>3. K \subseteq aim[u]
  OBVIOUS
<1> DEFINE names == UNION {NameTakers(u, n) : n \in NameWanted(s)}
           holders == CASE s.op = "insert" -> Holders(u, References(s.row), "KEY_SHARE")
                        [] s.op = "check"  -> Holders(u, {Key(r) : r \in Dangling(u)}, "KEY_SHARE")
                        [] OTHER           -> Holders(u, aim[u], Mode(s))
<1>a. Blockers(u) = names \cup holders
  BY DEF Blockers
<1>b. holders = {}
  <2> HIDE DEF names, holders
  <2> QED
    BY <1>1, <1>a
<1> HIDE DEF names
<1> HIDE DEF K
<1>4. ASSUME NEW p \in M, NEW q \in locks[v], p[1] = q[1] PROVE ~Clash(p[2], q[2])
  <2>1. CASE s.op = "insert"
    <3>1. p \in References(s.row) \X {"KEY_SHARE"}
      BY <1>4, <2>1
    <3>2. p[1] \in References(s.row) /\ p[2] = "KEY_SHARE"
      BY <3>1, PairFacts
    <3>3. Holders(u, References(s.row), "KEY_SHARE") = {}
      BY <1>b, <2>1
    <3>4. ~Clash(q[2], "KEY_SHARE")
      BY <1>4, <3>2, <3>3 DEF Holders
    <3> QED
      BY <3>2, <3>4 DEF Clash
  <2>2. CASE s.op # "insert" /\ s.op # "check"
    <3>1. p \in K \X {Mode(s)}
      BY <1>4, <2>2
    <3>2. p[1] \in aim[u] /\ p[2] = Mode(s)
      BY <1>3, <3>1, PairFacts
    <3>3. Holders(u, aim[u], Mode(s)) = {}
      BY <1>b, <2>2
    <3>4. ~Clash(q[2], Mode(s))
      BY <1>4, <3>2, <3>3 DEF Holders
    <3> QED
      BY <3>2, <3>4 DEF Clash
  <2>3. CASE s.op = "check"
    BY <1>4, <2>3
  <2> QED
    BY <2>1, <2>2, <2>3
<1> HIDE DEF M
<1> QED
  BY <1>2, <1>4 DEF Apart

LEMMA ApartIsMutual ==
  ASSUME NEW L, NEW M, Apart(L, M)
  PROVE  Apart(M, L)
BY DEF Apart, Clash

LEMMA ExecuteStep ==
  ASSUME BookInv, NEW u \in Users, Execute(u), UNCHANGED <<stage, cmd, count, told, given>>
  PROVE  BookInv'
<1> DEFINE c == cmd[u]
           t == todo[u]
           a == aim[u]
           w == new[u]
           L == locks[u]
           w2 == new'[u]
           L2 == locks'[u]
<1>0. Functions
  BY DEF BookInv
<1>1. t # <<>> /\ a # NoAim
  BY DEF Execute, Ready
<1>2. /\ stage[u] = "working" /\ IsCommand(c) /\ About(c, a, Issued) /\ Running(c, db, t, a, w, L)
      /\ \A i \in Issued : ~OwnedBy(c, i)
  BY <1>1, UserFacts
<1>3. Sound(db) /\ \A r \in db : ~OwnedBy(c, Number(r))
  BY <1>2, ChosenFacts
<1>4. Fits(c, Head(t), a, w) /\ AimOK(t, a, w)
  BY <1>1, <1>2, Running_Fits DEF Running
<1>5. /\ Does(db, Head(t), a, w, L, w2, L2)
      /\ todo'[u] = Tail(t) /\ aim'[u] = NoAim /\ db' = db
      /\ \A v \in Users \ {u} : /\ todo'[v] = todo[v] /\ aim'[v] = aim[v]
                                /\ new'[v] = new[v] /\ locks'[v] = locks[v]
  BY <1>0, <1>4, ExecuteDoes
<1>6. Running(c, db, Tail(t), NoAim, w2, L2)
  BY <1>1, <1>2, <1>3, <1>5, Running_Step
<1>7. Functions'
  <2>1. \E x, y, z, r : /\ new' = [new EXCEPT ![u] = x] /\ locks' = [locks EXCEPT ![u] = y]
                        /\ todo' = [todo EXCEPT ![u] = z] /\ aim' = [aim EXCEPT ![u] = r]
    BY DEF Execute
  <2>2. /\ new' = [v \in Users |-> new'[v]] /\ locks' = [v \in Users |-> locks'[v]]
        /\ todo' = [v \in Users |-> todo'[v]] /\ aim' = [v \in Users |-> aim'[v]]
    BY <1>0, <2>1 DEF Functions
  <2> QED
    BY <1>0, <2>2 DEF Functions
<1>8. Others(u)
  BY <1>5 DEF Others
<1>9. OwnsNext(u)
  BY DEF OwnsNext, Owns
<1>10. UserIs(stage'[u], cmd'[u], db, todo'[u], aim'[u], new'[u], locks'[u])
  <2>1. UserIs("working", c, db, Tail(t), NoAim, w2, L2)
    BY <1>2, <1>6 DEF UserIs
  <2> QED
    BY <1>2, <1>5, <2>1
<1>11. \A v \in Users \ {u} : Apart(locks'[u], locks[v]) /\ Apart(locks[v], locks'[u])
  <2>1. \A v \in Users \ {u} : Apart(locks[u], locks[v])
    BY DEF BookInv
  <2> QED
    BY <1>0, <2>1, ExecuteLocks, ApartIsMutual
<1>12. About(cmd'[u], aim'[u], Issued)
  BY <1>2, <1>5 DEF About
<1> QED
  BY <1>5, <1>7, <1>8, <1>9, <1>10, <1>11, <1>12, OwnStep

LEMMA StatementStep ==
  ASSUME BookInv, NEW u \in Users, Statement(u)
  PROVE  BookInv'
BY SnapshotStep, ExecuteStep DEF Statement

LEMMA FailsStep ==
  ASSUME BookInv, NEW u \in Users, Fails(u)
  PROVE  BookInv'
BY EndStep DEF Fails, Rollback

\* What the commit of a command is known to do, said of its parts.
LEMMA CommitFacts ==
  ASSUME BookInv, NEW u \in Users, Commits(u)
  PROVE  /\ db' = Seen(db, new[u], locks[u]) /\ Sound(db')
         /\ IsCommand(cmd[u]) /\ Finished(cmd[u], db, new[u], locks[u]) /\ Orderly(cmd[u], db, new[u], locks[u])
         /\ LocksHold(db, new[u], locks[u]) /\ NewRows(cmd[u], db, new[u], locks[u])
         /\ \A i \in Issued : ~OwnedBy(cmd[u], i)
         /\ \A r \in db' : Number(r) \in Issued \/ OwnedBy(cmd[u], Number(r))
<1> DEFINE c == cmd[u]
           a == aim[u]
           w == new[u]
           L == locks[u]
           V == Seen(db, w, L)
<1>1. stage[u] = "working" /\ todo[u] = <<>> /\ db' = V
  BY ViewIs DEF Commits, Commit
<1>2. IsCommand(c) /\ Running(c, db, <<>>, a, w, L) /\ \A i \in Issued : ~OwnedBy(c, i)
  BY <1>1, UserFacts
<1>3. Progress(c, db, <<>>, a, w, L) /\ LocksHold(db, w, L) /\ NewRows(c, db, w, L)
  BY <1>2 DEF Running
<1>4. Sound(db) /\ \A r \in db : Number(r) \in Issued
  BY ChosenFacts
<1>5. Finished(c, db, w, L)
  BY <1>2, <1>3, <1>4, FinishedIs
<1>6. Orderly(c, db, w, L)
  BY <1>3, <1>4, <1>5, FinishedFacts
<1>7. Sound(V)
  BY <1>2, <1>3, <1>4, <1>6, CommitIsSound
<1>8. ASSUME NEW r \in V PROVE Number(r) \in Issued \/ OwnedBy(c, Number(r))
  <2>1. CASE r \in db
    BY <1>4, <2>1
  <2>2. CASE r \in w /\ Replaces(db, r, L)
    <3>1. PICK q \in db : Key(q) = Key(r)
      BY <2>2 DEF Replaces
    <3>2. IsRow(q) /\ IsRow(r)
      BY <1>3, <1>4, <2>2 DEF Sound, NewRows
    <3>3. Number(q) = Number(r)
      BY <3>1, <3>2, RowFacts
    <3> QED
      BY <1>4, <3>3
  <2> QED
    BY <1>3, <2>1, <2>2 DEF Seen, Kept, NewRows
<1> QED
  BY <1>1, <1>2, <1>3, <1>5, <1>6, <1>7, <1>8

LEMMA CommitsStep ==
  ASSUME BookInv, NEW u \in Users, Commits(u)
  PROVE  BookInv'
<1> DEFINE c == cmd[u]
           w == new[u]
           L == locks[u]
           V == Seen(db, w, L)
<1>0. Functions /\ stage[u] = "working"
  BY DEF BookInv, Commits
<1>1. /\ stage' = [stage EXCEPT ![u] = "idle"] /\ told' = [told EXCEPT ![u] = "done"]
      /\ cmd' = cmd /\ count' = count
      /\ todo' = [todo EXCEPT ![u] = <<>>] /\ aim' = [aim EXCEPT ![u] = NoAim]
      /\ new' = [new EXCEPT ![u] = {}] /\ locks' = [locks EXCEPT ![u] = {}]
  BY DEF Commits, Finish, Commit, Ends
<1>2. /\ db' = V /\ Sound(V)
      /\ IsCommand(c) /\ Finished(c, db, w, L) /\ Orderly(c, db, w, L)
      /\ LocksHold(db, w, L) /\ NewRows(c, db, w, L)
      /\ \A i \in Issued : ~OwnedBy(c, i)
      /\ \A r \in V : Number(r) \in Issued \/ OwnedBy(c, Number(r))
  BY CommitFacts
<1>3. Sound(db) /\ \A r \in db : Number(r) \in Issued
  BY ChosenFacts
<1>4. Functions'
  BY <1>0, <1>1 DEF Functions
<1>5. Others(u)
  BY <1>0, <1>1 DEF Functions, Others
<1>6. /\ stage'[u] = "idle" /\ todo'[u] = <<>> /\ aim'[u] = NoAim /\ new'[u] = {} /\ locks'[u] = {}
  BY <1>0, <1>1 DEF Functions
<1>7. OwnsNext(u)
  BY <1>1, <1>6 DEF OwnsNext
<1>8. Issued \subseteq Issued' /\ \A v \in Users : Numbered(v)'
  BY <1>5, <1>6, <1>7, IssuedGrows, NumberedNext
<1>9. ASSUME NEW i, OwnedBy(c, i) PROVE i \in Issued'
  <2>1. i \in 0 .. count /\ \A v \in Users \ {u} : ~Owns(v, i)
    BY <1>0, <1>9 DEF BookInv, Numbered
  <2>2. \A v \in Users : ~(stage'[v] # "idle" /\ OwnedBy(cmd'[v], i))
    BY <1>5, <1>6, <2>1 DEF Others, Owns
  <2> QED
    BY <1>1, <2>1, <2>2 DEF Issued, Owns
<1>10. CatalogueOK'
  <2>1. \A r \in V : Number(r) \in Issued'
    BY <1>2, <1>8, <1>9
  <2>2. given' = Given(c, V, given)
    BY ViewIs DEF Commits, Given, BookKey
  <2>3. ASSUME NEW r \in V, r.table = "books" PROVE BookIsWhole(V, Given(c, V, given), r)
    <3>1. \A q \in db : q.table = "books" => BookIsWhole(db, given, q)
      BY DEF BookInv, CatalogueOK, Rows
    <3> QED
      BY <1>2, <1>3, <2>3, <3>1, CommitKeepsBooks
  <2> HIDE DEF V
  <2>4. \A r \in {q \in V : q.table = "books"} : BookIsWhole(V, given', r)
    BY <2>2, <2>3
  <2> QED
    BY <1>2, <2>1, <2>4 DEF CatalogueOK, Rows
<1>11. ASSUME NEW v \in Users PROVE UserIs(stage'[v], cmd'[v], db', todo'[v], aim'[v], new'[v], locks'[v])
  <2>1. CASE v = u
    <3>1. UserIs("idle", cmd'[u], db', <<>>, NoAim, {}, {})
      BY DEF UserIs, Resting
    <3> QED
      BY <1>6, <2>1, <3>1
  <2>2. CASE v # u /\ stage[v] = "working"
    <3> DEFINE e == cmd[v]
               t == todo[v]
               b == aim[v]
               x == new[v]
               M == locks[v]
    <3>1. IsCommand(e) /\ About(e, b, Issued) /\ Running(e, db, t, b, x, M) /\ \A i \in Issued : ~OwnedBy(e, i)
      BY <2>2, UserFacts
    <3>2. LocksHold(db, x, M) /\ Apart(M, L)
      BY <2>2, <3>1 DEF BookInv, Running
    <3>3. Stable(db, V, Issued, M)
      BY <1>2, <1>3, <3>2, CommitIsStable
    <3>4. \A r \in V : ~OwnedBy(e, Number(r))
      <4>1. \A i : OwnedBy(c, i) => ~OwnedBy(e, i)
        BY <1>0, <2>2 DEF BookInv, Numbered, Owns
      <4> QED
        BY <1>2, <3>1, <4>1
    <3>5. Running(e, V, t, b, x, M)
      BY <1>2, <1>3, <3>1, <3>3, <3>4, Running_Stays DEF About
    <3>6. UserIs("working", e, V, t, b, x, M)
      BY <3>1, <3>5 DEF UserIs
    <3>7. /\ stage'[v] = "working" /\ cmd'[v] = e /\ todo'[v] = t /\ aim'[v] = b
          /\ new'[v] = x /\ locks'[v] = M
      BY <1>5, <2>2 DEF Others
    <3> QED
      BY <1>2, <3>6, <3>7
  <2>3. CASE v # u /\ stage[v] # "working"
    <3>1. UserIs(stage[v], cmd[v], V, todo[v], aim[v], new[v], locks[v])
      <4>1. UserIs(stage[v], cmd[v], db, todo[v], aim[v], new[v], locks[v])
        BY DEF BookInv
      <4> QED
        BY <2>3, <4>1 DEF UserIs
    <3> QED
      BY <1>2, <1>5, <2>3, <3>1 DEF Others
  <2> QED
    BY <2>1, <2>2, <2>3
<1>12. ASSUME NEW v \in Users, NEW x \in Users, v # x PROVE Apart(locks'[v], locks'[x])
  <2>1. CASE v # u /\ x # u
    BY <1>5, <1>12, <2>1 DEF BookInv, Others
  <2>2. CASE v = u \/ x = u
    BY <1>6, <2>2 DEF Apart
  <2> QED
    BY <2>1, <2>2
<1>13. count' \in Nat
  BY <1>1 DEF BookInv
<1> QED
  BY <1>4, <1>8, <1>10, <1>11, <1>12, <1>13 DEF BookInv

-----------------------------------------------------------------------------
(***************************************************************************)
(* The invariant and what follows from it.                                 *)
(***************************************************************************)
\* The rows of an earlier session: one author, one book of that author and its tags.
FirstRows(x, t, tags) == {Author(0, x), Book(0, t, 0)} \cup {Tag(0, 0, z) : z \in tags}

LEMMA FirstBook ==
  ASSUME NEW d, NEW x, NEW t, NEW tags, d = FirstRows(x, t, tags)
  PROVE  /\ Sound(d) /\ \A r \in d : Number(r) = 0
         /\ \A r \in d : r.table = "books" => r.id = 0 /\ r.title = t
         /\ TagsOf(d, 0) = {Tag(0, 0, z) : z \in tags}
<1> DEFINE author == Author(0, x)
           book == Book(0, t, 0)
<1>1. /\ IsRow(author) /\ author.table = "authors" /\ Key(author) = AuthorKey(0)
      /\ References(author) = {} /\ Number(author) = 0
  BY AuthorFacts
<1>2. /\ IsRow(book) /\ book.table = "books" /\ Key(book) = BookKey(0) /\ book.id = 0 /\ book.title = t
      /\ References(book) = {AuthorKey(0)} /\ Number(book) = 0
  BY BookFacts
<1>3. \A z : LET r == Tag(0, 0, z)
             IN /\ IsRow(r) /\ r.table = "tags" /\ Key(r) = <<"tags", 0, z>> /\ r.book = 0
                /\ References(r) = {BookKey(0)} /\ Number(r) = 0
  BY TagFacts
<1>4. \A r : r \in d <=> r = author \/ r = book \/ \E z \in tags : r = Tag(0, 0, z)
  BY DEF FirstRows
<1> HIDE DEF author, book
<1>5. AuthorKey(0) \in Keys(d) /\ BookKey(0) \in Keys(d)
  BY <1>1, <1>2, <1>4 DEF Keys
<1>6. \A r \in d : IsRow(r) /\ References(r) \subseteq Keys(d) /\ Number(r) = 0
  BY <1>1, <1>2, <1>3, <1>4, <1>5
<1>7. ASSUME NEW r \in d, NEW q \in d, Key(r) = Key(q) PROVE r = q
  <2>1. r.table = q.table
    BY <1>6, <1>7, RowFacts
  <2>2. CASE r.table = "tags"
    <3>1. PICK z \in tags, y \in tags : r = Tag(0, 0, z) /\ q = Tag(0, 0, y)
      BY <1>1, <1>2, <1>4, <2>1, <2>2
    <3>2. <<"tags", 0, z>> = <<"tags", 0, y>>
      BY <1>3, <1>7, <3>1
    <3> QED
      BY <3>1, <3>2
  <2> QED
    BY <1>1, <1>2, <1>3, <1>4, <2>1, <2>2
<1>8. \A r \in d : r.table = "books" => r.id = 0 /\ r.title = t
  BY <1>1, <1>2, <1>3, <1>4
<1>9. \A r : r \in d /\ r.table = "tags" /\ r.book = 0 <=> \E z \in tags : r = Tag(0, 0, z)
  BY <1>1, <1>2, <1>3, <1>4
<1>10. TagsOf(d, 0) = {Tag(0, 0, z) : z \in tags}
  BY <1>9 DEF TagsOf
<1> QED
  BY <1>6, <1>7, <1>8, <1>10 DEF Sound

LEMMA BookInit == Init => BookInv
<1> SUFFICES ASSUME Init PROVE BookInv
  OBVIOUS
<1>1. /\ stage = [u \in Users |-> "idle"] /\ cmd = [u \in Users |-> NoCommand]
      /\ told = [u \in Users |-> "nothing"] /\ count = 0
      /\ todo = [u \in Users |-> <<>>] /\ aim = [u \in Users |-> NoAim]
      /\ new = [u \in Users |-> {}] /\ locks = [u \in Users |-> {}]
  BY DEF Init, DbInit
<1>2. Functions /\ count \in Nat
  BY <1>1 DEF Functions
<1>3. 0 \in Issued
  BY <1>1 DEF Issued, Owns
<1>4. \A u \in Users : UserIs(stage[u], cmd[u], db, todo[u], aim[u], new[u], locks[u]) /\ Numbered(u)
  BY <1>1 DEF UserIs, Resting, Numbered
<1>5. \A u, v \in Users : u # v => Apart(locks[u], locks[v])
  BY <1>1 DEF Apart
<1>6. ASSUME db = {} PROVE CatalogueOK
  BY <1>6 DEF CatalogueOK, Sound, Rows, Keys
<1>7. ASSUME NEW x, NEW t, NEW tags \in SUBSET Tags,
             db = FirstRows(x, t, tags),
             given = [b \in {0} |-> [title |-> t, tags |-> tags]]
      PROVE  CatalogueOK
  <2>1. /\ Sound(db) /\ \A r \in db : Number(r) = 0
        /\ \A r \in db : r.table = "books" => r.id = 0 /\ r.title = t
        /\ TagsOf(db, 0) = {Tag(0, 0, z) : z \in tags}
    BY <1>7, FirstBook
  <2>2. DOMAIN given = {0} /\ given[0].title = t /\ given[0].tags = tags
    BY <1>7
  <2>3. \A r \in Rows("books") : BookIsWhole(db, given, r)
    BY <2>1, <2>2 DEF BookIsWhole, Rows
  <2> QED
    BY <1>3, <2>1, <2>3 DEF CatalogueOK
<1>8. \/ db = {}
      \/ \E x \in Names, t \in Titles, tags \in SUBSET Tags :
           /\ db = FirstRows(x, t, tags)
           /\ given = [b \in {0} |-> [title |-> t, tags |-> tags]]
  BY DEF Init, DbInit, FirstRows
<1>9. CatalogueOK
  BY <1>6, <1>7, <1>8
<1> QED
  BY <1>2, <1>4, <1>5, <1>9 DEF BookInv

LEMMA BookStutter == BookInv /\ UNCHANGED vars => BookInv'
BY DEF BookInv, vars, dbVars, Functions, CatalogueOK, Rows, Issued, Owns, Numbered

LEMMA BookNext == BookInv /\ [Next]_vars => BookInv'
<1> SUFFICES ASSUME BookInv, [Next]_vars PROVE BookInv'
  OBVIOUS
<1>1. ASSUME NEW u \in Users, NEW name \in Names, AddAuthor(u, name) PROVE BookInv'
  BY <1>1, AddAuthorStep
<1>2. ASSUME NEW u \in Users, NEW a \in Rows("authors"), DeleteAuthor(u, a.id) PROVE BookInv'
  BY <1>2, DeleteAuthorStep
<1>3. ASSUME NEW u \in Users, NEW a \in Rows("authors"), NEW name \in Names, EditAuthor(u, a.id, name) PROVE BookInv'
  BY <1>3, EditAuthorStep
<1>4. ASSUME NEW u \in Users, NEW title \in Titles, NEW name \in Names, NEW tags \in SUBSET Tags,
             AddBook(u, title, name, tags)
      PROVE  BookInv'
  BY <1>4, AddBookStep
<1>5. ASSUME NEW u \in Users, NEW b \in Rows("books"), DeleteBook(u, b.id) PROVE BookInv'
  BY <1>5, DeleteBookStep
<1>6. ASSUME NEW u \in Users, NEW b \in Rows("books"), NEW title \in Titles \cup {Keep}, NEW tags \in SUBSET Tags,
             EditBook(u, b.id, title, tags)
      PROVE  BookInv'
  BY <1>6, EditBookStep
<1>7. ASSUME NEW u \in Users, AuthorByName(u) PROVE BookInv'
  BY <1>7, AuthorByNameStep
<1>8. ASSUME NEW u \in Users, GetDetails(u) PROVE BookInv'
  BY <1>8, GetDetailsStep
<1>9. ASSUME NEW u \in Users, Statement(u) PROVE BookInv'
  BY <1>9, StatementStep
<1>10. ASSUME NEW u \in Users, Fails(u) PROVE BookInv'
  BY <1>10, FailsStep
<1>11. ASSUME NEW u \in Users, Commits(u) PROVE BookInv'
  BY <1>11, CommitsStep
<1>12. CASE Rest \/ UNCHANGED vars
  BY <1>12, BookStutter DEF Rest
<1> QED
  BY <1>1, <1>2, <1>3, <1>4, <1>5, <1>6, <1>7, <1>8, <1>9, <1>10, <1>11, <1>12 DEF Next

\* As many rows as tags.
LEMMA TagsCount ==
  ASSUME NEW n, NEW b, NEW tags \in SUBSET Tags
  PROVE  Cardinality({Tag(n, b, x) : x \in tags}) = Cardinality(tags)
<1> DEFINE S == {Tag(n, b, x) : x \in tags}
           f == [x \in tags |-> Tag(n, b, x)]
<1>1. IsFiniteSet(tags)
  BY BookypediaAssumption, FS_Subset
<1>2. \A x \in tags, z \in tags : Tag(n, b, x) = Tag(n, b, z) => x = z
  BY TagFacts
<1>3. f \in [tags -> S] /\ (\A x, z \in tags : f[x] = f[z] => x = z) /\ \A s \in S : \E x \in tags : f[x] = s
  BY <1>2
<1> HIDE DEF f
<1>4. f \in Bijection(tags, S)
  BY <1>3 DEF Bijection, Injection, Surjection, IsInjective
<1>5. ExistsBijection(tags, S)
  BY <1>4 DEF ExistsBijection
<1> HIDE DEF S
<1> QED
  BY <1>1, <1>5, FS_Bijection DEF S

LEMMA BookInvImplies == BookInv => BooksAreOfOneCommand
<1> SUFFICES ASSUME BookInv, NEW r \in Rows("books")
             PROVE  LET tags == {x \in Rows("tags") : x.book = r.id}
                    IN /\ r.title = given[r.id].title
                       /\ {x.tag : x \in tags} = given[r.id].tags
                       /\ Cardinality(tags) = Cardinality(given[r.id].tags)
  BY DEF BooksAreOfOneCommand
<1> DEFINE g == given[r.id].tags
           T == {x \in Rows("tags") : x.book = r.id}
<1>1. BookIsWhole(db, given, r)
  BY DEF BookInv, CatalogueOK
<1>2. T = TagsOf(db, r.id)
  BY DEF Rows, TagsOf
<1>3. PICK n : T = {Tag(n, r.id, x) : x \in g}
  BY <1>1, <1>2 DEF BookIsWhole
<1>4. g \in SUBSET Tags /\ r.title = given[r.id].title
  BY <1>1 DEF BookIsWhole
<1> HIDE DEF T, g
<1>5. {x.tag : x \in T} = g
  BY <1>3, TagFacts
<1>6. Cardinality(T) = Cardinality(g)
  BY <1>3, <1>4, TagsCount
<1> QED
  BY <1>4, <1>5, <1>6 DEF T, g

\* BookInv is an inductive invariant.
THEOREM BookInvHolds == Spec => []BookInv
BY BookInit, BookNext, PTL DEF Spec

\* At any time a book of the table has the title and the tags of one command,
\* each tag once, whatever the users do at the same time (use_cases_impl.cpp:140-159).
THEOREM BooksAreOfOneCommandHolds == Spec => []BooksAreOfOneCommand
BY BookInvHolds, BookInvImplies, PTL

\* Who is told "done", is told so by a commit.
LEMMA OnlyCommits ==
  ASSUME BookInv, [Next]_vars, NEW u \in Users, stage[u] # "idle", stage'[u] = "idle", told'[u] = "done"
  PROVE  Commits(u)
<1>1. Functions
  BY DEF BookInv
<1>2. ASSUME NEW v \in Users, NEW s, s # "idle", stage' = [stage EXCEPT ![v] = s] PROVE FALSE
  BY <1>1, <1>2 DEF Functions
<1>3. ASSUME NEW v \in Users, Finish(v, "failed") PROVE FALSE
  BY <1>1, <1>3 DEF Functions, Finish
<1>4. ASSUME NEW v \in Users, NEW t, Work(v, t) PROVE FALSE
  BY <1>2, <1>4 DEF Work
<1>5. ASSUME NEW v \in Users, Ask(v) PROVE FALSE
  BY <1>2, <1>5 DEF Ask
<1>6. ASSUME NEW v \in Users, NEW name, AddAuthor(v, name) PROVE FALSE
  BY <1>4, <1>6 DEF AddAuthor
<1>7. ASSUME NEW v \in Users, NEW a, DeleteAuthor(v, a) PROVE FALSE
  BY <1>4, <1>7 DEF DeleteAuthor
<1>8. ASSUME NEW v \in Users, NEW a, NEW name, EditAuthor(v, a, name) PROVE FALSE
  BY <1>4, <1>8 DEF EditAuthor
<1>9. ASSUME NEW v \in Users, NEW title, NEW name, NEW tags, AddBook(v, title, name, tags) PROVE FALSE
  BY <1>4, <1>5, <1>9 DEF AddBook
<1>10. ASSUME NEW v \in Users, NEW b, DeleteBook(v, b) PROVE FALSE
  BY <1>4, <1>10 DEF DeleteBook
<1>11. ASSUME NEW v \in Users, NEW b, NEW title, NEW tags, EditBook(v, b, title, tags) PROVE FALSE
  BY <1>5, <1>11 DEF EditBook
<1>12. ASSUME NEW v \in Users, AuthorByName(v) PROVE FALSE
  BY <1>4, <1>12 DEF AuthorByName
<1>13. ASSUME NEW v \in Users, GetDetails(v) PROVE FALSE
  BY <1>3, <1>4, <1>13 DEF GetDetails
<1>14. ASSUME NEW v \in Users, Statement(v) PROVE FALSE
  BY <1>14 DEF Statement
<1>15. ASSUME NEW v \in Users, Fails(v) PROVE FALSE
  BY <1>3, <1>15 DEF Fails
<1>16. ASSUME NEW v \in Users, Commits(v), v # u PROVE FALSE
  BY <1>1, <1>16 DEF Functions, Commits, Finish
<1>17. ~Rest /\ ~UNCHANGED vars
  BY DEF Rest, vars
<1> QED
  BY <1>6, <1>7, <1>8, <1>9, <1>10, <1>11, <1>12, <1>13, <1>14, <1>15, <1>16, <1>17 DEF Next

LEMMA FulfilledIs ==
  ASSUME NEW u
  PROVE  Fulfils(cmd'[u], db') <=> Fulfilled(cmd[u])'
<1> DEFINE d == db'
           c == cmd'[u]
<1>1. \A t : Rows(t)' = {r \in d : r.table = t}
  BY DEF Rows
<1>2. Fulfils(c, d) <=> Fulfilled(cmd[u])'
  BY <1>1 DEF Fulfils, Fulfilled, Rows
<1> QED
  BY <1>2

LEMMA DoneStep ==
  ASSUME BookInv, [Next]_vars, NEW u \in Users, stage[u] # "idle", stage'[u] = "idle", told'[u] = "done"
  PROVE  Fulfilled(cmd[u])'
<1> DEFINE c == cmd[u]
<1>1. Commits(u)
  BY OnlyCommits
<1>2. cmd' = cmd /\ Sound(db)
  BY <1>1, ChosenFacts DEF Commits, Finish
<1>3. /\ db' = Seen(db, new[u], locks[u]) /\ IsCommand(c)
      /\ Finished(c, db, new[u], locks[u]) /\ Orderly(c, db, new[u], locks[u])
      /\ LocksHold(db, new[u], locks[u]) /\ NewRows(c, db, new[u], locks[u])
  BY <1>1, CommitFacts
<1>4. Fulfils(c, Seen(db, new[u], locks[u]))
  BY <1>2, <1>3, CommitFulfils
<1>5. Fulfils(cmd'[u], db')
  BY <1>2, <1>3, <1>4
<1> QED
  BY <1>5, FulfilledIs

\* A command that ends without an error has done what it was asked, whatever became
\* of its author or its book after the user chose it (postgres.cpp:55-69).
THEOREM DoneMeansDoneHolds == Spec => DoneMeansDone
<1>1. BookInv /\ [Next]_vars =>
        [\A u \in Users : stage[u] # "idle" /\ stage'[u] = "idle" /\ told'[u] = "done" => Fulfilled(cmd[u])']_vars
  BY DoneStep
<1> QED
  BY <1>1, BookInvHolds, PTL DEF Spec, DoneMeansDone
=============================================================================
