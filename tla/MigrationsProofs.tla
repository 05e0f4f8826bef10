-------------------------- MODULE MigrationsProofs --------------------------
(***************************************************************************)
(* The migrations, up and down in any order and with any crash, take every *)
(* database to the collections of its version (DownUndoesUp), to rows that *)
(* fit them (SelectsFit), and to users of unchanged rank (RanksKept).      *)
(*                                                                         *)
(* BookFields and UserFields say outright what the collections are at each *)
(* version, where the migrations say how they differ from the one before.  *)
(* Fits relates a whole database to its version.  Each migration takes a   *)
(* database that fits to one that fits, and keeps ranks where there are    *)
(* roles before and after.                                                 *)
(***************************************************************************)
EXTENDS Migrations, TLAPS

\* The empty column.
Blank == ""

Title      == Text("title")
AuthorText == Text("author")
AuthorRef  == UserRef("author", TRUE)
OwnerRef   == UserRef("owner", FALSE)
OldRole    == Role({"librarian", "member"})
NewRole    == Role({"member", "author"})

BookFields(v) ==
    IF v = 0 THEN {Title, AuthorText, OwnerRef}
    ELSE IF v = 1 THEN {Title, AuthorText, OwnerRef, Status}
    ELSE {Title, AuthorRef, Status}

UserFields(v) ==
    IF v = 0 THEN {OldRole} ELSE IF v = 1 THEN {NewRole} ELSE {}

BookColumns(v) ==
    IF v = 0 THEN {"title", "author", "owner"}
    ELSE IF v = 1 THEN {"title", "author", "owner", "status"}
    ELSE {"title", "author", "status"}

UserColumns(v) == IF v \in {0, 1} THEN {"role"} ELSE {}

Roles(v) == IF v = 0 THEN {"librarian", "member", Blank} ELSE {"member", "author", Blank}

Reviews(v)    == IF v \in {3, 4, 5} THEN ReviewsFields ELSE {}
TwoFactors(v) == v \in {4, 5}
Link(v)       == IF v = 5 THEN "page" ELSE "dashboard"

\* A table whose rows are functions on these columns.
Shaped(table, ids, columns) ==
    /\ table = [fields |-> table.fields, rows |-> table.rows]
    /\ table.rows = [i \in ids |-> table.rows[i]]
    /\ \A i \in ids : table.rows[i] # NoRow =>
         table.rows[i] = [n \in columns |-> table.rows[i][n]]

IsDatabase(d) ==
    /\ d = [n \in DOMAIN d |-> d[n]]
    /\ DOMAIN d = {"version", "books", "users", "reviews", "mfa", "otp", "link"}

\* The collections of a database are those of its version.
Schema(d) ==
    /\ IsDatabase(d)
    /\ d.version \in 0..Last
    /\ d.books.fields = BookFields(d.version)
    /\ d.users.fields = UserFields(d.version)
    /\ d.reviews = Reviews(d.version)
    /\ d.mfa = TwoFactors(d.version)
    /\ d.otp = TwoFactors(d.version)
    /\ d.link = Link(d.version)

BooksFit(books, v) ==
    /\ Shaped(books, Books, BookColumns(v))
    /\ v # 0 => \A b \in Books : books.rows[b] # NoRow =>
                  books.rows[b]["status"] \in {"draft", "published"}

UsersFit(users, v) ==
    /\ Shaped(users, Users, UserColumns(v))
    /\ v \in {0, 1} => \A u \in Users : users.rows[u] # NoRow =>
                         users.rows[u]["role"] \in Roles(v)

Fits(d) == Schema(d) /\ BooksFit(d.books, d.version) /\ UsersFit(d.users, d.version)

\* Nobody who has a role in both databases has another rank in one of them.
SameRanks(d, e) ==
    d.version \in {0, 1} /\ e.version \in {0, 1} =>
        \A u \in Users : Rank(d.users.rows[u]) = Rank(e.users.rows[u])

-----------------------------------------------------------------------------
(***************************************************************************)
(* The columns of the collections.                                         *)
(***************************************************************************)
LEMMA FieldNames ==
    /\ Title.name = "title" /\ Status.name = "status"
    /\ AuthorText.name = "author" /\ AuthorRef.name = "author" /\ OwnerRef.name = "owner"
    /\ OldRole.name = "role" /\ NewRole.name = "role"
BY DEF Title, Status, AuthorText, AuthorRef, OwnerRef, OldRole, NewRole,
       Text, UserRef, Role, Field

LEMMA FieldTypes ==
    /\ Title.type = "text" /\ Status.type = "select"
    /\ AuthorText.type = "text" /\ AuthorRef.type = "relation" /\ OwnerRef.type = "relation"
    /\ OldRole.type = "select" /\ NewRole.type = "select"
BY DEF Title, Status, AuthorText, AuthorRef, OwnerRef, OldRole, NewRole,
       Text, UserRef, Role, Field

LEMMA BookNames == \A v : Names(BookFields(v)) = BookColumns(v)
BY FieldNames DEF Names, BookFields, BookColumns

LEMMA UserNames == \A v : Names(UserFields(v)) = UserColumns(v)
BY FieldNames DEF Names, UserFields, UserColumns

\* EXCEPT on a table.
LEMMA TableExcept ==
    ASSUME NEW table, NEW ids, NEW columns, Shaped(table, ids, columns), NEW x
    PROVE  /\ [table EXCEPT !.rows = x] = [fields |-> table.fields, rows |-> x]
           /\ DOMAIN table.rows = ids
BY DEF Shaped

\* The names of the columns that a saved collection keeps.
KeptColumns(old, new) ==
    {f.name : f \in {g \in new : \E h \in old : h.name = g.name /\ h.type = g.type}}

\* Save gives each row the columns of the new fields, empty if they are new.
LEMMA SavedTable ==
    ASSUME NEW table, NEW ids, NEW columns, Shaped(table, ids, columns), NEW fields
    PROVE  /\ Shaped(Save(table, fields), ids, Names(fields))
           /\ Save(table, fields).fields = fields
           /\ \A i \in ids : table.rows[i] = NoRow => Save(table, fields).rows[i] = NoRow
           /\ \A i \in ids, n \in Names(fields) : table.rows[i] # NoRow =>
                Save(table, fields).rows[i][n] =
                  IF n \in KeptColumns(table.fields, fields) THEN table.rows[i][n] ELSE Blank
<1> DEFINE kept == KeptColumns(table.fields, fields)
           columnsOf == Names(fields)
           rows == [i \in ids |-> IF table.rows[i] = NoRow THEN NoRow
                                  ELSE [n \in columnsOf |-> IF n \in kept THEN table.rows[i][n] ELSE Blank]]
<1>1. Save(table, fields) = [[table EXCEPT !.rows = rows] EXCEPT !.fields = fields]
  BY TableExcept, Zenon DEF Save, EachRow, KeptColumns, Blank
<1>2. \A i \in ids : rows[i] # NoRow => rows[i] = [n \in columnsOf |-> rows[i][n]]
  OBVIOUS
<1>3. /\ \A i \in ids : table.rows[i] = NoRow => rows[i] = NoRow
      /\ \A i \in ids, n \in columnsOf : table.rows[i] # NoRow =>
           rows[i][n] = IF n \in kept THEN table.rows[i][n] ELSE Blank
  OBVIOUS
<1>4. rows = [i \in ids |-> rows[i]]
  OBVIOUS
<1> HIDE DEF rows
<1>5. Save(table, fields) = [fields |-> fields, rows |-> rows]
  <2> DEFINE t == [table EXCEPT !.rows = rows]
  <2>1. t = [fields |-> table.fields, rows |-> rows]
    BY TableExcept
  <2>2. Save(table, fields) = [t EXCEPT !.fields = fields]
    BY <1>1
  <2> HIDE DEF t
  <2> QED BY <2>1, <2>2
<1>6. Save(table, fields).rows = rows /\ Save(table, fields).fields = fields
  BY <1>5
<1> HIDE DEF kept, columnsOf
<1>7. Shaped(Save(table, fields), ids, columnsOf)
  BY <1>2, <1>4, <1>5, <1>6 DEF Shaped
<1> QED
  BY <1>3, <1>6, <1>7 DEF kept, columnsOf

\* Replace changes one column only.
LEMMA ReplacedTable ==
    ASSUME NEW table, NEW ids, NEW columns, Shaped(table, ids, columns),
           NEW column \in columns, NEW old, NEW new
    PROVE  /\ Shaped(Replace(table, column, old, new), ids, columns)
           /\ Replace(table, column, old, new).fields = table.fields
           /\ \A i \in ids :
                table.rows[i] = NoRow => Replace(table, column, old, new).rows[i] = NoRow
           /\ \A i \in ids, n \in columns : table.rows[i] # NoRow =>
                Replace(table, column, old, new).rows[i][n] =
                  IF n = column /\ table.rows[i][n] = old THEN new ELSE table.rows[i][n]
<1> DEFINE Row(r) == [n \in columns |-> IF n = column /\ r[n] = old THEN new ELSE r[n]]
           rows == [i \in ids |-> IF table.rows[i] = NoRow THEN NoRow ELSE Row(table.rows[i])]
           Replaced(r) == [r EXCEPT ![column] = IF @ = old THEN new ELSE @]
           raw == [i \in ids |-> IF table.rows[i] = NoRow THEN NoRow ELSE Replaced(table.rows[i])]
<1>1. Replace(table, column, old, new) = [table EXCEPT !.rows = raw]
  BY TableExcept DEF Replace, EachRow
<1>2. \A i \in ids : table.rows[i] # NoRow => Replaced(table.rows[i]) = Row(table.rows[i])
  BY DEF Shaped
<1>3. raw = rows
  BY <1>2
<1>4. Replace(table, column, old, new) = [fields |-> table.fields, rows |-> rows]
  BY <1>1, <1>3, TableExcept
<1>5. \A i \in ids : rows[i] # NoRow => rows[i] = [n \in columns |-> rows[i][n]]
  OBVIOUS
<1>6. /\ \A i \in ids : table.rows[i] = NoRow => rows[i] = NoRow
      /\ \A i \in ids, n \in columns : table.rows[i] # NoRow =>
           rows[i][n] = IF n = column /\ table.rows[i][n] = old THEN new ELSE table.rows[i][n]
  OBVIOUS
<1>7. rows = [i \in ids |-> rows[i]]
  OBVIOUS
<1> HIDE DEF rows
<1>8. /\ Replace(table, column, old, new).rows = rows
      /\ Replace(table, column, old, new).fields = table.fields
  BY <1>4
<1>9. Shaped(Replace(table, column, old, new), ids, columns)
  BY <1>4, <1>5, <1>7, <1>8 DEF Shaped
<1> QED
  BY <1>6, <1>8, <1>9

-----------------------------------------------------------------------------
(***************************************************************************)
(* Which columns survive a change of the fields.                           *)
(***************************************************************************)
LEMMA BooksKept ==
    /\ KeptColumns(BookFields(0), BookFields(1)) = {"title", "author", "owner"}
    /\ KeptColumns(BookFields(1), BookFields(0)) = {"title", "author", "owner"}
    /\ KeptColumns(BookFields(1), BookFields(2)) = {"title", "status"}
    /\ KeptColumns(BookFields(2), BookFields(1)) = {"title", "status"}
BY FieldNames, FieldTypes DEF KeptColumns, BookFields

LEMMA RoleKept ==
    /\ KeptColumns({OldRole}, {NewRole}) = {"role"}
    /\ KeptColumns({NewRole}, {OldRole}) = {"role"}
    /\ \A S : KeptColumns({}, S) = {}
BY FieldNames, FieldTypes DEF KeptColumns

\* The fields that the migrations compute are those of the next version.
LEMMA BookFieldsChange ==
    /\ BookFields(0) \cup {Status} = BookFields(1)
    /\ RemoveByName(BookFields(1), "status") = BookFields(0)
    /\ RemoveByName(RemoveByName(BookFields(1), "author"), "owner") \cup {UserRef("author", TRUE)}
         = BookFields(2)
    /\ RemoveByName(BookFields(2), "author") \cup {Text("author"), UserRef("owner", FALSE)}
         = BookFields(1)
<1>1. BookFields(0) \cup {Status} = BookFields(1)
  BY DEF BookFields
<1>2. RemoveByName(BookFields(1), "status") = BookFields(0)
  BY FieldNames DEF RemoveByName, BookFields
<1>3. RemoveByName(RemoveByName(BookFields(1), "author"), "owner") \cup {AuthorRef} = BookFields(2)
  BY FieldNames DEF RemoveByName, BookFields
<1>4. RemoveByName(BookFields(2), "author") \cup {AuthorText, OwnerRef} = BookFields(1)
  BY FieldNames DEF RemoveByName, BookFields
<1> QED
  BY <1>1, <1>2, <1>3, <1>4 DEF AuthorText, AuthorRef, OwnerRef

LEMMA UserFieldsChange ==
    /\ {Role({"member", "author"})} = UserFields(1)
    /\ {Role({"member", "librarian"})} = UserFields(0)
    /\ RemoveByName(UserFields(1), "role") = UserFields(2)
    /\ UserFields(2) \cup {Role({"member", "author"})} = UserFields(1)
BY FieldNames DEF RemoveByName, UserFields, NewRole, OldRole

-----------------------------------------------------------------------------
(***************************************************************************)
(* What the migrations do to the two tables.                               *)
(***************************************************************************)
LEMMA StatusAdded ==
    ASSUME NEW t, BooksFit(t, 0), t.fields = BookFields(0)
    PROVE  LET new == Replace(Save(t, BookFields(1)), "status", Blank, "published")
           IN  new.fields = BookFields(1) /\ BooksFit(new, 1)
<1> DEFINE saved == Save(t, BookFields(1))
           new == Replace(saved, "status", Blank, "published")
<1>1. Shaped(t, Books, BookColumns(0))
  BY DEF BooksFit
<1>2. /\ Shaped(saved, Books, BookColumns(1))
      /\ saved.fields = BookFields(1)
      /\ \A b \in Books : t.rows[b] = NoRow => saved.rows[b] = NoRow
      /\ \A b \in Books : t.rows[b] # NoRow => saved.rows[b]["status"] = Blank
  <2> DEFINE f == BookFields(1)
  <2> HIDE DEF f
  <2>1. /\ Shaped(Save(t, f), Books, Names(f))
        /\ Save(t, f).fields = f
        /\ \A b \in Books : t.rows[b] = NoRow => Save(t, f).rows[b] = NoRow
        /\ \A b \in Books, n \in Names(f) : t.rows[b] # NoRow =>
             Save(t, f).rows[b][n] = IF n \in KeptColumns(t.fields, f) THEN t.rows[b][n] ELSE Blank
    BY <1>1, SavedTable
  <2>2. "status" \in Names(f) /\ "status" \notin KeptColumns(t.fields, f)
    BY BookNames, BooksKept DEF f, BookColumns
  <2>3. \A b \in Books : t.rows[b] # NoRow => Save(t, f).rows[b]["status"] = Blank
    BY <2>1, <2>2
  <2> QED
    BY <2>1, <2>3, BookNames DEF f
<1>3. "status" \in BookColumns(1)
  BY DEF BookColumns
<1> HIDE DEF saved
<1>4. /\ Shaped(new, Books, BookColumns(1))
      /\ new.fields = BookFields(1)
      /\ \A b \in Books : saved.rows[b] = NoRow => new.rows[b] = NoRow
      /\ \A b \in Books : saved.rows[b] # NoRow /\ saved.rows[b]["status"] = Blank =>
           new.rows[b]["status"] = "published"
  <2>1. /\ Shaped(new, Books, BookColumns(1))
        /\ new.fields = saved.fields
        /\ \A b \in Books : saved.rows[b] = NoRow => new.rows[b] = NoRow
        /\ \A b \in Books, n \in BookColumns(1) : saved.rows[b] # NoRow =>
             new.rows[b][n] = IF n = "status" /\ saved.rows[b][n] = Blank THEN "published"
                                                                     ELSE saved.rows[b][n]
    BY <1>2, <1>3, ReplacedTable
  <2> HIDE DEF new
  <2> QED
    BY <1>2, <1>3, <2>1
<1> HIDE DEF new
<1>5. ASSUME NEW b \in Books, new.rows[b] # NoRow
      PROVE  new.rows[b]["status"] \in {"draft", "published"}
  BY <1>2, <1>4, <1>5
<1> QED
  BY <1>4, <1>5 DEF BooksFit, new, saved

LEMMA StatusRemoved ==
    ASSUME NEW t, BooksFit(t, 1), t.fields = BookFields(1)
    PROVE  LET new == Save(t, BookFields(0))
           IN  new.fields = BookFields(0) /\ BooksFit(new, 0)
<1>1. Shaped(t, Books, BookColumns(1))
  BY DEF BooksFit
<1> QED
  BY <1>1, SavedTable, BookNames DEF BooksFit

\* Save alone leaves the status of a book what it was.
LEMMA StatusSaved ==
    ASSUME NEW t, NEW v \in {1, 2}, NEW w \in {1, 2}, v # w,
           BooksFit(t, v), t.fields = BookFields(v)
    PROVE  LET new == Save(t, BookFields(w))
           IN  new.fields = BookFields(w) /\ BooksFit(new, w)
<1> DEFINE new == Save(t, BookFields(w))
<1>1. Shaped(t, Books, BookColumns(v))
  BY DEF BooksFit
<1>2. "status" \in BookColumns(w) /\ "status" \in KeptColumns(BookFields(v), BookFields(w))
  BY BooksKept DEF BookColumns
<1>3. /\ Shaped(new, Books, BookColumns(w))
      /\ new.fields = BookFields(w)
      /\ \A b \in Books : t.rows[b] = NoRow => new.rows[b] = NoRow
      /\ \A b \in Books : t.rows[b] # NoRow => new.rows[b]["status"] = t.rows[b]["status"]
  BY <1>1, <1>2, SavedTable, BookNames
<1>4. \A b \in Books : t.rows[b] # NoRow => t.rows[b]["status"] \in {"draft", "published"}
  BY DEF BooksFit
<1> HIDE DEF new
<1>5. \A b \in Books : new.rows[b] # NoRow => new.rows[b]["status"] \in {"draft", "published"}
  BY <1>3, <1>4
<1> QED
  BY <1>3, <1>5 DEF BooksFit, new

\* The loop of the second migration copies the owner into the author column.
LEMMA OwnersCopied ==
    ASSUME NEW t, BooksFit(t, 1), t.fields = BookFields(1)
    PROVE  LET Copy(r) == [r EXCEPT !["author"] = IF r["owner"] # Blank THEN r["owner"] ELSE @]
               new == EachRow(t, Copy)
           IN  new.fields = BookFields(1) /\ BooksFit(new, 1)
<1> DEFINE Copy(r) == [r EXCEPT !["author"] = IF r["owner"] # Blank THEN r["owner"] ELSE @]
           rows == [b \in Books |-> IF t.rows[b] = NoRow THEN NoRow ELSE Copy(t.rows[b])]
           new == EachRow(t, Copy)
<1>1. new = [fields |-> t.fields, rows |-> rows]
  BY TableExcept DEF EachRow, BooksFit
<1>2. \A b \in Books : t.rows[b] # NoRow =>
        /\ Copy(t.rows[b]) = [n \in BookColumns(1) |-> Copy(t.rows[b])[n]]
        /\ Copy(t.rows[b])["status"] = t.rows[b]["status"]
  <2> TAKE b \in Books
  <2> HAVE t.rows[b] # NoRow
  <2> DEFINE r == t.rows[b]
  <2>1. r = [n \in BookColumns(1) |-> r[n]]
    BY DEF BooksFit, Shaped
  <2> HIDE DEF r
  <2>2. DOMAIN r = BookColumns(1)
    BY <2>1
  <2>3. Copy(r) = [n \in BookColumns(1) |-> Copy(r)[n]]
    BY <2>2
  <2>4. Copy(r)["status"] = r["status"]
    BY <2>2 DEF BookColumns
  <2> QED
    BY <2>3, <2>4 DEF r
<1> HIDE DEF Copy
<1>3. /\ rows = [b \in Books |-> rows[b]]
      /\ \A b \in Books : rows[b] # NoRow =>
           /\ rows[b] = [n \in BookColumns(1) |-> rows[b][n]]
           /\ rows[b]["status"] \in {"draft", "published"}
  BY <1>2 DEF BooksFit
<1> HIDE DEF rows
<1>4. new.fields = BookFields(1) /\ BooksFit(new, 1)
  BY <1>1, <1>3 DEF BooksFit, Shaped
<1> QED
  BY <1>4 DEF Copy

LEMMA LibrariansRenamed ==
    ASSUME NEW t, UsersFit(t, 0), t.fields = UserFields(0)
    PROVE  LET new == Replace(Save(t, UserFields(1)), "role", "librarian", "author")
           IN  /\ new.fields = UserFields(1) /\ UsersFit(new, 1)
               /\ \A u \in Users : Rank(new.rows[u]) = Rank(t.rows[u])
<1> DEFINE saved == Save(t, UserFields(1))
           new == Replace(saved, "role", "librarian", "author")
<1>1. /\ Shaped(t, Users, UserColumns(0))
      /\ \A u \in Users : t.rows[u] # NoRow => t.rows[u]["role"] \in Roles(0)
  BY DEF UsersFit
<1>2. /\ "role" \in UserColumns(1)
      /\ "role" \in KeptColumns(UserFields(0), UserFields(1))
  BY RoleKept DEF UserColumns, UserFields
<1>3. /\ Shaped(saved, Users, UserColumns(1))
      /\ saved.fields = UserFields(1)
      /\ \A u \in Users : t.rows[u] = NoRow => saved.rows[u] = NoRow
      /\ \A u \in Users : t.rows[u] # NoRow => saved.rows[u]["role"] = t.rows[u]["role"]
  BY <1>1, <1>2, SavedTable, UserNames
<1> HIDE DEF saved
<1>4. /\ Shaped(new, Users, UserColumns(1))
      /\ new.fields = UserFields(1)
      /\ \A u \in Users : saved.rows[u] = NoRow => new.rows[u] = NoRow
      /\ \A u \in Users : saved.rows[u] # NoRow =>
           new.rows[u]["role"] = IF saved.rows[u]["role"] = "librarian" THEN "author"
                                                                   ELSE saved.rows[u]["role"]
  BY <1>2, <1>3, ReplacedTable
<1> HIDE DEF new
<1>5. \A u \in Users : new.rows[u] # NoRow => new.rows[u]["role"] \in Roles(1)
  BY <1>1, <1>3, <1>4 DEF Roles
<1>6. \A u \in Users : Rank(new.rows[u]) = Rank(t.rows[u])
  BY <1>1, <1>3, <1>4 DEF Rank, Roles
<1> QED
  BY <1>4, <1>5, <1>6 DEF UsersFit, new, saved

LEMMA AuthorsRenamed ==
    ASSUME NEW t, UsersFit(t, 1), t.fields = UserFields(1)
    PROVE  LET new == Save(Replace(t, "role", "author", "librarian"), UserFields(0))
           IN  /\ new.fields = UserFields(0) /\ UsersFit(new, 0)
               /\ \A u \in Users : Rank(new.rows[u]) = Rank(t.rows[u])
<1> DEFINE renamed == Replace(t, "role", "author", "librarian")
           new == Save(renamed, UserFields(0))
<1>1. /\ Shaped(t, Users, UserColumns(1))
      /\ \A u \in Users : t.rows[u] # NoRow => t.rows[u]["role"] \in Roles(1)
  BY DEF UsersFit
<1>2. /\ "role" \in UserColumns(0) /\ "role" \in UserColumns(1)
      /\ "role" \in KeptColumns(UserFields(1), UserFields(0))
  BY RoleKept DEF UserColumns, UserFields
<1>3. /\ Shaped(renamed, Users, UserColumns(1))
      /\ renamed.fields = UserFields(1)
      /\ \A u \in Users : t.rows[u] = NoRow => renamed.rows[u] = NoRow
      /\ \A u \in Users : t.rows[u] # NoRow =>
           renamed.rows[u]["role"] = IF t.rows[u]["role"] = "author" THEN "librarian"
                                                                 ELSE t.rows[u]["role"]
  BY <1>1, <1>2, ReplacedTable
<1> HIDE DEF renamed
<1>4. /\ Shaped(new, Users, UserColumns(0))
      /\ new.fields = UserFields(0)
      /\ \A u \in Users : renamed.rows[u] = NoRow => new.rows[u] = NoRow
      /\ \A u \in Users : renamed.rows[u] # NoRow => new.rows[u]["role"] = renamed.rows[u]["role"]
  BY <1>2, <1>3, SavedTable, UserNames
<1> HIDE DEF new
<1>5. \A u \in Users : new.rows[u] # NoRow => new.rows[u]["role"] \in Roles(0)
  BY <1>1, <1>3, <1>4 DEF Roles
<1>6. \A u \in Users : Rank(new.rows[u]) = Rank(t.rows[u])
  BY <1>1, <1>3, <1>4 DEF Rank, Roles
<1> QED
  BY <1>4, <1>5, <1>6 DEF UsersFit, new, renamed

LEMMA RolesDropped ==
    ASSUME NEW t, UsersFit(t, 1), t.fields = UserFields(1)
    PROVE  LET new == Save(t, UserFields(2))
           IN  new.fields = UserFields(2) /\ UsersFit(new, 2)
<1>1. Shaped(t, Users, UserColumns(1))
  BY DEF UsersFit
<1> QED
  BY <1>1, SavedTable, UserNames DEF UsersFit

LEMMA RolesAdded ==
    ASSUME NEW t, UsersFit(t, 2), t.fields = UserFields(2)
    PROVE  LET new == Save(t, UserFields(1))
           IN  new.fields = UserFields(1) /\ UsersFit(new, 1)
<1> DEFINE new == Save(t, UserFields(1))
<1>1. Shaped(t, Users, UserColumns(2))
  BY DEF UsersFit
<1>2. /\ "role" \in UserColumns(1)
      /\ "role" \notin KeptColumns(UserFields(2), UserFields(1))
  BY RoleKept DEF UserColumns, UserFields
<1>3. /\ Shaped(new, Users, UserColumns(1))
      /\ new.fields = UserFields(1)
      /\ \A u \in Users : t.rows[u] = NoRow => new.rows[u] = NoRow
      /\ \A u \in Users : t.rows[u] # NoRow => new.rows[u]["role"] = Blank
  BY <1>1, <1>2, SavedTable, UserNames
<1> HIDE DEF new
<1>4. \A u \in Users : new.rows[u] # NoRow => new.rows[u]["role"] \in Roles(1)
  BY <1>3 DEF Roles
<1> QED
  BY <1>3, <1>4 DEF UsersFit, new

-----------------------------------------------------------------------------
(***************************************************************************)
(* Each migration takes a database that fits to one of the next version    *)
(* that fits.                                                              *)
(***************************************************************************)
Moves(d, e, v) == Fits(e) /\ e.version = v /\ SameRanks(d, e)

LEMMA Settings ==
    /\ Reviews(0) = Reviews(1) /\ Reviews(1) = Reviews(2)
    /\ Reviews(3) = Reviews(4) /\ Reviews(4) = Reviews(5)
    /\ Reviews(2) = {} /\ Reviews(3) = ReviewsFields
    /\ Link(0) = Link(1) /\ Link(1) = Link(2) /\ Link(2) = Link(3) /\ Link(3) = Link(4)
    /\ Link(4) = "dashboard" /\ Link(5) = "page"
BY DEF Reviews, Link

LEMMA FactorSettings ==
    /\ TwoFactors(0) = TwoFactors(1) /\ TwoFactors(1) = TwoFactors(2)
    /\ TwoFactors(2) = TwoFactors(3) /\ TwoFactors(4) = TwoFactors(5)
    /\ TwoFactors(3) = FALSE /\ TwoFactors(4) = TRUE
BY DEF TwoFactors

LEMMA TablesMove ==
    ASSUME NEW d, Fits(d), d.version \in 0..2, NEW v \in 0..2, NEW e,
           IsDatabase(e), e.version = v,
           e.books.fields = BookFields(v), BooksFit(e.books, v),
           e.users.fields = UserFields(v), UsersFit(e.users, v),
           e.reviews = d.reviews, e.mfa = d.mfa, e.otp = d.otp, e.link = d.link
    PROVE  Fits(e)
<1>1. /\ Reviews(d.version) = Reviews(v) /\ TwoFactors(d.version) = TwoFactors(v)
      /\ Link(d.version) = Link(v)
  BY Settings, FactorSettings
<1> QED
  BY <1>1 DEF Fits, Schema, Last

LEMMA AddStatusMoves ==
    ASSUME NEW d, Fits(d), d.version = 0
    PROVE  Moves(d, AddStatus(d), 1)
<1> DEFINE books == Replace(Save(d.books, BookFields(1)), "status", Blank, "published")
           users == Replace(Save(d.users, UserFields(1)), "role", "librarian", "author")
           e == [d EXCEPT !.version = 1, !.books = books, !.users = users]
<1>1. AddStatus(d) = e
  BY BookFieldsChange, UserFieldsChange, Zenon DEF AddStatus, Blank, Fits, Schema
<1>2. books.fields = BookFields(1) /\ BooksFit(books, 1)
  BY StatusAdded DEF Fits, Schema
<1>3. /\ users.fields = UserFields(1) /\ UsersFit(users, 1)
      /\ \A u \in Users : Rank(users.rows[u]) = Rank(d.users.rows[u])
  BY LibrariansRenamed DEF Fits, Schema
<1> HIDE DEF books, users
<1>4. IsDatabase(d)
  BY DEF Fits, Schema
<1>5. /\ IsDatabase(e)
      /\ e.version = 1 /\ e.books = books /\ e.users = users
      /\ e.reviews = d.reviews /\ e.mfa = d.mfa /\ e.otp = d.otp /\ e.link = d.link
  BY <1>4 DEF IsDatabase
<1> HIDE DEF e
<1>6. Fits(e)
  BY <1>2, <1>3, <1>5, TablesMove
<1> QED
  BY <1>1, <1>3, <1>5, <1>6 DEF Moves, SameRanks

LEMMA RemoveStatusMoves ==
    ASSUME NEW d, Fits(d), d.version = 1
    PROVE  Moves(d, RemoveStatus(d), 0)
<1> DEFINE books == Save(d.books, BookFields(0))
           users == Save(Replace(d.users, "role", "author", "librarian"), UserFields(0))
           e == [d EXCEPT !.version = 0, !.users = users, !.books = books]
<1>1. RemoveStatus(d) = e
  BY BookFieldsChange, UserFieldsChange, Zenon DEF RemoveStatus, Fits, Schema
<1>2. books.fields = BookFields(0) /\ BooksFit(books, 0)
  BY StatusRemoved DEF Fits, Schema
<1>3. /\ users.fields = UserFields(0) /\ UsersFit(users, 0)
      /\ \A u \in Users : Rank(users.rows[u]) = Rank(d.users.rows[u])
  BY AuthorsRenamed DEF Fits, Schema
<1> HIDE DEF books, users
<1>4. IsDatabase(d)
  BY DEF Fits, Schema
<1>5. /\ IsDatabase(e)
      /\ e.version = 0 /\ e.books = books /\ e.users = users
      /\ e.reviews = d.reviews /\ e.mfa = d.mfa /\ e.otp = d.otp /\ e.link = d.link
  BY <1>4 DEF IsDatabase
<1> HIDE DEF e
<1>6. Fits(e)
  BY <1>2, <1>3, <1>5, TablesMove
<1> QED
  BY <1>1, <1>3, <1>5, <1>6 DEF Moves, SameRanks

LEMMA OwnerIsAuthorMoves ==
    ASSUME NEW d, Fits(d), d.version = 1
    PROVE  Moves(d, OwnerIsAuthor(d), 2)
<1> DEFINE Copy(r) == [r EXCEPT !["author"] = IF r["owner"] # Blank THEN r["owner"] ELSE @]
           copied == EachRow(d.books, Copy)
           books == Save(copied, BookFields(2))
           users == Save(d.users, UserFields(2))
           e == [d EXCEPT !.version = 2, !.books = books, !.users = users]
<1>1. copied.fields = BookFields(1) /\ BooksFit(copied, 1)
  BY OwnersCopied DEF Fits, Schema
<1>2. OwnerIsAuthor(d) = e
  BY <1>1, BookFieldsChange, UserFieldsChange, Zenon DEF OwnerIsAuthor, Fits, Schema, Blank
<1> HIDE DEF copied
<1>3. books.fields = BookFields(2) /\ BooksFit(books, 2)
  BY <1>1, StatusSaved
<1>4. users.fields = UserFields(2) /\ UsersFit(users, 2)
  BY RolesDropped DEF Fits, Schema
<1> HIDE DEF books, users
<1>5. IsDatabase(d)
  BY DEF Fits, Schema
<1>6. /\ IsDatabase(e)
      /\ e.version = 2 /\ e.books = books /\ e.users = users
      /\ e.reviews = d.reviews /\ e.mfa = d.mfa /\ e.otp = d.otp /\ e.link = d.link
  BY <1>5 DEF IsDatabase
<1> HIDE DEF e
<1>7. Fits(e)
  BY <1>3, <1>4, <1>6, TablesMove
<1> QED
  BY <1>2, <1>6, <1>7 DEF Moves, SameRanks

LEMMA OwnerAndRoleMoves ==
    ASSUME NEW d, Fits(d), d.version = 2
    PROVE  Moves(d, OwnerAndRole(d), 1)
<1> DEFINE books == Save(d.books, BookFields(1))
           users == Save(d.users, UserFields(1))
           e == [d EXCEPT !.version = 1, !.users = users, !.books = books]
<1>1. OwnerAndRole(d) = e
  BY BookFieldsChange, UserFieldsChange, Zenon DEF OwnerAndRole, Fits, Schema
<1>2. books.fields = BookFields(1) /\ BooksFit(books, 1)
  BY StatusSaved DEF Fits, Schema
<1>3. users.fields = UserFields(1) /\ UsersFit(users, 1)
  BY RolesAdded DEF Fits, Schema
<1> HIDE DEF books, users
<1>4. IsDatabase(d)
  BY DEF Fits, Schema
<1>5. /\ IsDatabase(e)
      /\ e.version = 1 /\ e.books = books /\ e.users = users
      /\ e.reviews = d.reviews /\ e.mfa = d.mfa /\ e.otp = d.otp /\ e.link = d.link
  BY <1>4 DEF IsDatabase
<1> HIDE DEF e
<1>6. Fits(e)
  BY <1>2, <1>3, <1>5, TablesMove
<1> QED
  BY <1>1, <1>5, <1>6 DEF Moves, SameRanks

\* The other migrations change settings and leave the two tables alone.
LEMMA SettingsMove ==
    ASSUME NEW d, Fits(d), d.version \in 2..Last, NEW v \in 2..Last, NEW e,
           IsDatabase(e), e.version = v, e.books = d.books, e.users = d.users,
           e.reviews = Reviews(v), e.mfa = TwoFactors(v), e.otp = TwoFactors(v),
           e.link = Link(v)
    PROVE  Moves(d, e, v)
<1>1. BookFields(v) = BookFields(d.version) /\ UserFields(v) = UserFields(d.version)
  BY DEF BookFields, UserFields, Last
<1>2. BookColumns(v) = BookColumns(d.version) /\ UserColumns(v) = UserColumns(d.version)
  BY DEF BookColumns, UserColumns, Last
<1>3. BooksFit(e.books, v) /\ UsersFit(e.users, v)
  BY <1>2 DEF Fits, BooksFit, UsersFit, Last
<1>4. v \in 0..Last /\ v \notin {0, 1}
  BY DEF Last
<1> QED
  BY <1>1, <1>3, <1>4 DEF Moves, Fits, Schema, SameRanks

LEMMA UpMoves ==
    ASSUME NEW d, Fits(d), d.version \in 0..(Last - 1)
    PROVE  Moves(d, Up(d), d.version + 1)
<1>0. IsDatabase(d)
  BY DEF Fits, Schema
<1>1. CASE d.version = 0
  <2>1. Up(d) = AddStatus(d)
    BY <1>1 DEF Up
  <2> QED BY <1>1, <2>1, AddStatusMoves
<1>2. CASE d.version = 1
  <2>1. Up(d) = OwnerIsAuthor(d)
    BY <1>2 DEF Up
  <2> QED BY <1>2, <2>1, OwnerIsAuthorMoves
<1>3. CASE d.version = 2
  <2> DEFINE e == CreateReviews(d)
  <2>1. Up(d) = e
    BY <1>3 DEF Up
  <2>2. /\ IsDatabase(e) /\ e.version = 3 /\ e.books = d.books /\ e.users = d.users
        /\ e.reviews = ReviewsFields /\ e.mfa = d.mfa /\ e.otp = d.otp /\ e.link = d.link
    BY <1>0 DEF CreateReviews, IsDatabase
  <2> HIDE DEF e
  <2>3. /\ e.reviews = Reviews(3) /\ e.mfa = TwoFactors(3) /\ e.otp = TwoFactors(3)
        /\ e.link = Link(3)
    BY <1>3, <2>2, Settings, FactorSettings DEF Fits, Schema
  <2> QED BY <1>3, <2>1, <2>2, <2>3, SettingsMove DEF Last
<1>4. CASE d.version = 3
  <2> DEFINE e == EnableMFA(d)
  <2>1. Up(d) = e
    BY <1>4 DEF Up
  <2>2. /\ IsDatabase(e) /\ e.version = 4 /\ e.books = d.books /\ e.users = d.users
        /\ e.reviews = d.reviews /\ e.mfa = TRUE /\ e.otp = TRUE /\ e.link = d.link
    BY <1>0 DEF EnableMFA, IsDatabase
  <2> HIDE DEF e
  <2>3. /\ e.reviews = Reviews(4) /\ e.mfa = TwoFactors(4) /\ e.otp = TwoFactors(4)
        /\ e.link = Link(4)
    BY <1>4, <2>2, Settings, FactorSettings DEF Fits, Schema
  <2> QED BY <1>4, <2>1, <2>2, <2>3, SettingsMove DEF Last
<1>5. CASE d.version = 4
  <2> DEFINE e == LinkToPage(d)
  <2>0. d.link = "dashboard"
    BY <1>5, Settings DEF Fits, Schema
  <2>1. Up(d) = e
    BY <1>5 DEF Up
  <2>2. /\ IsDatabase(e) /\ e.version = 5 /\ e.books = d.books /\ e.users = d.users
        /\ e.reviews = d.reviews /\ e.mfa = d.mfa /\ e.otp = d.otp /\ e.link = "page"
    BY <1>0, <2>0 DEF LinkToPage, IsDatabase
  <2> HIDE DEF e
  <2>3. /\ e.reviews = Reviews(5) /\ e.mfa = TwoFactors(5) /\ e.otp = TwoFactors(5)
        /\ e.link = Link(5)
    BY <1>5, <2>2, Settings, FactorSettings DEF Fits, Schema
  <2> QED BY <1>5, <2>1, <2>2, <2>3, SettingsMove DEF Last
<1> QED
  BY <1>1, <1>2, <1>3, <1>4, <1>5 DEF Last

LEMMA DownMoves ==
    ASSUME NEW d, Fits(d), d.version \in 1..Last
    PROVE  Moves(d, Down(d), d.version - 1)
<1>0. IsDatabase(d)
  BY DEF Fits, Schema
<1>1. CASE d.version = 1
  <2>1. Down(d) = RemoveStatus(d)
    BY <1>1 DEF Down
  <2> QED BY <1>1, <2>1, RemoveStatusMoves
<1>2. CASE d.version = 2
  <2>1. Down(d) = OwnerAndRole(d)
    BY <1>2 DEF Down
  <2> QED BY <1>2, <2>1, OwnerAndRoleMoves
<1>3. CASE d.version = 3
  <2> DEFINE e == DeleteReviews(d)
  <2>1. Down(d) = e
    BY <1>3 DEF Down
  <2>2. /\ IsDatabase(e) /\ e.version = 2 /\ e.books = d.books /\ e.users = d.users
        /\ e.reviews = {} /\ e.mfa = d.mfa /\ e.otp = d.otp /\ e.link = d.link
    BY <1>0 DEF DeleteReviews, IsDatabase
  <2> HIDE DEF e
  <2>3. /\ e.reviews = Reviews(2) /\ e.mfa = TwoFactors(2) /\ e.otp = TwoFactors(2)
        /\ e.link = Link(2)
    BY <1>3, <2>2, Settings, FactorSettings DEF Fits, Schema
  <2> QED BY <1>3, <2>1, <2>2, <2>3, SettingsMove DEF Last
<1>4. CASE d.version = 4
  <2> DEFINE e == DisableMFA(d)
  <2>1. Down(d) = e
    BY <1>4 DEF Down
  <2>2. /\ IsDatabase(e) /\ e.version = 3 /\ e.books = d.books /\ e.users = d.users
        /\ e.reviews = d.reviews /\ e.mfa = FALSE /\ e.otp = FALSE /\ e.link = d.link
    BY <1>0 DEF DisableMFA, IsDatabase
  <2> HIDE DEF e
  <2>3. /\ e.reviews = Reviews(3) /\ e.mfa = TwoFactors(3) /\ e.otp = TwoFactors(3)
        /\ e.link = Link(3)
    BY <1>4, <2>2, Settings, FactorSettings DEF Fits, Schema
  <2> QED BY <1>4, <2>1, <2>2, <2>3, SettingsMove DEF Last
<1>5. CASE d.version = 5
  <2> DEFINE e == LinkToDashboard(d)
  <2>0. d.link = "page"
    BY <1>5, Settings DEF Fits, Schema
  <2>1. Down(d) = e
    BY <1>5 DEF Down
  <2>2. /\ IsDatabase(e) /\ e.version = 4 /\ e.books = d.books /\ e.users = d.users
        /\ e.reviews = d.reviews /\ e.mfa = d.mfa /\ e.otp = d.otp /\ e.link = "dashboard"
    BY <1>0, <2>0 DEF LinkToDashboard, IsDatabase
  <2> HIDE DEF e
  <2>3. /\ e.reviews = Reviews(4) /\ e.mfa = TwoFactors(4) /\ e.otp = TwoFactors(4)
        /\ e.link = Link(4)
    BY <1>5, <2>2, Settings, FactorSettings DEF Fits, Schema
  <2> QED BY <1>5, <2>1, <2>2, <2>3, SettingsMove DEF Last
<1> QED
  BY <1>1, <1>2, <1>3, <1>4, <1>5 DEF Last

LEMMA SnapshotFits == Fits(Snapshot) /\ Snapshot.version = 0
<1>1. /\ IsDatabase(Snapshot) /\ Snapshot.version = 0 /\ Snapshot.reviews = {}
      /\ Snapshot.mfa = FALSE /\ Snapshot.otp = FALSE /\ Snapshot.link = "dashboard"
      /\ Snapshot.books = [fields |-> BookFields(0), rows |-> [b \in Books |-> NoRow]]
  BY DEF Snapshot, IsDatabase, BookFields, Title, AuthorText, OwnerRef
<1>2. Snapshot.users = [fields |-> UserFields(0),
                        rows |-> [u \in Users |-> [n \in {"role"} |-> Blank]]]
  BY Zenon DEF Snapshot, UserFields, OldRole, Blank
<1>3. Schema(Snapshot)
  BY <1>1, <1>2, Settings, FactorSettings DEF Schema, Last
<1>4. BooksFit(Snapshot.books, 0)
  BY <1>1 DEF BooksFit, Shaped
<1>5. UsersFit(Snapshot.users, 0)
  BY <1>2 DEF UsersFit, Shaped, UserColumns, Roles
<1> QED
  BY <1>1, <1>3, <1>4, <1>5 DEF Fits

-----------------------------------------------------------------------------
(***************************************************************************)
(* The inductive invariant.  A run is under way from the committed version *)
(* to another one, and is nowhere but between the two: no run that starts  *)
(* with roles and ends with roles passes through a version without them.   *)
(***************************************************************************)
RunInv ==
    run # NoRun =>
        /\ run = [to |-> run.to, work |-> run.work]
        /\ run.to \in 0..Last
        /\ Fits(run.work)
        /\ \/ db.version <= run.work.version /\ run.work.version <= run.to
           \/ run.to <= run.work.version /\ run.work.version <= db.version
        /\ SameRanks(db, run.work)

IInv == Fits(db) /\ RunInv

LEMMA FitVersion == ASSUME NEW d, Fits(d) PROVE d.version \in 0..Last
BY DEF Fits, Schema

LEMMA MigrateIInv == IInv /\ Migrate => IInv'
<1> SUFFICES ASSUME IInv, Migrate PROVE IInv'
  OBVIOUS
<1> DEFINE d == run.work
           e == IF d.version < run.to THEN Up(d) ELSE Down(d)
<1>1. /\ run = [to |-> run.to, work |-> run.work] /\ run.to \in 0..Last
      /\ Fits(d) /\ SameRanks(db, d)
      /\ \/ db.version <= d.version /\ d.version <= run.to
         \/ run.to <= d.version /\ d.version <= db.version
      /\ d.version # run.to
  BY DEF Migrate, IInv, RunInv
<1>2. d.version \in 0..Last /\ db.version \in 0..Last
  BY <1>1, FitVersion DEF IInv
<1>3. run' = [to |-> run.to, work |-> e] /\ db' = db
  BY <1>1 DEF Migrate
<1>4. /\ Fits(e) /\ SameRanks(d, e)
      /\ e.version = IF d.version < run.to THEN d.version + 1 ELSE d.version - 1
  <2>1. CASE d.version < run.to
    <3>1. Moves(d, Up(d), d.version + 1)
      BY <1>1, <1>2, <2>1, UpMoves DEF Last
    <3> QED BY <2>1, <3>1 DEF Moves
  <2>2. CASE ~(d.version < run.to)
    <3>1. Moves(d, Down(d), d.version - 1)
      BY <1>1, <1>2, <2>2, DownMoves DEF Last
    <3> QED BY <2>2, <3>1 DEF Moves
  <2> QED BY <2>1, <2>2
<1> HIDE DEF e
<1>5. \/ db.version <= e.version /\ e.version <= run.to
      \/ run.to <= e.version /\ e.version <= db.version
  BY <1>1, <1>2, <1>4 DEF Last
<1>6. SameRanks(db, e)
  <2> SUFFICES ASSUME db.version \in {0, 1}, e.version \in {0, 1}
               PROVE  d.version \in {0, 1}
    BY <1>1, <1>4 DEF SameRanks
  <2> QED BY <1>1, <1>2, <1>4, <1>5 DEF Last
<1> QED
  BY <1>1, <1>3, <1>4, <1>5, <1>6 DEF IInv, RunInv

\* What the columns of a valid row can hold.
LEMMA ValidValues ==
    /\ Valid(Status) = {"draft", "published"}
    /\ Valid(OldRole) = Roles(0)
    /\ Valid(NewRole) = Roles(1)
<1>1. \A f : Valid(f) =
        (CASE f.type = "text" -> Texts [] f.type = "relation" -> Users [] OTHER -> f.values)
          \cup (IF f.required THEN {} ELSE {Blank})
  BY Zenon DEF Valid, Blank
<1>2. /\ Status.values = {"draft", "published"} /\ Status.required
      /\ OldRole.values = {"librarian", "member"} /\ ~OldRole.required
      /\ NewRole.values = {"member", "author"} /\ ~NewRole.required
  BY DEF Status, OldRole, NewRole, Role, Field
<1> QED
  BY <1>1, <1>2, FieldTypes DEF Roles

\* A table with one row replaced.
LEMMA RowReplaced ==
    ASSUME NEW t, NEW ids, NEW columns, Shaped(t, ids, columns), NEW i \in ids, NEW r,
           r # NoRow => r = [n \in columns |-> r[n]]
    PROVE  LET new == [t EXCEPT !.rows[i] = r]
           IN  /\ Shaped(new, ids, columns)
               /\ new.fields = t.fields
               /\ new.rows[i] = r
               /\ \A j \in ids : j # i => new.rows[j] = t.rows[j]
<1> DEFINE rows == [t.rows EXCEPT ![i] = r]
           new == [t EXCEPT !.rows[i] = r]
<1>1. new = [fields |-> t.fields, rows |-> rows]
  BY TableExcept
<1>2. /\ rows = [j \in ids |-> rows[j]]
      /\ rows[i] = r
      /\ \A j \in ids : j # i => rows[j] = t.rows[j]
  BY DEF Shaped
<1>3. \A j \in ids : rows[j] # NoRow => rows[j] = [n \in columns |-> rows[j][n]]
  BY <1>2 DEF Shaped
<1> HIDE DEF rows, new
<1>4. Shaped(new, ids, columns) /\ new.rows = rows /\ new.fields = t.fields
  BY <1>1, <1>2, <1>3 DEF Shaped
<1> QED
  BY <1>2, <1>4 DEF new

LEMMA BookRowFits ==
    ASSUME Fits(db), NEW b \in Books, NEW r, db' = [db EXCEPT !["books"].rows[b] = r],
           r # NoRow =>
             /\ r = [n \in BookColumns(db.version) |-> r[n]]
             /\ db.version # 0 => r["status"] \in {"draft", "published"}
    PROVE  Fits(db)' /\ db'.version = db.version
<1> DEFINE new == [db.books EXCEPT !.rows[b] = r]
<1>1. /\ Shaped(db.books, Books, BookColumns(db.version))
      /\ db.version # 0 => \A c \in Books : db.books.rows[c] # NoRow =>
                             db.books.rows[c]["status"] \in {"draft", "published"}
  BY DEF Fits, BooksFit
<1>2. /\ Shaped(new, Books, BookColumns(db.version))
      /\ new.fields = db.books.fields
      /\ new.rows[b] = r
      /\ \A c \in Books : c # b => new.rows[c] = db.books.rows[c]
  BY <1>1, RowReplaced
<1>3. IsDatabase(db)
  BY DEF Fits, Schema
<1>4. db' = [db EXCEPT !["books"] = new]
  BY <1>3 DEF IsDatabase
<1> HIDE DEF new
<1>5. /\ IsDatabase(db') /\ db'.version = db.version
      /\ db'.books = new /\ db'.users = db.users
      /\ db'.reviews = db.reviews /\ db'.mfa = db.mfa /\ db'.otp = db.otp /\ db'.link = db.link
  BY <1>3, <1>4 DEF IsDatabase
<1>6. BooksFit(db'.books, db'.version)
  BY <1>1, <1>2, <1>5 DEF BooksFit
<1> QED
  BY <1>2, <1>5, <1>6 DEF Fits, Schema

LEMMA UserRowFits ==
    ASSUME Fits(db), NEW u \in Users, NEW r, db' = [db EXCEPT !["users"].rows[u] = r],
           r # NoRow =>
             /\ r = [n \in UserColumns(db.version) |-> r[n]]
             /\ db.version \in {0, 1} => r["role"] \in Roles(db.version)
    PROVE  Fits(db)' /\ db'.version = db.version
<1> DEFINE new == [db.users EXCEPT !.rows[u] = r]
<1>1. /\ Shaped(db.users, Users, UserColumns(db.version))
      /\ db.version \in {0, 1} => \A w \in Users : db.users.rows[w] # NoRow =>
                                    db.users.rows[w]["role"] \in Roles(db.version)
  BY DEF Fits, UsersFit
<1>2. /\ Shaped(new, Users, UserColumns(db.version))
      /\ new.fields = db.users.fields
      /\ new.rows[u] = r
      /\ \A w \in Users : w # u => new.rows[w] = db.users.rows[w]
  BY <1>1, RowReplaced
<1>3. IsDatabase(db)
  BY DEF Fits, Schema
<1>4. db' = [db EXCEPT !["users"] = new]
  BY <1>3 DEF IsDatabase
<1> HIDE DEF new
<1>5. /\ IsDatabase(db') /\ db'.version = db.version
      /\ db'.users = new /\ db'.books = db.books
      /\ db'.reviews = db.reviews /\ db'.mfa = db.mfa /\ db'.otp = db.otp /\ db'.link = db.link
  BY <1>3, <1>4 DEF IsDatabase
<1>6. UsersFit(db'.users, db'.version)
  BY <1>1, <1>2, <1>5 DEF UsersFit
<1> QED
  BY <1>2, <1>5, <1>6 DEF Fits, Schema

LEMMA SaveBookFits == Fits(db) /\ SaveRow("books", Books) => Fits(db)' /\ db'.version = db.version
<1> SUFFICES ASSUME Fits(db), SaveRow("books", Books)
             PROVE  Fits(db)' /\ db'.version = db.version
  OBVIOUS
<1> DEFINE fields == BookFields(db.version)
<1>1. db.books.fields = fields
  BY DEF Fits, Schema
<1>2. PICK b \in Books, r \in [Names(fields) -> UNION {Valid(f) : f \in fields}] :
        /\ \A f \in fields : r[f.name] \in Valid(f)
        /\ db' = [db EXCEPT !["books"].rows[b] = r]
  BY <1>1 DEF SaveRow
<1>3. r = [n \in BookColumns(db.version) |-> r[n]]
  BY <1>2, BookNames
<1>4. db.version # 0 => Status \in fields
  BY DEF BookFields
<1>5. db.version # 0 => r["status"] \in {"draft", "published"}
  BY <1>2, <1>4, FieldNames, ValidValues
<1> QED
  BY <1>2, <1>3, <1>5, BookRowFits

LEMMA SaveUserFits == Fits(db) /\ SaveRow("users", Users) => Fits(db)' /\ db'.version = db.version
<1> SUFFICES ASSUME Fits(db), SaveRow("users", Users)
             PROVE  Fits(db)' /\ db'.version = db.version
  OBVIOUS
<1> DEFINE fields == UserFields(db.version)
<1>1. db.users.fields = fields
  BY DEF Fits, Schema
<1>2. PICK u \in Users, r \in [Names(fields) -> UNION {Valid(f) : f \in fields}] :
        /\ \A f \in fields : r[f.name] \in Valid(f)
        /\ db' = [db EXCEPT !["users"].rows[u] = r]
  BY <1>1 DEF SaveRow
<1>3. r = [n \in UserColumns(db.version) |-> r[n]]
  BY <1>2, UserNames
<1>4. db.version = 0 => OldRole \in fields
  BY DEF UserFields
<1>5. db.version = 1 => NewRole \in fields
  BY DEF UserFields
<1>6. db.version \in {0, 1} => r["role"] \in Roles(db.version)
  BY <1>2, <1>4, <1>5, FieldNames, ValidValues
<1> QED
  BY <1>2, <1>3, <1>6, UserRowFits

LEMMA DeleteRowFits == Fits(db) /\ DeleteRow => Fits(db)' /\ db'.version = db.version
<1> SUFFICES ASSUME Fits(db), NEW b \in Books, db' = [db EXCEPT !.books.rows[b] = NoRow]
             PROVE  Fits(db)' /\ db'.version = db.version
  BY DEF DeleteRow
<1> QED
  BY BookRowFits

LEMMA InitIInv == Init => IInv
BY SnapshotFits DEF Init, IInv, RunInv

LEMMA NextIInv == IInv /\ [Next]_vars => IInv'
<1> SUFFICES ASSUME IInv, [Next]_vars PROVE IInv'
  OBVIOUS
<1>1. CASE Begin
  <2>1. PICK to \in 0..Last \ {db.version} : run' = [to |-> to, work |-> db] /\ db' = db
    BY <1>1 DEF Begin
  <2>2. run'.to = to /\ run'.work = db
    BY <2>1
  <2>3. db.version \in 0..Last
    BY FitVersion DEF IInv
  <2>4. db.version <= to \/ to <= db.version
    BY <2>3 DEF Last
  <2> QED BY <2>1, <2>2, <2>3, <2>4 DEF IInv, RunInv, SameRanks, Last
<1>2. CASE Migrate
  BY <1>2, MigrateIInv
<1>3. CASE Commit
  BY <1>3 DEF Commit, IInv, RunInv
<1>4. CASE Crash
  BY <1>4 DEF Crash, IInv, RunInv
<1>5. CASE SaveRow("books", Books)
  <2>1. run = NoRun /\ run' = run
    BY <1>5 DEF SaveRow
  <2> QED BY <1>5, <2>1, SaveBookFits DEF IInv, RunInv
<1>6. CASE SaveRow("users", Users)
  <2>1. run = NoRun /\ run' = run
    BY <1>6 DEF SaveRow
  <2> QED BY <1>6, <2>1, SaveUserFits DEF IInv, RunInv
<1>7. CASE DeleteRow
  <2>1. run = NoRun /\ run' = run
    BY <1>7 DEF DeleteRow
  <2> QED BY <1>7, <2>1, DeleteRowFits DEF IInv, RunInv
<1>8. CASE UNCHANGED vars
  BY <1>8 DEF vars, IInv, RunInv, Fits, SameRanks
<1> QED
  BY <1>1, <1>2, <1>3, <1>4, <1>5, <1>6, <1>7, <1>8 DEF Next

-----------------------------------------------------------------------------
LEMMA Invariant == Spec => []IInv
BY InitIInv, NextIInv, PTL DEF Spec

(***************************************************************************)
(* The collections of a new database.  Fresh is a recursive function over  *)
(* six versions: the six values that satisfy its equation are written out  *)
(* to show that there is such a function.                                  *)
(***************************************************************************)
LEMMA FreshEquation ==
    \A v \in 0..Last : Fresh[v] = IF v = 0 THEN Snapshot ELSE Up(Fresh[v - 1])
<1> DEFINE Solves(g) == g = [v \in 0..Last |-> IF v = 0 THEN Snapshot ELSE Up(g[v - 1])]
           f1 == Up(Snapshot)
           f2 == Up(f1)
           f3 == Up(f2)
           f4 == Up(f3)
           f5 == Up(f4)
           h  == [v \in 0..Last |-> IF v = 0 THEN Snapshot ELSE IF v = 1 THEN f1
                                    ELSE IF v = 2 THEN f2 ELSE IF v = 3 THEN f3
                                    ELSE IF v = 4 THEN f4 ELSE f5]
<1>1. \A v \in 0..Last : h[v] = IF v = 0 THEN Snapshot ELSE Up(h[v - 1])
  <2>1. /\ h[0] = Snapshot /\ h[1] = f1 /\ h[2] = f2
        /\ h[3] = f3 /\ h[4] = f4 /\ h[5] = f5
    BY DEF Last
  <2> HIDE DEF h
  <2> SUFFICES ASSUME NEW v \in 0..Last
               PROVE  h[v] = IF v = 0 THEN Snapshot ELSE Up(h[v - 1])
    OBVIOUS
  <2>2. v = 0 \/ v = 1 \/ v = 2 \/ v = 3 \/ v = 4 \/ v = 5
    BY DEF Last
  <2> QED BY <2>1, <2>2
<1>2. h = [v \in 0..Last |-> h[v]]
  OBVIOUS
<1> HIDE DEF h
<1>3. Solves(h)
  BY <1>1, <1>2
<1>4. Fresh = CHOOSE g : Solves(g)
  BY DEF Fresh
<1> HIDE DEF Solves
<1>5. Solves(Fresh)
  BY <1>3, <1>4
<1> QED
  BY <1>5 DEF Solves

LEMMA FreshFits == \A v \in 0..Last : Fits(Fresh[v]) /\ Fresh[v].version = v
<1> DEFINE New(v) == Fits(Fresh[v]) /\ Fresh[v].version = v
<1>1. ASSUME NEW v \in 0..Last, v # Last, New(v) PROVE New(v + 1)
  <2>1. Moves(Fresh[v], Up(Fresh[v]), v + 1)
    BY <1>1, UpMoves DEF Last
  <2>2. Fresh[v + 1] = Up(Fresh[v])
    <3>1. v + 1 \in 0..Last /\ v + 1 # 0 /\ (v + 1) - 1 = v
      BY <1>1 DEF Last
    <3> QED BY <3>1, FreshEquation
  <2> QED BY <2>1, <2>2 DEF Moves
<1>2. New(0)
  BY FreshEquation, SnapshotFits DEF Last
<1> HIDE DEF New
<1>3. New(1) /\ New(2) /\ New(3) /\ New(4) /\ New(5)
  <2>1. New(1) BY <1>1, <1>2 DEF Last
  <2>2. New(2) BY <1>1, <2>1 DEF Last
  <2>3. New(3) BY <1>1, <2>2 DEF Last
  <2>4. New(4) BY <1>1, <2>3 DEF Last
  <2>5. New(5) BY <1>1, <2>4 DEF Last
  <2> QED BY <2>1, <2>2, <2>3, <2>4, <2>5
<1>4. ASSUME NEW v \in 0..Last PROVE New(v)
  <2>1. v = 0 \/ v = 1 \/ v = 2 \/ v = 3 \/ v = 4 \/ v = 5
    BY DEF Last
  <2> QED BY <2>1, <1>2, <1>3
<1> QED
  BY <1>4 DEF New

(***************************************************************************)
(* The collections of a database depend on nothing but its version,        *)
(* whatever migrations were applied, reverted, and cut short before: every *)
(* down migration restores what its up migration found.                    *)
(***************************************************************************)
THEOREM DownRestores == Spec => []DownUndoesUp
<1>1. IInv => DownUndoesUp
  <2> SUFFICES ASSUME IInv PROVE DownUndoesUp
    OBVIOUS
  <2> DEFINE d == Fresh[db.version]
  <2>1. db.version \in 0..Last
    BY FitVersion DEF IInv
  <2>2. Fits(d) /\ d.version = db.version
    BY <2>1, FreshFits
  <2> HIDE DEF d
  <2>3. /\ d.books.fields = db.books.fields /\ d.users.fields = db.users.fields
        /\ d.reviews = db.reviews /\ d.link = db.link
    BY <2>2 DEF IInv, Fits, Schema
  <2>4. d.mfa = db.mfa /\ d.otp = db.otp
    BY <2>2, Zenon DEF IInv, Fits, Schema
  <2>5. Collections(db) = Collections(d)
    BY <2>2, <2>3, <2>4, Zenon DEF Collections
  <2> QED BY <2>5 DEF DownUndoesUp, d
<1> QED
  BY <1>1, Invariant, PTL

(***************************************************************************)
(* No migration leaves a row with an option its select field no longer     *)
(* has: no book without a status, no user with a role that was renamed.    *)
(***************************************************************************)
THEOREM OptionsStayValid == Spec => []SelectsFit
<1>1. IInv => SelectsFit
  <2> SUFFICES ASSUME IInv, NEW table \in {db.books, db.users}, NEW f \in table.fields,
                      f.type = "select", NEW r \in Rows(table)
               PROVE  r[f.name] \in Valid(f)
    BY DEF SelectsFit
  <2> DEFINE v == db.version
  <2>1. /\ v \in 0..Last
        /\ db.books.fields = BookFields(v) /\ db.users.fields = UserFields(v)
        /\ BooksFit(db.books, v) /\ UsersFit(db.users, v)
    BY DEF IInv, Fits, Schema
  <2>2. DOMAIN db.books.rows = Books /\ DOMAIN db.users.rows = Users
    BY <2>1 DEF BooksFit, UsersFit, Shaped
  <2>3. CASE table = db.books
    <3>1. f = Status /\ v # 0
      BY <2>1, <2>3, FieldTypes DEF BookFields
    <3>2. PICK b \in Books : r = db.books.rows[b] /\ r # NoRow
      BY <2>2, <2>3 DEF Rows
    <3> QED BY <2>1, <3>1, <3>2, FieldNames, ValidValues DEF BooksFit
  <2>4. CASE table = db.users
    <3>1. (v = 0 /\ f = OldRole) \/ (v = 1 /\ f = NewRole)
      BY <2>1, <2>4 DEF UserFields
    <3>2. PICK u \in Users : r = db.users.rows[u] /\ r # NoRow
      BY <2>2, <2>4 DEF Rows
    <3> QED BY <2>1, <3>1, <3>2, FieldNames, ValidValues DEF UsersFit
  <2> QED BY <2>3, <2>4
<1> QED
  BY <1>1, Invariant, PTL

\* Users have roles before the second migration only.
LEMMA RolesOfVersion == ASSUME NEW d, Fits(d) PROVE HaveRoles(d) <=> d.version \in {0, 1}
BY UserNames DEF HaveRoles, Fits, Schema, UserColumns

(***************************************************************************)
(* No migration run from a version with roles to another one with roles    *)
(* promotes or demotes a user: the two renames are inverse, and a run does *)
(* not pass through the versions that have no roles.                       *)
(***************************************************************************)
THEOREM NobodyPromoted == Spec => RanksKept
<1> DEFINE Kept == db'.version # db.version /\ HaveRoles(db) /\ HaveRoles(db)'
                     => \A u \in Users : Rank(db'.users.rows[u]) = Rank(db.users.rows[u])
<1>1. IInv /\ IInv' /\ [Next]_vars => [Kept]_vars
  <2> SUFFICES ASSUME IInv, IInv', Next, db'.version # db.version,
                      HaveRoles(db), HaveRoles(db')
               PROVE  \A u \in Users : Rank(db'.users.rows[u]) = Rank(db.users.rows[u])
    OBVIOUS
  <2>1. Fits(db) /\ Fits(db')
    BY DEF IInv
  <2>2. ~SaveRow("books", Books) /\ ~SaveRow("users", Users) /\ ~DeleteRow
    BY <2>1, SaveBookFits, SaveUserFits, DeleteRowFits
  <2>3. Commit
    BY <2>2 DEF Next, Begin, Migrate, Crash
  <2>4. SameRanks(db, db')
    BY <2>3 DEF Commit, IInv, RunInv
  <2>5. db.version \in {0, 1} /\ db'.version \in {0, 1}
    BY <2>1, RolesOfVersion
  <2> QED BY <2>4, <2>5 DEF SameRanks
<1>2. Spec => [][Kept]_vars
  BY <1>1, Invariant, PTL DEF Spec
<1> QED
  BY <1>2, PTL DEF RanksKept

=============================================================================
