----------------------------- MODULE Migrations -----------------------------
(***************************************************************************)
(* migrations/: what the numbered migrations do to a database that has     *)
(* records in it.                                                          *)
(*                                                                         *)
(* The server registers its migrations when it starts and PocketBase runs  *)
(* those that the database has not seen, in order; "migrate down" reverts  *)
(* the last ones.  Each run is one transaction over the collections and    *)
(* the list of applied migrations, so a crash in the middle undoes all of  *)
(* it, and the server takes no request before it is over.  In between the  *)
(* dashboard adds and edits records, validated against the collections as  *)
(* they then are.                                                          *)
(*                                                                         *)
(* A table is its fields and its rows; a row is a function from the names  *)
(* of its columns to values, where "" is an empty column.  Saving a        *)
(* collection (PocketBase) drops the columns of fields that are gone and   *)
(* adds an empty column for each new one; a field is known by its id,      *)
(* which is made of type and name.                                         *)
(*                                                                         *)
(* Simplifications: version 0 is the snapshot, whose own down migration    *)
(* does nothing; of the users' columns only role is there; the rows of     *)
(* reviews are left out; the dashboard edits records, not collections.     *)
(***************************************************************************)
EXTENDS Integers

CONSTANTS
    Users,   \* ids of the users, who are there from the start
    Books,   \* ids of books
    Texts,   \* what the text columns can hold, "" left aside
    NoRow,   \* no book has this id
    NoRun    \* no migration run is under way

Last == 5    \* the number of migrations after the snapshot

VARIABLES
    db,      \* the committed database
    run      \* the transaction of a migration run and the version it goes to, or NoRun

vars == <<db, run>>

-----------------------------------------------------------------------------
Field(name, type, required, values) ==
    [name |-> name, type |-> type, required |-> required, values |-> values]

Text(name)               == Field(name, "text", FALSE, {})
UserRef(name, required)  == Field(name, "relation", required, {})
Role(values)             == Field("role", "select", FALSE, values)
Status                   == Field("status", "select", TRUE, {"draft", "published"})

ReviewsFields ==
    {Field("book", "relation", TRUE, {}), UserRef("reviewer", TRUE),
     Field("content", "text", TRUE, {}), Field("rating", "number", TRUE, 1..5)}

\* The collections of the snapshot.  Users without a role and books without a
\* row are where every database starts.
Snapshot ==
    [version |-> 0,
     books   |-> [fields |-> {Text("title"), Text("author"), UserRef("owner", FALSE)},
                  rows   |-> [b \in Books |-> NoRow]],
     users   |-> [fields |-> {Role({"librarian", "member"})},
                  rows   |-> [u \in Users |-> [n \in {"role"} |-> ""]]],
     reviews |-> {},
     mfa     |-> FALSE,
     otp     |-> FALSE,
     link    |-> "dashboard"]     \* where the verification mail points to

-----------------------------------------------------------------------------
(***************************************************************************)
(* PocketBase.                                                             *)
(***************************************************************************)
Names(fields) == {f.name : f \in fields}

RemoveByName(fields, name) == {f \in fields : f.name # name}

EachRow(table, F(_)) ==
    [table EXCEPT !.rows = [i \in DOMAIN @ |-> IF @[i] = NoRow THEN NoRow ELSE F(@[i])]]

\* app.Save of a collection whose fields are now "fields".
Save(table, fields) ==
    LET kept   == {f.name : f \in {g \in fields : \E h \in table.fields :
                                       h.name = g.name /\ h.type = g.type}}
        Row(r) == [n \in Names(fields) |-> IF n \in kept THEN r[n] ELSE ""]
    IN  [EachRow(table, Row) EXCEPT !.fields = fields]

\* UPDATE table SET column = new WHERE column = old
Replace(table, column, old, new) ==
    LET Row(r) == [r EXCEPT ![column] = IF @ = old THEN new ELSE @]
    IN  EachRow(table, Row)

-----------------------------------------------------------------------------
(***************************************************************************)
(* 1. Books get a status, librarians become authors.                       *)
(***************************************************************************)
AddStatus_Bug(d) ==
    [d EXCEPT
       !.version = 1,
       !.books = Save(@, @.fields \cup {Status}),
       !.users = Replace(Save(@, {Role({"member", "author"})}), "role", "librarian", "author")]

AddStatus(d) ==
    [d EXCEPT
       !.version = 1,
       !.books = Replace(Save(@, @.fields \cup {Status}), "status", "", "published"),
       !.users = Replace(Save(@, {Role({"member", "author"})}), "role", "librarian", "author")]

RemoveStatus_Bug(d) ==
    [d EXCEPT
       !.version = 0,
       !.users = Replace(Save(@, {Role({"member", "librarian"})}), "role", "author", "member"),
       !.books = Save(@, RemoveByName(@.fields, "status"))]

RemoveStatus(d) ==
    [d EXCEPT
       !.version = 0,
       !.users = Save(Replace(@, "role", "author", "librarian"), {Role({"member", "librarian"})}),
       !.books = Save(@, RemoveByName(@.fields, "status"))]

(***************************************************************************)
(* 2. The owner becomes the author, a relation; roles go.                  *)
(***************************************************************************)
OwnerIsAuthor(d) ==
    LET Copy(r) == [r EXCEPT !["author"] = IF r["owner"] # "" THEN r["owner"] ELSE @]
        copied  == EachRow(d.books, Copy)
        bare    == RemoveByName(RemoveByName(copied.fields, "author"), "owner")
    IN  [d EXCEPT
           !.version = 2,
           !.books = Save(copied, bare \cup {UserRef("author", TRUE)}),
           !.users = Save(@, RemoveByName(@.fields, "role"))]

OwnerAndRole_Bug(d) ==
    [d EXCEPT
       !.version = 1,
       !.users = Save(@, @.fields \cup {Role({"member", "author"})}),
       !.books = Save(@, RemoveByName(@.fields, "author") \cup {Text("author")})]

OwnerAndRole(d) ==
    [d EXCEPT
       !.version = 1,
       !.users = Save(@, @.fields \cup {Role({"member", "author"})}),
       !.books = Save(@, RemoveByName(@.fields, "author")
                           \cup {Text("author"), UserRef("owner", FALSE)})]

(***************************************************************************)
(* 3. The reviews collection; 4. a second factor, by mail; 5. the          *)
(* verification mail links to this program's own page.                     *)
(***************************************************************************)
CreateReviews(d) == [d EXCEPT !.version = 3, !.reviews = ReviewsFields]
DeleteReviews(d) == [d EXCEPT !.version = 2, !.reviews = {}]

EnableMFA(d)  == [d EXCEPT !.version = 4, !.mfa = TRUE, !.otp = TRUE]
DisableMFA(d) == [d EXCEPT !.version = 3, !.mfa = FALSE, !.otp = FALSE]

LinkToPage(d)      == [d EXCEPT !.version = 5, !.link = IF @ = "dashboard" THEN "page" ELSE @]
LinkToDashboard(d) == [d EXCEPT !.version = 4, !.link = IF @ = "page" THEN "dashboard" ELSE @]

Up(d) ==
    CASE d.version = 0 -> AddStatus(d)
      [] d.version = 1 -> OwnerIsAuthor(d)
      [] d.version = 2 -> CreateReviews(d)
      [] d.version = 3 -> EnableMFA(d)
      [] d.version = 4 -> LinkToPage(d)

Down(d) ==
    CASE d.version = 5 -> LinkToDashboard(d)
      [] d.version = 4 -> DisableMFA(d)
      [] d.version = 3 -> DeleteReviews(d)
      [] d.version = 2 -> OwnerAndRole(d)
      [] d.version = 1 -> RemoveStatus(d)

-----------------------------------------------------------------------------
Init == db = Snapshot /\ run = NoRun

\* A release that knows "to" migrations starts on an older database, or
\* somebody reverts the last migrations down to "to".
Begin ==
    /\ run = NoRun
    /\ \E to \in 0..Last \ {db.version} : run' = [to |-> to, work |-> db]
    /\ UNCHANGED db

Migrate ==
    /\ run # NoRun
    /\ run.work.version # run.to
    /\ run' = [run EXCEPT !.work = IF @.version < run.to THEN Up(@) ELSE Down(@)]
    /\ UNCHANGED db

Commit ==
    /\ run # NoRun
    /\ run.work.version = run.to
    /\ db' = run.work
    /\ run' = NoRun

\* A migration fails or the process dies: the transaction is rolled back.
Crash ==
    /\ run # NoRun
    /\ run' = NoRun
    /\ UNCHANGED db

\* A value that PocketBase accepts for the field f.
Valid(f) ==
    (CASE f.type = "text" -> Texts [] f.type = "relation" -> Users [] OTHER -> f.values)
      \cup (IF f.required THEN {} ELSE {""})

\* The dashboard saves a row, new or old, with any values that are valid.
SaveRow(table, ids) ==
    /\ run = NoRun
    /\ LET fields == db[table].fields
       IN  \E i \in ids, r \in [Names(fields) -> UNION {Valid(f) : f \in fields}] :
             /\ \A f \in fields : r[f.name] \in Valid(f)
             /\ db' = [db EXCEPT ![table].rows[i] = r]
    /\ UNCHANGED run

DeleteRow ==
    /\ run = NoRun
    /\ \E b \in Books : db' = [db EXCEPT !.books.rows[b] = NoRow]
    /\ UNCHANGED run

Next ==
    \/ Begin \/ Migrate \/ Commit \/ Crash
    \/ SaveRow("books", Books) \/ SaveRow("users", Users) \/ DeleteRow

Spec == Init /\ [][Next]_vars

-----------------------------------------------------------------------------
Rows(table) == {table.rows[i] : i \in DOMAIN table.rows} \ {NoRow}

(***************************************************************************)
(* Whatever migrations were applied and reverted before, the collections   *)
(* at a version are those that a new database has at that version: each    *)
(* down migration undoes its up migration.                                 *)
(***************************************************************************)
Fresh[v \in 0..Last] == IF v = 0 THEN Snapshot ELSE Up(Fresh[v - 1])

Collections(d) ==
    <<d.version, d.books.fields, d.users.fields, d.reviews, d.mfa, d.otp, d.link>>

DownUndoesUp == Collections(db) = Collections(Fresh[db.version])

(***************************************************************************)
(* Rows written under the options of one version hold options of the next: *)
(* no book is left without a status, nobody keeps a role that was renamed. *)
(***************************************************************************)
SelectsFit ==
    \A table \in {db.books, db.users} : \A f \in table.fields :
        f.type = "select" => \A r \in Rows(table) : r[f.name] \in Valid(f)

(***************************************************************************)
(* Renaming librarians to authors and back promotes and demotes nobody.    *)
(***************************************************************************)
Rank(r) == IF r["role"] \in {"librarian", "author"} THEN "author" ELSE r["role"]

HaveRoles(d) == "role" \in Names(d.users.fields)

RanksKept ==
    [][db'.version # db.version /\ HaveRoles(db) /\ HaveRoles(db)'
         => \A u \in Users : Rank(db'.users.rows[u]) = Rank(db.users.rows[u])]_vars

(***************************************************************************)
(* "Copy owner values into author before changing the field type, so       *)
(* existing books retain their author association": after the second       *)
(* migration, in the transaction about to be committed, the author of a    *)
(* book is the user who owned it before.                                   *)
(***************************************************************************)
AuthorsRetained ==
    run # NoRun /\ db.version < 2 /\ run.work.version >= 2
      => \A b \in Books :
           db.books.rows[b] # NoRow /\ db.books.rows[b]["owner"] # ""
             => run.work.books.rows[b]["author"] = db.books.rows[b]["owner"]

=============================================================================
