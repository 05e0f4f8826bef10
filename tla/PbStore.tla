------------------------------ MODULE PbStore ------------------------------
(***************************************************************************)
(* internal/store/pbstore: the PocketBase store behind store.Store, and    *)
(* the requests that run calls on it.                                      *)
(*                                                                         *)
(* The server handles each request in a goroutine of its own, and no lock  *)
(* or transaction spans two calls on the database.  A request is a record  *)
(* whose pc says which call comes next; every read and every write of the  *)
(* database is one action, so the actions of different requests interleave *)
(* exactly where the calls of the goroutines do:                           *)
(*                                                                         *)
(*   create:          Validate -> Insert                                   *)
(*   update:  Find -> Validate -> Write                                    *)
(*   delete:  Find -> Remove                                               *)
(*                                                                         *)
(* PocketBase itself is not part of the repository.  Its Save validates    *)
(* the record in memory against the fields that the migrations declare,    *)
(* looks up the records a relation points to, and then issues one INSERT,  *)
(* or one UPDATE of the columns that differ from the record as it was      *)
(* loaded (an UPDATE of a row that is gone changes nothing and is no       *)
(* error).  Its Delete runs in a transaction that is rolled back when a    *)
(* required relation still points to the record.                           *)
(*                                                                         *)
(* Any call on the database may also fail.  Definitions whose name ends in *)
(* _Bug are for the mutation check, see module Policy.                     *)
(*                                                                         *)
(* Bounds: BookIds and ReviewIds are the ids that one instance can hand    *)
(* out; a create is not attempted once they are used up.                   *)
(***************************************************************************)
EXTENDS Integers

CONSTANTS
    Users,        \* ids of the records of the users collection
    Superusers,   \* ids of the records of the _superusers collection
    Clients,      \* the requests that may be in flight at the same time
    BookIds,      \* ids of book records
    ReviewIds,    \* ids of review records
    Titles,       \* titles a request can carry
    BadStatuses,  \* status values a request can carry that are no option
    Contents,     \* review texts a request can carry, "" left aside
    RatingInputs, \* ratings a request can carry
    NoRow         \* what a lookup of an absent record returns

\* The select options of books.status and the range of reviews.rating.
Statuses == {"draft", "published"}
Ratings  == 1..5

\* Whoever FindAuthRecordByToken can return: a record of any auth collection.
Principals == Users \cup Superusers

BookRow   == [title : Titles \cup {""}, author : Principals,
              status : Statuses \cup BadStatuses]
ReviewRow == [book : BookIds, reviewer : Principals,
              content : Contents \cup {""}, rating : RatingInputs \cup Ratings]

\* The rows a table can hold: what validation lets through.
Book   == [title : Titles \cup {""}, author : Users, status : Statuses]
Review == [book : BookIds, reviewer : Users, content : Contents, rating : Ratings]

\* store.BookUpdate and store.ReviewUpdate: "" and 0 stand for a nil pointer.
BookUpdate   == [title : Titles \cup {""}, status : Statuses \cup BadStatuses \cup {""}]
ReviewUpdate == [content : Contents \cup {""}, rating : RatingInputs \cup {0}]

BookOps   == {"CreateBook", "UpdateBook", "DeleteBook"}
ReviewOps == {"CreateReview", "GetReview", "UpdateReview", "DeleteReview"}

ASSUME IdsAreDistinct == BookIds \cap ReviewIds = {}
ASSUME RowsAreNotNoRow == NoRow \notin BookRow \cup ReviewRow
ASSUME NamesAreDistinct ==
    /\ Users \cap Superusers = {}
    /\ BadStatuses \cap (Statuses \cup {""}) = {}
    /\ "" \notin Contents
    /\ RatingInputs \subseteq Int

VARIABLES
    accounts,  \* the users records that exist
    verified,  \* the users records whose verified column has been set
    books,     \* books[b]: the row of the books table with id b, or NoRow
    reviews,   \* reviews[r]: the row of the reviews table with id r, or NoRow
    issued,    \* record ids generated so far: an id is random and never reused
    req,       \* req[c]: the request that c has in flight
    answer     \* answer[c]: how the last request of c ended

users  == <<accounts, verified>>
tables == <<books, reviews>>
vars   == <<users, tables, issued, req, answer>>

Pcs == {"idle", "handler", "review", "update", "delete", "validate", "write", "remove"}

Answers == {"none", "ok", "denied", "notFound", "invalid", "internal"}

Request == [pc : Pcs,
            op : BookOps \cup ReviewOps \cup {""},
            user : Principals \cup {""},
            verified : BOOLEAN,
            id : BookIds \cup ReviewIds \cup {""},
            row : BookRow \cup ReviewRow \cup {NoRow},
            update : BookUpdate \cup ReviewUpdate \cup {NoRow}]

Idle == [pc |-> "idle", op |-> "", user |-> "", verified |-> FALSE,
         id |-> "", row |-> NoRow, update |-> NoRow]

At(c, pc, ops) == req[c].pc = pc /\ req[c].op \in ops

\* The request of c goes on with the next call, as request record r.
Continue(c, r) ==
    /\ req' = [req EXCEPT ![c] = r]
    /\ UNCHANGED answer

\* The handler of c returns with outcome o.
Answer(c, o) ==
    /\ req' = [req EXCEPT ![c] = Idle]
    /\ answer' = [answer EXCEPT ![c] = o]

Init ==
    /\ accounts = Users
    /\ verified = {}
    /\ books = [b \in BookIds |-> NoRow]
    /\ reviews = [r \in ReviewIds |-> NoRow]
    /\ issued = {}
    /\ req = [c \in Clients |-> Idle]
    /\ answer = [c \in Clients |-> "none"]

-----------------------------------------------------------------------------
(***************************************************************************)
(* PocketBase records.                                                     *)
(***************************************************************************)

BookFields_Bug(row) == row.author \in accounts

NoAuthorLookup_Bug(row) == row.status \in Statuses

\* The validators of the books fields.
BookFields(row) == row.status \in Statuses /\ row.author \in accounts

\* The validators of the reviews fields; both relations are looked up.
ReviewFields(row) ==
    /\ books[row.book] # NoRow
    /\ row.reviewer \in accounts
    /\ row.content # ""
    /\ row.rating \in Ratings

SetBookFields_Bug(row, u) ==
    [row EXCEPT !.title = IF u.title = "" THEN @ ELSE u.title]

\* record.Set for the fields whose pointer is not nil.
SetBookFields(row, u) ==
    [row EXCEPT !.title  = IF u.title = ""  THEN @ ELSE u.title,
                !.status = IF u.status = "" THEN @ ELSE u.status]

SetReviewFields(row, u) ==
    [row EXCEPT !.content = IF u.content = "" THEN @ ELSE u.content,
                !.rating  = IF u.rating = 0   THEN @ ELSE u.rating]

Column_Bug(stored, loaded, new) == new

(***************************************************************************)
(* The UPDATE of a record that was loaded as "loaded" and saved as "new",  *)
(* when the table now holds "stored": the columns that differ from the     *)
(* record as it was loaded are set, the others keep what is stored.        *)
(***************************************************************************)
Column(stored, loaded, new) == IF new # loaded THEN new ELSE stored

BookColumns(stored, loaded, new) ==
    [title  |-> Column(stored.title, loaded.title, new.title),
     author |-> Column(stored.author, loaded.author, new.author),
     status |-> Column(stored.status, loaded.status, new.status)]

ReviewColumns(stored, loaded, new) ==
    [book     |-> Column(stored.book, loaded.book, new.book),
     reviewer |-> Column(stored.reviewer, loaded.reviewer, new.reviewer),
     content  |-> Column(stored.content, loaded.content, new.content),
     rating   |-> Column(stored.rating, loaded.rating, new.rating)]

\* The required relations reviews.book, books.author and reviews.reviewer:
\* PocketBase does not delete a record that one of them points to.
ReviewsOf(b) == {r \in ReviewIds : reviews[r] # NoRow /\ reviews[r].book = b}

Authored(u) ==
    \/ \E b \in BookIds : books[b] # NoRow /\ books[b].author = u
    \/ \E r \in ReviewIds : reviews[r] # NoRow /\ reviews[r].reviewer = u

-----------------------------------------------------------------------------
CreateRow_Bug(c, op, ids, row) ==
    \E id \in ids :
        /\ issued' = issued \cup {id}
        /\ Continue(c, [req[c] EXCEPT !.pc = "validate", !.op = op,
                                      !.id = id, !.row = row])
        /\ UNCHANGED <<users, tables>>

(***************************************************************************)
(* Store.CreateBook and Store.CreateReview.  NewRecord and Set touch       *)
(* memory only, so the handler's step runs on to the validation.           *)
(***************************************************************************)
CreateRow(c, op, ids, row) ==
    \E id \in ids \ issued :
        /\ issued' = issued \cup {id}
        /\ Continue(c, [req[c] EXCEPT !.pc = "validate", !.op = op,
                                      !.id = id, !.row = row])
        /\ UNCHANGED <<users, tables>>

InsertBook(c) ==
    /\ At(c, "write", {"CreateBook"})
    /\ books' = [books EXCEPT ![req[c].id] = req[c].row]
    /\ Answer(c, "ok")
    /\ UNCHANGED <<users, reviews, issued>>

InsertReview(c) ==
    /\ At(c, "write", {"CreateReview"})
    /\ reviews' = [reviews EXCEPT ![req[c].id] = req[c].row]
    /\ Answer(c, "ok")
    /\ UNCHANGED <<users, books, issued>>

(***************************************************************************)
(* Store.UpdateBook and Store.UpdateReview: FindRecordById loads the row   *)
(* once more, the rest is Save.                                            *)
(***************************************************************************)
FindForUpdate_Bug(c, op, table) ==
    /\ At(c, "update", {op})
    /\ table[req[c].id] # NoRow
    /\ Continue(c, [req[c] EXCEPT !.pc = "validate", !.row = table[req[c].id]])
    /\ UNCHANGED <<users, tables, issued>>

FindForUpdate(c, op, table) ==
    /\ At(c, "update", {op})
    /\ LET row == table[req[c].id]
       IN  \/ row = NoRow /\ Answer(c, "notFound")
           \/ row # NoRow /\ Continue(c, [req[c] EXCEPT !.pc = "validate", !.row = row])
    /\ UNCHANGED <<users, tables, issued>>

FindBookForUpdate(c)   == FindForUpdate(c, "UpdateBook", books)
FindReviewForUpdate(c) == FindForUpdate(c, "UpdateReview", reviews)

\* The record in memory that Save validates and writes for request record q.
BookToSave(q) ==
    IF q.op = "CreateBook" THEN q.row ELSE SetBookFields(q.row, q.update)

ReviewToSave(q) ==
    IF q.op = "CreateReview" THEN q.row ELSE SetReviewFields(q.row, q.update)

Validate(c, ops, valid) ==
    /\ At(c, "validate", ops)
    /\ \/ valid /\ Continue(c, [req[c] EXCEPT !.pc = "write"])
       \/ ~valid /\ Answer(c, "internal")
    /\ UNCHANGED <<users, tables, issued>>

ValidateBook(c) ==
    Validate(c, {"CreateBook", "UpdateBook"}, BookFields(BookToSave(req[c])))
ValidateReview(c) ==
    Validate(c, {"CreateReview", "UpdateReview"}, ReviewFields(ReviewToSave(req[c])))

WriteBook_Bug(c) ==
    /\ At(c, "write", {"UpdateBook"})
    /\ books' = [books EXCEPT ![req[c].id] = BookToSave(req[c])]
    /\ Answer(c, "ok")
    /\ UNCHANGED <<users, reviews, issued>>

\* The UPDATE of a row that is gone changes nothing and is no error.
WriteBook(c) ==
    /\ At(c, "write", {"UpdateBook"})
    /\ books' = [books EXCEPT ![req[c].id] =
                   IF @ = NoRow THEN NoRow ELSE BookColumns(@, req[c].row, BookToSave(req[c]))]
    /\ Answer(c, "ok")
    /\ UNCHANGED <<users, reviews, issued>>

WriteReview_Bug(c) ==
    /\ At(c, "write", {"UpdateReview"})
    /\ reviews' = [reviews EXCEPT ![req[c].id] = ReviewToSave(req[c])]
    /\ Answer(c, "ok")
    /\ UNCHANGED <<users, books, issued>>

WriteReview(c) ==
    /\ At(c, "write", {"UpdateReview"})
    /\ reviews' = [reviews EXCEPT ![req[c].id] =
                     IF @ = NoRow THEN NoRow ELSE ReviewColumns(@, req[c].row, ReviewToSave(req[c]))]
    /\ Answer(c, "ok")
    /\ UNCHANGED <<users, books, issued>>

(***************************************************************************)
(* Store.DeleteBook and Store.DeleteReview.                                *)
(***************************************************************************)
FindForDelete(c, op, table) ==
    /\ At(c, "delete", {op})
    /\ \/ table[req[c].id] = NoRow /\ Answer(c, "notFound")
       \/ table[req[c].id] # NoRow /\ Continue(c, [req[c] EXCEPT !.pc = "remove"])
    /\ UNCHANGED <<users, tables, issued>>

FindBookForDelete(c)   == FindForDelete(c, "DeleteBook", books)
FindReviewForDelete(c) == FindForDelete(c, "DeleteReview", reviews)

RemoveBook_Bug(c) ==
    /\ At(c, "remove", {"DeleteBook"})
    /\ books' = [books EXCEPT ![req[c].id] = NoRow]
    /\ Answer(c, IF ReviewsOf(req[c].id) = {} THEN "ok" ELSE "internal")
    /\ UNCHANGED <<users, reviews, issued>>

RemoveBook(c) ==
    /\ At(c, "remove", {"DeleteBook"})
    /\ \/ /\ ReviewsOf(req[c].id) # {}   \* the transaction is rolled back
          /\ Answer(c, "internal")
          /\ UNCHANGED books
       \/ /\ ReviewsOf(req[c].id) = {}
          /\ books' = [books EXCEPT ![req[c].id] = NoRow]
          /\ Answer(c, "ok")
    /\ UNCHANGED <<users, reviews, issued>>

RemoveReview(c) ==
    /\ At(c, "remove", {"DeleteReview"})
    /\ reviews' = [reviews EXCEPT ![req[c].id] = NoRow]
    /\ Answer(c, "ok")
    /\ UNCHANGED <<users, books, issued>>

StoreStep(c) ==
    \/ ValidateBook(c) \/ InsertBook(c) \/ FindBookForUpdate(c) \/ WriteBook(c)
    \/ ValidateReview(c) \/ InsertReview(c) \/ FindReviewForUpdate(c) \/ WriteReview(c)
    \/ FindBookForDelete(c) \/ RemoveBook(c)
    \/ FindReviewForDelete(c) \/ RemoveReview(c)

(***************************************************************************)
(* The database call of c fails.  A failure to read one record is taken    *)
(* for an absent row; the lists, the look-up of the collection before a    *)
(* create, Save and Delete return the error and have changed nothing.      *)
(***************************************************************************)
StoreFails(c) ==
    /\ \/ req[c].pc \in {"handler", "review", "update", "delete"} /\ Answer(c, "notFound")
       \/ req[c].pc \in {"handler", "validate", "write", "remove"} /\ Answer(c, "internal")
    /\ UNCHANGED <<users, tables, issued>>

-----------------------------------------------------------------------------
(***************************************************************************)
(* The users collection, as far as books and reviews depend on it.         *)
(***************************************************************************)

\* The verification link, or the emailed code of a login, was used.
VerifyAccount(u) ==
    /\ u \in accounts \ verified
    /\ verified' = verified \cup {u}
    /\ UNCHANGED <<accounts, tables, issued, req, answer>>

\* PocketBase's own API lets a user delete their account (the deleteRule of
\* the users collection), unless a required relation still points to it.
DeleteAccount(u) ==
    /\ u \in accounts
    /\ ~Authored(u)
    /\ accounts' = accounts \ {u}
    /\ UNCHANGED <<verified, tables, issued, req, answer>>

=============================================================================
