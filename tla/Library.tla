------------------------------ MODULE Library ------------------------------
(***************************************************************************)
(* internal/library: the ConnectRPC handlers for books and reviews, each   *)
(* over the policies (module Policy) and the store (module PbStore), for   *)
(* any number of requests in flight.                                       *)
(*                                                                         *)
(* A handler authenticates, reads what its policy needs, authorizes on     *)
(* that snapshot and only then calls the store, which reads once more      *)
(* before it writes: everything between the first read and the write may   *)
(* be overtaken by other requests.  An answer is one of the outcomes the   *)
(* handler decides on (ok, denied, notFound, invalid, internal); messages  *)
(* and response bodies are left out.  What the read-only handlers show is  *)
(* said by the operators Listed, IsOwner, ... below.  Definitions named    *)
(* _Bug are for the mutation check.                                        *)
(***************************************************************************)
EXTENDS PbStore, Policy

-----------------------------------------------------------------------------
(***************************************************************************)
(* Authentication: authz.Interceptor finds the auth record of the token    *)
(* and keeps its id and verified flag for the rest of the request.  A      *)
(* token of any auth collection will do, and superusers are verified.      *)
(***************************************************************************)
Interceptor(c) ==
    /\ req[c].pc = "idle"
    /\ \E u \in accounts \cup Superusers :
         req' = [req EXCEPT ![c] =
                   [Idle EXCEPT !.pc = "handler", !.user = u,
                                !.verified = u \in verified \cup Superusers]]
    /\ answer' = [answer EXCEPT ![c] = "none"]
    /\ UNCHANGED <<users, tables, issued>>

\* authz.Authorize for the caller of request c.
CallerMay(c, action, resource) ==
    Authorize(req[c].user, req[c].verified, action, resource)

-----------------------------------------------------------------------------
(***************************************************************************)
(* Books.                                                                  *)
(***************************************************************************)
CreateBook(c) ==
    /\ req[c].pc = "handler"
    /\ \/ /\ ~CallerMay(c, "CreateBook", BookEntity("", ""))
          /\ Answer(c, "denied")
          /\ UNCHANGED <<users, tables, issued>>
       \/ /\ CallerMay(c, "CreateBook", BookEntity("", ""))
          /\ \E t \in Titles \cup {""} :
               CreateRow(c, "CreateBook", BookIds,
                         [title |-> t, author |-> req[c].user, status |-> "draft"])

\* The handlers of one existing book b: GetBook, Authorize on what it returned,
\* then the store call that continues as request "next".
WithBook(c, b, action, next) ==
    /\ \/ books[b] = NoRow /\ Answer(c, "notFound")
       \/ /\ books[b] # NoRow
          /\ LET book == BookEntity(books[b].author, books[b].status)
             IN  \/ ~CallerMay(c, action, book) /\ Answer(c, "denied")
                 \/ CallerMay(c, action, book) /\ Continue(c, next)
    /\ UNCHANGED <<users, tables, issued>>

\* GetBook and ListBooks leave nothing behind.
GetBook(c) ==
    /\ req[c].pc = "handler"
    /\ \E b \in BookIds :
         \/ books[b] = NoRow /\ Answer(c, "notFound")
         \/ /\ books[b] # NoRow
            /\ Answer(c, IF CallerMay(c, "GetBook", BookEntity(books[b].author, books[b].status))
                         THEN "ok" ELSE "denied")
    /\ UNCHANGED <<users, tables, issued>>

\* ListBooks and ListReviews name no resource.
List(c, action, entity) ==
    /\ req[c].pc = "handler"
    /\ Answer(c, IF CallerMay(c, action, entity) THEN "ok" ELSE "denied")
    /\ UNCHANGED <<users, tables, issued>>

ListBooks(c)   == List(c, "ListBooks", BookEntity("", ""))

UpdateBook(c) ==
    /\ req[c].pc = "handler"
    /\ \E b \in BookIds, u \in BookUpdate :
         WithBook(c, b, "UpdateBook",
                  [req[c] EXCEPT !.pc = "update", !.op = "UpdateBook",
                                 !.id = b, !.update = u])

DeleteBook(c) ==
    /\ req[c].pc = "handler"
    /\ \E b \in BookIds :
         WithBook(c, b, "DeleteBook",
                  [req[c] EXCEPT !.pc = "delete", !.op = "DeleteBook", !.id = b])

-----------------------------------------------------------------------------
(***************************************************************************)
(* Reviews.                                                                *)
(***************************************************************************)
CreateReview(c) ==
    /\ req[c].pc = "handler"
    /\ \E b \in BookIds, text \in Contents \cup {""}, n \in RatingInputs :
         LET review == ReviewEntity(req[c].user, books[b].author)
         IN  \/ /\ \/ books[b] = NoRow /\ Answer(c, "notFound")
                   \/ /\ books[b] # NoRow
                      /\ ~CallerMay(c, "CreateReview", review)
                      /\ Answer(c, "denied")
                   \/ /\ books[b] # NoRow
                      /\ CallerMay(c, "CreateReview", review)
                      /\ n \notin Ratings
                      /\ Answer(c, "invalid")
                /\ UNCHANGED <<users, tables, issued>>
             \/ /\ books[b] # NoRow
                /\ CallerMay(c, "CreateReview", review)
                /\ n \in Ratings
                /\ CreateRow(c, "CreateReview", ReviewIds,
                             [book |-> b, reviewer |-> req[c].user,
                              content |-> text, rating |-> n])

ListReviews(c) == List(c, "ListReviews", ReviewEntity("", ""))

\* The handlers of one existing review read it first, then its book.
GetReview(c, op) ==
    /\ req[c].pc = "handler"
    /\ \E r \in ReviewIds :
         \/ reviews[r] = NoRow /\ Answer(c, "notFound")
         \/ /\ reviews[r] # NoRow
            /\ Continue(c, [req[c] EXCEPT !.pc = "review", !.op = op,
                                          !.id = r, !.row = reviews[r]])
    /\ UNCHANGED <<users, tables, issued>>

\* The caller c may do "op" to the review it read: the review's own columns
\* are those of the first read, the author is that of the second.
MayTouchReview(c) ==
    CallerMay(c, req[c].op,
              ReviewEntity(req[c].row.reviewer, books[req[c].row.book].author))

\* The second read, and what the handlers do when it or the policy fails.
GetReviewedBook(c, op) ==
    /\ At(c, "review", {op})
    /\ \/ books[req[c].row.book] = NoRow /\ Answer(c, "notFound")
       \/ /\ books[req[c].row.book] # NoRow
          /\ ~MayTouchReview(c)
          /\ Answer(c, "denied")
    /\ UNCHANGED <<users, tables, issued>>

ShowReview(c) ==
    \/ GetReview(c, "GetReview")
    \/ GetReviewedBook(c, "GetReview")
    \/ /\ At(c, "review", {"GetReview"})
       /\ books[req[c].row.book] # NoRow
       /\ MayTouchReview(c)
       /\ Answer(c, "ok")
       /\ UNCHANGED <<users, tables, issued>>

UpdateReview(c) ==
    \/ GetReview(c, "UpdateReview")
    \/ GetReviewedBook(c, "UpdateReview")
    \/ /\ At(c, "review", {"UpdateReview"})
       /\ books[req[c].row.book] # NoRow
       /\ MayTouchReview(c)
       /\ \E u \in ReviewUpdate :
            \/ u.rating \notin Ratings \cup {0} /\ Answer(c, "invalid")
            \/ /\ u.rating \in Ratings \cup {0}
               /\ Continue(c, [req[c] EXCEPT !.pc = "update", !.row = NoRow, !.update = u])
       /\ UNCHANGED <<users, tables, issued>>

DeleteReview(c) ==
    \/ GetReview(c, "DeleteReview")
    \/ GetReviewedBook(c, "DeleteReview")
    \/ /\ At(c, "review", {"DeleteReview"})
       /\ books[req[c].row.book] # NoRow
       /\ MayTouchReview(c)
       /\ Continue(c, [req[c] EXCEPT !.pc = "delete", !.row = NoRow])
       /\ UNCHANGED <<users, tables, issued>>

-----------------------------------------------------------------------------
HandlerStep(c) ==
    \/ CreateBook(c) \/ UpdateBook(c) \/ DeleteBook(c)
    \/ CreateReview(c) \/ UpdateReview(c) \/ DeleteReview(c)
    \/ GetBook(c) \/ ListBooks(c) \/ ShowReview(c) \/ ListReviews(c)

Next ==
    \/ \E c \in Clients :
         Interceptor(c) \/ HandlerStep(c) \/ StoreStep(c) \/ StoreFails(c)
    \/ \E u \in Users : VerifyAccount(u) \/ DeleteAccount(u)

Spec == Init /\ [][Next]_vars

\* The runtime schedules every goroutine: a request that can go on does so.
\* The database need not fail to let it.
FairSpec ==
    Spec /\ \A c \in Clients : WF_vars(HandlerStep(c)) /\ WF_vars(StoreStep(c))

-----------------------------------------------------------------------------
(***************************************************************************)
(* What the read-only handlers show.                                       *)
(***************************************************************************)

\* ListBooks (and the books page) leaves out a draft of somebody else.
Listed(userID, book) == ~(book.status = "draft" /\ book.author # userID)

\* The book page offers edit, publish and delete to the owner, the review
\* form to everybody else, and a delete button on some reviews.
IsOwner(userID, book)   == book.author = userID
CanReview(userID, book) == book.author # userID

CanDelete_Bug(userID, review, book) == review.reviewer = userID

CanDelete(userID, review, book) ==
    review.reviewer = userID \/ book.author = userID

LiveBooks   == {b \in BookIds : books[b] # NoRow}
LiveReviews == {r \in ReviewIds : reviews[r] # NoRow}

-----------------------------------------------------------------------------
(***************************************************************************)
(* Invariants.                                                             *)
(***************************************************************************)

(***************************************************************************)
(* The type invariant.  That the tables hold Book and Review rows, and not *)
(* just any row a request can carry, is the work of the store's validation *)
(* and of the checks in CreateReview and UpdateReview.                     *)
(***************************************************************************)
TypeOK ==
    /\ accounts \subseteq Users
    /\ verified \subseteq Users
    /\ books \in [BookIds -> Book \cup {NoRow}]
    /\ reviews \in [ReviewIds -> Review \cup {NoRow}]
    /\ issued \subseteq BookIds \cup ReviewIds
    /\ req \in [Clients -> Request]
    /\ answer \in [Clients -> Answers]

(***************************************************************************)
(* Nobody has reviewed a book of their own.  CreateReview authorizes on    *)
(* the author it read some steps before the INSERT; the invariant says     *)
(* that nothing done in between by other requests makes that stale.        *)
(***************************************************************************)
NoSelfReview ==
    \A r \in LiveReviews : \A b \in LiveBooks :
        reviews[r].book = b => reviews[r].reviewer # books[b].author

(***************************************************************************)
(* The visibility rule is written twice: as the loop of ListBooks in Go    *)
(* and as two permit statements for GetBook in Cedar.  On every book that  *)
(* the table can come to hold they agree: a book is in the list a user     *)
(* gets exactly when that user may open it.                                *)
(***************************************************************************)
ListShowsExactlyGettable ==
    \A u \in Users : \A b \in LiveBooks :
        Listed(u, books[b]) <=>
            Authorize(u, u \in verified, "GetBook",
                      BookEntity(books[b].author, books[b].status))

(***************************************************************************)
(* The buttons of the book page are decided in Go, what they lead to in    *)
(* Cedar.  For a verified user the page offers exactly what is permitted.  *)
(***************************************************************************)
ButtonsMatchPolicy ==
    \A u \in verified : \A b \in LiveBooks :
        LET book == BookEntity(books[b].author, books[b].status)
        IN  /\ \A a \in {"UpdateBook", "DeleteBook"} :
                 IsOwner(u, books[b]) <=> Authorize(u, TRUE, a, book)
            /\ CanReview(u, books[b]) <=>
                 Authorize(u, TRUE, "CreateReview", ReviewEntity(u, books[b].author))
            /\ \A r \in ReviewsOf(b) :
                 CanDelete(u, reviews[r], books[b]) <=>
                   Authorize(u, TRUE, "DeleteReview",
                             ReviewEntity(reviews[r].reviewer, books[b].author))

\* No DELETE of a book comes between the validation of a review of that book
\* and its INSERT.
NoDeleteDuringInsert ==
    \A c, d \in Clients :
        At(c, "write", {"CreateReview"}) /\ At(d, "remove", {"DeleteBook"})
          => req[d].id # req[c].row.book

(***************************************************************************)
(* Every review has its book, as long as NoDeleteDuringInsert: Save looks  *)
(* the book up before the INSERT and outside its transaction, so that a    *)
(* DeleteBook which runs in between strands the new review.  No other      *)
(* overlap of requests does, such as a delete of the book that the handler *)
(* has read and Save has not looked up yet, or of one with older reviews.  *)
(***************************************************************************)
EveryReviewHasBook == \A r \in LiveReviews : books[reviews[r].book] # NoRow

-----------------------------------------------------------------------------
(***************************************************************************)
(* The inductive invariant that the theorems of LibraryProofs rest on: on  *)
(* top of TypeOK and NoSelfReview, what is known of the requests that are  *)
(* still under way.                                                        *)
(***************************************************************************)

\* A request record that some handler can have left behind: the arguments of
\* the next store call have the types of that call, and what passed the
\* validation is fit for the table.
WellFormed(q) ==
    /\ q \in Request
    /\ q.pc # "idle" => q.user \in Principals
    /\ q.pc \in {"idle", "handler"} => q.op = ""
    /\ q.pc = "review" => /\ q.op \in {"GetReview", "UpdateReview", "DeleteReview"}
                          /\ q.id \in ReviewIds
                          /\ q.row \in Review
    /\ q.pc = "update" => q.op \in {"UpdateBook", "UpdateReview"}
    /\ q.pc \in {"update", "validate", "write", "delete", "remove"} =>
         /\ q.op \in BookOps => q.id \in BookIds
         /\ q.op \in ReviewOps => q.id \in ReviewIds
         /\ q.op = "UpdateBook" => q.update \in BookUpdate
         /\ q.op = "UpdateReview" => q.update \in ReviewUpdate
    /\ q.pc \in {"validate", "write"} =>
         /\ q.op = "CreateBook" => q.row \in BookRow
         /\ q.op = "UpdateBook" => q.row \in Book
         /\ q.op = "CreateReview" => q.row \in ReviewRow
         /\ q.op = "UpdateReview" => q.row \in Review
    /\ q.pc = "write" =>
         /\ q.op \in {"CreateBook", "UpdateBook"} => BookToSave(q) \in Book
         /\ q.op \in {"CreateReview", "UpdateReview"} => ReviewToSave(q) \in Review

TypeInv == TypeOK /\ \A c \in Clients : WellFormed(req[c])

\* A row, or a request that found the book in the table, refers to book b.
Known(b) ==
    \/ books[b] # NoRow
    \/ \E r \in LiveReviews : reviews[r].book = b
    \/ \E c \in Clients : req[c].op = "CreateReview" /\ req[c].row.book = b
    \/ \E c \in Clients : req[c].op \in {"UpdateBook", "DeleteBook"} /\ req[c].id = b

KnownIsIssued == \A b \in BookIds : Known(b) => b \in issued

\* The id of a book that is still being created is used by nothing else.
NewIdsAreFresh ==
    \A c \in Clients : req[c].op = "CreateBook" =>
        /\ req[c].id \in issued
        /\ ~Known(req[c].id)
        /\ \A d \in Clients :
             req[d].op = "CreateBook" /\ req[d].id = req[c].id => d = c

\* The review that CreateReview is about to insert is no self review either.
NoSelfReviewComing ==
    \A c \in Clients : req[c].op = "CreateReview" =>
        \A b \in LiveBooks :
            req[c].row.book = b => req[c].row.reviewer # books[b].author

\* What the policy has seen of the caller and of the book is still so.
CallersAreVerified ==
    \A c \in Clients : req[c].verified => req[c].user \in verified \cup Superusers

BookWritersAreAuthors ==
    \A c \in Clients : req[c].op \in {"UpdateBook", "DeleteBook"} =>
        /\ req[c].verified
        /\ books[req[c].id] # NoRow => books[req[c].id].author = req[c].user

IInv ==
    /\ TypeInv
    /\ KnownIsIssued
    /\ NewIdsAreFresh
    /\ NoSelfReview
    /\ NoSelfReviewComing
    /\ CallersAreVerified
    /\ BookWritersAreAuthors

\* What request q relies on when it writes, seen of the row it is about.
Granted(q) ==
    /\ q.op = "UpdateBook" /\ q.pc \in {"validate", "write"} /\ books[q.id] # NoRow =>
         /\ q.row.author = books[q.id].author
         /\ q.pc = "write" => q.row.author \in accounts
    /\ q.op \in {"UpdateReview", "DeleteReview"} /\ reviews[q.id] # NoRow =>
         LET r == reviews[q.id]
         IN  /\ q.pc \in {"review", "validate", "write"} =>
                  q.row.book = r.book /\ q.row.reviewer = r.reviewer
             /\ q.pc # "review" =>
                  /\ q.verified
                  /\ books[r.book] # NoRow
                  /\ \/ q.user = r.reviewer
                     \/ q.op = "DeleteReview" /\ q.user = books[r.book].author
             /\ q.pc = "write" => r.reviewer \in accounts

(***************************************************************************)
(* What a handler read, what the policy said and what the validators found *)
(* on behalf of a request is still true when the request comes to write,   *)
(* unless the record itself is gone: the book of a review that is about to *)
(* be changed is still there, the caller is still its reviewer or may      *)
(* still moderate it, and the account that an updated row belongs to       *)
(* exists.                                                                 *)
(***************************************************************************)
GrantsStand == \A c \in Clients : Granted(req[c])

-----------------------------------------------------------------------------
(***************************************************************************)
(* Action properties.                                                      *)
(***************************************************************************)

\* Request c takes a step.
Steps(c) == req'[c] # req[c]

(***************************************************************************)
(* A row of the books table is changed or removed only by a step of a      *)
(* request whose user is the author of that very row and has a verified    *)
(* email, however many steps ago the request was authorized.               *)
(***************************************************************************)
BooksWrittenByAuthor ==
    [][\A b \in LiveBooks : books'[b] # books[b] =>
         \E c \in Clients : /\ Steps(c)
                            /\ req[c].user = books[b].author
                            /\ req[c].user \in verified]_vars

(***************************************************************************)
(* A row of the reviews table is changed only for its verified reviewer,   *)
(* and removed only for the reviewer or the author of the reviewed book.   *)
(***************************************************************************)
ReviewsWrittenByReviewerOrModerator ==
    [][\A r \in LiveReviews : reviews'[r] # reviews[r] =>
         \E c \in Clients :
            /\ Steps(c)
            /\ req[c].user \in verified
            /\ \/ req[c].user = reviews[r].reviewer
               \/ /\ reviews'[r] = NoRow
                  /\ books[reviews[r].book] # NoRow
                  /\ req[c].user = books[reviews[r].book].author]_vars

(***************************************************************************)
(* Concurrent updates of different columns do not undo one another: when   *)
(* a column changes, it takes the value that the request taking the step   *)
(* carries for it.  A title edit that loaded the row before somebody       *)
(* published the book does not make it a draft again.                      *)
(***************************************************************************)
OnlyRequestedColumnsChange ==
    /\ [][\A b \in LiveBooks : \A f \in {"title", "author", "status"} :
            books'[b] # NoRow /\ books'[b][f] # books[b][f] =>
              \E c \in Clients : /\ Steps(c)
                                 /\ f \in DOMAIN req[c].update
                                 /\ books'[b][f] = req[c].update[f]]_vars
    /\ [][\A r \in LiveReviews : \A f \in {"book", "reviewer", "content", "rating"} :
            reviews'[r] # NoRow /\ reviews'[r][f] # reviews[r][f] =>
              \E c \in Clients : /\ Steps(c)
                                 /\ f \in DOMAIN req[c].update
                                 /\ reviews'[r][f] = req[c].update[f]]_vars

\* The ids of a table that are used up: handed out, without a row, and held by
\* no create that may still insert one.
Gone(table, ids, op) ==
    {i \in ids \cap issued :
        /\ table[i] = NoRow
        /\ \A c \in Clients : req[c].op = op => req[c].id # i}

BookTable ==
    INSTANCE Table WITH Ids <- BookIds, Rows <- Book, Fixed <- {"author"},
                        rows <- books, gone <- Gone(books, BookIds, "CreateBook")

ReviewTable ==
    INSTANCE Table WITH Ids <- ReviewIds, Rows <- Review, Fixed <- {"book", "reviewer"},
                        rows <- reviews, gone <- Gone(reviews, ReviewIds, "CreateReview")

(***************************************************************************)
(* The handlers and pbstore implement the abstract table, for books and    *)
(* for reviews: a deleted record stays deleted, though an update that      *)
(* loaded it earlier may still be on its way; a book never changes its     *)
(* author, nor a review its book or reviewer; every row fits its schema.   *)
(***************************************************************************)
BooksAreATable   == BookTable!Spec
ReviewsAreATable == ReviewTable!Spec

\* No other request is about to write or to delete the book that an update
\* has loaded and has not written yet.
Saving(q) == q.op = "UpdateBook" /\ q.pc \in {"validate", "write"}

AboutToChange(d) == At(d, "write", {"UpdateBook"}) \/ At(d, "remove", {"DeleteBook"})

UpdatesApart ==
    \A c, d \in Clients :
        c # d /\ Saving(req[c]) /\ AboutToChange(d) => req[d].id # req[c].id

(***************************************************************************)
(* An update that is answered ok is in the table when the answer goes out, *)
(* as long as UpdatesApart: the row may otherwise be gone, and a column    *)
(* that equals the value loaded is not written even if another request has *)
(* changed it since.  What others change between the handler's read and    *)
(* the store's, or in other tables, does no harm.                          *)
(***************************************************************************)
AckedUpdateIsStored ==
    [][\A c \in Clients :
         (req[c].op = "UpdateBook" /\ Steps(c) /\ answer'[c] = "ok") =>
            LET new == books'[req[c].id]
                u   == req[c].update
            IN  /\ new # NoRow
                /\ u.title \in {"", new.title}
                /\ u.status \in {"", new.status}]_vars

(***************************************************************************)
(* What a stranded review is left to is permanent: without its book it     *)
(* is never changed or removed by any step, because every handler that     *)
(* could do so needs the book first, and no request that got past that     *)
(* check can be under way, since a book with a review is not deleted.      *)
(***************************************************************************)
OrphanReviewsAreFrozen ==
    [][\A r \in LiveReviews :
         books[reviews[r].book] = NoRow => reviews'[r] = reviews[r]]_vars

(***************************************************************************)
(* An account that is deleted while one of its requests is between the     *)
(* validation and the INSERT leaves a row whose author or reviewer does    *)
(* not exist.  Such a row can still be removed but never changed, not even *)
(* by requests that the user sent before: an update is validated after the *)
(* row is there, and from then on either the account or the row is gone.   *)
(***************************************************************************)
RowsOfTheGoneStay ==
    [][/\ \A b \in LiveBooks :
            books[b].author \notin accounts => books'[b] \in {books[b], NoRow}
       /\ \A r \in LiveReviews :
            reviews[r].reviewer \notin accounts => reviews'[r] \in {reviews[r], NoRow}]_vars

-----------------------------------------------------------------------------
(***************************************************************************)
(* Liveness.                                                               *)
(***************************************************************************)

(***************************************************************************)
(* Every request is answered, also when the row it was authorized on       *)
(* disappears before the store finds it again.                             *)
(***************************************************************************)
EveryRequestAnswered == \A c \in Clients : req[c].pc # "idle" ~> req[c].pc = "idle"

=============================================================================
