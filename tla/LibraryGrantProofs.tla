------------------------ MODULE LibraryGrantProofs -------------------------
(***************************************************************************)
(* What a request was granted stands until it writes (GrantsStand), and    *)
(* what follows from it for the writes: who changes a review, what becomes *)
(* of reviews without their book and of rows without their account.        *)
(*                                                                         *)
(* The argument has two halves.  A request that takes a step finds out by  *)
(* that step what its new state claims (Granting).  A request that does    *)
(* not take the step keeps what it has, because no step of another one     *)
(* changes the columns of a row that name other records, removes a book    *)
(* that has a review or an account that has a row, or brings back a row    *)
(* under an id that is in use (Kept).                                      *)
(***************************************************************************)
EXTENDS LibraryTableProofs

ReviewWriters == {"UpdateReview", "DeleteReview"}

\* The ids of reviews that requests want to change are no new ids.
WritersKnowTheirReview ==
    \A d \in Clients : req[d].op \in ReviewWriters =>
        /\ req[d].id \in issued
        /\ \A c \in Clients : req[c].op = "CreateReview" => req[c].id # req[d].id

GrantInv == IdsInv /\ WritersKnowTheirReview /\ GrantsStand

LEMMA GrantTypes ==
    ASSUME GrantInv
    PROVE  /\ TypeInv /\ IInv /\ IdsInv
           /\ books \in [BookIds -> Book \cup {NoRow}]
           /\ reviews \in [ReviewIds -> Review \cup {NoRow}]
           /\ NoRow \notin Book /\ NoRow \notin Review
           /\ \A c \in Clients : WellFormed(req[c]) /\ Granted(req[c])
BY RowsAreRows DEF GrantInv, IdsInv, IInv, TypeInv, TypeOK, GrantsStand

LEMMA InitGrantInv == Init => GrantInv
<1> SUFFICES ASSUME Init PROVE WritersKnowTheirReview /\ GrantsStand
  BY InitIdsInv DEF GrantInv
<1> QED
  BY DEF Init, Idle, WritersKnowTheirReview, ReviewWriters, GrantsStand, Granted

-----------------------------------------------------------------------------
(***************************************************************************)
(* A request that takes no step.                                           *)
(***************************************************************************)

\* The step leaves alone what request q relies on.
Kept(q) ==
    /\ q.op = "UpdateBook" /\ books'[q.id] # NoRow =>
         /\ books[q.id] # NoRow
         /\ books'[q.id].author = books[q.id].author
         /\ books[q.id].author \in accounts => books[q.id].author \in accounts'
    /\ q.op \in ReviewWriters /\ reviews'[q.id] # NoRow =>
         LET r == reviews[q.id]
         IN  /\ r # NoRow
             /\ reviews'[q.id].book = r.book
             /\ reviews'[q.id].reviewer = r.reviewer
             /\ books[r.book] # NoRow =>
                  /\ books'[r.book] # NoRow
                  /\ books'[r.book].author = books[r.book].author
             /\ r.reviewer \in accounts => r.reviewer \in accounts'

\* Only the deletion of an account removes one.
LEMMA AccountsKept ==
    ASSUME [Next]_vars
    PROVE  accounts' = accounts \/ \E u \in Users : DeleteAccount(u)
<1>1. ASSUME NEW c \in Clients, Interceptor(c) PROVE accounts' = accounts
  BY <1>1 DEF Interceptor, users
<1>2. ASSUME NEW c \in Clients, HandlerStep(c) PROVE accounts' = accounts
  BY <1>2 DEF HandlerStep, CreateBook, UpdateBook, DeleteBook, WithBook, CreateReview,
              UpdateReview, DeleteReview, ShowReview, GetReview, GetReviewedBook, GetBook,
              ListBooks, ListReviews, List, CreateRow, users
<1>3. ASSUME NEW c \in Clients, StoreStep(c) PROVE accounts' = accounts
  BY <1>3 DEF StoreStep, ValidateBook, ValidateReview, Validate, InsertBook, InsertReview,
              WriteBook, WriteReview, RemoveBook, RemoveReview, FindBookForUpdate,
              FindReviewForUpdate, FindForUpdate, FindBookForDelete, FindReviewForDelete,
              FindForDelete, users
<1>4. ASSUME NEW c \in Clients, StoreFails(c) PROVE accounts' = accounts
  BY <1>4 DEF StoreFails, users
<1>5. ASSUME NEW u \in Users, VerifyAccount(u) PROVE accounts' = accounts
  BY <1>5 DEF VerifyAccount
<1> QED
  BY <1>1, <1>2, <1>3, <1>4, <1>5 DEF Next, vars, users

LEMMA DeleteAccountKeeps ==
    ASSUME GrantInv, NEW u \in Users, DeleteAccount(u), NEW d \in Clients
    PROVE  Kept(req[d])
<1>1. /\ UNCHANGED <<books, reviews>>
      /\ accounts' = accounts \ {u}
      /\ \A b \in BookIds : books[b] # NoRow => books[b].author # u
      /\ \A r \in ReviewIds : reviews[r] # NoRow => reviews[r].reviewer # u
  BY DEF DeleteAccount, Authored, tables
<1>2. WellFormed(req[d])
  BY GrantTypes
<1>3. /\ req[d].op = "UpdateBook" => req[d].id \in BookIds
      /\ req[d].op \in ReviewWriters => req[d].id \in ReviewIds
  BY <1>2 DEF WellFormed, Request, Pcs, BookOps, ReviewOps, ReviewWriters
<1> QED
  BY <1>1, <1>3 DEF Kept

\* The ids that requests in the store work on.
LEMMA WriterIds ==
    ASSUME TypeInv, NEW d \in Clients
    PROVE  /\ req[d].op \in {"UpdateBook", "DeleteBook"} => req[d].id \in BookIds
           /\ req[d].op \in ReviewWriters => req[d].id \in ReviewIds
BY DEF TypeInv, WellFormed, Request, Pcs, BookOps, ReviewOps, ReviewWriters

LEMMA BookWriteKeeps ==
    ASSUME GrantInv, NEW c \in Clients, InsertBook(c) \/ WriteBook(c) \/ RemoveBook(c),
           accounts' = accounts, NEW d \in Clients
    PROVE  Kept(req[d])
<1>t. /\ TypeInv
      /\ books \in [BookIds -> Book \cup {NoRow}]
      /\ reviews \in [ReviewIds -> Review \cup {NoRow}]
      /\ NoRow \notin Book
  BY GrantTypes
<1>0. reviews' = reviews
  BY DEF InsertBook, WriteBook, RemoveBook
<1>w. \A i \in ReviewIds : reviews[i] # NoRow => reviews[i].book \in BookIds
  BY <1>t DEF Review
<1>d. /\ req[d].op = "UpdateBook" => req[d].id \in BookIds
      /\ req[d].op \in ReviewWriters => req[d].id \in ReviewIds
  BY <1>t, WriterIds
<1>1. CASE InsertBook(c)
  <2>1. /\ req[c].op = "CreateBook"
        /\ books' = [books EXCEPT ![req[c].id] = req[c].row]
    BY <1>1 DEF InsertBook, At
  <2>2. ~Known(req[c].id)
    BY <2>1, GrantTypes DEF IInv, NewIdsAreFresh
  <2>3. req[d].op = "UpdateBook" => req[d].id # req[c].id
    BY <2>2 DEF Known
  <2>4. \A i \in ReviewIds : reviews[i] # NoRow => reviews[i].book # req[c].id
    BY <2>2 DEF Known, LiveReviews
  <2> QED
    BY <1>0, <1>t, <1>w, <1>d, <2>1, <2>3, <2>4 DEF Kept
<1>2. CASE WriteBook(c)
  <2> DEFINE i == req[c].id
             row == BookColumns(books[i], req[c].row, BookToSave(req[c]))
  <2>1. /\ i \in BookIds
        /\ req[c].row \in Book
        /\ BookToSave(req[c]) \in Book
        /\ BookToSave(req[c]).author = req[c].row.author
    BY <1>2, <1>t, WriterIds, SetBookFieldsType
       DEF WriteBook, At, TypeInv, WellFormed, BookToSave
  <2>2. books' = [books EXCEPT ![i] = IF books[i] = NoRow THEN NoRow ELSE row]
    BY <1>2 DEF WriteBook
  <2>3. books[i] # NoRow => row \in Book /\ row.author = books[i].author
    BY <1>t, <2>1, BookColumnsType
  <2> HIDE DEF row
  <2> QED
    BY <1>0, <1>t, <1>w, <1>d, <2>1, <2>2, <2>3 DEF Kept
<1>3. CASE RemoveBook(c)
  <2>1. \/ books' = books
        \/ /\ books' = [books EXCEPT ![req[c].id] = NoRow]
           /\ ReviewsOf(req[c].id) = {}
    BY <1>3 DEF RemoveBook
  <2>2. books' # books => \A i \in ReviewIds : reviews[i] # NoRow => reviews[i].book # req[c].id
    BY <2>1 DEF ReviewsOf
  <2> QED
    BY <1>0, <1>t, <1>w, <1>d, <2>1, <2>2 DEF Kept
<1> QED
  BY <1>1, <1>2, <1>3

LEMMA ReviewWriteKeeps ==
    ASSUME GrantInv, NEW c \in Clients, InsertReview(c) \/ WriteReview(c) \/ RemoveReview(c),
           accounts' = accounts, NEW d \in Clients
    PROVE  Kept(req[d])
<1>t. /\ TypeInv
      /\ reviews \in [ReviewIds -> Review \cup {NoRow}]
      /\ NoRow \notin Review
  BY GrantTypes
<1>0. books' = books
  BY DEF InsertReview, WriteReview, RemoveReview
<1>d. req[d].op \in ReviewWriters => req[d].id \in ReviewIds
  BY <1>t, WriterIds
<1>1. CASE InsertReview(c)
  <2>1. /\ req[c].op = "CreateReview"
        /\ reviews' = [reviews EXCEPT ![req[c].id] = req[c].row]
    BY <1>1 DEF InsertReview, At
  <2>2. req[d].op \in ReviewWriters => req[d].id # req[c].id
    BY <2>1 DEF GrantInv, WritersKnowTheirReview
  <2> QED
    BY <1>0, <1>t, <1>d, <2>1, <2>2 DEF Kept
<1>2. CASE WriteReview(c) \/ RemoveReview(c)
  <2>1. req[c].op # "CreateReview" /\ WritesRow(c)
    BY <1>2 DEF WriteReview, RemoveReview, At, WritesRow
  <2>2. \/ reviews' = reviews
        \/ \E i \in LiveReviews, row \in Review :
             /\ row.book = reviews[i].book
             /\ row.reviewer = reviews[i].reviewer
             /\ reviews' = [reviews EXCEPT ![i] = row]
        \/ \E i \in LiveReviews : reviews' = [reviews EXCEPT ![i] = NoRow]
    BY <2>1, <1>t, ReviewWrite
  <2> QED
    BY <1>0, <1>t, <1>d, <2>2 DEF Kept, LiveReviews
<1> QED
  BY <1>1, <1>2

LEMMA StepKeeps ==
    ASSUME GrantInv, [Next]_vars, NEW d \in Clients
    PROVE  Kept(req[d])
<1>1. CASE \E u \in Users : DeleteAccount(u)
  BY <1>1, DeleteAccountKeeps
<1>2. CASE accounts' = accounts /\ \E c \in Clients : WritesRow(c)
  BY <1>2, BookWriteKeeps, ReviewWriteKeeps DEF WritesRow
<1>3. CASE accounts' = accounts /\ UNCHANGED <<books, reviews>>
  BY <1>3 DEF Kept
<1>4. UNCHANGED <<books, reviews>> \/ \E c \in Clients : WritesRow(c)
  BY StepShape, GrantTypes DEF Shape, GoesOn, Draws
<1> QED
  BY <1>1, <1>2, <1>3, <1>4, AccountsKept

-----------------------------------------------------------------------------
(***************************************************************************)
(* The request that takes the step.                                        *)
(***************************************************************************)

\* After a step of c, what its request claims has been found out, and the
\* review that it works on is one that was there before.
Granting(c) ==
    /\ \A d \in Clients : d # c => req'[d] = req[d]
    /\ Granted(req[c])'
    /\ req'[c].op \in ReviewWriters =>
         \/ req[c].op = req'[c].op /\ req[c].id = req'[c].id
         \/ req'[c].id \in LiveReviews

\* A request with another operation claims nothing.
LEMMA NoClaim ==
    ASSUME TypeInv, NEW c \in Clients, NEW r, req' = [req EXCEPT ![c] = r],
           r.op \notin ReviewWriters,
           r.op = "UpdateBook" => r.pc = "update"
    PROVE  Granting(c)
<1>1. \A d \in Clients : req'[d] = IF d = c THEN r ELSE req[d]
  BY Updated
<1>2. Granted(req[c])'
  BY <1>1 DEF Granted, ReviewWriters
<1> QED
  BY <1>1, <1>2 DEF Granting

LEMMA AnswerGrants ==
    ASSUME TypeInv, NEW c \in Clients, NEW o, Answer(c, o)
    PROVE  Granting(c)
<1>1. req' = [req EXCEPT ![c] = Idle] /\ Idle.op = ""
  BY DEF Answer, Idle
<1> QED
  BY <1>1, NoClaim DEF ReviewWriters

LEMMA InterceptorGrants ==
    ASSUME TypeInv, NEW c \in Clients, Interceptor(c)
    PROVE  Granting(c)
<1>1. PICK u \in accounts \cup Superusers :
        req' = [req EXCEPT ![c] = [Idle EXCEPT !.pc = "handler", !.user = u,
                                               !.verified = u \in verified \cup Superusers]]
  BY DEF Interceptor
<1> DEFINE r == [Idle EXCEPT !.pc = "handler", !.user = u,
                             !.verified = u \in verified \cup Superusers]
<1>2. r.op = ""
  BY DEF Idle
<1> HIDE DEF r
<1>3. req' = [req EXCEPT ![c] = r]
  BY <1>1 DEF r
<1> QED
  BY <1>2, <1>3, NoClaim DEF ReviewWriters

LEMMA CreateGrants ==
    ASSUME TypeInv, NEW c \in Clients, NEW op \in Creates, NEW ids, NEW row,
           CreateRow(c, op, ids, row)
    PROVE  Granting(c)
<1>1. PICK id \in ids \ issued :
        req' = [req EXCEPT ![c] = [req[c] EXCEPT !.pc = "validate", !.op = op,
                                                 !.id = id, !.row = row]]
  BY DEF CreateRow, Continue
<1> DEFINE r == [req[c] EXCEPT !.pc = "validate", !.op = op, !.id = id, !.row = row]
<1>2. r.op = op
  BY DEF TypeInv, WellFormed, Request
<1> HIDE DEF r
<1>3. req' = [req EXCEPT ![c] = r]
  BY <1>1 DEF r
<1> QED
  BY <1>2, <1>3, NoClaim DEF Creates, ReviewWriters

\* The first calls of the handlers of an existing book.
LEMMA WithBookGrants ==
    ASSUME TypeInv, NEW c \in Clients, UpdateBook(c) \/ DeleteBook(c)
    PROVE  Granting(c)
<1>1. \/ \E o : Answer(c, o)
      \/ \E r : /\ req' = [req EXCEPT ![c] = r]
                /\ r.op = "DeleteBook" \/ (r.op = "UpdateBook" /\ r.pc = "update")
  <2>q. WellFormed(req[c])
    BY DEF TypeInv
  <2>1. CASE UpdateBook(c)
    <3>1. PICK b \in BookIds, u \in BookUpdate :
            WithBook(c, b, "UpdateBook",
                     [req[c] EXCEPT !.pc = "update", !.op = "UpdateBook",
                                    !.id = b, !.update = u])
      BY <2>1 DEF UpdateBook
    <3> DEFINE r == [req[c] EXCEPT !.pc = "update", !.op = "UpdateBook",
                                   !.id = b, !.update = u]
    <3>2. r.op = "UpdateBook" /\ r.pc = "update"
      BY <2>q DEF WellFormed, Request
    <3>3. (\E o : Answer(c, o)) \/ req' = [req EXCEPT ![c] = r]
      BY <3>1 DEF WithBook, Continue
    <3> HIDE DEF r
    <3> QED
      BY <3>2, <3>3
  <2>2. CASE DeleteBook(c)
    <3>1. PICK b \in BookIds :
            WithBook(c, b, "DeleteBook",
                     [req[c] EXCEPT !.pc = "delete", !.op = "DeleteBook", !.id = b])
      BY <2>2 DEF DeleteBook
    <3> DEFINE r == [req[c] EXCEPT !.pc = "delete", !.op = "DeleteBook", !.id = b]
    <3>2. r.op = "DeleteBook"
      BY <2>q DEF WellFormed, Request
    <3>3. (\E o : Answer(c, o)) \/ req' = [req EXCEPT ![c] = r]
      BY <3>1 DEF WithBook, Continue
    <3> HIDE DEF r
    <3> QED
      BY <3>2, <3>3
  <2> QED
    BY <2>1, <2>2
<1>2. ASSUME NEW r, req' = [req EXCEPT ![c] = r],
             r.op = "DeleteBook" \/ (r.op = "UpdateBook" /\ r.pc = "update")
      PROVE  Granting(c)
  BY <1>2, NoClaim DEF ReviewWriters
<1> QED
  BY <1>1, <1>2, AnswerGrants

\* Who may change a review and who may remove it.
LEMMA ReviewWritersPolicy ==
    ASSUME NEW u, NEW v \in BOOLEAN, NEW reviewer, NEW author
    PROVE  /\ Authorize(u, v, "UpdateReview", ReviewEntity(reviewer, author))
                => v /\ u = reviewer
           /\ Authorize(u, v, "DeleteReview", ReviewEntity(reviewer, author))
                => v /\ (u = reviewer \/ u = author)
BY DEF Authorize, Principal, ReviewEntity, UserPermits, BookPermits, ReviewPermits, Forbids

\* The first read finds the review, and its columns are those of the table.
LEMMA GetReviewGrants ==
    ASSUME TypeInv, NEW c \in Clients,
           NEW op \in {"GetReview", "UpdateReview", "DeleteReview"}, GetReview(c, op)
    PROVE  Granting(c)
<1>1. CASE \E o : Answer(c, o)
  BY <1>1, AnswerGrants
<1>2. CASE ~\E o : Answer(c, o)
  <2>1. PICK i \in ReviewIds :
          /\ reviews[i] # NoRow
          /\ req' = [req EXCEPT ![c] = [req[c] EXCEPT !.pc = "review", !.op = op,
                                                      !.id = i, !.row = reviews[i]]]
    BY <1>2 DEF GetReview, Continue
  <2> DEFINE r == [req[c] EXCEPT !.pc = "review", !.op = op, !.id = i, !.row = reviews[i]]
  <2>2. r.pc = "review" /\ r.op = op /\ r.id = i /\ r.row = reviews[i]
    BY DEF TypeInv, WellFormed, Request
  <2>3. reviews' = reviews
    BY DEF GetReview, tables
  <2> HIDE DEF r
  <2>4. req' = [req EXCEPT ![c] = r]
    BY <2>1 DEF r
  <2>5. \A d \in Clients : req'[d] = IF d = c THEN r ELSE req[d]
    BY <2>4, Updated
  <2>6. Granted(req[c])'
    BY <2>2, <2>3, <2>5 DEF Granted
  <2> QED
    BY <2>1, <2>2, <2>5, <2>6 DEF Granting, LiveReviews
<1> QED
  BY <1>1, <1>2

\* The second read finds the book, and the policy lets the caller go on.
LEMMA ReviewGrants ==
    ASSUME GrantInv, NEW c \in Clients, At(c, "review", ReviewWriters),
           books[req[c].row.book] # NoRow, MayTouchReview(c),
           NEW r, req' = [req EXCEPT ![c] = r], UNCHANGED <<users, tables, issued>>,
           r.op = req[c].op, r.id = req[c].id, r.user = req[c].user,
           r.verified = req[c].verified, r.pc \in {"update", "delete"}
    PROVE  Granting(c)
<1>t. TypeInv /\ WellFormed(req[c]) /\ Granted(req[c])
  BY GrantTypes
<1>1. \A d \in Clients : req'[d] = IF d = c THEN r ELSE req[d]
  BY <1>t, Updated
<1>2. req[c].op \in ReviewWriters /\ req[c].pc = "review"
  BY DEF At
<1>3. req[c].verified \in BOOLEAN
  BY <1>t DEF WellFormed, Request
<1>4. /\ req[c].verified
      /\ \/ req[c].user = req[c].row.reviewer
         \/ /\ req[c].op = "DeleteReview"
            /\ req[c].user = books[req[c].row.book].author
  BY <1>2, <1>3, ReviewWritersPolicy DEF MayTouchReview, CallerMay, ReviewWriters
<1>5. reviews[req[c].id] # NoRow =>
        /\ req[c].row.book = reviews[req[c].id].book
        /\ req[c].row.reviewer = reviews[req[c].id].reviewer
  BY <1>t, <1>2 DEF Granted, ReviewWriters
<1>6. reviews' = reviews /\ books' = books
  BY DEF tables
<1>7. /\ req'[c].op = req[c].op /\ req'[c].id = req[c].id /\ req'[c].user = req[c].user
      /\ req'[c].verified /\ req'[c].pc \in {"update", "delete"}
  BY <1>1, <1>4
<1>8. reviews[req[c].id] # NoRow =>
        /\ books[reviews[req[c].id].book] # NoRow
        /\ \/ req[c].user = reviews[req[c].id].reviewer
           \/ /\ req[c].op = "DeleteReview"
              /\ req[c].user = books[reviews[req[c].id].book].author
  BY <1>4, <1>5
<1>9. Granted(req[c])'
  BY <1>2, <1>6, <1>7, <1>8 DEF Granted, ReviewWriters
<1> QED
  BY <1>1, <1>9 DEF Granting

LEMMA UpdateReviewGrants ==
    ASSUME GrantInv, NEW c \in Clients, UpdateReview(c)
    PROVE  Granting(c)
<1>t. TypeInv /\ WellFormed(req[c])
  BY GrantTypes
<1>1. CASE \E o : Answer(c, o)
  BY <1>t, <1>1, AnswerGrants
<1>2. CASE GetReview(c, "UpdateReview")
  BY <1>t, <1>2, GetReviewGrants
<1>3. CASE ~(\E o : Answer(c, o)) /\ ~GetReview(c, "UpdateReview")
  <2>1. PICK u \in ReviewUpdate :
          req' = [req EXCEPT ![c] = [req[c] EXCEPT !.pc = "update", !.row = NoRow,
                                                   !.update = u]]
    BY <1>3 DEF UpdateReview, GetReviewedBook, Continue
  <2>2. /\ At(c, "review", ReviewWriters)
        /\ books[req[c].row.book] # NoRow
        /\ MayTouchReview(c)
        /\ UNCHANGED <<users, tables, issued>>
    BY <1>3 DEF UpdateReview, GetReviewedBook, At, ReviewWriters
  <2> DEFINE r == [req[c] EXCEPT !.pc = "update", !.row = NoRow, !.update = u]
  <2>3. /\ r.op = req[c].op /\ r.id = req[c].id /\ r.user = req[c].user
        /\ r.verified = req[c].verified /\ r.pc \in {"update", "delete"}
    BY <1>t DEF WellFormed, Request
  <2> HIDE DEF r
  <2>4. req' = [req EXCEPT ![c] = r]
    BY <2>1 DEF r
  <2> QED
    BY <2>2, <2>3, <2>4, ReviewGrants
<1> QED
  BY <1>1, <1>2, <1>3

LEMMA DeleteReviewGrants ==
    ASSUME GrantInv, NEW c \in Clients, DeleteReview(c)
    PROVE  Granting(c)
<1>t. TypeInv /\ WellFormed(req[c])
  BY GrantTypes
<1>1. CASE \E o : Answer(c, o)
  BY <1>t, <1>1, AnswerGrants
<1>2. CASE GetReview(c, "DeleteReview")
  BY <1>t, <1>2, GetReviewGrants
<1>3. CASE ~(\E o : Answer(c, o)) /\ ~GetReview(c, "DeleteReview")
  <2> DEFINE r == [req[c] EXCEPT !.pc = "delete", !.row = NoRow]
  <2>2. /\ At(c, "review", ReviewWriters)
        /\ books[req[c].row.book] # NoRow
        /\ MayTouchReview(c)
        /\ UNCHANGED <<users, tables, issued>>
        /\ req' = [req EXCEPT ![c] = r]
    BY <1>3 DEF DeleteReview, GetReviewedBook, Continue, At, ReviewWriters
  <2>3. /\ r.op = req[c].op /\ r.id = req[c].id /\ r.user = req[c].user
        /\ r.verified = req[c].verified /\ r.pc \in {"update", "delete"}
    BY <1>t DEF WellFormed, Request
  <2> HIDE DEF r
  <2> QED
    BY <2>2, <2>3, ReviewGrants
<1> QED
  BY <1>1, <1>2, <1>3

LEMMA HandlerGrants ==
    ASSUME GrantInv, NEW c \in Clients, HandlerStep(c)
    PROVE  Granting(c)
<1>t. TypeInv
  BY GrantTypes
<1>1. CASE \E o : Answer(c, o)
  BY <1>t, <1>1, AnswerGrants
<1>2. CASE CreateBook(c) \/ CreateReview(c)
  BY <1>t, <1>1, <1>2, CreateGrants DEF CreateBook, CreateReview, Creates
<1>3. CASE UpdateBook(c) \/ DeleteBook(c)
  BY <1>t, <1>3, WithBookGrants
<1>4. CASE UpdateReview(c) \/ DeleteReview(c)
  BY <1>4, UpdateReviewGrants, DeleteReviewGrants
<1>5. CASE ShowReview(c)
  BY <1>t, <1>1, <1>5, GetReviewGrants DEF ShowReview, GetReviewedBook
<1>6. CASE GetBook(c) \/ ListBooks(c) \/ ListReviews(c)
  BY <1>1, <1>6, ReadsAnswer
<1> QED
  BY <1>2, <1>3, <1>4, <1>5, <1>6 DEF HandlerStep

\* FindRecordById for an update: the loaded row is the one in the table.
LEMMA FindForUpdateGrants ==
    ASSUME GrantInv, NEW c \in Clients, FindBookForUpdate(c) \/ FindReviewForUpdate(c)
    PROVE  Granting(c)
<1>t. TypeInv /\ WellFormed(req[c]) /\ Granted(req[c])
  BY GrantTypes
<1>1. CASE \E o : Answer(c, o)
  BY <1>t, <1>1, AnswerGrants
<1>2. ASSUME NEW op \in {"UpdateBook", "UpdateReview"}, NEW row,
             At(c, "update", {op}),
             req' = [req EXCEPT ![c] = [req[c] EXCEPT !.pc = "validate", !.row = row]],
             UNCHANGED <<users, tables, issued>>,
             op = "UpdateBook" => row = books[req[c].id],
             op = "UpdateReview" => row = reviews[req[c].id]
      PROVE  Granting(c)
  <2> DEFINE r == [req[c] EXCEPT !.pc = "validate", !.row = row]
  <2>1. /\ r.op = req[c].op /\ r.id = req[c].id /\ r.user = req[c].user
        /\ r.verified = req[c].verified /\ r.pc = "validate" /\ r.row = row
    BY <1>t DEF WellFormed, Request
  <2> HIDE DEF r
  <2>2. req' = [req EXCEPT ![c] = r]
    BY <1>2 DEF r
  <2>3. \A d \in Clients : req'[d] = IF d = c THEN r ELSE req[d]
    BY <1>t, <2>2, Updated
  <2>4. reviews' = reviews /\ books' = books
    BY <1>2 DEF tables
  <2>5. req[c].op = op /\ req[c].pc = "update"
    BY <1>2 DEF At
  <2>6. CASE op = "UpdateBook"
    <3>1. Granted(req[c])'
      BY <1>2, <2>1, <2>3, <2>4, <2>5, <2>6 DEF Granted
    <3> QED
      BY <2>1, <2>3, <3>1 DEF Granting
  <2>7. CASE op = "UpdateReview"
    <3>1. reviews[req[c].id] # NoRow =>
            /\ req[c].verified
            /\ books[reviews[req[c].id].book] # NoRow
            /\ req[c].user = reviews[req[c].id].reviewer
      BY <1>t, <2>5, <2>7 DEF Granted
    <3>2. Granted(req[c])'
      BY <1>2, <2>1, <2>3, <2>4, <2>5, <2>7, <3>1 DEF Granted
    <3> QED
      BY <2>1, <2>3, <3>2 DEF Granting
  <2> QED
    BY <2>6, <2>7
<1>3. CASE FindBookForUpdate(c)
  BY <1>1, <1>2, <1>3 DEF FindBookForUpdate, FindForUpdate, Continue
<1>4. CASE FindReviewForUpdate(c)
  BY <1>1, <1>2, <1>4 DEF FindReviewForUpdate, FindForUpdate, Continue
<1> QED
  BY <1>3, <1>4

\* The validators look the account up that the row belongs to.
LEMMA ValidateGrants ==
    ASSUME GrantInv, NEW c \in Clients, ValidateBook(c) \/ ValidateReview(c)
    PROVE  Granting(c)
<1>t. TypeInv /\ WellFormed(req[c]) /\ Granted(req[c])
  BY GrantTypes
<1>1. CASE \E o : Answer(c, o)
  BY <1>t, <1>1, AnswerGrants
<1>2. CASE ~\E o : Answer(c, o)
  <2> DEFINE r == [req[c] EXCEPT !.pc = "write"]
  <2>1. /\ r.op = req[c].op /\ r.id = req[c].id /\ r.user = req[c].user
        /\ r.verified = req[c].verified /\ r.pc = "write" /\ r.row = req[c].row
    BY <1>t DEF WellFormed, Request
  <2>2. /\ req' = [req EXCEPT ![c] = r]
        /\ req[c].pc = "validate"
        /\ UNCHANGED <<users, tables>>
    BY <1>2 DEF ValidateBook, ValidateReview, Validate, At, Continue
  <2> HIDE DEF r
  <2>3. \A d \in Clients : req'[d] = IF d = c THEN r ELSE req[d]
    BY <1>t, <2>2, Updated
  <2>4. reviews' = reviews /\ books' = books /\ accounts' = accounts
    BY <2>2 DEF tables, users
  <2>5. req[c].op \in {"CreateBook", "UpdateBook", "CreateReview", "UpdateReview"}
    BY DEF ValidateBook, ValidateReview, Validate, At
  <2>6. CASE req[c].op = "UpdateBook"
    <3>1. BookToSave(req[c]).author \in accounts
      BY <1>2, <2>6 DEF ValidateBook, ValidateReview, Validate, At, BookFields
    <3>2. BookToSave(req[c]).author = req[c].row.author
      BY <1>t, <2>2, <2>6 DEF BookToSave, SetBookFields, WellFormed, Book
    <3>3. books[req[c].id] # NoRow => req[c].row.author = books[req[c].id].author
      BY <1>t, <2>2, <2>6 DEF Granted
    <3>4. Granted(req[c])'
      BY <2>1, <2>3, <2>4, <2>6, <3>1, <3>2, <3>3 DEF Granted
    <3> QED
      BY <2>1, <2>3, <3>4 DEF Granting
  <2>7. CASE req[c].op = "UpdateReview"
    <3>1. ReviewToSave(req[c]).reviewer \in accounts
      BY <1>2, <2>7 DEF ValidateBook, ValidateReview, Validate, At, ReviewFields
    <3>2. ReviewToSave(req[c]).reviewer = req[c].row.reviewer
      BY <1>t, <2>2, <2>7 DEF ReviewToSave, SetReviewFields, WellFormed, Review
    <3>3. reviews[req[c].id] # NoRow =>
            /\ req[c].row.book = reviews[req[c].id].book
            /\ req[c].row.reviewer = reviews[req[c].id].reviewer
            /\ req[c].verified
            /\ books[reviews[req[c].id].book] # NoRow
            /\ req[c].user = reviews[req[c].id].reviewer
      BY <1>t, <2>2, <2>7 DEF Granted
    <3>4. Granted(req[c])'
      BY <2>1, <2>3, <2>4, <2>7, <3>1, <3>2, <3>3 DEF Granted
    <3> QED
      BY <2>1, <2>3, <3>4 DEF Granting
  <2>8. CASE req[c].op \in Creates
    BY <1>t, <2>1, <2>2, <2>8, NoClaim DEF Creates, ReviewWriters
  <2> QED
    BY <2>5, <2>6, <2>7, <2>8 DEF Creates
<1> QED
  BY <1>1, <1>2

LEMMA FindForDeleteGrants ==
    ASSUME GrantInv, NEW c \in Clients, FindBookForDelete(c) \/ FindReviewForDelete(c)
    PROVE  Granting(c)
<1>t. TypeInv /\ WellFormed(req[c]) /\ Granted(req[c])
  BY GrantTypes
<1>1. CASE \E o : Answer(c, o)
  BY <1>t, <1>1, AnswerGrants
<1>2. CASE ~\E o : Answer(c, o)
  <2> DEFINE r == [req[c] EXCEPT !.pc = "remove"]
  <2>1. /\ r.op = req[c].op /\ r.id = req[c].id /\ r.user = req[c].user
        /\ r.verified = req[c].verified /\ r.pc = "remove" /\ r.row = req[c].row
    BY <1>t DEF WellFormed, Request
  <2>2. /\ req' = [req EXCEPT ![c] = r]
        /\ req[c].pc = "delete"
        /\ req[c].op \in {"DeleteBook", "DeleteReview"}
        /\ UNCHANGED <<users, tables>>
    BY <1>2 DEF FindBookForDelete, FindReviewForDelete, FindForDelete, At, Continue
  <2> HIDE DEF r
  <2>3. \A d \in Clients : req'[d] = IF d = c THEN r ELSE req[d]
    BY <1>t, <2>2, Updated
  <2>4. reviews' = reviews /\ books' = books
    BY <2>2 DEF tables
  <2>5. req[c].op = "DeleteReview" /\ reviews[req[c].id] # NoRow =>
          /\ req[c].verified
          /\ books[reviews[req[c].id].book] # NoRow
          /\ \/ req[c].user = reviews[req[c].id].reviewer
             \/ req[c].user = books[reviews[req[c].id].book].author
    BY <1>t, <2>2 DEF Granted
  <2>6. Granted(req[c])'
    BY <2>1, <2>2, <2>3, <2>4, <2>5 DEF Granted
  <2> QED
    BY <2>1, <2>3, <2>6 DEF Granting
<1> QED
  BY <1>1, <1>2

LEMMA StoreGrants ==
    ASSUME GrantInv, NEW c \in Clients, StoreStep(c) \/ StoreFails(c)
    PROVE  Granting(c)
<1>1. CASE \E o : Answer(c, o)
  BY <1>1, GrantTypes, AnswerGrants
<1>2. CASE StoreFails(c)
  BY <1>1, <1>2 DEF StoreFails
<1>3. CASE WritesRow(c)
  BY <1>1, <1>3 DEF WritesRow, InsertBook, InsertReview, WriteBook, WriteReview,
                    RemoveBook, RemoveReview
<1> QED
  BY <1>2, <1>3, FindForUpdateGrants, ValidateGrants, FindForDeleteGrants
     DEF StoreStep, WritesRow

-----------------------------------------------------------------------------
LEMMA StepGrants ==
    ASSUME GrantInv, [Next]_vars
    PROVE  (\E c \in Clients : Granting(c)) \/ req' = req
<1>1. ASSUME NEW u \in Users, VerifyAccount(u) \/ DeleteAccount(u) PROVE req' = req
  BY <1>1 DEF VerifyAccount, DeleteAccount
<1>2. CASE UNCHANGED vars
  BY <1>2 DEF vars
<1> QED
  BY <1>1, <1>2, GrantTypes, InterceptorGrants, HandlerGrants, StoreGrants DEF Next

\* A request that took no step keeps its claims.
LEMMA OthersKeep ==
    ASSUME GrantInv, [Next]_vars, NEW d \in Clients, req'[d] = req[d]
    PROVE  Granted(req[d])'
<1>1. Granted(req[d]) /\ Kept(req[d])
  BY GrantTypes, StepKeeps
<1>2. CASE req[d].op = "UpdateBook"
  BY <1>1, <1>2 DEF Granted, Kept
<1>3. CASE req[d].op \in ReviewWriters
  BY <1>1, <1>3 DEF Granted, Kept, ReviewWriters
<1>4. CASE req[d].op \notin {"UpdateBook"} \cup ReviewWriters
  BY <1>4 DEF Granted, ReviewWriters
<1> QED
  BY <1>2, <1>3, <1>4

LEMMA NextGrantsStand == GrantInv /\ [Next]_vars => GrantsStand'
<1> SUFFICES ASSUME GrantInv, [Next]_vars, NEW d \in Clients PROVE Granted(req[d])'
  BY DEF GrantsStand
<1>1. (\E c \in Clients : Granting(c)) \/ req' = req
  BY StepGrants
<1>2. CASE req'[d] = req[d]
  BY <1>2, OthersKeep
<1>3. CASE \E c \in Clients : Granting(c) /\ c = d
  BY <1>3 DEF Granting
<1> QED
  BY <1>1, <1>2, <1>3 DEF Granting

LEMMA NextWritersKnow == GrantInv /\ [Next]_vars => WritersKnowTheirReview'
<1> SUFFICES ASSUME GrantInv, [Next]_vars PROVE WritersKnowTheirReview'
  OBVIOUS
<1>t. TypeInv
  BY GrantTypes
<1>1. \A d \in Clients : req'[d].op \in ReviewWriters =>
        \/ req[d].op \in ReviewWriters /\ req[d].id = req'[d].id
        \/ req'[d].id \in LiveReviews
  BY StepGrants DEF Granting
<1>2. \A d \in Clients : req'[d].op \in ReviewWriters =>
        /\ req'[d].id \in issued
        /\ \A c \in Clients : req[c].op = "CreateReview" => req[c].id # req'[d].id
  BY <1>1 DEF GrantInv, WritersKnowTheirReview, IdsInv, ReviewIdsAreFresh, LiveReviews
<1> DEFINE NewOnes == \A c \in Clients : req'[c].op = "CreateReview" =>
                        \/ req[c].op = "CreateReview" /\ req[c].id = req'[c].id
                        \/ req'[c].id \notin issued
<1>3. issued \subseteq issued' /\ NewOnes
  <2>1. ASSUME NEW c \in Clients, NEW r, GoesOn(c, r) PROVE issued \subseteq issued' /\ NewOnes
    BY <1>t, <2>1, Updated DEF GoesOn, Creates
  <2>2. ASSUME NEW c \in Clients, NEW r, Draws(c, r) PROVE issued \subseteq issued' /\ NewOnes
    BY <1>t, <2>2, DrawsUpdates DEF Draws
  <2>3. ASSUME NEW c \in Clients, WritesRow(c) PROVE issued \subseteq issued' /\ NewOnes
    BY <1>t, <2>3, WriteEnds, Updated DEF Creates
  <2> QED
    BY <1>t, <2>1, <2>2, <2>3, StepShape DEF Shape
<1> QED
  BY <1>2, <1>3 DEF WritersKnowTheirReview

LEMMA GrantInvariant == Spec => []GrantInv
<1>1. GrantInv /\ [Next]_vars => GrantInv'
  BY NextIdsInv, NextWritersKnow, NextGrantsStand DEF GrantInv
<1> QED
  BY <1>1, InitGrantInv, PTL DEF Spec

(***************************************************************************)
(* What a request was granted stands until it writes, although reads,      *)
(* policy check, validation and write are calls of their own and any other *)
(* request may run between them.                                           *)
(***************************************************************************)
THEOREM GrantsHold == Spec => []GrantsStand
<1>1. GrantInv => GrantsStand
  BY DEF GrantInv
<1> QED
  BY <1>1, GrantInvariant, PTL

-----------------------------------------------------------------------------
(***************************************************************************)
(* Changes of a review.                                                    *)
(***************************************************************************)

\* A review that is in the table is changed by its UPDATE or its DELETE.
LEMMA ReviewsChangeByWrites ==
    ASSUME GrantInv, [Next]_vars, NEW i \in LiveReviews, reviews'[i] # reviews[i]
    PROVE  \E c \in Clients :
             /\ WriteReview(c) \/ RemoveReview(c)
             /\ req[c].id = i
             /\ req[c].pc \in {"write", "remove"}
             /\ Steps(c)
<1>t. TypeInv /\ reviews \in [ReviewIds -> Review \cup {NoRow}]
  BY GrantTypes
<1>1. PICK c \in Clients : WritesRow(c)
  BY <1>t, StepShape DEF Shape, GoesOn, Draws
<1>2. InsertReview(c) \/ WriteReview(c) \/ RemoveReview(c)
  BY <1>1 DEF WritesRow, InsertBook, WriteBook, RemoveBook
<1>3. req[c].id = i /\ i \in ReviewIds
  BY <1>t, <1>2 DEF InsertReview, WriteReview, RemoveReview, LiveReviews
<1>4. ~InsertReview(c)
  BY <1>3 DEF InsertReview, At, GrantInv, IdsInv, ReviewIdsAreFresh, LiveReviews
<1>5. req[c].pc \in {"write", "remove"}
  BY <1>2, <1>4 DEF WriteReview, RemoveReview, At
<1>6. req'[c] = Idle
  BY <1>1, <1>t, WriteEnds, Updated
<1> QED
  BY <1>2, <1>3, <1>4, <1>5, <1>6, WriterSteps

(***************************************************************************)
(* A review is changed only for its verified reviewer and removed only for *)
(* the reviewer or the author of its book, as these are when it happens,   *)
(* although UpdateReview and DeleteReview decide on two earlier reads.     *)
(***************************************************************************)
THEOREM ReviewWritersAllowed == Spec => ReviewsWrittenByReviewerOrModerator
<1>1. GrantInv /\ [Next]_vars =>
        [\A r \in LiveReviews : reviews'[r] # reviews[r] =>
           \E c \in Clients :
              /\ Steps(c)
              /\ req[c].user \in verified
              /\ \/ req[c].user = reviews[r].reviewer
                 \/ /\ reviews'[r] = NoRow
                    /\ books[reviews[r].book] # NoRow
                    /\ req[c].user = books[reviews[r].book].author]_vars
  <2> SUFFICES ASSUME GrantInv, [Next]_vars, NEW r \in LiveReviews, reviews'[r] # reviews[r]
               PROVE  \E c \in Clients :
                         /\ Steps(c)
                         /\ req[c].user \in verified
                         /\ \/ req[c].user = reviews[r].reviewer
                            \/ /\ reviews'[r] = NoRow
                               /\ books[reviews[r].book] # NoRow
                               /\ req[c].user = books[reviews[r].book].author
    OBVIOUS
  <2>t. /\ TypeInv /\ IInv
        /\ reviews \in [ReviewIds -> Review \cup {NoRow}]
        /\ books \in [BookIds -> Book \cup {NoRow}]
    BY GrantTypes
  <2>1. PICK c \in Clients : /\ WriteReview(c) \/ RemoveReview(c)
                             /\ req[c].id = r
                             /\ req[c].pc \in {"write", "remove"}
                             /\ Steps(c)
    BY ReviewsChangeByWrites
  <2>2. /\ WriteReview(c) => req[c].op = "UpdateReview"
        /\ RemoveReview(c) => req[c].op = "DeleteReview" /\ reviews'[r] = NoRow
    BY <2>t, <2>1 DEF WriteReview, RemoveReview, At, LiveReviews
  <2>3. /\ req[c].verified
        /\ books[reviews[r].book] # NoRow
        /\ \/ req[c].user = reviews[r].reviewer
           \/ req[c].op = "DeleteReview" /\ req[c].user = books[reviews[r].book].author
    BY <2>1, <2>2, GrantTypes DEF Granted, LiveReviews
  <2>4. reviews[r].reviewer \in Users /\ books[reviews[r].book].author \in Users
    BY <2>t, <2>3 DEF LiveReviews, Review, Book
  <2>5. req[c].user \in verified
    BY <2>t, <2>3, <2>4, NamesAreDistinct DEF IInv, CallersAreVerified
  <2> QED
    BY <2>1, <2>2, <2>3, <2>5
<1> QED
  BY <1>1, GrantInvariant, PTL DEF Spec, ReviewsWrittenByReviewerOrModerator

(***************************************************************************)
(* A review that has lost its book, because the book was deleted between   *)
(* the validation and the INSERT of the review, is never changed again: a  *)
(* request that may still write to it has its book, and no book with a     *)
(* review is deleted.                                                      *)
(***************************************************************************)
THEOREM OrphansFrozen == Spec => OrphanReviewsAreFrozen
<1>1. GrantInv /\ [Next]_vars =>
        [\A r \in LiveReviews :
           books[reviews[r].book] = NoRow => reviews'[r] = reviews[r]]_vars
  <2> SUFFICES ASSUME GrantInv, [Next]_vars, NEW r \in LiveReviews,
                      reviews'[r] # reviews[r], books[reviews[r].book] = NoRow
               PROVE  FALSE
    OBVIOUS
  <2>1. PICK c \in Clients : /\ WriteReview(c) \/ RemoveReview(c)
                             /\ req[c].id = r
                             /\ req[c].pc \in {"write", "remove"}
    BY ReviewsChangeByWrites
  <2>2. req[c].op \in ReviewWriters
    BY <2>1 DEF WriteReview, RemoveReview, At, ReviewWriters
  <2> QED
    BY <2>1, <2>2, GrantTypes DEF Granted, ReviewWriters, LiveReviews
<1> QED
  BY <1>1, GrantInvariant, PTL DEF Spec, OrphanReviewsAreFrozen

-----------------------------------------------------------------------------
(***************************************************************************)
(* Changes of a book, and rows whose account is gone.                      *)
(***************************************************************************)

\* A book that is in the table is changed by its UPDATE or its DELETE.
LEMMA LiveBookChanges ==
    ASSUME GrantInv, [Next]_vars, NEW b \in LiveBooks, books'[b] # books[b]
    PROVE  \E c \in Clients : /\ WriteBook(c) \/ RemoveBook(c)
                              /\ req[c].id = b
                              /\ Steps(c)
<1>t. TypeInv /\ books \in [BookIds -> Book \cup {NoRow}]
  BY GrantTypes
<1>1. PICK c \in Clients : /\ InsertBook(c) \/ WriteBook(c) \/ RemoveBook(c)
                           /\ req[c].pc # "idle" /\ req'[c] = Idle
  BY <1>t, BooksChangeByWrites
<1>2. b = req[c].id
  BY <1>t, <1>1 DEF InsertBook, WriteBook, RemoveBook, LiveBooks
<1>3. ~InsertBook(c)
  BY <1>2, GrantTypes DEF InsertBook, At, IInv, NewIdsAreFresh, Known, LiveBooks
<1> QED
  BY <1>1, <1>2, <1>3, WriterSteps

\* What the UPDATE of a live row writes, column by column.
LEMMA BookUpdated ==
    ASSUME GrantInv, NEW c \in Clients, WriteBook(c), req[c].id \in LiveBooks
    PROVE  LET old == books[req[c].id]
               new == books'[req[c].id]
           IN  /\ req[c].op = "UpdateBook" /\ req[c].pc = "write"
               /\ new.author = old.author
               /\ new.title \in {old.title, req[c].update.title}
               /\ new.status \in {old.status, req[c].update.status}
               /\ {"title", "status"} \subseteq DOMAIN req[c].update
<1> DEFINE q == req[c]
           old == books[q.id]
<1>t. /\ WellFormed(q)
      /\ books \in [BookIds -> Book \cup {NoRow}]
  BY GrantTypes
<1>1. /\ q.op = "UpdateBook" /\ q.pc = "write"
      /\ books'[q.id] = BookColumns(old, q.row, BookToSave(q))
  BY <1>t DEF WriteBook, At, LiveBooks
<1>2. q.row \in Book /\ q.update \in BookUpdate
  BY <1>t, <1>1 DEF WellFormed
<1>3. BookToSave(q) = SetBookFields(q.row, q.update)
  BY <1>1 DEF BookToSave
<1>4. /\ SetBookFields(q.row, q.update).author = q.row.author
      /\ SetBookFields(q.row, q.update).title \in {q.row.title, q.update.title}
      /\ SetBookFields(q.row, q.update).status \in {q.row.status, q.update.status}
  BY <1>2 DEF SetBookFields, Book, BookUpdate
<1> HIDE DEF q
<1>5. /\ BookColumns(old, q.row, BookToSave(q)).author = old.author
      /\ BookColumns(old, q.row, BookToSave(q)).title \in {old.title, q.update.title}
      /\ BookColumns(old, q.row, BookToSave(q)).status \in {old.status, q.update.status}
  BY <1>3, <1>4 DEF BookColumns, Column
<1>6. {"title", "status"} \subseteq DOMAIN q.update
  BY <1>2 DEF BookUpdate
<1> QED
  BY <1>1, <1>5, <1>6 DEF q

LEMMA ReviewUpdated ==
    ASSUME GrantInv, NEW c \in Clients, WriteReview(c), req[c].id \in LiveReviews
    PROVE  LET old == reviews[req[c].id]
               new == reviews'[req[c].id]
           IN  /\ req[c].op = "UpdateReview" /\ req[c].pc = "write"
               /\ new.book = old.book /\ new.reviewer = old.reviewer
               /\ new.content \in {old.content, req[c].update.content}
               /\ new.rating \in {old.rating, req[c].update.rating}
               /\ {"content", "rating"} \subseteq DOMAIN req[c].update
<1> DEFINE q == req[c]
           old == reviews[q.id]
<1>t. /\ WellFormed(q)
      /\ reviews \in [ReviewIds -> Review \cup {NoRow}]
  BY GrantTypes
<1>1. /\ q.op = "UpdateReview" /\ q.pc = "write"
      /\ reviews'[q.id] = ReviewColumns(old, q.row, ReviewToSave(q))
  BY <1>t DEF WriteReview, At, LiveReviews
<1>2. q.row \in Review /\ q.update \in ReviewUpdate
  BY <1>t, <1>1 DEF WellFormed
<1>3. ReviewToSave(q) = SetReviewFields(q.row, q.update)
  BY <1>1 DEF ReviewToSave
<1>4. /\ SetReviewFields(q.row, q.update).book = q.row.book
      /\ SetReviewFields(q.row, q.update).reviewer = q.row.reviewer
      /\ SetReviewFields(q.row, q.update).content \in {q.row.content, q.update.content}
      /\ SetReviewFields(q.row, q.update).rating \in {q.row.rating, q.update.rating}
  BY <1>2 DEF SetReviewFields, Review, ReviewUpdate
<1> HIDE DEF q
<1>5. LET new == ReviewColumns(old, q.row, ReviewToSave(q))
      IN  /\ new.book = old.book /\ new.reviewer = old.reviewer
          /\ new.content \in {old.content, q.update.content}
          /\ new.rating \in {old.rating, q.update.rating}
  BY <1>3, <1>4 DEF ReviewColumns, Column
<1>6. {"content", "rating"} \subseteq DOMAIN q.update
  BY <1>2 DEF ReviewUpdate
<1> QED
  BY <1>1, <1>5, <1>6 DEF q

(***************************************************************************)
(* Whatever two requests loaded before they save, a column that changes    *)
(* takes the value that the saving request asks for: none puts back the    *)
(* value that another one has just replaced.                               *)
(***************************************************************************)
THEOREM ColumnsAsRequested == Spec => OnlyRequestedColumnsChange
<1>1. GrantInv /\ [Next]_vars =>
        [\A b \in LiveBooks : \A f \in {"title", "author", "status"} :
            books'[b] # NoRow /\ books'[b][f] # books[b][f] =>
              \E c \in Clients : /\ Steps(c)
                                 /\ f \in DOMAIN req[c].update
                                 /\ books'[b][f] = req[c].update[f]]_vars
  <2> SUFFICES ASSUME GrantInv, [Next]_vars, NEW b \in LiveBooks,
                      NEW f \in {"title", "author", "status"},
                      books'[b] # NoRow, books'[b][f] # books[b][f]
               PROVE  \E c \in Clients : /\ Steps(c)
                                         /\ f \in DOMAIN req[c].update
                                         /\ books'[b][f] = req[c].update[f]
    OBVIOUS
  <2>1. PICK c \in Clients : /\ WriteBook(c) \/ RemoveBook(c)
                             /\ req[c].id = b
                             /\ Steps(c)
    BY LiveBookChanges
  <2>2. WriteBook(c)
    BY <2>1, GrantTypes DEF RemoveBook, LiveBooks
  <2> QED
    BY <2>1, <2>2, BookUpdated
<1>2. GrantInv /\ [Next]_vars =>
        [\A r \in LiveReviews : \A f \in {"book", "reviewer", "content", "rating"} :
            reviews'[r] # NoRow /\ reviews'[r][f] # reviews[r][f] =>
              \E c \in Clients : /\ Steps(c)
                                 /\ f \in DOMAIN req[c].update
                                 /\ reviews'[r][f] = req[c].update[f]]_vars
  <2> SUFFICES ASSUME GrantInv, [Next]_vars, NEW r \in LiveReviews,
                      NEW f \in {"book", "reviewer", "content", "rating"},
                      reviews'[r] # NoRow, reviews'[r][f] # reviews[r][f]
               PROVE  \E c \in Clients : /\ Steps(c)
                                         /\ f \in DOMAIN req[c].update
                                         /\ reviews'[r][f] = req[c].update[f]
    OBVIOUS
  <2>1. PICK c \in Clients : /\ WriteReview(c) \/ RemoveReview(c)
                             /\ req[c].id = r
                             /\ Steps(c)
    BY ReviewsChangeByWrites
  <2>2. WriteReview(c)
    BY <2>1, GrantTypes DEF RemoveReview, LiveReviews
  <2> QED
    BY <2>1, <2>2, ReviewUpdated
<1> QED
  BY <1>1, <1>2, GrantInvariant, PTL DEF Spec, OnlyRequestedColumnsChange

(***************************************************************************)
(* A row whose author or reviewer deleted their account in time can still  *)
(* be removed but never changed.                                           *)
(***************************************************************************)
THEOREM GoneRowsStay == Spec => RowsOfTheGoneStay
<1>1. GrantInv /\ [Next]_vars =>
        [/\ \A b \in LiveBooks :
              books[b].author \notin accounts => books'[b] \in {books[b], NoRow}
         /\ \A r \in LiveReviews :
              reviews[r].reviewer \notin accounts => reviews'[r] \in {reviews[r], NoRow}]_vars
  <2> SUFFICES ASSUME GrantInv, [Next]_vars
               PROVE  /\ \A b \in LiveBooks :
                           books[b].author \notin accounts => books'[b] \in {books[b], NoRow}
                      /\ \A r \in LiveReviews :
                           reviews[r].reviewer \notin accounts
                             => reviews'[r] \in {reviews[r], NoRow}
    OBVIOUS
  <2>1. ASSUME NEW b \in LiveBooks, books[b].author \notin accounts,
               books'[b] \notin {books[b], NoRow}
        PROVE  FALSE
    <3>1. PICK c \in Clients : (WriteBook(c) \/ RemoveBook(c)) /\ req[c].id = b
      BY <2>1, LiveBookChanges
    <3>2. WriteBook(c)
      BY <2>1, <3>1, GrantTypes DEF RemoveBook, LiveBooks
    <3>3. req[c].op = "UpdateBook" /\ req[c].pc = "write"
      BY <3>2 DEF WriteBook, At
    <3> QED
      BY <2>1, <3>1, <3>3, GrantTypes DEF Granted, LiveBooks
  <2>2. ASSUME NEW r \in LiveReviews, reviews[r].reviewer \notin accounts,
               reviews'[r] \notin {reviews[r], NoRow}
        PROVE  FALSE
    <3>1. PICK c \in Clients : (WriteReview(c) \/ RemoveReview(c)) /\ req[c].id = r
      BY <2>2, ReviewsChangeByWrites
    <3>2. WriteReview(c)
      BY <2>2, <3>1, GrantTypes DEF RemoveReview, LiveReviews
    <3>3. req[c].op = "UpdateReview" /\ req[c].pc = "write"
      BY <3>2 DEF WriteReview, At
    <3> QED
      BY <2>2, <3>1, <3>3, GrantTypes DEF Granted, LiveReviews
  <2> QED
    BY <2>1, <2>2
<1> QED
  BY <1>1, GrantInvariant, PTL DEF Spec, RowsOfTheGoneStay

=============================================================================
