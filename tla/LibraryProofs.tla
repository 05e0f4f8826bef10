--------------------------- MODULE LibraryProofs ---------------------------
(***************************************************************************)
(* Proofs about module Library, for any number of users, requests, books   *)
(* and reviews.                                                            *)
(***************************************************************************)
EXTENDS Library, TLAPS

-----------------------------------------------------------------------------
(***************************************************************************)
(* The records of the store.                                               *)
(***************************************************************************)

\* A row that a table can hold is a row that a request can carry.
LEMMA RowsAreRows ==
    /\ Book \subseteq BookRow
    /\ Review \subseteq ReviewRow
    /\ NoRow \notin Book
    /\ NoRow \notin Review
BY RowsAreNotNoRow DEF Book, BookRow, Review, ReviewRow, Principals

\* record.Set on a loaded book or review touches only the columns that an
\* update can name, and keeps the record within what a request can carry.
LEMMA SetBookFieldsType ==
    ASSUME NEW row \in Book, NEW u \in BookUpdate
    PROVE  /\ SetBookFields(row, u) \in BookRow
           /\ SetBookFields(row, u).author = row.author
BY DEF SetBookFields, Book, BookRow, BookUpdate, Principals

LEMMA SetReviewFieldsType ==
    ASSUME NEW row \in Review, NEW u \in ReviewUpdate
    PROVE  /\ SetReviewFields(row, u) \in [book : BookIds, reviewer : Users,
                                           content : Contents, rating : RatingInputs \cup Ratings]
           /\ SetReviewFields(row, u).book = row.book
           /\ SetReviewFields(row, u).reviewer = row.reviewer
BY DEF SetReviewFields, Review, ReviewUpdate

\* What an UPDATE leaves in the table is again a row of the table, and a
\* column that the record in memory has as loaded keeps what is stored.
LEMMA BookColumnsType ==
    ASSUME NEW stored \in Book, NEW loaded \in Book, NEW new \in Book
    PROVE  /\ BookColumns(stored, loaded, new) \in Book
           /\ new.author = loaded.author =>
                BookColumns(stored, loaded, new).author = stored.author
BY DEF BookColumns, Column, Book

LEMMA ReviewColumnsType ==
    ASSUME NEW stored \in Review, NEW loaded \in Review, NEW new \in Review
    PROVE  /\ ReviewColumns(stored, loaded, new) \in Review
           /\ new.book = loaded.book =>
                ReviewColumns(stored, loaded, new).book = stored.book
           /\ new.reviewer = loaded.reviewer =>
                ReviewColumns(stored, loaded, new).reviewer = stored.reviewer
BY DEF ReviewColumns, Column, Review

\* A row that passes the validation of its collection fits the table.
LEMMA ValidBook ==
    ASSUME accounts \subseteq Users, NEW row \in BookRow, BookFields(row)
    PROVE  row \in Book
BY DEF BookFields, Book, BookRow

LEMMA ValidReview ==
    ASSUME accounts \subseteq Users, NEW row \in ReviewRow, ReviewFields(row)
    PROVE  row \in Review
BY DEF ReviewFields, Review, ReviewRow

-----------------------------------------------------------------------------
(***************************************************************************)
(* Request records: each handler leaves one that is well formed.           *)
(***************************************************************************)
LEMMA IdleWellFormed == WellFormed(Idle)
<1>1. Idle \in Request
  BY DEF Idle, Request, Pcs
<1> QED
  BY <1>1 DEF Idle, WellFormed

\* When the request of one client becomes a well-formed record, all are.
LEMMA RequestsWellFormed ==
    ASSUME TypeInv, NEW c \in Clients, NEW r, WellFormed(r), req' = [req EXCEPT ![c] = r]
    PROVE  /\ req' \in [Clients -> Request]
           /\ \A d \in Clients : WellFormed(req'[d])
<1>1. r \in Request
  BY DEF WellFormed
<1>2. req \in [Clients -> Request]
  BY DEF TypeInv, TypeOK
<1>3. \A d \in Clients : req'[d] = IF d = c THEN r ELSE req[d]
  BY <1>2
<1> QED
  BY <1>1, <1>2, <1>3 DEF TypeInv

LEMMA AnswerTyped ==
    ASSUME TypeInv, NEW c \in Clients, NEW o \in Answers, Answer(c, o)
    PROVE  /\ req' \in [Clients -> Request]
           /\ \A d \in Clients : WellFormed(req'[d])
           /\ answer' \in [Clients -> Answers]
<1>1. answer' \in [Clients -> Answers]
  BY DEF Answer, TypeInv, TypeOK
<1> QED
  BY <1>1, IdleWellFormed, RequestsWellFormed DEF Answer

LEMMA ContinueTyped ==
    ASSUME TypeInv, NEW c \in Clients, NEW r, WellFormed(r), Continue(c, r)
    PROVE  /\ req' \in [Clients -> Request]
           /\ \A d \in Clients : WellFormed(req'[d])
           /\ answer' \in [Clients -> Answers]
<1>1. answer' \in [Clients -> Answers]
  BY DEF Continue, TypeInv, TypeOK
<1> QED
  BY <1>1, RequestsWellFormed DEF Continue

-----------------------------------------------------------------------------
(***************************************************************************)
(* Type correctness.                                                       *)
(***************************************************************************)

\* The request record that authentication leaves.
LEMMA AuthenticatedWellFormed ==
    ASSUME NEW u \in Principals, NEW v \in BOOLEAN
    PROVE  WellFormed([Idle EXCEPT !.pc = "handler", !.user = u, !.verified = v])
BY DEF WellFormed, Idle, Request, Pcs

\* The request record that a create leaves before the validation.
LEMMA CreateBookWellFormed ==
    ASSUME NEW q, WellFormed(q), q.pc = "handler", NEW id \in BookIds, NEW row \in BookRow
    PROVE  WellFormed([q EXCEPT !.pc = "validate", !.op = "CreateBook", !.id = id, !.row = row])
BY DEF WellFormed, Request, Pcs, BookOps, ReviewOps

LEMMA CreateReviewWellFormed ==
    ASSUME NEW q, WellFormed(q), q.pc = "handler", NEW id \in ReviewIds, NEW row \in ReviewRow
    PROVE  WellFormed([q EXCEPT !.pc = "validate", !.op = "CreateReview", !.id = id, !.row = row])
BY DEF WellFormed, Request, Pcs, BookOps, ReviewOps

LEMMA UpdateBookWellFormed ==
    ASSUME NEW q, WellFormed(q), q.pc = "handler", NEW id \in BookIds, NEW u \in BookUpdate
    PROVE  WellFormed([q EXCEPT !.pc = "update", !.op = "UpdateBook", !.id = id, !.update = u])
BY DEF WellFormed, Request, Pcs, BookOps, ReviewOps

LEMMA DeleteBookWellFormed ==
    ASSUME NEW q, WellFormed(q), q.pc = "handler", NEW id \in BookIds
    PROVE  WellFormed([q EXCEPT !.pc = "delete", !.op = "DeleteBook", !.id = id])
BY DEF WellFormed, Request, Pcs, BookOps, ReviewOps

LEMMA GetReviewWellFormed ==
    ASSUME NEW q, WellFormed(q), q.pc = "handler", NEW id \in ReviewIds, NEW row \in Review,
           NEW op \in {"GetReview", "UpdateReview", "DeleteReview"}
    PROVE  WellFormed([q EXCEPT !.pc = "review", !.op = op, !.id = id, !.row = row])
BY RowsAreRows DEF WellFormed, Request, Pcs, BookOps, ReviewOps

LEMMA UpdateReviewWellFormed ==
    ASSUME NEW q, WellFormed(q), q.pc = "review", q.op = "UpdateReview", NEW u \in ReviewUpdate
    PROVE  WellFormed([q EXCEPT !.pc = "update", !.row = NoRow, !.update = u])
BY DEF WellFormed, Request, Pcs, BookOps, ReviewOps

LEMMA DeleteReviewWellFormed ==
    ASSUME NEW q, WellFormed(q), q.pc = "review", q.op = "DeleteReview"
    PROVE  WellFormed([q EXCEPT !.pc = "delete", !.row = NoRow])
BY DEF WellFormed, Request, Pcs, BookOps, ReviewOps

LEMMA FoundBookWellFormed ==
    ASSUME NEW q, WellFormed(q), q.pc = "update", q.op = "UpdateBook", NEW row \in Book
    PROVE  WellFormed([q EXCEPT !.pc = "validate", !.row = row])
BY RowsAreRows DEF WellFormed, Request, Pcs, BookOps, ReviewOps

LEMMA FoundReviewWellFormed ==
    ASSUME NEW q, WellFormed(q), q.pc = "update", q.op = "UpdateReview", NEW row \in Review
    PROVE  WellFormed([q EXCEPT !.pc = "validate", !.row = row])
BY RowsAreRows DEF WellFormed, Request, Pcs, BookOps, ReviewOps

LEMMA ValidatedBookWellFormed ==
    ASSUME NEW q, WellFormed(q), q.pc = "validate", q.op \in {"CreateBook", "UpdateBook"},
           BookToSave(q) \in Book
    PROVE  WellFormed([q EXCEPT !.pc = "write"])
<1>1. BookToSave([q EXCEPT !.pc = "write"]) = BookToSave(q)
  BY DEF WellFormed, Request, BookToSave
<1> QED
  BY <1>1 DEF WellFormed, Request, Pcs, BookOps, ReviewOps

LEMMA ValidatedReviewWellFormed ==
    ASSUME NEW q, WellFormed(q), q.pc = "validate", q.op \in {"CreateReview", "UpdateReview"},
           ReviewToSave(q) \in Review
    PROVE  WellFormed([q EXCEPT !.pc = "write"])
<1>1. ReviewToSave([q EXCEPT !.pc = "write"]) = ReviewToSave(q)
  BY DEF WellFormed, Request, ReviewToSave
<1> QED
  BY <1>1 DEF WellFormed, Request, Pcs, BookOps, ReviewOps

LEMMA FoundForDeleteWellFormed ==
    ASSUME NEW q, WellFormed(q), q.pc = "delete"
    PROVE  WellFormed([q EXCEPT !.pc = "remove"])
BY DEF WellFormed, Request, Pcs, BookOps, ReviewOps

\* What most steps do: the handler returns, or goes on with the next call,
\* and nothing else changes.
LEMMA AnswerTypeInv ==
    ASSUME TypeInv, NEW c \in Clients, NEW o \in Answers, Answer(c, o),
           UNCHANGED <<users, tables, issued>>
    PROVE  TypeInv'
BY AnswerTyped DEF TypeInv, TypeOK, users, tables

LEMMA ContinueTypeInv ==
    ASSUME TypeInv, NEW c \in Clients, NEW r, WellFormed(r), Continue(c, r),
           UNCHANGED <<users, tables, issued>>
    PROVE  TypeInv'
BY ContinueTyped DEF TypeInv, TypeOK, users, tables

LEMMA InterceptorTypeInv ==
    ASSUME TypeInv, NEW c \in Clients, Interceptor(c)
    PROVE  TypeInv'
<1>1. PICK u \in accounts \cup Superusers :
        req' = [req EXCEPT ![c] = [Idle EXCEPT !.pc = "handler", !.user = u,
                                               !.verified = u \in verified \cup Superusers]]
  BY DEF Interceptor
<1>2. u \in Principals
  BY DEF TypeInv, TypeOK, Principals
<1>3. (u \in verified \cup Superusers) \in BOOLEAN
  OBVIOUS
<1>4. WellFormed([Idle EXCEPT !.pc = "handler", !.user = u,
                              !.verified = u \in verified \cup Superusers])
  BY <1>2, <1>3, AuthenticatedWellFormed
<1>5. answer' \in [Clients -> Answers]
  BY DEF Interceptor, TypeInv, TypeOK, Answers
<1> QED
  BY <1>1, <1>4, <1>5, RequestsWellFormed DEF Interceptor, TypeInv, TypeOK, users, tables

LEMMA CreateBookTypeInv ==
    ASSUME TypeInv, NEW c \in Clients, CreateBook(c)
    PROVE  TypeInv'
<1>q. WellFormed(req[c]) /\ req[c].pc = "handler"
  BY DEF TypeInv, CreateBook
<1>1. CASE Answer(c, "denied") /\ UNCHANGED <<users, tables, issued>>
  BY <1>1, AnswerTypeInv DEF Answers
<1>2. ASSUME NEW t \in Titles \cup {""},
             CreateRow(c, "CreateBook", BookIds,
                       [title |-> t, author |-> req[c].user, status |-> "draft"])
      PROVE  TypeInv'
  <2> DEFINE row == [title |-> t, author |-> req[c].user, status |-> "draft"]
  <2>1. row \in BookRow
    BY <1>q DEF WellFormed, BookRow, Statuses
  <2> HIDE DEF row
  <2>2. PICK id \in BookIds \ issued :
          /\ issued' = issued \cup {id}
          /\ Continue(c, [req[c] EXCEPT !.pc = "validate", !.op = "CreateBook",
                                        !.id = id, !.row = row])
          /\ UNCHANGED <<users, tables>>
    BY <1>2 DEF CreateRow, row
  <2> QED
    BY <1>q, <2>1, <2>2, CreateBookWellFormed, ContinueTyped DEF TypeInv, TypeOK, users, tables
<1> QED
  BY <1>1, <1>2 DEF CreateBook

LEMMA WithBookTypeInv ==
    ASSUME TypeInv, NEW c \in Clients, NEW b, NEW a, NEW r, WellFormed(r), WithBook(c, b, a, r)
    PROVE  TypeInv'
BY AnswerTypeInv, ContinueTypeInv DEF WithBook, Answers

LEMMA UpdateBookTypeInv ==
    ASSUME TypeInv, NEW c \in Clients, UpdateBook(c)
    PROVE  TypeInv'
BY WithBookTypeInv, UpdateBookWellFormed DEF UpdateBook, TypeInv

LEMMA DeleteBookTypeInv ==
    ASSUME TypeInv, NEW c \in Clients, DeleteBook(c)
    PROVE  TypeInv'
BY WithBookTypeInv, DeleteBookWellFormed DEF DeleteBook, TypeInv

LEMMA CreateReviewTypeInv ==
    ASSUME TypeInv, NEW c \in Clients, CreateReview(c)
    PROVE  TypeInv'
<1>q. WellFormed(req[c]) /\ req[c].pc = "handler"
  BY DEF TypeInv, CreateReview
<1>1. PICK b \in BookIds, text \in Contents \cup {""}, n \in RatingInputs :
        \/ /\ Answer(c, "notFound") \/ Answer(c, "denied") \/ Answer(c, "invalid")
           /\ UNCHANGED <<users, tables, issued>>
        \/ CreateRow(c, "CreateReview", ReviewIds,
                     [book |-> b, reviewer |-> req[c].user, content |-> text, rating |-> n])
  BY DEF CreateReview
<1>2. CASE /\ Answer(c, "notFound") \/ Answer(c, "denied") \/ Answer(c, "invalid")
           /\ UNCHANGED <<users, tables, issued>>
  BY <1>2, AnswerTypeInv DEF Answers
<1>3. CASE CreateRow(c, "CreateReview", ReviewIds,
                     [book |-> b, reviewer |-> req[c].user, content |-> text, rating |-> n])
  <2> DEFINE row == [book |-> b, reviewer |-> req[c].user, content |-> text, rating |-> n]
  <2>1. row \in ReviewRow
    BY <1>q DEF WellFormed, ReviewRow
  <2> HIDE DEF row
  <2>2. PICK id \in ReviewIds \ issued :
          /\ issued' = issued \cup {id}
          /\ Continue(c, [req[c] EXCEPT !.pc = "validate", !.op = "CreateReview",
                                        !.id = id, !.row = row])
          /\ UNCHANGED <<users, tables>>
    BY <1>3 DEF CreateRow, row
  <2> QED
    BY <1>q, <2>1, <2>2, CreateReviewWellFormed, ContinueTyped DEF TypeInv, TypeOK, users, tables
<1> QED
  BY <1>1, <1>2, <1>3

LEMMA GetReviewTypeInv ==
    ASSUME TypeInv, NEW c \in Clients, NEW op \in {"GetReview", "UpdateReview", "DeleteReview"}, GetReview(c, op)
    PROVE  TypeInv'
<1>q. WellFormed(req[c]) /\ req[c].pc = "handler" /\ reviews \in [ReviewIds -> Review \cup {NoRow}]
  BY DEF TypeInv, TypeOK, GetReview
<1> QED
  BY <1>q, AnswerTypeInv, ContinueTypeInv, GetReviewWellFormed DEF GetReview, Answers

LEMMA UpdateReviewTypeInv ==
    ASSUME TypeInv, NEW c \in Clients, UpdateReview(c)
    PROVE  TypeInv'
<1>q. WellFormed(req[c])
  BY DEF TypeInv
<1>1. CASE GetReview(c, "UpdateReview")
  BY <1>1, GetReviewTypeInv
<1>2. CASE GetReviewedBook(c, "UpdateReview")
  BY <1>2, AnswerTypeInv DEF GetReviewedBook, Answers
<1>3. ASSUME At(c, "review", {"UpdateReview"}), UNCHANGED <<users, tables, issued>>,
             NEW u \in ReviewUpdate,
             Answer(c, "invalid")
               \/ Continue(c, [req[c] EXCEPT !.pc = "update", !.row = NoRow, !.update = u])
      PROVE  TypeInv'
  BY <1>q, <1>3, AnswerTypeInv, ContinueTypeInv, UpdateReviewWellFormed DEF Answers, At
<1> QED
  BY <1>1, <1>2, <1>3 DEF UpdateReview

LEMMA DeleteReviewTypeInv ==
    ASSUME TypeInv, NEW c \in Clients, DeleteReview(c)
    PROVE  TypeInv'
<1>q. WellFormed(req[c])
  BY DEF TypeInv
<1>1. CASE GetReview(c, "DeleteReview")
  BY <1>1, GetReviewTypeInv
<1>2. CASE GetReviewedBook(c, "DeleteReview")
  BY <1>2, AnswerTypeInv DEF GetReviewedBook, Answers
<1>3. CASE /\ At(c, "review", {"DeleteReview"})
           /\ Continue(c, [req[c] EXCEPT !.pc = "delete", !.row = NoRow])
           /\ UNCHANGED <<users, tables, issued>>
  BY <1>q, <1>3, ContinueTypeInv, DeleteReviewWellFormed DEF At
<1> QED
  BY <1>1, <1>2, <1>3 DEF DeleteReview

LEMMA ShowReviewTypeInv ==
    ASSUME TypeInv, NEW c \in Clients, ShowReview(c)
    PROVE  TypeInv'
<1>1. CASE GetReview(c, "GetReview")
  BY <1>1, GetReviewTypeInv
<1>2. CASE GetReviewedBook(c, "GetReview")
  BY <1>2, AnswerTypeInv DEF GetReviewedBook, Answers
<1>3. CASE Answer(c, "ok") /\ UNCHANGED <<users, tables, issued>>
  BY <1>3, AnswerTypeInv DEF Answers
<1> QED
  BY <1>1, <1>2, <1>3 DEF ShowReview

\* A handler that reads in one call and answers.
LEMMA ReadsAnswer ==
    ASSUME NEW c \in Clients, GetBook(c) \/ ListBooks(c) \/ ListReviews(c)
    PROVE  \E o \in Answers : Answer(c, o) /\ UNCHANGED <<users, tables, issued>>
BY DEF GetBook, ListBooks, ListReviews, List, Answers

LEMMA HandlerTypeInv ==
    ASSUME TypeInv, NEW c \in Clients, HandlerStep(c)
    PROVE  TypeInv'
BY ReadsAnswer, AnswerTypeInv, ShowReviewTypeInv, CreateBookTypeInv, UpdateBookTypeInv, DeleteBookTypeInv,
   CreateReviewTypeInv, UpdateReviewTypeInv, DeleteReviewTypeInv DEF HandlerStep

\* The record that a request saves has the columns that a request can carry.
LEMMA ToSaveType ==
    ASSUME NEW q, WellFormed(q), q.pc \in {"validate", "write"}
    PROVE  /\ q.op \in {"CreateBook", "UpdateBook"} => BookToSave(q) \in BookRow
           /\ q.op \in {"CreateReview", "UpdateReview"} => ReviewToSave(q) \in ReviewRow
<1>1. CASE q.op = "CreateBook"
  BY <1>1 DEF WellFormed, BookToSave
<1>2. CASE q.op = "UpdateBook"
  BY <1>2, SetBookFieldsType DEF WellFormed, BookToSave, BookOps
<1>3. CASE q.op = "CreateReview"
  BY <1>3 DEF WellFormed, ReviewToSave
<1>4. CASE q.op = "UpdateReview"
  <2>1. SetReviewFields(q.row, q.update) \in
          [book : BookIds, reviewer : Users, content : Contents, rating : RatingInputs \cup Ratings]
    BY <1>4, SetReviewFieldsType DEF WellFormed, ReviewOps
  <2> QED
    BY <1>4, <2>1 DEF ReviewToSave, ReviewRow, Principals
<1> QED
  BY <1>1, <1>2, <1>3, <1>4

LEMMA ValidateTypeInv ==
    ASSUME TypeInv, NEW c \in Clients, ValidateBook(c) \/ ValidateReview(c)
    PROVE  TypeInv'
<1>q. WellFormed(req[c]) /\ accounts \subseteq Users
  BY DEF TypeInv, TypeOK
<1>1. CASE ValidateBook(c)
  <2>1. CASE BookFields(BookToSave(req[c])) /\ Continue(c, [req[c] EXCEPT !.pc = "write"])
    BY <1>1, <1>q, <2>1, ToSaveType, ValidBook, ValidatedBookWellFormed, ContinueTypeInv
       DEF ValidateBook, Validate, At
  <2> QED
    BY <1>1, <2>1, AnswerTypeInv DEF ValidateBook, Validate, Answers
<1>2. CASE ValidateReview(c)
  <2>1. CASE ReviewFields(ReviewToSave(req[c])) /\ Continue(c, [req[c] EXCEPT !.pc = "write"])
    BY <1>2, <1>q, <2>1, ToSaveType, ValidReview, ValidatedReviewWellFormed, ContinueTypeInv
       DEF ValidateReview, Validate, At
  <2> QED
    BY <1>2, <2>1, AnswerTypeInv DEF ValidateReview, Validate, Answers
<1> QED
  BY <1>1, <1>2

\* The two lookups that precede an update, and the two that precede a delete.
LEMMA FindTypeInv ==
    ASSUME TypeInv, NEW c \in Clients,
           \/ FindBookForUpdate(c) \/ FindReviewForUpdate(c)
           \/ FindBookForDelete(c) \/ FindReviewForDelete(c)
    PROVE  TypeInv'
<1>q. /\ WellFormed(req[c])
      /\ books \in [BookIds -> Book \cup {NoRow}]
      /\ reviews \in [ReviewIds -> Review \cup {NoRow}]
  BY DEF TypeInv, TypeOK
<1>1. CASE FindBookForUpdate(c)
  <2>1. req[c].pc = "update" /\ req[c].op = "UpdateBook" /\ req[c].id \in BookIds
    BY <1>1, <1>q DEF FindBookForUpdate, FindForUpdate, At, WellFormed, BookOps
  <2> QED
    BY <1>1, <1>q, <2>1, AnswerTypeInv, ContinueTypeInv, FoundBookWellFormed
       DEF FindBookForUpdate, FindForUpdate, Answers
<1>2. CASE FindReviewForUpdate(c)
  <2>1. req[c].pc = "update" /\ req[c].op = "UpdateReview" /\ req[c].id \in ReviewIds
    BY <1>2, <1>q DEF FindReviewForUpdate, FindForUpdate, At, WellFormed, ReviewOps
  <2> QED
    BY <1>2, <1>q, <2>1, AnswerTypeInv, ContinueTypeInv, FoundReviewWellFormed
       DEF FindReviewForUpdate, FindForUpdate, Answers
<1>3. CASE FindBookForDelete(c) \/ FindReviewForDelete(c)
  BY <1>3, <1>q, AnswerTypeInv, ContinueTypeInv, FoundForDeleteWellFormed
     DEF FindBookForDelete, FindReviewForDelete, FindForDelete, At, Answers
<1> QED
  BY <1>1, <1>2, <1>3

\* The writes: what is inserted was validated, what is updated stays a row.
LEMMA WriteTypeInv ==
    ASSUME TypeInv, NEW c \in Clients,
           InsertBook(c) \/ WriteBook(c) \/ RemoveBook(c)
             \/ InsertReview(c) \/ WriteReview(c) \/ RemoveReview(c)
    PROVE  TypeInv'
<1>q. /\ WellFormed(req[c])
      /\ books \in [BookIds -> Book \cup {NoRow}]
      /\ reviews \in [ReviewIds -> Review \cup {NoRow}]
  BY DEF TypeInv, TypeOK
<1>a. ASSUME NEW o \in Answers, Answer(c, o), UNCHANGED <<users, issued>>,
             books' \in [BookIds -> Book \cup {NoRow}],
             reviews' \in [ReviewIds -> Review \cup {NoRow}]
      PROVE  TypeInv'
  BY <1>a, AnswerTyped DEF TypeInv, TypeOK, users
<1>o. "ok" \in Answers /\ "internal" \in Answers
  BY DEF Answers
<1>1. CASE InsertBook(c)
  <2>1. req[c].row \in Book
    BY <1>1, <1>q DEF InsertBook, At, WellFormed, BookToSave
  <2> QED
    BY <1>1, <1>q, <1>a, <1>o, <2>1 DEF InsertBook
<1>2. CASE InsertReview(c)
  <2>1. req[c].row \in Review
    BY <1>2, <1>q DEF InsertReview, At, WellFormed, ReviewToSave
  <2> QED
    BY <1>2, <1>q, <1>a, <1>o, <2>1 DEF InsertReview
<1>3. CASE WriteBook(c)
  <2>1. req[c].row \in Book /\ BookToSave(req[c]) \in Book
    BY <1>3, <1>q DEF WriteBook, At, WellFormed
  <2> QED
    BY <1>3, <1>q, <1>a, <1>o, <2>1, BookColumnsType DEF WriteBook
<1>4. CASE WriteReview(c)
  <2>1. req[c].row \in Review /\ ReviewToSave(req[c]) \in Review
    BY <1>4, <1>q DEF WriteReview, At, WellFormed
  <2> QED
    BY <1>4, <1>q, <1>a, <1>o, <2>1, ReviewColumnsType DEF WriteReview
<1>5. CASE RemoveBook(c)
  BY <1>5, <1>q, <1>a, <1>o DEF RemoveBook
<1>6. CASE RemoveReview(c)
  BY <1>6, <1>q, <1>a, <1>o DEF RemoveReview
<1> QED
  BY <1>1, <1>2, <1>3, <1>4, <1>5, <1>6

LEMMA StoreTypeInv ==
    ASSUME TypeInv, NEW c \in Clients, StoreStep(c) \/ StoreFails(c)
    PROVE  TypeInv'
<1>1. CASE StoreStep(c)
  BY <1>1, ValidateTypeInv, FindTypeInv, WriteTypeInv DEF StoreStep
<1>2. CASE StoreFails(c)
  BY <1>2, AnswerTypeInv DEF StoreFails, Answers
<1> QED
  BY <1>1, <1>2

\* The steps on the users collection, and the steps that change nothing.
LEMMA UsersTypeInv ==
    ASSUME TypeInv,
           (\E u \in Users : VerifyAccount(u) \/ DeleteAccount(u)) \/ UNCHANGED vars
    PROVE  TypeInv'
BY DEF TypeInv, TypeOK, VerifyAccount, DeleteAccount, vars, users, tables

LEMMA InitTypeInv == Init => TypeInv
<1>1. Init => \A c \in Clients : req[c] = Idle
  BY DEF Init
<1>2. Idle \in Request
  BY IdleWellFormed DEF WellFormed
<1> QED
  BY <1>1, <1>2, IdleWellFormed DEF Init, TypeInv, TypeOK, Answers

LEMMA NextTypeInv == TypeInv /\ [Next]_vars => TypeInv'
BY InterceptorTypeInv, HandlerTypeInv, StoreTypeInv, UsersTypeInv DEF Next

(***************************************************************************)
(* The tables hold only rows that fit their collections, and every request *)
(* under way is well formed: no order of overlapping updates, deletes and  *)
(* failures of the database lets an unvalidated value reach a table.       *)
(***************************************************************************)
THEOREM TypeCorrect == Spec => []TypeOK
<1>1. TypeInv => TypeOK
  BY DEF TypeInv
<1> QED
  BY <1>1, InitTypeInv, NextTypeInv, PTL DEF Spec

-----------------------------------------------------------------------------
(***************************************************************************)
(* What the policies permit.                                               *)
(***************************************************************************)

\* Only its author, with a verified email, may change or delete a book.
LEMMA BookWritersPolicy ==
    ASSUME NEW u, NEW v \in BOOLEAN, NEW author, NEW status,
           NEW action \in {"UpdateBook", "DeleteBook"}
    PROVE  Authorize(u, v, action, BookEntity(author, status)) <=> author = u /\ v
BY DEF Authorize, Principal, BookEntity, UserPermits, BookPermits, ReviewPermits, Forbids

\* Everybody with a verified email but its author may review a book: the
\* forbid statement wins over the permit.
LEMMA CreateReviewPolicy ==
    ASSUME NEW u, NEW v \in BOOLEAN, NEW author
    PROVE  Authorize(u, v, "CreateReview", ReviewEntity(u, author)) <=> author # u /\ v
BY DEF Authorize, Principal, ReviewEntity, UserPermits, BookPermits, ReviewPermits, Forbids

-----------------------------------------------------------------------------
(***************************************************************************)
(* Visibility and buttons, from the types of the tables.                   *)
(***************************************************************************)

(***************************************************************************)
(* A user finds in the list of books exactly the books that GetBook would  *)
(* show them.  This rests on type correctness: with a third status the Go  *)
(* loop would list a book that the policies hide.                          *)
(***************************************************************************)
THEOREM ListAndPolicyAgree == Spec => []ListShowsExactlyGettable
<1>1. TypeOK => ListShowsExactlyGettable
  <2> SUFFICES ASSUME TypeOK, NEW u \in Users, NEW b \in LiveBooks
               PROVE  Listed(u, books[b]) <=>
                        Authorize(u, u \in verified, "GetBook",
                                  BookEntity(books[b].author, books[b].status))
    BY DEF ListShowsExactlyGettable
  <2>1. books[b] \in Book
    BY DEF TypeOK, LiveBooks
  <2>2. books[b].status \in {"draft", "published"}
    BY <2>1 DEF Book, Statuses
  <2>3. Authorize(u, u \in verified, "GetBook", BookEntity(books[b].author, books[b].status))
          <=> books[b].status = "published" \/ (books[b].status = "draft" /\ books[b].author = u)
    BY DEF Authorize, Principal, BookEntity, UserPermits, BookPermits,
           ReviewPermits, Forbids
  <2> QED
    BY <2>2, <2>3 DEF Listed
<1> QED
  BY <1>1, TypeCorrect, PTL

(***************************************************************************)
(* For a verified user the book page offers exactly the operations on the  *)
(* book and on its reviews that the policies permit.                       *)
(***************************************************************************)
THEOREM PageAndPolicyAgree == Spec => []ButtonsMatchPolicy
<1>1. TypeOK => ButtonsMatchPolicy
  <2> SUFFICES ASSUME NEW u \in verified, NEW b \in LiveBooks
               PROVE  /\ \A a \in {"UpdateBook", "DeleteBook"} :
                           IsOwner(u, books[b]) <=>
                             Authorize(u, TRUE, a, BookEntity(books[b].author, books[b].status))
                      /\ CanReview(u, books[b]) <=>
                           Authorize(u, TRUE, "CreateReview", ReviewEntity(u, books[b].author))
                      /\ \A r \in ReviewsOf(b) :
                           CanDelete(u, reviews[r], books[b]) <=>
                             Authorize(u, TRUE, "DeleteReview",
                                       ReviewEntity(reviews[r].reviewer, books[b].author))
    BY DEF ButtonsMatchPolicy
  <2>1. ASSUME NEW a \in {"UpdateBook", "DeleteBook"}
        PROVE  IsOwner(u, books[b]) <=>
                 Authorize(u, TRUE, a, BookEntity(books[b].author, books[b].status))
    BY DEF Authorize, Principal, BookEntity, UserPermits, BookPermits,
           ReviewPermits, Forbids, IsOwner
  <2>2. CanReview(u, books[b]) <=>
          Authorize(u, TRUE, "CreateReview", ReviewEntity(u, books[b].author))
    BY DEF Authorize, Principal, ReviewEntity, UserPermits, BookPermits,
           ReviewPermits, Forbids, CanReview
  <2>3. ASSUME NEW r \in ReviewsOf(b)
        PROVE  CanDelete(u, reviews[r], books[b]) <=>
                 Authorize(u, TRUE, "DeleteReview",
                           ReviewEntity(reviews[r].reviewer, books[b].author))
    BY DEF Authorize, Principal, ReviewEntity, UserPermits, BookPermits,
           ReviewPermits, Forbids, CanDelete
  <2> QED
    BY <2>1, <2>2, <2>3
<1> QED
  BY <1>1, TypeCorrect, PTL
-----------------------------------------------------------------------------
(***************************************************************************)
(* The inductive invariant.                                                *)
(***************************************************************************)

\* The parts of IInv besides TypeInv.
Claims ==
    /\ KnownIsIssued /\ NewIdsAreFresh
    /\ NoSelfReview /\ NoSelfReviewComing
    /\ CallersAreVerified /\ BookWritersAreAuthors

\* A request that works on a book has the id of one.
LEMMA NewBookId ==
    ASSUME NEW q, WellFormed(q), q.op \in BookOps
    PROVE  q.id \in BookIds
BY DEF WellFormed, Request, Pcs, BookOps

\* Request record r makes no new claim on a book: either it is not about to
\* create, review, update or delete one, or q has the same claim already.
Quiet(q, r) ==
    /\ r.verified => r.user \in verified \cup Superusers
    /\ \/ r.op \notin {"CreateBook", "CreateReview", "UpdateBook", "DeleteBook"}
       \/ /\ r.op = q.op /\ r.id = q.id /\ r.user = q.user /\ r.verified = q.verified
          /\ r.op = "CreateReview" => r.row = q.row

\* The step creates no row and keeps the columns that name other records.
TablesKept ==
    /\ \A b \in BookIds : books'[b] # NoRow =>
         books[b] # NoRow /\ books'[b].author = books[b].author
    /\ \A r \in ReviewIds : reviews'[r] # NoRow =>
         /\ reviews[r] # NoRow
         /\ reviews'[r].book = reviews[r].book
         /\ reviews'[r].reviewer = reviews[r].reviewer

\* A step that keeps the tables and makes no claim preserves all claims.
LEMMA KeptStep ==
    ASSUME IInv, NEW c \in Clients, NEW r, Quiet(req[c], r), req' = [req EXCEPT ![c] = r],
           TablesKept, UNCHANGED <<users, issued>>
    PROVE  Claims'
<1>1. \A d \in Clients : req'[d] = IF d = c THEN r ELSE req[d]
  BY DEF IInv, TypeInv, TypeOK
<1>2. UNCHANGED <<verified, issued>>
  BY DEF users
<1>3. \A b \in BookIds : Known(b)' => Known(b)
  BY <1>1 DEF Known, LiveReviews, Quiet, TablesKept
<1>4. KnownIsIssued'
  BY <1>2, <1>3 DEF KnownIsIssued, IInv
<1>5. NewIdsAreFresh'
  <2>1. \A d \in Clients : req'[d].op = "CreateBook" =>
          req[d].op = "CreateBook" /\ req'[d].id = req[d].id
    BY <1>1 DEF Quiet
  <2>2. \A d \in Clients : req[d].op = "CreateBook" => req[d].id \in BookIds
    BY NewBookId DEF IInv, TypeInv, BookOps
  <2> QED
    BY <2>1, <2>2, <1>2, <1>3 DEF NewIdsAreFresh, IInv
<1>6. NoSelfReview'
  BY DEF NoSelfReview, LiveBooks, LiveReviews, TablesKept, IInv
<1>7. NoSelfReviewComing'
  BY <1>1 DEF NoSelfReviewComing, LiveBooks, Quiet, TablesKept, IInv
<1>8. CallersAreVerified'
  BY <1>1, <1>2 DEF CallersAreVerified, Quiet, IInv
<1>9. BookWritersAreAuthors'
  <2>1. \A d \in Clients : req[d].op \in {"UpdateBook", "DeleteBook"} => req[d].id \in BookIds
    BY NewBookId DEF IInv, TypeInv, BookOps
  <2> QED
    BY <1>1, <2>1 DEF BookWritersAreAuthors, Quiet, TablesKept, IInv
<1> QED
  BY <1>4, <1>5, <1>6, <1>7, <1>8, <1>9 DEF Claims

LEMMA QuietStep ==
    ASSUME IInv, NEW c \in Clients, NEW r, Quiet(req[c], r),
           req' = [req EXCEPT ![c] = r], UNCHANGED <<users, tables, issued>>
    PROVE  Claims'
<1>1. TablesKept
  BY DEF TablesKept, tables
<1> QED
  BY <1>1, KeptStep

LEMMA AnswerClaims ==
    ASSUME IInv, NEW c \in Clients, NEW o, Answer(c, o), UNCHANGED <<users, tables, issued>>
    PROVE  Claims'
<1>1. Quiet(req[c], Idle)
  BY DEF Quiet, Idle
<1> QED
  BY <1>1, QuietStep DEF Answer

LEMMA InterceptorClaims ==
    ASSUME IInv, NEW c \in Clients, Interceptor(c)
    PROVE  Claims'
<1>1. PICK u \in accounts \cup Superusers :
        req' = [req EXCEPT ![c] = [Idle EXCEPT !.pc = "handler", !.user = u,
                                               !.verified = u \in verified \cup Superusers]]
  BY DEF Interceptor
<1>2. Quiet(req[c], [Idle EXCEPT !.pc = "handler", !.user = u,
                                 !.verified = u \in verified \cup Superusers])
  BY DEF Quiet, Idle
<1> QED
  BY <1>1, <1>2, QuietStep DEF Interceptor

\* The reads of the review handlers.
LEMMA ReviewReadsClaims ==
    ASSUME IInv, NEW c \in Clients, UpdateReview(c) \/ DeleteReview(c) \/ ShowReview(c)
    PROVE  Claims'
<1>q. WellFormed(req[c]) /\ (req[c].verified => req[c].user \in verified \cup Superusers)
  BY DEF IInv, TypeInv, CallersAreVerified
<1>1. ASSUME NEW op \in {"GetReview", "UpdateReview", "DeleteReview"}, GetReview(c, op)
      PROVE  Claims'
  <2>1. ASSUME NEW r \in ReviewIds,
               Continue(c, [req[c] EXCEPT !.pc = "review", !.op = op, !.id = r, !.row = reviews[r]])
        PROVE  Claims'
    <3>1. Quiet(req[c], [req[c] EXCEPT !.pc = "review", !.op = op, !.id = r, !.row = reviews[r]])
      BY <1>q DEF Quiet, WellFormed, Request
    <3> QED
      BY <1>1, <2>1, <3>1, QuietStep DEF Continue, GetReview
  <2> QED
    BY <1>1, <2>1, AnswerClaims DEF GetReview
<1>2. ASSUME NEW op, GetReviewedBook(c, op)
      PROVE  Claims'
  BY <1>2, AnswerClaims DEF GetReviewedBook
<1>3. ASSUME At(c, "review", {"UpdateReview"}), UNCHANGED <<users, tables, issued>>,
             NEW u \in ReviewUpdate,
             Answer(c, "invalid")
               \/ Continue(c, [req[c] EXCEPT !.pc = "update", !.row = NoRow, !.update = u])
      PROVE  Claims'
  <2>1. Quiet(req[c], [req[c] EXCEPT !.pc = "update", !.row = NoRow, !.update = u])
    BY <1>3, <1>q DEF Quiet, WellFormed, Request, At
  <2> QED
    BY <1>3, <2>1, AnswerClaims, QuietStep DEF Continue
<1>4. CASE /\ At(c, "review", {"DeleteReview"})
           /\ Continue(c, [req[c] EXCEPT !.pc = "delete", !.row = NoRow])
           /\ UNCHANGED <<users, tables, issued>>
  <2>1. Quiet(req[c], [req[c] EXCEPT !.pc = "delete", !.row = NoRow])
    BY <1>4, <1>q DEF Quiet, WellFormed, Request, At
  <2> QED
    BY <1>4, <2>1, QuietStep DEF Continue
<1>5. CASE Answer(c, "ok") /\ UNCHANGED <<users, tables, issued>>
  BY <1>5, AnswerClaims
<1> QED
  BY <1>1, <1>2, <1>3, <1>4, <1>5 DEF UpdateReview, DeleteReview, ShowReview

\* The lookups and the validation of the store.
LEMMA StoreReadsClaims ==
    ASSUME IInv, NEW c \in Clients,
           \/ FindBookForUpdate(c) \/ FindReviewForUpdate(c)
           \/ FindBookForDelete(c) \/ FindReviewForDelete(c)
           \/ ValidateBook(c) \/ ValidateReview(c)
    PROVE  Claims'
<1>q. WellFormed(req[c]) /\ (req[c].verified => req[c].user \in verified \cup Superusers)
  BY DEF IInv, TypeInv, CallersAreVerified
<1>1. ASSUME NEW op \in {"UpdateBook", "UpdateReview"}, NEW table, FindForUpdate(c, op, table)
      PROVE  Claims'
  <2>1. Quiet(req[c], [req[c] EXCEPT !.pc = "validate", !.row = table[req[c].id]])
    BY <1>1, <1>q DEF Quiet, WellFormed, Request, FindForUpdate, At
  <2> QED
    BY <1>1, <2>1, AnswerClaims, QuietStep DEF FindForUpdate, Continue
<1>2. ASSUME NEW op, NEW table, FindForDelete(c, op, table)
      PROVE  Claims'
  <2>1. Quiet(req[c], [req[c] EXCEPT !.pc = "remove"])
    BY <1>q DEF Quiet, WellFormed, Request
  <2> QED
    BY <1>2, <2>1, AnswerClaims, QuietStep DEF FindForDelete, Continue
<1>3. ASSUME NEW ops, NEW valid, Validate(c, ops, valid)
      PROVE  Claims'
  <2>1. Quiet(req[c], [req[c] EXCEPT !.pc = "write"])
    BY <1>q DEF Quiet, WellFormed, Request
  <2> QED
    BY <1>3, <2>1, AnswerClaims, QuietStep DEF Validate, Continue
<1> QED
  BY <1>1, <1>2, <1>3 DEF FindBookForUpdate, FindReviewForUpdate, FindBookForDelete,
                          FindReviewForDelete, ValidateBook, ValidateReview

\* Updates keep the relations of the row, and removals add none.
LEMMA ChangeClaims ==
    ASSUME IInv, NEW c \in Clients,
           WriteBook(c) \/ WriteReview(c) \/ RemoveBook(c) \/ RemoveReview(c)
    PROVE  Claims'
<1>q. /\ WellFormed(req[c])
      /\ books \in [BookIds -> Book \cup {NoRow}]
      /\ reviews \in [ReviewIds -> Review \cup {NoRow}]
  BY DEF IInv, TypeInv, TypeOK
<1>a. ASSUME NEW o, Answer(c, o), TablesKept, UNCHANGED <<users, issued>>
      PROVE  Claims'
  <2>1. Quiet(req[c], Idle)
    BY DEF Quiet, Idle
  <2> QED
    BY <1>a, <2>1, KeptStep DEF Answer
<1>1. CASE WriteBook(c)
  <2>1. /\ req[c].row \in Book
        /\ BookToSave(req[c]) \in Book
        /\ BookToSave(req[c]).author = req[c].row.author
    BY <1>1, <1>q, SetBookFieldsType DEF WriteBook, At, WellFormed, BookToSave
  <2>2. TablesKept
    BY <1>1, <1>q, <2>1, BookColumnsType DEF WriteBook, TablesKept
  <2> QED
    BY <1>1, <1>a, <2>2 DEF WriteBook
<1>2. CASE WriteReview(c)
  <2>1. /\ req[c].row \in Review
        /\ ReviewToSave(req[c]) \in Review
        /\ ReviewToSave(req[c]).book = req[c].row.book
        /\ ReviewToSave(req[c]).reviewer = req[c].row.reviewer
    BY <1>2, <1>q, SetReviewFieldsType DEF WriteReview, At, WellFormed, ReviewToSave
  <2>2. TablesKept
    BY <1>2, <1>q, <2>1, ReviewColumnsType DEF WriteReview, TablesKept
  <2> QED
    BY <1>2, <1>a, <2>2 DEF WriteReview
<1>3. CASE RemoveBook(c)
  <2>1. TablesKept
    BY <1>3, <1>q DEF RemoveBook, TablesKept
  <2> QED
    BY <1>3, <1>a, <2>1 DEF RemoveBook
<1>4. CASE RemoveReview(c)
  <2>1. TablesKept
    BY <1>4, <1>q DEF RemoveReview, TablesKept
  <2> QED
    BY <1>4, <1>a, <2>1 DEF RemoveReview
<1> QED
  BY <1>1, <1>2, <1>3, <1>4

\* A new id is not issued yet, so nothing refers to it.
LEMMA CreateBookClaims ==
    ASSUME IInv, NEW c \in Clients, CreateBook(c)
    PROVE  Claims'
<1>q. WellFormed(req[c]) /\ (req[c].verified => req[c].user \in verified \cup Superusers)
  BY DEF IInv, TypeInv, CallersAreVerified
<1>1. CASE Answer(c, "denied") /\ UNCHANGED <<users, tables, issued>>
  BY <1>1, AnswerClaims
<1>2. ASSUME NEW row, CreateRow(c, "CreateBook", BookIds, row)
      PROVE  Claims'
  <2>1. PICK id \in BookIds \ issued :
          /\ issued' = issued \cup {id}
          /\ req' = [req EXCEPT ![c] = [req[c] EXCEPT !.pc = "validate", !.op = "CreateBook",
                                                      !.id = id, !.row = row]]
          /\ UNCHANGED <<users, tables>>
    BY <1>2 DEF CreateRow, Continue
  <2>2. /\ req'[c].op = "CreateBook" /\ req'[c].id = id
        /\ req'[c].verified = req[c].verified /\ req'[c].user = req[c].user
        /\ \A d \in Clients \ {c} : req'[d] = req[d]
    BY <1>q, <2>1 DEF IInv, TypeInv, TypeOK, WellFormed, Request
  <2>3. UNCHANGED <<books, reviews, verified>>
    BY <2>1 DEF users, tables
  <2>4. \A b \in BookIds : Known(b)' => Known(b)
    BY <2>2, <2>3 DEF Known, LiveReviews
  <2>5. KnownIsIssued'
    BY <2>1, <2>4 DEF KnownIsIssued, IInv
  <2>6. NewIdsAreFresh'
    <3>1. \A d \in Clients \ {c} : req[d].op = "CreateBook" =>
            /\ req[d].id \in BookIds /\ req[d].id \in issued
            /\ ~Known(req[d].id)
      BY NewBookId DEF IInv, TypeInv, BookOps, NewIdsAreFresh
    <3>2. ~Known(id)
      BY <2>1 DEF IInv, KnownIsIssued
    <3> QED
      BY <2>1, <2>2, <2>4, <3>1, <3>2 DEF IInv, NewIdsAreFresh
  <2>7. NoSelfReview' /\ NoSelfReviewComing'
    BY <2>2, <2>3 DEF NoSelfReview, NoSelfReviewComing, LiveBooks, LiveReviews, IInv
  <2>8. CallersAreVerified' /\ BookWritersAreAuthors'
    BY <1>q, <2>2, <2>3 DEF CallersAreVerified, BookWritersAreAuthors, IInv
  <2> QED
    BY <2>5, <2>6, <2>7, <2>8 DEF Claims
<1> QED
  BY <1>1, <1>2 DEF CreateBook

\* The policy lets the author alone go on to change or delete the book.
LEMMA BookWriterClaims ==
    ASSUME IInv, NEW c \in Clients, UpdateBook(c) \/ DeleteBook(c)
    PROVE  Claims'
<1>q. WellFormed(req[c]) /\ (req[c].verified => req[c].user \in verified \cup Superusers)
  BY DEF IInv, TypeInv, CallersAreVerified
<1>1. ASSUME NEW b \in BookIds, NEW a \in {"UpdateBook", "DeleteBook"}, NEW r,
             r.op = a, r.id = b, r.user = req[c].user, r.verified = req[c].verified,
             WithBook(c, b, a, r)
      PROVE  Claims'
  <2>1. CASE (Answer(c, "notFound") \/ Answer(c, "denied")) /\ UNCHANGED <<users, tables, issued>>
    BY <2>1, AnswerClaims
  <2>2. CASE /\ books[b] # NoRow
             /\ CallerMay(c, a, BookEntity(books[b].author, books[b].status))
             /\ Continue(c, r)
             /\ UNCHANGED <<users, tables, issued>>
    <3>1. \A d \in Clients : req'[d] = IF d = c THEN r ELSE req[d]
      BY <2>2 DEF Continue, IInv, TypeInv, TypeOK
    <3>2. UNCHANGED <<books, reviews, verified, issued>>
      BY <2>2 DEF users, tables
    <3>3. books[b].author = req[c].user /\ req[c].verified
      BY <2>2 DEF CallerMay, Authorize, Principal, BookEntity, UserPermits, BookPermits,
                  ReviewPermits, Forbids
    <3>4. \A x \in BookIds : Known(x)' => Known(x)
      BY <1>1, <2>2, <3>1, <3>2 DEF Known, LiveReviews
    <3>5. KnownIsIssued'
      BY <3>2, <3>4 DEF KnownIsIssued, IInv
    <3>6. NewIdsAreFresh'
      <4>1. \A d \in Clients : req[d].op = "CreateBook" => req[d].id \in BookIds
        BY NewBookId DEF IInv, TypeInv, BookOps
      <4> QED
        BY <1>1, <3>1, <3>2, <3>4, <4>1 DEF NewIdsAreFresh, IInv
    <3>7. NoSelfReview' /\ NoSelfReviewComing'
      BY <1>1, <3>1, <3>2 DEF NoSelfReview, NoSelfReviewComing, LiveBooks, LiveReviews, IInv
    <3>8. CallersAreVerified' /\ BookWritersAreAuthors'
      BY <1>1, <1>q, <3>1, <3>2, <3>3 DEF CallersAreVerified, BookWritersAreAuthors, IInv
    <3> QED
      BY <3>5, <3>6, <3>7, <3>8 DEF Claims
  <2> QED
    BY <1>1, <2>1, <2>2 DEF WithBook
<1>2. CASE UpdateBook(c)
  <2>1. PICK b \in BookIds, u \in BookUpdate :
          WithBook(c, b, "UpdateBook",
                   [req[c] EXCEPT !.pc = "update", !.op = "UpdateBook", !.id = b, !.update = u])
    BY <1>2 DEF UpdateBook
  <2> QED
    BY <1>q, <1>1, <2>1 DEF WellFormed, Request
<1>3. CASE DeleteBook(c)
  <2>1. PICK b \in BookIds :
          WithBook(c, b, "DeleteBook",
                   [req[c] EXCEPT !.pc = "delete", !.op = "DeleteBook", !.id = b])
    BY <1>3 DEF DeleteBook
  <2> QED
    BY <1>q, <1>1, <2>1 DEF WellFormed, Request
<1> QED
  BY <1>2, <1>3

\* The policy forbids a review by the author that the handler has just read.
LEMMA CreateReviewClaims ==
    ASSUME IInv, NEW c \in Clients, CreateReview(c)
    PROVE  Claims'
<1>q. WellFormed(req[c]) /\ (req[c].verified => req[c].user \in verified \cup Superusers)
  BY DEF IInv, TypeInv, CallersAreVerified
<1>1. ASSUME NEW o, Answer(c, o), UNCHANGED <<users, tables, issued>>
      PROVE  Claims'
  BY <1>1, AnswerClaims
<1>2. ASSUME NEW b \in BookIds, books[b] # NoRow,
             CallerMay(c, "CreateReview", ReviewEntity(req[c].user, books[b].author)),
             NEW row, row.book = b, row.reviewer = req[c].user,
             CreateRow(c, "CreateReview", ReviewIds, row)
      PROVE  Claims'
  <2>1. PICK id \in ReviewIds \ issued :
          /\ issued' = issued \cup {id}
          /\ req' = [req EXCEPT ![c] = [req[c] EXCEPT !.pc = "validate", !.op = "CreateReview",
                                                      !.id = id, !.row = row]]
          /\ UNCHANGED <<users, tables>>
    BY <1>2 DEF CreateRow, Continue
  <2>2. /\ req'[c].op = "CreateReview" /\ req'[c].row = row
        /\ req'[c].verified = req[c].verified /\ req'[c].user = req[c].user
        /\ \A d \in Clients \ {c} : req'[d] = req[d]
    BY <1>q, <2>1 DEF IInv, TypeInv, TypeOK, WellFormed, Request
  <2>3. UNCHANGED <<books, reviews, verified>>
    BY <2>1 DEF users, tables
  <2>4. \A x \in BookIds : Known(x)' => Known(x)
    BY <1>2, <2>2, <2>3 DEF Known, LiveReviews
  <2>5. KnownIsIssued'
    BY <2>1, <2>4 DEF KnownIsIssued, IInv
  <2>6. NewIdsAreFresh'
    <3>1. \A d \in Clients : req[d].op = "CreateBook" => req[d].id \in BookIds
      BY NewBookId DEF IInv, TypeInv, BookOps
    <3> QED
      BY <2>1, <2>2, <2>4, <3>1 DEF IInv, NewIdsAreFresh
  <2>7. books[b].author # req[c].user
    BY <1>2 DEF CallerMay, Authorize, Principal, ReviewEntity, UserPermits, BookPermits,
                ReviewPermits, Forbids
  <2>8. NoSelfReview' /\ NoSelfReviewComing'
    BY <1>2, <2>2, <2>3, <2>7 DEF NoSelfReview, NoSelfReviewComing, LiveBooks, LiveReviews, IInv
  <2>9. CallersAreVerified' /\ BookWritersAreAuthors'
    BY <1>q, <2>2, <2>3 DEF CallersAreVerified, BookWritersAreAuthors, IInv
  <2> QED
    BY <2>5, <2>6, <2>8, <2>9 DEF Claims
<1>3. PICK b \in BookIds, text \in Contents \cup {""}, n \in RatingInputs :
        \/ /\ Answer(c, "notFound") \/ Answer(c, "denied") \/ Answer(c, "invalid")
           /\ UNCHANGED <<users, tables, issued>>
        \/ /\ books[b] # NoRow
           /\ CallerMay(c, "CreateReview", ReviewEntity(req[c].user, books[b].author))
           /\ CreateRow(c, "CreateReview", ReviewIds,
                        [book |-> b, reviewer |-> req[c].user, content |-> text, rating |-> n])
  BY DEF CreateReview
<1> QED
  BY <1>1, <1>2, <1>3

\* Nothing refers to a book before its row is inserted.
LEMMA InsertBookClaims ==
    ASSUME IInv, NEW c \in Clients, InsertBook(c)
    PROVE  Claims'
<1> DEFINE b == req[c].id
<1>1. /\ req[c].op = "CreateBook"
      /\ b \in BookIds
      /\ b \in issued
      /\ ~Known(b)
      /\ \A d \in Clients : req[d].op = "CreateBook" /\ req[d].id = b => d = c
  BY NewBookId DEF InsertBook, At, IInv, TypeInv, NewIdsAreFresh, BookOps
<1>2. req'[c].op = "" /\ req'[c].verified = FALSE
  BY DEF InsertBook, Answer, Idle, IInv, TypeInv, TypeOK
<1>3. \A d \in Clients \ {c} : req'[d] = req[d]
  BY DEF InsertBook, Answer, IInv, TypeInv, TypeOK
<1>4. /\ \A x \in BookIds \ {b} : books'[x] = books[x]
      /\ UNCHANGED <<reviews, verified, issued>>
  BY DEF InsertBook, users, IInv, TypeInv, TypeOK
<1> HIDE DEF b
<1>5. \A x \in BookIds \ {b} : Known(x)' => Known(x)
  BY <1>2, <1>3, <1>4 DEF Known, LiveReviews
<1>6. KnownIsIssued'
  BY <1>1, <1>4, <1>5 DEF KnownIsIssued, IInv
<1>7. NewIdsAreFresh'
  <2>1. \A d \in Clients \ {c} : req[d].op = "CreateBook" => req[d].id \in BookIds \ {b}
    BY <1>1, NewBookId DEF IInv, TypeInv, BookOps
  <2> QED
    BY <1>2, <1>3, <1>4, <1>5, <2>1 DEF NewIdsAreFresh, IInv
<1>8. NoSelfReview'
  <2>1. \A r \in LiveReviews : reviews[r].book # b
    BY <1>1 DEF Known
  <2> QED
    BY <1>4, <2>1 DEF NoSelfReview, LiveBooks, LiveReviews, IInv
<1>9. NoSelfReviewComing'
  <2>1. \A d \in Clients : req[d].op = "CreateReview" => req[d].row.book # b
    BY <1>1 DEF Known
  <2> SUFFICES ASSUME NEW d \in Clients, req'[d].op = "CreateReview",
                      NEW x \in BookIds, books'[x] # NoRow, req'[d].row.book = x
               PROVE  req'[d].row.reviewer # books'[x].author
    BY DEF NoSelfReviewComing, LiveBooks
  <2>2. d # c /\ req'[d] = req[d]
    BY <1>2, <1>3
  <2>3. books'[x] = books[x]
    BY <1>4, <2>1, <2>2
  <2> QED
    BY <2>2, <2>3 DEF NoSelfReviewComing, LiveBooks, IInv
<1>10. CallersAreVerified'
  BY <1>2, <1>3, <1>4 DEF CallersAreVerified, IInv
<1>11. BookWritersAreAuthors'
  <2>1. \A d \in Clients : req[d].op \in {"UpdateBook", "DeleteBook"} => req[d].id \in BookIds \ {b}
    BY <1>1, NewBookId DEF Known, IInv, TypeInv, BookOps
  <2>2. \A d \in Clients : req'[d].op \in {"UpdateBook", "DeleteBook"} => req'[d] = req[d]
    BY <1>2, <1>3
  <2> QED
    BY <1>4, <2>1, <2>2 DEF BookWritersAreAuthors, IInv
<1> QED
  BY <1>6, <1>7, <1>8, <1>9, <1>10, <1>11 DEF Claims

\* The new review was already known to be on somebody else's book.
LEMMA InsertReviewClaims ==
    ASSUME IInv, NEW c \in Clients, InsertReview(c)
    PROVE  Claims'
<1> DEFINE i == req[c].id
<1>1. req[c].op = "CreateReview" /\ i \in ReviewIds
  BY DEF InsertReview, At, IInv, TypeInv, WellFormed, ReviewOps
<1>2. req'[c].op = "" /\ req'[c].verified = FALSE
  BY DEF InsertReview, Answer, Idle, IInv, TypeInv, TypeOK
<1>3. \A d \in Clients \ {c} : req'[d] = req[d]
  BY DEF InsertReview, Answer, IInv, TypeInv, TypeOK
<1>4. /\ reviews'[i] = req[c].row
      /\ \A x \in ReviewIds \ {i} : reviews'[x] = reviews[x]
      /\ UNCHANGED <<books, verified, issued>>
  BY <1>1 DEF InsertReview, users, IInv, TypeInv, TypeOK
<1> HIDE DEF i
<1>5. \A x \in BookIds : Known(x)' => Known(x)
  BY <1>1, <1>2, <1>3, <1>4 DEF Known, LiveReviews
<1>6. KnownIsIssued'
  BY <1>4, <1>5 DEF KnownIsIssued, IInv
<1>7. NewIdsAreFresh'
  <2>1. \A d \in Clients : req[d].op = "CreateBook" => req[d].id \in BookIds
    BY NewBookId DEF IInv, TypeInv, BookOps
  <2>2. \A d \in Clients : req'[d].op = "CreateBook" => req'[d] = req[d]
    BY <1>2, <1>3
  <2> QED
    BY <1>4, <1>5, <2>1, <2>2 DEF NewIdsAreFresh, IInv
<1>8. NoSelfReview'
  BY <1>1, <1>4 DEF NoSelfReview, NoSelfReviewComing, LiveBooks, LiveReviews, IInv
<1>9. NoSelfReviewComing'
  <2>1. \A d \in Clients : req'[d].op = "CreateReview" => req'[d] = req[d]
    BY <1>2, <1>3
  <2> QED
    BY <1>4, <2>1 DEF NoSelfReviewComing, LiveBooks, IInv
<1>10. CallersAreVerified'
  BY <1>2, <1>3, <1>4 DEF CallersAreVerified, IInv
<1>11. BookWritersAreAuthors'
  <2>1. \A d \in Clients : req'[d].op \in {"UpdateBook", "DeleteBook"} => req'[d] = req[d]
    BY <1>2, <1>3
  <2> QED
    BY <1>4, <2>1 DEF BookWritersAreAuthors, IInv
<1> QED
  BY <1>6, <1>7, <1>8, <1>9, <1>10, <1>11 DEF Claims

\* Verifying an account makes no claim stale; deleting one touches none.
LEMMA UsersClaims ==
    ASSUME IInv,
           (\E u \in Users : VerifyAccount(u) \/ DeleteAccount(u)) \/ UNCHANGED vars
    PROVE  Claims'
<1>1. UNCHANGED <<books, reviews, issued, req>> /\ verified \subseteq verified'
  BY DEF VerifyAccount, DeleteAccount, vars, users, tables
<1>2. \A b \in BookIds : Known(b)' => Known(b)
  BY <1>1 DEF Known, LiveReviews
<1>3. KnownIsIssued' /\ NewIdsAreFresh'
  <2>1. \A d \in Clients : req[d].op = "CreateBook" => req[d].id \in BookIds
    BY NewBookId DEF IInv, TypeInv, BookOps
  <2> QED
    BY <1>1, <1>2, <2>1 DEF KnownIsIssued, NewIdsAreFresh, IInv
<1>4. NoSelfReview' /\ NoSelfReviewComing'
  BY <1>1 DEF NoSelfReview, NoSelfReviewComing, LiveBooks, LiveReviews, IInv
<1>5. CallersAreVerified' /\ BookWritersAreAuthors'
  BY <1>1 DEF CallersAreVerified, BookWritersAreAuthors, IInv
<1> QED
  BY <1>3, <1>4, <1>5 DEF Claims

LEMMA InitIInv == Init => IInv
<1> SUFFICES ASSUME Init PROVE Claims
  BY InitTypeInv DEF IInv, Claims
<1>1. \A c \in Clients : req[c].op = "" /\ req[c].verified = FALSE
  BY DEF Init, Idle
<1>2. LiveBooks = {} /\ LiveReviews = {}
  BY DEF Init, LiveBooks, LiveReviews
<1>3. \A b \in BookIds : ~Known(b)
  BY <1>1, <1>2 DEF Known, LiveBooks
<1> QED
  BY <1>1, <1>2, <1>3
     DEF Claims, KnownIsIssued, NewIdsAreFresh, NoSelfReview, NoSelfReviewComing,
         CallersAreVerified, BookWritersAreAuthors

LEMMA NextIInv == IInv /\ [Next]_vars => IInv'
<1> SUFFICES ASSUME IInv, [Next]_vars PROVE Claims'
  BY NextTypeInv DEF IInv, Claims
<1>1. ASSUME NEW c \in Clients, Interceptor(c) PROVE Claims'
  BY <1>1, InterceptorClaims
<1>2. ASSUME NEW c \in Clients, HandlerStep(c) PROVE Claims'
  BY <1>2, CreateBookClaims, BookWriterClaims, CreateReviewClaims, ReviewReadsClaims,
     ReadsAnswer, AnswerClaims DEF HandlerStep
<1>3. ASSUME NEW c \in Clients, StoreStep(c) PROVE Claims'
  BY <1>3, StoreReadsClaims, ChangeClaims, InsertBookClaims, InsertReviewClaims DEF StoreStep
<1>4. ASSUME NEW c \in Clients, StoreFails(c) PROVE Claims'
  BY <1>4, AnswerClaims DEF StoreFails
<1> QED
  BY <1>1, <1>2, <1>3, <1>4, UsersClaims DEF Next

(***************************************************************************)
(* What the other theorems rest on: rows and requests fit their types, ids *)
(* of books are handed out once, and what the policy has seen of callers   *)
(* and authors has not become stale.                                       *)
(***************************************************************************)
THEOREM Invariant == Spec => []IInv
BY InitIInv, NextIInv, PTL DEF Spec

(***************************************************************************)
(* Nobody ever has a review of a book of their own, although CreateReview  *)
(* decides on an author that it read several steps before the INSERT: the  *)
(* author of a book never changes, and the id of a book that is still to   *)
(* be inserted is in no review and in no request.                          *)
(***************************************************************************)
THEOREM NoSelfReviews == Spec => []NoSelfReview
<1>1. IInv => NoSelfReview
  BY DEF IInv
<1> QED
  BY <1>1, Invariant, PTL

-----------------------------------------------------------------------------
(***************************************************************************)
(* Action properties.                                                      *)
(***************************************************************************)

\* Only a write changes the books table, and then the request is answered.
LEMMA BooksChangeByWrites ==
    ASSUME TypeInv, [Next]_vars, books' # books
    PROVE  \E c \in Clients : /\ InsertBook(c) \/ WriteBook(c) \/ RemoveBook(c)
                              /\ req[c].pc # "idle" /\ req'[c] = Idle
<1>1. PICK c \in Clients : InsertBook(c) \/ WriteBook(c) \/ RemoveBook(c)
  <2>1. ASSUME NEW c \in Clients, Interceptor(c) PROVE FALSE
    BY <2>1 DEF Interceptor, tables
  <2>2. ASSUME NEW c \in Clients, HandlerStep(c) PROVE FALSE
    BY <2>2 DEF HandlerStep, CreateBook, UpdateBook, DeleteBook, WithBook, CreateReview,
                UpdateReview, DeleteReview, ShowReview, GetReview, GetReviewedBook, GetBook,
                ListBooks, ListReviews, List, CreateRow, tables
  <2>3. ASSUME NEW c \in Clients, StoreStep(c)
        PROVE  InsertBook(c) \/ WriteBook(c) \/ RemoveBook(c)
    BY <2>3 DEF StoreStep, ValidateBook, ValidateReview, Validate, InsertReview, WriteReview,
                RemoveReview, FindBookForUpdate, FindReviewForUpdate, FindForUpdate,
                FindBookForDelete, FindReviewForDelete, FindForDelete, tables
  <2>4. ASSUME NEW c \in Clients, StoreFails(c) PROVE FALSE
    BY <2>4 DEF StoreFails, tables
  <2>5. ASSUME NEW u \in Users, VerifyAccount(u) \/ DeleteAccount(u) PROVE FALSE
    BY <2>5 DEF VerifyAccount, DeleteAccount, tables
  <2> QED
    BY <2>1, <2>2, <2>3, <2>4, <2>5 DEF Next, vars, tables
<1>2. req[c].pc # "idle" /\ req'[c] = Idle
  BY <1>1 DEF InsertBook, WriteBook, RemoveBook, At, Answer, TypeInv, TypeOK
<1> QED
  BY <1>1, <1>2

\* The request whose write it was has taken a step.
LEMMA WriterSteps ==
    ASSUME NEW c \in Clients, req[c].pc # "idle", req'[c] = Idle
    PROVE  Steps(c)
<1>1. Idle.pc = "idle"
  BY DEF Idle
<1> QED
  BY <1>1 DEF Steps

(***************************************************************************)
(* Whatever happened since a request on a book was authorized, a row of    *)
(* the books table is changed or removed only for its verified author.     *)
(***************************************************************************)
THEOREM BookWriters == Spec => BooksWrittenByAuthor
<1>1. IInv /\ [Next]_vars =>
        [\A b \in LiveBooks : books'[b] # books[b] =>
           \E c \in Clients : /\ Steps(c)
                              /\ req[c].user = books[b].author
                              /\ req[c].user \in verified]_vars
  <2> SUFFICES ASSUME IInv, [Next]_vars, NEW b \in LiveBooks, books'[b] # books[b]
               PROVE  \E c \in Clients : /\ Steps(c)
                                         /\ req[c].user = books[b].author
                                         /\ req[c].user \in verified
    OBVIOUS
  <2>1. PICK c \in Clients : /\ InsertBook(c) \/ WriteBook(c) \/ RemoveBook(c)
                             /\ req[c].pc # "idle" /\ req'[c] = Idle
    BY BooksChangeByWrites DEF IInv
  <2>2. b = req[c].id
    BY <2>1 DEF InsertBook, WriteBook, RemoveBook, IInv, TypeInv, TypeOK, LiveBooks
  <2>3. books[b] \in Book
    BY DEF LiveBooks, IInv, TypeInv, TypeOK
  <2>4. ~InsertBook(c)
    BY <2>2 DEF InsertBook, At, IInv, NewIdsAreFresh, Known, LiveBooks
  <2>5. req[c].op \in {"UpdateBook", "DeleteBook"}
    BY <2>1, <2>4 DEF WriteBook, RemoveBook, At
  <2>6. req[c].user = books[b].author /\ req[c].verified
    BY <2>2, <2>5 DEF IInv, BookWritersAreAuthors, LiveBooks
  <2>7. req[c].user \in verified
    BY <2>3, <2>6, NamesAreDistinct DEF IInv, CallersAreVerified, Book
  <2> QED
    BY <2>1, <2>6, <2>7, WriterSteps
<1> QED
  BY <1>1, Invariant, PTL DEF Spec, BooksWrittenByAuthor
=============================================================================
