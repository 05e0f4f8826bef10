------------------------- MODULE LibraryTableProofs -------------------------
(***************************************************************************)
(* The handlers and pbstore implement the abstract table (module Table),   *)
(* for books and for reviews.  A step of the program either leaves the     *)
(* tables alone and goes on with a request, or draws an id for a new row,  *)
(* or writes to one row of one table; each of these is a step of Table or  *)
(* leaves its two variables as they are.                                   *)
(***************************************************************************)
EXTENDS LibraryProofs

Creates == {"CreateBook", "CreateReview"}

\* c goes on with request record r, which creates no other row than before.
GoesOn(c, r) ==
    /\ req' = [req EXCEPT ![c] = r]
    /\ r.op \in Creates => r.op = req[c].op /\ r.id = req[c].id
    /\ UNCHANGED <<books, reviews, issued>>

\* c has drawn an id of the table of "op".
Draws(c, r) ==
    /\ req' = [req EXCEPT ![c] = r]
    /\ req[c].op \notin Creates
    /\ r.op \in Creates
    /\ r.id \notin issued
    /\ r.op = "CreateBook" => r.id \in BookIds
    /\ r.op = "CreateReview" => r.id \in ReviewIds
    /\ issued' = issued \cup {r.id}
    /\ UNCHANGED <<books, reviews>>

WritesRow(c) ==
    \/ InsertBook(c) \/ WriteBook(c) \/ RemoveBook(c)
    \/ InsertReview(c) \/ WriteReview(c) \/ RemoveReview(c)

Shape(c) == (\E r : GoesOn(c, r)) \/ (\E r : Draws(c, r)) \/ WritesRow(c)

LEMMA AnswerGoesOn ==
    ASSUME NEW c \in Clients, NEW o, Answer(c, o), UNCHANGED <<tables, issued>>
    PROVE  Shape(c)
<1>1. GoesOn(c, Idle)
  BY DEF GoesOn, Answer, Idle, Creates, tables
<1> QED
  BY <1>1 DEF Shape

LEMMA ContinueGoesOn ==
    ASSUME NEW c \in Clients, NEW r, Continue(c, r), UNCHANGED <<tables, issued>>,
           r.op \in Creates => r.op = req[c].op /\ r.id = req[c].id
    PROVE  Shape(c)
<1>1. GoesOn(c, r)
  BY DEF GoesOn, Continue, tables
<1> QED
  BY <1>1 DEF Shape

LEMMA CreateRowDraws ==
    ASSUME TypeInv, NEW c \in Clients, req[c].pc = "handler", NEW row,
           \/ CreateRow(c, "CreateBook", BookIds, row)
           \/ CreateRow(c, "CreateReview", ReviewIds, row)
    PROVE  Shape(c)
<1>q. WellFormed(req[c]) /\ req[c].op = ""
  BY DEF TypeInv, WellFormed
<1>1. ASSUME NEW op \in Creates, NEW ids, CreateRow(c, op, ids, row),
             op = "CreateBook" => ids = BookIds, op = "CreateReview" => ids = ReviewIds
      PROVE  Shape(c)
  <2>1. PICK id \in ids \ issued :
          /\ issued' = issued \cup {id}
          /\ req' = [req EXCEPT ![c] = [req[c] EXCEPT !.pc = "validate", !.op = op,
                                                      !.id = id, !.row = row]]
          /\ UNCHANGED <<users, tables>>
    BY <1>1 DEF CreateRow, Continue
  <2> DEFINE r == [req[c] EXCEPT !.pc = "validate", !.op = op, !.id = id, !.row = row]
  <2>2. r.op = op /\ r.id = id
    BY <1>q DEF WellFormed, Request
  <2>3. Draws(c, r)
    BY <1>q, <1>1, <2>1, <2>2 DEF Draws, Creates, tables
  <2> QED
    BY <2>3 DEF Shape
<1> QED
  BY <1>1 DEF Creates

LEMMA HandlerShape ==
    ASSUME TypeInv, NEW c \in Clients, HandlerStep(c)
    PROVE  Shape(c)
<1>q. WellFormed(req[c])
  BY DEF TypeInv
<1>1. ASSUME NEW o, Answer(c, o), UNCHANGED <<users, tables, issued>> PROVE Shape(c)
  BY <1>1, AnswerGoesOn
<1>2. ASSUME NEW r, Continue(c, r), UNCHANGED <<users, tables, issued>>,
             r.op \notin Creates
      PROVE  Shape(c)
  BY <1>2, ContinueGoesOn
<1>3. CASE CreateBook(c)
  BY <1>3, <1>1, CreateRowDraws DEF CreateBook
<1>4. CASE UpdateBook(c)
  BY <1>4, <1>1, <1>2, <1>q DEF UpdateBook, WithBook, Creates, WellFormed, Request
<1>5. CASE DeleteBook(c)
  BY <1>5, <1>1, <1>2, <1>q DEF DeleteBook, WithBook, Creates, WellFormed, Request
<1>6. CASE CreateReview(c)
  BY <1>6, <1>1, CreateRowDraws DEF CreateReview
<1>7. ASSUME NEW op \in {"GetReview", "UpdateReview", "DeleteReview"}, GetReview(c, op)
      PROVE  Shape(c)
  BY <1>7, <1>1, <1>2, <1>q DEF GetReview, Creates, WellFormed, Request
<1>8. ASSUME NEW op, GetReviewedBook(c, op) PROVE Shape(c)
  BY <1>8, <1>1 DEF GetReviewedBook
<1>9. CASE UpdateReview(c)
  BY <1>9, <1>1, <1>2, <1>7, <1>8, <1>q
     DEF UpdateReview, At, Creates, WellFormed, Request
<1>10. CASE DeleteReview(c)
  BY <1>10, <1>1, <1>2, <1>7, <1>8, <1>q
     DEF DeleteReview, At, Creates, WellFormed, Request
<1>11. CASE ShowReview(c)
  BY <1>11, <1>1, <1>7, <1>8 DEF ShowReview
<1>12. CASE GetBook(c) \/ ListBooks(c) \/ ListReviews(c)
  BY <1>12, <1>1, ReadsAnswer
<1> QED
  BY <1>3, <1>4, <1>5, <1>6, <1>9, <1>10, <1>11, <1>12 DEF HandlerStep

LEMMA StoreShape ==
    ASSUME TypeInv, NEW c \in Clients, StoreStep(c) \/ StoreFails(c)
    PROVE  Shape(c)
<1>q. WellFormed(req[c])
  BY DEF TypeInv
<1>1. ASSUME NEW o, Answer(c, o), UNCHANGED <<users, tables, issued>> PROVE Shape(c)
  BY <1>1, AnswerGoesOn
<1>2. ASSUME NEW r, Continue(c, r), UNCHANGED <<users, tables, issued>>,
             r.op = req[c].op, r.id = req[c].id
      PROVE  Shape(c)
  BY <1>2, ContinueGoesOn
<1>3. ASSUME NEW op, NEW table, FindForUpdate(c, op, table) PROVE Shape(c)
  BY <1>3, <1>1, <1>2, <1>q DEF FindForUpdate, WellFormed, Request
<1>4. ASSUME NEW op, NEW table, FindForDelete(c, op, table) PROVE Shape(c)
  BY <1>4, <1>1, <1>2, <1>q DEF FindForDelete, WellFormed, Request
<1>5. ASSUME NEW ops, NEW valid, Validate(c, ops, valid) PROVE Shape(c)
  BY <1>5, <1>1, <1>2, <1>q DEF Validate, WellFormed, Request
<1>6. CASE WritesRow(c)
  BY <1>6 DEF Shape
<1>7. CASE StoreFails(c)
  BY <1>7, <1>1 DEF StoreFails
<1> QED
  BY <1>3, <1>4, <1>5, <1>6, <1>7
     DEF StoreStep, WritesRow, FindBookForUpdate, FindReviewForUpdate, FindBookForDelete,
         FindReviewForDelete, ValidateBook, ValidateReview

LEMMA StepShape ==
    ASSUME TypeInv, [Next]_vars
    PROVE  (\E c \in Clients : Shape(c)) \/ UNCHANGED <<books, reviews, issued, req>>
<1>1. ASSUME NEW c \in Clients, Interceptor(c) PROVE Shape(c)
  <2>1. PICK u \in accounts \cup Superusers :
          req' = [req EXCEPT ![c] = [Idle EXCEPT !.pc = "handler", !.user = u,
                                                 !.verified = u \in verified \cup Superusers]]
    BY <1>1 DEF Interceptor
  <2>2. GoesOn(c, [Idle EXCEPT !.pc = "handler", !.user = u,
                               !.verified = u \in verified \cup Superusers])
    BY <1>1, <2>1 DEF GoesOn, Idle, Creates, Interceptor, tables
  <2> QED
    BY <2>2 DEF Shape
<1>2. ASSUME NEW u \in Users, VerifyAccount(u) \/ DeleteAccount(u)
      PROVE  UNCHANGED <<books, reviews, issued, req>>
  BY <1>2 DEF VerifyAccount, DeleteAccount, tables
<1>3. CASE UNCHANGED vars
  BY <1>3 DEF vars, tables
<1> QED
  BY <1>1, <1>2, <1>3, HandlerShape, StoreShape DEF Next

-----------------------------------------------------------------------------
(***************************************************************************)
(* The ids of reviews.  For books, NewIdsAreFresh and KnownIsIssued of     *)
(* module Library say the same and more.                                   *)
(***************************************************************************)
ReviewIdsAreFresh ==
    /\ \A i \in LiveReviews : i \in issued
    /\ \A c \in Clients : req[c].op = "CreateReview" =>
         /\ req[c].id \in issued
         /\ reviews[req[c].id] = NoRow
         /\ \A d \in Clients :
              req[d].op = "CreateReview" /\ req[d].id = req[c].id => d = c

IdsInv == IInv /\ ReviewIdsAreFresh

LEMMA CreatedIds ==
    ASSUME TypeInv, NEW c \in Clients
    PROVE  /\ req[c].op = "CreateBook" => req[c].id \in BookIds
           /\ req[c].op = "CreateReview" => req[c].id \in ReviewIds
BY DEF TypeInv, WellFormed, Request, Pcs, BookOps, ReviewOps

LEMMA Updated ==
    ASSUME TypeInv, NEW c \in Clients, NEW r, req' = [req EXCEPT ![c] = r]
    PROVE  \A d \in Clients : req'[d] = IF d = c THEN r ELSE req[d]
BY DEF TypeInv, TypeOK

\* What a write leaves of its request.
LEMMA WriteEnds ==
    ASSUME TypeInv, NEW c \in Clients, WritesRow(c)
    PROVE  /\ req' = [req EXCEPT ![c] = Idle]
           /\ Idle.op \notin Creates
           /\ UNCHANGED issued
<1>1. \E o : Answer(c, o)
  BY DEF WritesRow, InsertBook, WriteBook, RemoveBook, InsertReview, WriteReview, RemoveReview
<1>2. UNCHANGED issued
  BY DEF WritesRow, InsertBook, WriteBook, RemoveBook, InsertReview, WriteReview, RemoveReview
<1> QED
  BY <1>1, <1>2 DEF Answer, Idle, Creates

\* What a write does to the reviews table.
LEMMA ReviewWrite ==
    ASSUME TypeInv, NEW c \in Clients, WritesRow(c)
    PROVE  \/ /\ req[c].op = "CreateReview"
              /\ req[c].row \in Review
              /\ reviews' = [reviews EXCEPT ![req[c].id] = req[c].row]
           \/ /\ req[c].op \notin Creates
              /\ \E i \in LiveReviews, row \in Review :
                   /\ row.book = reviews[i].book
                   /\ row.reviewer = reviews[i].reviewer
                   /\ reviews' = [reviews EXCEPT ![i] = row]
           \/ /\ req[c].op \notin Creates
              /\ \E i \in LiveReviews : reviews' = [reviews EXCEPT ![i] = NoRow]
           \/ reviews' = reviews /\ req[c].op # "CreateReview"
<1>q. WellFormed(req[c]) /\ reviews \in [ReviewIds -> Review \cup {NoRow}]
  BY DEF TypeInv, TypeOK
<1>1. CASE InsertReview(c)
  BY <1>1, <1>q DEF InsertReview, At, WellFormed, ReviewToSave
<1>2. CASE WriteReview(c)
  <2>1. /\ req[c].row \in Review
        /\ ReviewToSave(req[c]) \in Review
        /\ ReviewToSave(req[c]).book = req[c].row.book
        /\ ReviewToSave(req[c]).reviewer = req[c].row.reviewer
        /\ req[c].op \notin Creates
        /\ req[c].id \in ReviewIds
    BY <1>2, <1>q, SetReviewFieldsType
       DEF WriteReview, At, WellFormed, ReviewToSave, Creates, ReviewOps
  <2> DEFINE i == req[c].id
             row == ReviewColumns(reviews[i], req[c].row, ReviewToSave(req[c]))
  <2>2. CASE reviews[i] = NoRow
    <3>1. reviews' = [reviews EXCEPT ![i] = NoRow]
      BY <1>2, <2>2 DEF WriteReview
    <3>2. reviews' = reviews
      BY <3>1, <2>1, <2>2, <1>q
    <3> QED
      BY <3>2, <2>1 DEF Creates
  <2>3. CASE reviews[i] # NoRow
    <3>1. reviews' = [reviews EXCEPT ![i] = row]
      BY <1>2, <2>3 DEF WriteReview
    <3>2. /\ row \in Review
          /\ row.book = reviews[i].book
          /\ row.reviewer = reviews[i].reviewer
      BY <1>q, <2>1, <2>3, ReviewColumnsType
    <3>3. i \in LiveReviews
      BY <2>1, <2>3 DEF LiveReviews
    <3> QED
      BY <2>1, <3>1, <3>2, <3>3
  <2> QED
    BY <2>2, <2>3
<1>3. CASE RemoveReview(c)
  <2>1. /\ req[c].op \notin Creates
        /\ req[c].id \in ReviewIds
    BY <1>3, <1>q DEF RemoveReview, At, WellFormed, Creates, ReviewOps
  <2>2. reviews' = [reviews EXCEPT ![req[c].id] = NoRow]
    BY <1>3 DEF RemoveReview
  <2>3. CASE reviews[req[c].id] = NoRow
    <3>1. reviews' = reviews
      BY <2>1, <2>2, <2>3, <1>q
    <3> QED
      BY <2>1, <3>1 DEF Creates
  <2>4. CASE reviews[req[c].id] # NoRow
    BY <2>1, <2>2, <2>4 DEF LiveReviews
  <2> QED
    BY <2>3, <2>4
<1>4. CASE InsertBook(c) \/ WriteBook(c) \/ RemoveBook(c)
  BY <1>4 DEF InsertBook, WriteBook, RemoveBook, At
<1> QED
  BY <1>1, <1>2, <1>3, <1>4 DEF WritesRow

\* What a write does to the books table.
LEMMA BookWrite ==
    ASSUME TypeInv, NEW c \in Clients, WritesRow(c)
    PROVE  \/ /\ req[c].op = "CreateBook"
              /\ req[c].row \in Book
              /\ books' = [books EXCEPT ![req[c].id] = req[c].row]
           \/ /\ req[c].op \notin Creates
              /\ \E i \in LiveBooks, row \in Book :
                   /\ row.author = books[i].author
                   /\ books' = [books EXCEPT ![i] = row]
           \/ /\ req[c].op \notin Creates
              /\ \E i \in LiveBooks : books' = [books EXCEPT ![i] = NoRow]
           \/ books' = books /\ req[c].op # "CreateBook"
<1>q. WellFormed(req[c]) /\ books \in [BookIds -> Book \cup {NoRow}]
  BY DEF TypeInv, TypeOK
<1>1. CASE InsertBook(c)
  BY <1>1, <1>q DEF InsertBook, At, WellFormed, BookToSave
<1>2. CASE WriteBook(c)
  <2>1. /\ req[c].row \in Book
        /\ BookToSave(req[c]) \in Book
        /\ BookToSave(req[c]).author = req[c].row.author
        /\ req[c].op \notin Creates
        /\ req[c].id \in BookIds
    BY <1>2, <1>q, SetBookFieldsType
       DEF WriteBook, At, WellFormed, BookToSave, Creates, BookOps
  <2> DEFINE i == req[c].id
             row == BookColumns(books[i], req[c].row, BookToSave(req[c]))
  <2>2. CASE books[i] = NoRow
    <3>1. books' = [books EXCEPT ![i] = NoRow]
      BY <1>2, <2>2 DEF WriteBook
    <3>2. books' = books
      BY <3>1, <2>1, <2>2, <1>q
    <3> QED
      BY <3>2, <2>1 DEF Creates
  <2>3. CASE books[i] # NoRow
    <3>1. books' = [books EXCEPT ![i] = row]
      BY <1>2, <2>3 DEF WriteBook
    <3>2. row \in Book /\ row.author = books[i].author
      BY <1>q, <2>1, <2>3, BookColumnsType
    <3>3. i \in LiveBooks
      BY <2>1, <2>3 DEF LiveBooks
    <3> QED
      BY <2>1, <3>1, <3>2, <3>3
  <2> QED
    BY <2>2, <2>3
<1>3. CASE RemoveBook(c)
  <2>1. /\ req[c].op \notin Creates
        /\ req[c].id \in BookIds
    BY <1>3, <1>q DEF RemoveBook, At, WellFormed, Creates, BookOps
  <2>2. books' = books \/ books' = [books EXCEPT ![req[c].id] = NoRow]
    BY <1>3 DEF RemoveBook
  <2>3. CASE books' = books
    BY <2>1, <2>3 DEF Creates
  <2>4. CASE books[req[c].id] = NoRow /\ books' = [books EXCEPT ![req[c].id] = NoRow]
    <3>1. books' = books
      BY <2>1, <2>4, <1>q
    <3> QED
      BY <2>1, <3>1 DEF Creates
  <2>5. CASE books[req[c].id] # NoRow /\ books' = [books EXCEPT ![req[c].id] = NoRow]
    BY <2>1, <2>5 DEF LiveBooks
  <2> QED
    BY <2>2, <2>3, <2>4, <2>5
<1>4. CASE InsertReview(c) \/ WriteReview(c) \/ RemoveReview(c)
  BY <1>4 DEF InsertReview, WriteReview, RemoveReview, At
<1> QED
  BY <1>1, <1>2, <1>3, <1>4 DEF WritesRow

-----------------------------------------------------------------------------
LEMMA DrawsUpdates ==
    ASSUME TypeInv, NEW c \in Clients, NEW r, Draws(c, r)
    PROVE  \A d \in Clients : req'[d] = IF d = c THEN r ELSE req[d]
<1>1. req' = [req EXCEPT ![c] = r]
  BY DEF Draws
<1> QED
  BY <1>1, Updated

LEMMA InitIdsInv == Init => IdsInv
<1> SUFFICES ASSUME Init PROVE ReviewIdsAreFresh
  BY InitIInv DEF IdsInv
<1> QED
  BY DEF Init, Idle, ReviewIdsAreFresh, LiveReviews

LEMMA NextIdsInv == IdsInv /\ [Next]_vars => IdsInv'
<1> SUFFICES ASSUME IdsInv, [Next]_vars PROVE ReviewIdsAreFresh'
  BY NextIInv DEF IdsInv
<1>t. TypeInv /\ ReviewIdsAreFresh /\ reviews \in [ReviewIds -> Review \cup {NoRow}]
  BY DEF IdsInv, IInv, TypeInv, TypeOK
<1>n. NoRow \notin Review
  BY RowsAreRows
<1>1. ASSUME NEW c \in Clients, NEW r, GoesOn(c, r) PROVE ReviewIdsAreFresh'
  BY <1>1, <1>t, Updated DEF GoesOn, ReviewIdsAreFresh, LiveReviews, Creates
<1>2. ASSUME NEW c \in Clients, NEW r, Draws(c, r) PROVE ReviewIdsAreFresh'
  <2>1. \A d \in Clients : req'[d] = IF d = c THEN r ELSE req[d]
    BY <1>2, <1>t, DrawsUpdates
  <2>2. /\ reviews' = reviews
        /\ issued' = issued \cup {r.id}
        /\ r.id \notin issued
        /\ r.op = "CreateReview" => r.id \in ReviewIds
    BY <1>2 DEF Draws
  <2>3. r.op = "CreateReview" => reviews[r.id] = NoRow
    BY <1>t, <2>2 DEF ReviewIdsAreFresh, LiveReviews
  <2> QED
    BY <1>t, <2>1, <2>2, <2>3 DEF ReviewIdsAreFresh, LiveReviews
<1>3. ASSUME NEW c \in Clients, WritesRow(c) PROVE ReviewIdsAreFresh'
  <2>1. /\ \A d \in Clients : req'[d] = IF d = c THEN Idle ELSE req[d]
        /\ Idle.op # "CreateReview"
        /\ issued' = issued
    BY <1>3, <1>t, Updated, WriteEnds DEF Creates
  <2>2. CASE /\ req[c].op = "CreateReview"
             /\ reviews' = [reviews EXCEPT ![req[c].id] = req[c].row]
    BY <1>t, <2>1, <2>2, CreatedIds DEF ReviewIdsAreFresh, LiveReviews
  <2>3. ASSUME NEW i \in LiveReviews, NEW row, reviews' = [reviews EXCEPT ![i] = row]
        PROVE  ReviewIdsAreFresh'
    BY <1>t, <2>1, <2>3, CreatedIds DEF ReviewIdsAreFresh, LiveReviews
  <2>4. CASE reviews' = reviews
    BY <1>t, <2>1, <2>4 DEF ReviewIdsAreFresh, LiveReviews
  <2> QED
    BY <1>3, <1>t, <2>2, <2>3, <2>4, ReviewWrite
<1>4. CASE UNCHANGED <<books, reviews, issued, req>>
  BY <1>4, <1>t DEF ReviewIdsAreFresh, LiveReviews
<1> QED
  BY <1>1, <1>2, <1>3, <1>4, <1>t, StepShape DEF Shape

LEMMA IdsInvariant == Spec => []IdsInv
BY InitIdsInv, NextIdsInv, PTL DEF Spec

-----------------------------------------------------------------------------
GoneBooks   == Gone(books, BookIds, "CreateBook")
GoneReviews == Gone(reviews, ReviewIds, "CreateReview")

\* The steps of the table of books, one lemma for each shape of step.
LEMMA BookGoesOn ==
    ASSUME IdsInv, NEW c \in Clients, NEW r, GoesOn(c, r)
    PROVE  BookTable!Next \/ UNCHANGED <<books, GoneBooks>>
<1>t. TypeInv /\ NewIdsAreFresh
  BY DEF IdsInv, IInv
<1>1. /\ \A d \in Clients : req'[d] = IF d = c THEN r ELSE req[d]
      /\ UNCHANGED <<books, issued>>
  BY <1>t, Updated DEF GoesOn
<1>2. CASE req[c].op = "CreateBook" /\ r.op # "CreateBook"
  <2> DEFINE i == req[c].id
  <2>1. /\ i \in BookIds /\ i \in issued
        /\ books[i] = NoRow
        /\ \A d \in Clients : req[d].op = "CreateBook" /\ req[d].id = i => d = c
    BY <1>t, <1>2, CreatedIds DEF NewIdsAreFresh, Known
  <2> HIDE DEF i
  <2>2. GoneBooks' = GoneBooks \cup {i}
    <3>1. \A j : j \in GoneBooks' => j \in GoneBooks \cup {i}
      BY <1>1, <1>2, <2>1 DEF GoneBooks, Gone, i
    <3>2. \A j : j \in GoneBooks => j \in GoneBooks'
      BY <1>1, <1>2, <2>1 DEF GoneBooks, Gone, i
    <3>3. i \in GoneBooks'
      BY <1>1, <1>2, <2>1 DEF GoneBooks, Gone
    <3> QED
      BY <3>1, <3>2, <3>3
  <2>3. BookTable!Refuse(i)
    BY <1>1, <2>1, <2>2 DEF BookTable!Refuse, GoneBooks
  <2> QED
    BY <2>1, <2>3 DEF BookTable!Next
<1>3. CASE req[c].op = "CreateBook" <=> r.op = "CreateBook"
  <2>1. r.op = "CreateBook" => r.id = req[c].id
    BY DEF GoesOn, Creates
  <2>2. GoneBooks' = GoneBooks
    <3>1. \A j : j \in GoneBooks' => j \in GoneBooks
      BY <1>1, <1>3, <2>1 DEF GoneBooks, Gone
    <3>2. \A j : j \in GoneBooks => j \in GoneBooks'
      BY <1>1, <1>3, <2>1 DEF GoneBooks, Gone
    <3> QED
      BY <3>1, <3>2
  <2> QED
    BY <1>1, <2>2
<1> QED
  BY <1>2, <1>3 DEF GoesOn, Creates

LEMMA BookDraws ==
    ASSUME IdsInv, NEW c \in Clients, NEW r, Draws(c, r)
    PROVE  UNCHANGED <<books, GoneBooks>>
<1>t. TypeInv
  BY DEF IdsInv, IInv
<1>0. \A d \in Clients : req'[d] = IF d = c THEN r ELSE req[d]
  BY <1>t, DrawsUpdates
<1>1. /\ req[c].op # "CreateBook"
      /\ r.op = "CreateBook" \/ r.id \in ReviewIds
      /\ issued' = issued \cup {r.id} /\ r.id \notin issued
      /\ books' = books
  BY DEF Draws, Creates
<1>2. \A j : j \in GoneBooks' => j \in GoneBooks
  BY <1>0, <1>1, IdsAreDistinct DEF GoneBooks, Gone
<1>3. \A j : j \in GoneBooks => j \in GoneBooks'
  BY <1>0, <1>1 DEF GoneBooks, Gone
<1> QED
  BY <1>1, <1>2, <1>3

LEMMA BookWrites ==
    ASSUME IdsInv, NEW c \in Clients, WritesRow(c)
    PROVE  BookTable!Next \/ UNCHANGED <<books, GoneBooks>>
<1>t. /\ TypeInv /\ NewIdsAreFresh /\ KnownIsIssued
      /\ books \in [BookIds -> Book \cup {NoRow}]
  BY DEF IdsInv, IInv, TypeInv, TypeOK
<1>n. NoRow \notin Book
  BY RowsAreRows
<1>1. /\ \A d \in Clients : req'[d] = IF d = c THEN Idle ELSE req[d]
      /\ Idle.op # "CreateBook"
      /\ issued' = issued
  BY <1>t, Updated, WriteEnds DEF Creates
<1>2. CASE /\ req[c].op = "CreateBook"
           /\ req[c].row \in Book
           /\ books' = [books EXCEPT ![req[c].id] = req[c].row]
  <2> DEFINE i == req[c].id
  <2>1. /\ i \in BookIds
        /\ books[i] = NoRow
        /\ i \notin GoneBooks
        /\ \A d \in Clients : req[d].op = "CreateBook" /\ req[d].id = i => d = c
    BY <1>t, <1>2, CreatedIds DEF NewIdsAreFresh, Known, GoneBooks, Gone
  <2>2. /\ books'[i] # NoRow
        /\ \A j \in BookIds : j # i => books'[j] = books[j]
    BY <1>2, <1>t, <1>n, <2>1
  <2> HIDE DEF i
  <2>3. \A j : j \in GoneBooks' => j \in GoneBooks
    BY <1>1, <1>2, <2>1, <2>2 DEF GoneBooks, Gone, i
  <2>4. \A j : j \in GoneBooks => j \in GoneBooks'
    BY <1>1, <2>1, <2>2 DEF GoneBooks, Gone
  <2>5. GoneBooks' = GoneBooks
    BY <2>3, <2>4
  <2>6. BookTable!Create(i)
    BY <1>2, <2>1, <2>5 DEF BookTable!Create, GoneBooks, i
  <2> QED
    BY <2>1, <2>6 DEF BookTable!Next
<1>3. ASSUME NEW i \in LiveBooks, NEW row \in Book, req[c].op \notin Creates,
             row.author = books[i].author, books' = [books EXCEPT ![i] = row]
      PROVE  BookTable!Next
  <2>1. /\ i \in BookIds
        /\ books[i] # NoRow
        /\ books'[i] # NoRow
        /\ \A j \in BookIds : j # i => books'[j] = books[j]
    BY <1>3, <1>t, <1>n DEF LiveBooks
  <2>2. \A j : j \in GoneBooks' => j \in GoneBooks
    BY <1>1, <1>3, <2>1 DEF GoneBooks, Gone, Creates
  <2>3. \A j : j \in GoneBooks => j \in GoneBooks'
    BY <1>1, <2>1 DEF GoneBooks, Gone
  <2>4. GoneBooks' = GoneBooks
    BY <2>2, <2>3
  <2>5. BookTable!Update(i)
    BY <1>3, <2>1, <2>4 DEF BookTable!Update, GoneBooks
  <2> QED
    BY <2>1, <2>5 DEF BookTable!Next
<1>4. ASSUME NEW i \in LiveBooks, req[c].op \notin Creates,
             books' = [books EXCEPT ![i] = NoRow]
      PROVE  BookTable!Next
  <2>1. /\ i \in BookIds
        /\ books[i] # NoRow
        /\ books'[i] = NoRow
        /\ \A j \in BookIds : j # i => books'[j] = books[j]
    BY <1>4, <1>t DEF LiveBooks
  <2>2. /\ i \in issued
        /\ \A d \in Clients : req[d].op = "CreateBook" => req[d].id # i
    BY <1>t, <2>1 DEF KnownIsIssued, NewIdsAreFresh, Known
  <2>3. \A j : j \in GoneBooks' => j \in GoneBooks \cup {i}
    BY <1>1, <1>4, <2>1 DEF GoneBooks, Gone, Creates
  <2>4. \A j : j \in GoneBooks => j \in GoneBooks'
    BY <1>1, <2>1 DEF GoneBooks, Gone
  <2>5. i \in GoneBooks'
    BY <1>1, <2>1, <2>2 DEF GoneBooks, Gone
  <2>6. GoneBooks' = GoneBooks \cup {i}
    BY <2>3, <2>4, <2>5
  <2>7. BookTable!Delete(i)
    BY <1>4, <2>1, <2>6 DEF BookTable!Delete, GoneBooks
  <2> QED
    BY <2>1, <2>7 DEF BookTable!Next
<1>5. CASE books' = books /\ req[c].op # "CreateBook"
  <2>1. \A j : j \in GoneBooks' => j \in GoneBooks
    BY <1>1, <1>5 DEF GoneBooks, Gone
  <2>2. \A j : j \in GoneBooks => j \in GoneBooks'
    BY <1>1, <1>5 DEF GoneBooks, Gone
  <2> QED
    BY <1>5, <2>1, <2>2
<1> QED
  BY <1>2, <1>3, <1>4, <1>5, <1>t, BookWrite

LEMMA BookTableStep ==
    ASSUME IdsInv, [Next]_vars
    PROVE  BookTable!Next \/ UNCHANGED <<books, GoneBooks>>
<1>1. CASE UNCHANGED <<books, reviews, issued, req>>
  BY <1>1 DEF GoneBooks, Gone
<1> QED
  BY <1>1, StepShape, BookGoesOn, BookDraws, BookWrites DEF Shape, IdsInv, IInv

(***************************************************************************)
(* The books table is an abstract table: an id lives once, its book keeps  *)
(* its author and always fits the schema, however requests overlap.        *)
(***************************************************************************)
THEOREM BooksRefineTable == Spec => BooksAreATable
<1>1. Init => BookTable!Init
  BY DEF Init, BookTable!Init, Gone
<1>2. IdsInv /\ [Next]_vars => [BookTable!Next]_<<books, GoneBooks>>
  BY BookTableStep
<1>3. [BookTable!Next]_<<books, GoneBooks>>
        => [BookTable!Next]_<<books, Gone(books, BookIds, "CreateBook")>>
  BY DEF GoneBooks
<1> QED
  BY <1>1, <1>2, <1>3, IdsInvariant, PTL DEF Spec, BooksAreATable, BookTable!Spec

\* The steps of the table of reviews, likewise.
LEMMA ReviewGoesOn ==
    ASSUME IdsInv, NEW c \in Clients, NEW r, GoesOn(c, r)
    PROVE  ReviewTable!Next \/ UNCHANGED <<reviews, GoneReviews>>
<1>t. TypeInv /\ ReviewIdsAreFresh
  BY DEF IdsInv, IInv
<1>1. /\ \A d \in Clients : req'[d] = IF d = c THEN r ELSE req[d]
      /\ UNCHANGED <<reviews, issued>>
  BY <1>t, Updated DEF GoesOn
<1>2. CASE req[c].op = "CreateReview" /\ r.op # "CreateReview"
  <2> DEFINE i == req[c].id
  <2>1. /\ i \in ReviewIds /\ i \in issued
        /\ reviews[i] = NoRow
        /\ \A d \in Clients : req[d].op = "CreateReview" /\ req[d].id = i => d = c
    BY <1>t, <1>2, CreatedIds DEF ReviewIdsAreFresh
  <2> HIDE DEF i
  <2>2. GoneReviews' = GoneReviews \cup {i}
    <3>1. \A j : j \in GoneReviews' => j \in GoneReviews \cup {i}
      BY <1>1, <1>2, <2>1 DEF GoneReviews, Gone, i
    <3>2. \A j : j \in GoneReviews => j \in GoneReviews'
      BY <1>1, <1>2, <2>1 DEF GoneReviews, Gone, i
    <3>3. i \in GoneReviews'
      BY <1>1, <1>2, <2>1 DEF GoneReviews, Gone
    <3> QED
      BY <3>1, <3>2, <3>3
  <2>3. ReviewTable!Refuse(i)
    BY <1>1, <2>1, <2>2 DEF ReviewTable!Refuse, GoneReviews
  <2> QED
    BY <2>1, <2>3 DEF ReviewTable!Next
<1>3. CASE req[c].op = "CreateReview" <=> r.op = "CreateReview"
  <2>1. r.op = "CreateReview" => r.id = req[c].id
    BY DEF GoesOn, Creates
  <2>2. GoneReviews' = GoneReviews
    <3>1. \A j : j \in GoneReviews' => j \in GoneReviews
      BY <1>1, <1>3, <2>1 DEF GoneReviews, Gone
    <3>2. \A j : j \in GoneReviews => j \in GoneReviews'
      BY <1>1, <1>3, <2>1 DEF GoneReviews, Gone
    <3> QED
      BY <3>1, <3>2
  <2> QED
    BY <1>1, <2>2
<1> QED
  BY <1>2, <1>3 DEF GoesOn, Creates

LEMMA ReviewDraws ==
    ASSUME IdsInv, NEW c \in Clients, NEW r, Draws(c, r)
    PROVE  UNCHANGED <<reviews, GoneReviews>>
<1>t. TypeInv
  BY DEF IdsInv, IInv
<1>0. \A d \in Clients : req'[d] = IF d = c THEN r ELSE req[d]
  BY <1>t, DrawsUpdates
<1>1. /\ req[c].op # "CreateReview"
      /\ r.op = "CreateReview" \/ r.id \in BookIds
      /\ issued' = issued \cup {r.id} /\ r.id \notin issued
      /\ reviews' = reviews
  BY DEF Draws, Creates
<1>2. \A j : j \in GoneReviews' => j \in GoneReviews
  BY <1>0, <1>1, IdsAreDistinct DEF GoneReviews, Gone
<1>3. \A j : j \in GoneReviews => j \in GoneReviews'
  BY <1>0, <1>1 DEF GoneReviews, Gone
<1> QED
  BY <1>1, <1>2, <1>3

LEMMA ReviewWrites ==
    ASSUME IdsInv, NEW c \in Clients, WritesRow(c)
    PROVE  ReviewTable!Next \/ UNCHANGED <<reviews, GoneReviews>>
<1>t. /\ TypeInv /\ ReviewIdsAreFresh
      /\ reviews \in [ReviewIds -> Review \cup {NoRow}]
  BY DEF IdsInv, IInv, TypeInv, TypeOK
<1>n. NoRow \notin Review
  BY RowsAreRows
<1>1. /\ \A d \in Clients : req'[d] = IF d = c THEN Idle ELSE req[d]
      /\ Idle.op # "CreateReview"
      /\ issued' = issued
  BY <1>t, Updated, WriteEnds DEF Creates
<1>2. CASE /\ req[c].op = "CreateReview"
           /\ req[c].row \in Review
           /\ reviews' = [reviews EXCEPT ![req[c].id] = req[c].row]
  <2> DEFINE i == req[c].id
  <2>1. /\ i \in ReviewIds
        /\ reviews[i] = NoRow
        /\ i \notin GoneReviews
        /\ \A d \in Clients : req[d].op = "CreateReview" /\ req[d].id = i => d = c
    BY <1>t, <1>2, CreatedIds DEF ReviewIdsAreFresh, GoneReviews, Gone
  <2>2. /\ reviews'[i] # NoRow
        /\ \A j \in ReviewIds : j # i => reviews'[j] = reviews[j]
    BY <1>2, <1>t, <1>n, <2>1
  <2> HIDE DEF i
  <2>3. \A j : j \in GoneReviews' => j \in GoneReviews
    BY <1>1, <1>2, <2>1, <2>2 DEF GoneReviews, Gone, i
  <2>4. \A j : j \in GoneReviews => j \in GoneReviews'
    BY <1>1, <2>1, <2>2 DEF GoneReviews, Gone
  <2>5. GoneReviews' = GoneReviews
    BY <2>3, <2>4
  <2>6. ReviewTable!Create(i)
    BY <1>2, <2>1, <2>5 DEF ReviewTable!Create, GoneReviews, i
  <2> QED
    BY <2>1, <2>6 DEF ReviewTable!Next
<1>3. ASSUME NEW i \in LiveReviews, NEW row \in Review, req[c].op \notin Creates,
             row.book = reviews[i].book,
             row.reviewer = reviews[i].reviewer, reviews' = [reviews EXCEPT ![i] = row]
      PROVE  ReviewTable!Next
  <2>1. /\ i \in ReviewIds
        /\ reviews[i] # NoRow
        /\ reviews'[i] # NoRow
        /\ \A j \in ReviewIds : j # i => reviews'[j] = reviews[j]
    BY <1>3, <1>t, <1>n DEF LiveReviews
  <2>2. \A j : j \in GoneReviews' => j \in GoneReviews
    BY <1>1, <1>3, <2>1 DEF GoneReviews, Gone, Creates
  <2>3. \A j : j \in GoneReviews => j \in GoneReviews'
    BY <1>1, <2>1 DEF GoneReviews, Gone
  <2>4. GoneReviews' = GoneReviews
    BY <2>2, <2>3
  <2>5. ReviewTable!Update(i)
    BY <1>3, <2>1, <2>4 DEF ReviewTable!Update, GoneReviews
  <2> QED
    BY <2>1, <2>5 DEF ReviewTable!Next
<1>4. ASSUME NEW i \in LiveReviews, req[c].op \notin Creates,
             reviews' = [reviews EXCEPT ![i] = NoRow]
      PROVE  ReviewTable!Next
  <2>1. /\ i \in ReviewIds
        /\ reviews[i] # NoRow
        /\ reviews'[i] = NoRow
        /\ \A j \in ReviewIds : j # i => reviews'[j] = reviews[j]
    BY <1>4, <1>t DEF LiveReviews
  <2>2. /\ i \in issued
        /\ \A d \in Clients : req[d].op = "CreateReview" => req[d].id # i
    BY <1>t, <2>1 DEF ReviewIdsAreFresh, LiveReviews
  <2>3. \A j : j \in GoneReviews' => j \in GoneReviews \cup {i}
    BY <1>1, <1>4, <2>1 DEF GoneReviews, Gone, Creates
  <2>4. \A j : j \in GoneReviews => j \in GoneReviews'
    BY <1>1, <2>1 DEF GoneReviews, Gone
  <2>5. i \in GoneReviews'
    BY <1>1, <2>1, <2>2 DEF GoneReviews, Gone
  <2>6. GoneReviews' = GoneReviews \cup {i}
    BY <2>3, <2>4, <2>5
  <2>7. ReviewTable!Delete(i)
    BY <1>4, <2>1, <2>6 DEF ReviewTable!Delete, GoneReviews
  <2> QED
    BY <2>1, <2>7 DEF ReviewTable!Next
<1>5. CASE reviews' = reviews /\ req[c].op # "CreateReview"
  <2>1. \A j : j \in GoneReviews' => j \in GoneReviews
    BY <1>1, <1>5 DEF GoneReviews, Gone
  <2>2. \A j : j \in GoneReviews => j \in GoneReviews'
    BY <1>1, <1>5 DEF GoneReviews, Gone
  <2> QED
    BY <1>5, <2>1, <2>2
<1> QED
  BY <1>2, <1>3, <1>4, <1>5, <1>t, ReviewWrite

LEMMA ReviewTableStep ==
    ASSUME IdsInv, [Next]_vars
    PROVE  ReviewTable!Next \/ UNCHANGED <<reviews, GoneReviews>>
<1>1. CASE UNCHANGED <<books, reviews, issued, req>>
  BY <1>1 DEF GoneReviews, Gone
<1> QED
  BY <1>1, StepShape, ReviewGoesOn, ReviewDraws, ReviewWrites DEF Shape, IdsInv, IInv

(***************************************************************************)
(* So is the reviews table: a review that was deleted is never written     *)
(* again, and an update moves it to no other book or reviewer.             *)
(***************************************************************************)
THEOREM ReviewsRefineTable == Spec => ReviewsAreATable
<1>1. Init => ReviewTable!Init
  BY DEF Init, ReviewTable!Init, Gone
<1>2. IdsInv /\ [Next]_vars => [ReviewTable!Next]_<<reviews, GoneReviews>>
  BY ReviewTableStep
<1>3. [ReviewTable!Next]_<<reviews, GoneReviews>>
        => [ReviewTable!Next]_<<reviews, Gone(reviews, ReviewIds, "CreateReview")>>
  BY DEF GoneReviews
<1> QED
  BY <1>1, <1>2, <1>3, IdsInvariant, PTL DEF Spec, ReviewsAreATable, ReviewTable!Spec

=============================================================================
