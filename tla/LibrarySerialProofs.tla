------------------------ MODULE LibrarySerialProofs ------------------------
(***************************************************************************)
(* What holds of books and reviews while requests keep out of one          *)
(* another's way: every review has its book, and an update that is         *)
(* answered ok is in the table.                                            *)
(*                                                                         *)
(* Each theorem names the one overlap that it excludes (module Library     *)
(* defines it, and TLC's runs exclude the same).  Whatever else is in      *)
(* flight, it is that overlap and no other that breaks the property.  When *)
(* requests come one at a time there is none.                              *)
(*                                                                         *)
(* The argument: a request that goes on has just seen what its new state   *)
(* relies on, or relied on it before (Founded), and what it relies on goes *)
(* away only by a step of the request that is excluded.                    *)
(***************************************************************************)
EXTENDS LibraryGrantProofs

OneClient == \A c, d \in Clients : c = d

\* The empty title and the status that is not to be changed.
Blank == ""

-----------------------------------------------------------------------------
(***************************************************************************)
(* What one step does to its request.                                      *)
(***************************************************************************)

\* The request record r, which c goes on with, relies on what is there.
Founded(c, r) ==
    /\ r.op = "CreateReview" /\ r.pc = "write" => books[r.row.book] # NoRow
    /\ Saving(r) =>
         \/ books[r.id] # NoRow /\ r.row = books[r.id]
         \/ Saving(req[c]) /\ r.id = req[c].id /\ r.row = req[c].row

GoesOnFounded(c) ==
    \E r : /\ Continue(c, r)
           /\ req[c].pc # "idle"
           /\ UNCHANGED <<books, reviews>>
           /\ Founded(c, r)

Answered(c) ==
    \E o : /\ Answer(c, o)
           /\ o = "ok" /\ req[c].op = "UpdateBook" => WriteBook(c)

Turn(c) == Interceptor(c) \/ GoesOnFounded(c) \/ Answered(c)

\* A request that goes on with anything but a save relies on nothing.
LEMMA NoSave ==
    ASSUME NEW c \in Clients, NEW r, Continue(c, r), req[c].pc # "idle",
           UNCHANGED <<users, tables, issued>> \/ UNCHANGED <<users, tables>>,
           ~Saving(r), ~(r.op = "CreateReview" /\ r.pc = "write")
    PROVE  Turn(c)
BY DEF Turn, GoesOnFounded, Founded, tables

LEMMA HandlerTurn ==
    ASSUME TypeInv, NEW c \in Clients, HandlerStep(c)
    PROVE  Turn(c)
<1>q. WellFormed(req[c])
  BY DEF TypeInv
<1>1. ASSUME NEW o, Answer(c, o), req[c].op # "UpdateBook" \/ o # "ok" PROVE Turn(c)
  BY <1>1 DEF Turn, Answered
<1>2. ASSUME NEW op \in Creates, NEW ids, NEW row, req[c].pc = "handler",
             CreateRow(c, op, ids, row)
      PROVE  Turn(c)
  <2>1. PICK id \in ids \ issued :
          /\ Continue(c, [req[c] EXCEPT !.pc = "validate", !.op = op,
                                        !.id = id, !.row = row])
          /\ UNCHANGED <<users, tables>>
    BY <1>2 DEF CreateRow
  <2> DEFINE r == [req[c] EXCEPT !.pc = "validate", !.op = op, !.id = id, !.row = row]
  <2>2. r.op = op /\ r.pc = "validate"
    BY <1>q DEF WellFormed, Request
  <2> HIDE DEF r
  <2>3. ~Saving(r) /\ ~(r.op = "CreateReview" /\ r.pc = "write")
    BY <2>2 DEF Saving, Creates
  <2> QED
    BY <1>2, <2>1, <2>3, NoSave DEF r
<1>3. req[c].pc = "handler" => req[c].op # "UpdateBook"
  BY <1>q DEF WellFormed
<1>4. CASE CreateBook(c)
  BY <1>4, <1>1, <1>2, <1>3 DEF CreateBook, Creates
<1>5. CASE UpdateBook(c)
  <2>1. PICK b \in BookIds, u \in BookUpdate :
          WithBook(c, b, "UpdateBook", [req[c] EXCEPT !.pc = "update", !.op = "UpdateBook",
                                                      !.id = b, !.update = u])
    BY <1>5 DEF UpdateBook
  <2> DEFINE r == [req[c] EXCEPT !.pc = "update", !.op = "UpdateBook", !.id = b, !.update = u]
  <2>2. r.pc = "update"
    BY <1>q DEF WellFormed, Request
  <2> HIDE DEF r
  <2> QED
    BY <1>1, <1>3, <1>5, <2>1, <2>2, NoSave DEF UpdateBook, WithBook, Saving, r
<1>6. CASE DeleteBook(c)
  <2>1. PICK b \in BookIds :
          WithBook(c, b, "DeleteBook", [req[c] EXCEPT !.pc = "delete", !.op = "DeleteBook",
                                                      !.id = b])
    BY <1>6 DEF DeleteBook
  <2> DEFINE r == [req[c] EXCEPT !.pc = "delete", !.op = "DeleteBook", !.id = b]
  <2>2. r.pc = "delete"
    BY <1>q DEF WellFormed, Request
  <2> HIDE DEF r
  <2> QED
    BY <1>1, <1>3, <1>6, <2>1, <2>2, NoSave DEF DeleteBook, WithBook, Saving, r
<1>7. CASE CreateReview(c)
  BY <1>7, <1>1, <1>2, <1>3 DEF CreateReview, Creates
<1>8. ASSUME NEW op, GetReview(c, op) PROVE Turn(c)
  <2>1. req[c].pc = "handler"
    BY <1>8 DEF GetReview
  <2>2. CASE Answer(c, "notFound")
    BY <1>1, <2>2
  <2>3. ASSUME NEW i \in ReviewIds,
               Continue(c, [req[c] EXCEPT !.pc = "review", !.op = op, !.id = i, !.row = reviews[i]])
        PROVE  Turn(c)
    <3> DEFINE r == [req[c] EXCEPT !.pc = "review", !.op = op, !.id = i, !.row = reviews[i]]
    <3>1. r.pc = "review"
      BY <1>q DEF WellFormed, Request
    <3> HIDE DEF r
    <3>2. UNCHANGED <<users, tables, issued>>
      BY <1>8 DEF GetReview
    <3> QED
      BY <2>1, <2>3, <3>1, <3>2, NoSave DEF Saving, r
  <2> QED
    BY <1>8, <2>2, <2>3 DEF GetReview
<1>9. ASSUME NEW op, GetReviewedBook(c, op) PROVE Turn(c)
  BY <1>1, <1>9 DEF GetReviewedBook
<1>10. CASE UpdateReview(c)
  <2>1. ASSUME NEW u, At(c, "review", {"UpdateReview"}), UNCHANGED <<users, tables, issued>>,
               Continue(c, [req[c] EXCEPT !.pc = "update", !.row = NoRow, !.update = u])
        PROVE  Turn(c)
    <3> DEFINE r == [req[c] EXCEPT !.pc = "update", !.row = NoRow, !.update = u]
    <3>1. r.pc = "update"
      BY <1>q DEF WellFormed, Request
    <3> HIDE DEF r
    <3> QED
      BY <2>1, <3>1, NoSave DEF At, Saving, r
  <2> QED
    BY <1>1, <1>8, <1>9, <1>10, <2>1 DEF UpdateReview
<1>11. CASE DeleteReview(c)
  <2>1. ASSUME At(c, "review", {"DeleteReview"}), UNCHANGED <<users, tables, issued>>,
               Continue(c, [req[c] EXCEPT !.pc = "delete", !.row = NoRow])
        PROVE  Turn(c)
    <3> DEFINE r == [req[c] EXCEPT !.pc = "delete", !.row = NoRow]
    <3>1. r.pc = "delete"
      BY <1>q DEF WellFormed, Request
    <3> HIDE DEF r
    <3> QED
      BY <2>1, <3>1, NoSave DEF At, Saving, r
  <2> QED
    BY <1>8, <1>9, <1>11, <2>1 DEF DeleteReview
<1>12. CASE ShowReview(c)
  BY <1>1, <1>8, <1>9, <1>12 DEF ShowReview, At
<1>13. CASE GetBook(c) \/ ListBooks(c) \/ ListReviews(c)
  BY <1>1, <1>3, <1>13 DEF GetBook, ListBooks, ListReviews, List
<1> QED
  BY <1>4, <1>5, <1>6, <1>7, <1>10, <1>11, <1>12, <1>13 DEF HandlerStep

LEMMA StoreTurn ==
    ASSUME TypeInv, NEW c \in Clients, StoreStep(c) \/ StoreFails(c)
    PROVE  Turn(c)
<1>q. WellFormed(req[c])
  BY DEF TypeInv
<1>1. ASSUME NEW o, Answer(c, o), req[c].op # "UpdateBook" \/ o # "ok" \/ WriteBook(c)
      PROVE  Turn(c)
  BY <1>1 DEF Turn, Answered
<1>2. CASE FindBookForUpdate(c)
  <2>0. At(c, "update", {"UpdateBook"}) /\ UNCHANGED <<books, reviews>>
    BY <1>2 DEF FindBookForUpdate, FindForUpdate, tables
  <2>1. CASE Answer(c, "notFound")
    BY <1>1, <2>1
  <2>2. CASE /\ books[req[c].id] # NoRow
             /\ Continue(c, [req[c] EXCEPT !.pc = "validate", !.row = books[req[c].id]])
    <3> DEFINE r == [req[c] EXCEPT !.pc = "validate", !.row = books[req[c].id]]
    <3>1. r.op = req[c].op /\ r.id = req[c].id /\ r.row = books[req[c].id]
      BY <1>q DEF WellFormed, Request
    <3> HIDE DEF r
    <3>2. Founded(c, r)
      BY <2>0, <2>2, <3>1 DEF Founded, At
    <3> QED
      BY <2>0, <2>2, <3>2 DEF Turn, GoesOnFounded, At, r
  <2> QED
    BY <1>2, <2>1, <2>2 DEF FindBookForUpdate, FindForUpdate
<1>3. CASE FindReviewForUpdate(c)
  <2>0. At(c, "update", {"UpdateReview"}) /\ UNCHANGED <<users, tables, issued>>
    BY <1>3 DEF FindReviewForUpdate, FindForUpdate
  <2>1. CASE Answer(c, "notFound")
    BY <1>1, <2>1
  <2>2. CASE Continue(c, [req[c] EXCEPT !.pc = "validate", !.row = reviews[req[c].id]])
    <3> DEFINE r == [req[c] EXCEPT !.pc = "validate", !.row = reviews[req[c].id]]
    <3>1. r.op = req[c].op
      BY <1>q DEF WellFormed, Request
    <3> HIDE DEF r
    <3>2. ~Saving(r) /\ ~(r.op = "CreateReview" /\ r.pc = "write")
      BY <2>0, <3>1 DEF Saving, At
    <3> QED
      BY <2>0, <2>2, <3>2, NoSave DEF At, r
  <2> QED
    BY <1>3, <2>1, <2>2 DEF FindReviewForUpdate, FindForUpdate
<1>4. ASSUME NEW op, NEW table, FindForDelete(c, op, table) PROVE Turn(c)
  <2>0. req[c].pc = "delete" /\ UNCHANGED <<users, tables, issued>>
    BY <1>4 DEF FindForDelete, At
  <2>1. CASE Answer(c, "notFound")
    BY <1>1, <2>1
  <2>2. CASE Continue(c, [req[c] EXCEPT !.pc = "remove"])
    <3> DEFINE r == [req[c] EXCEPT !.pc = "remove"]
    <3>1. r.pc = "remove"
      BY <1>q DEF WellFormed, Request
    <3> HIDE DEF r
    <3> QED
      BY <2>0, <2>2, <3>1, NoSave DEF Saving, r
  <2> QED
    BY <1>4, <2>1, <2>2 DEF FindForDelete
<1>5. ASSUME NEW ops, NEW valid, Validate(c, ops, valid),
             req[c].op = "CreateReview" /\ valid => books[req[c].row.book] # NoRow
      PROVE  Turn(c)
  <2>0. req[c].pc = "validate" /\ UNCHANGED <<books, reviews>>
    BY <1>5 DEF Validate, At, tables
  <2>1. CASE Answer(c, "internal")
    BY <1>1, <2>1
  <2>2. CASE valid /\ Continue(c, [req[c] EXCEPT !.pc = "write"])
    <3> DEFINE r == [req[c] EXCEPT !.pc = "write"]
    <3>1. r.op = req[c].op /\ r.id = req[c].id /\ r.row = req[c].row
      BY <1>q DEF WellFormed, Request
    <3> HIDE DEF r
    <3>2. Founded(c, r)
      BY <1>5, <2>0, <2>2, <3>1 DEF Founded, Saving
    <3> QED
      BY <2>0, <2>2, <3>2 DEF Turn, GoesOnFounded, r
  <2> QED
    BY <1>5, <2>1, <2>2 DEF Validate
<1>6. CASE ValidateBook(c)
  BY <1>5, <1>6 DEF ValidateBook, Validate, At
<1>7. CASE ValidateReview(c)
  <2>1. req[c].op = "CreateReview" /\ ReviewFields(ReviewToSave(req[c]))
          => books[req[c].row.book] # NoRow
    BY DEF ReviewToSave, ReviewFields
  <2> QED
    BY <1>5, <1>7, <2>1 DEF ValidateReview
<1>8. CASE WritesRow(c)
  BY <1>1, <1>8 DEF WritesRow, InsertBook, WriteBook, RemoveBook, InsertReview, WriteReview,
                    RemoveReview, At
<1>9. CASE StoreFails(c)
  BY <1>1, <1>9 DEF StoreFails
<1> QED
  BY <1>2, <1>3, <1>4, <1>6, <1>7, <1>8, <1>9
     DEF StoreStep, WritesRow, FindBookForDelete, FindReviewForDelete

LEMMA StepTurn ==
    ASSUME TypeInv, [Next]_vars
    PROVE  (\E c \in Clients : Turn(c)) \/ UNCHANGED <<books, reviews, req, answer>>
<1>1. ASSUME NEW u \in Users, VerifyAccount(u) \/ DeleteAccount(u)
      PROVE  UNCHANGED <<books, reviews, req, answer>>
  BY <1>1 DEF VerifyAccount, DeleteAccount, tables
<1>2. CASE UNCHANGED vars
  BY <1>2 DEF vars, tables
<1> QED
  BY <1>1, <1>2, HandlerTurn, StoreTurn DEF Next, Turn

LEMMA IdleRequest == Idle.pc = "idle"
BY DEF Idle

\* Seen from any request: it is what it was, or it took the step.
LEMMA RequestAfter ==
    ASSUME TypeInv, [Next]_vars, NEW d \in Clients
    PROVE  \/ req'[d] = req[d] /\ answer'[d] = answer[d]
           \/ /\ req'[d].pc = "handler" /\ req'[d].op = "" /\ answer'[d] = "none"
           \/ /\ req[d].pc # "idle" /\ answer'[d] = answer[d]
              /\ Founded(d, req'[d])
              /\ UNCHANGED <<books, reviews>>
           \/ /\ req'[d] = Idle
              /\ answer'[d] = "ok" /\ req[d].op = "UpdateBook" => WriteBook(d)
<1>1. ASSUME NEW c \in Clients, Turn(c), c # d
      PROVE  req'[d] = req[d] /\ answer'[d] = answer[d]
  BY <1>1 DEF Turn, Interceptor, GoesOnFounded, Answered, Continue, Answer, TypeInv, TypeOK
<1>2. CASE Interceptor(d)
  <2>1. PICK u \in accounts \cup Superusers :
          req' = [req EXCEPT ![d] = [Idle EXCEPT !.pc = "handler", !.user = u,
                                                 !.verified = u \in verified \cup Superusers]]
    BY <1>2 DEF Interceptor
  <2>2. answer'[d] = "none"
    BY <1>2 DEF Interceptor, TypeInv, TypeOK
  <2> DEFINE r == [Idle EXCEPT !.pc = "handler", !.user = u,
                               !.verified = u \in verified \cup Superusers]
  <2>3. r.pc = "handler" /\ r.op = ""
    BY DEF Idle
  <2> HIDE DEF r
  <2>4. req'[d] = r
    BY <2>1 DEF r, TypeInv, TypeOK
  <2> QED
    BY <2>2, <2>3, <2>4
<1>3. CASE GoesOnFounded(d)
  BY <1>3 DEF GoesOnFounded, Continue, TypeInv, TypeOK
<1>4. CASE Answered(d)
  BY <1>4 DEF Answered, Answer, TypeInv, TypeOK
<1> QED
  BY <1>1, <1>2, <1>3, <1>4, StepTurn DEF Turn

-----------------------------------------------------------------------------
(***************************************************************************)
(* Every review has its book.                                              *)
(***************************************************************************)
InsertsHaveBooks ==
    \A c \in Clients : At(c, "write", {"CreateReview"}) => books[req[c].row.book] # NoRow

ReviewedInv == InsertsHaveBooks /\ EveryReviewHasBook

\* A book goes only by its DELETE, which finds no review of it.
LEMMA BookRemoved ==
    ASSUME GrantInv, [Next]_vars, NEW b \in LiveBooks, books'[b] = NoRow
    PROVE  /\ \E c \in Clients : RemoveBook(c) /\ req[c].id = b
           /\ ReviewsOf(b) = {}
           /\ reviews' = reviews
<1>t. /\ TypeInv
      /\ books \in [BookIds -> Book \cup {NoRow}]
      /\ NoRow \notin Book
  BY GrantTypes
<1>1. PICK c \in Clients : (WriteBook(c) \/ RemoveBook(c)) /\ req[c].id = b
  BY LiveBookChanges DEF LiveBooks
<1>2. CASE WriteBook(c)
  <2>1. /\ req[c].row \in Book /\ BookToSave(req[c]) \in Book
    BY <1>2, <1>t DEF WriteBook, At, TypeInv, WellFormed
  <2>2. books'[b] = BookColumns(books[b], req[c].row, BookToSave(req[c]))
    BY <1>1, <1>2, <1>t DEF WriteBook, LiveBooks
  <2>3. books'[b] \in Book
    BY <1>t, <2>1, <2>2, BookColumnsType DEF LiveBooks
  <2> QED
    BY <1>t, <2>3
<1>3. CASE RemoveBook(c)
  BY <1>1, <1>3 DEF RemoveBook, LiveBooks
<1> QED
  BY <1>1, <1>2, <1>3

LEMMA NextReviewedInv ==
    ASSUME GrantInv, ReviewedInv, NoDeleteDuringInsert, [Next]_vars
    PROVE  ReviewedInv'
<1>t. /\ TypeInv
      /\ books \in [BookIds -> Book \cup {NoRow}]
      /\ reviews \in [ReviewIds -> Review \cup {NoRow}]
      /\ \A r \in LiveReviews : reviews[r].book \in BookIds
  BY GrantTypes DEF Review, LiveReviews
<1>1. ASSUME NEW d \in Clients, At(d, "write", {"CreateReview"})'
      PROVE  books'[req'[d].row.book] # NoRow
  <2>1. CASE req'[d] = req[d]
    <3> DEFINE b == req[d].row.book
    <3>1. At(d, "write", {"CreateReview"}) /\ b \in BookIds /\ books[b] # NoRow
      BY <1>1, <1>t, <2>1
         DEF At, ReviewedInv, InsertsHaveBooks, TypeInv, WellFormed, ReviewRow
    <3>2. books'[b] # NoRow
      BY <3>1, BookRemoved DEF LiveBooks, RemoveBook, NoDeleteDuringInsert
    <3> QED
      BY <2>1, <3>2
  <2>2. CASE Founded(d, req'[d]) /\ UNCHANGED <<books, reviews>>
    BY <1>1, <2>2 DEF Founded, At
  <2> QED
    BY <1>1, <1>t, <2>1, <2>2, IdleRequest, RequestAfter DEF At
<1>2. ASSUME NEW r \in ReviewIds, reviews'[r] # NoRow
      PROVE  books'[reviews'[r].book] # NoRow
  <2>1. CASE r \in LiveReviews
    <3> DEFINE b == reviews[r].book
    <3>1. b \in LiveBooks
      BY <1>t, <2>1 DEF ReviewedInv, EveryReviewHasBook, LiveBooks
    <3>2. books'[b] # NoRow
      BY <2>1, <3>1, BookRemoved DEF ReviewsOf, LiveReviews
    <3>3. reviews'[r].book = b
      <4>1. CASE reviews'[r] # reviews[r]
        <5>1. PICK c \in Clients : (WriteReview(c) \/ RemoveReview(c)) /\ req[c].id = r
          BY <2>1, <4>1, ReviewsChangeByWrites
        <5>2. WriteReview(c)
          BY <1>2, <1>t, <5>1 DEF RemoveReview
        <5> QED
          BY <2>1, <5>1, <5>2, ReviewUpdated
      <4> QED
        BY <4>1
    <3> QED
      BY <3>2, <3>3
  <2>2. CASE r \notin LiveReviews
    <3>0. reviews[r] = NoRow
      BY <2>2 DEF LiveReviews
    <3>1. PICK c \in Clients : WritesRow(c)
      BY <1>2, <1>t, <3>0, StepShape DEF Shape, GoesOn, Draws
    <3>2. InsertReview(c) /\ req[c].id = r
      BY <1>2, <1>t, <3>0, <3>1
         DEF WritesRow, InsertBook, WriteBook, RemoveBook, InsertReview, WriteReview, RemoveReview
    <3>3. reviews'[r] = req[c].row /\ books' = books
      BY <1>t, <3>2 DEF InsertReview
    <3> QED
      BY <3>2, <3>3 DEF ReviewedInv, InsertsHaveBooks, InsertReview
  <2> QED
    BY <2>1, <2>2
<1> QED
  BY <1>1, <1>2 DEF ReviewedInv, InsertsHaveBooks, EveryReviewHasBook, LiveReviews

(***************************************************************************)
(* Every review has its book, as long as no DELETE of a book comes between *)
(* the validation and the INSERT of a review of it: the requests that edit *)
(* or remove books and reviews, and the accounts that go, do not matter.   *)
(***************************************************************************)
THEOREM ReviewsHaveBooks == Spec /\ []NoDeleteDuringInsert => []EveryReviewHasBook
<1>1. Init => ReviewedInv
  <2>1. Init => \A c \in Clients : req[c].pc = "idle"
    BY IdleRequest DEF Init
  <2>2. Init => LiveReviews = {}
    BY DEF Init, LiveReviews
  <2> QED
    BY <2>1, <2>2 DEF At, ReviewedInv, InsertsHaveBooks, EveryReviewHasBook
<1>2. GrantInv /\ ReviewedInv /\ NoDeleteDuringInsert /\ [Next]_vars => ReviewedInv'
  BY NextReviewedInv
<1>3. ReviewedInv => EveryReviewHasBook
  BY DEF ReviewedInv
<1> QED
  BY <1>1, <1>2, <1>3, GrantInvariant, PTL DEF Spec

\* When requests come one at a time, every review has its book.
COROLLARY SerialReviewsHaveBooks ==
    ASSUME OneClient
    PROVE  Spec => []EveryReviewHasBook
<1>1. NoDeleteDuringInsert
  BY DEF OneClient, NoDeleteDuringInsert, At
<1> QED
  BY <1>1, ReviewsHaveBooks, PTL

-----------------------------------------------------------------------------
(***************************************************************************)
(* An update that is answered ok is in the table.                          *)
(***************************************************************************)

\* A request that is under way has not been answered yet.
Pending == \A c \in Clients : req[c].pc # "idle" => answer[c] = "none"

\* The row that an update loaded is still the row that is stored.
UpdatesAreCurrent ==
    \A c \in Clients : Saving(req[c]) =>
        /\ books[req[c].id] # NoRow
        /\ req[c].row = books[req[c].id]

UpdateInv == Pending /\ UpdatesAreCurrent

LEMMA InitUpdateInv == Init => UpdateInv
<1>1. Init => \A c \in Clients : req[c].pc = "idle"
  BY IdleRequest DEF Init
<1> QED
  BY <1>1 DEF UpdateInv, Pending, UpdatesAreCurrent, Saving

LEMMA NextPending == TypeInv /\ Pending /\ [Next]_vars => Pending'
BY RequestAfter, IdleRequest DEF Pending

LEMMA NextUpdatesAreCurrent ==
    ASSUME GrantInv, UpdatesAreCurrent, UpdatesApart, [Next]_vars
    PROVE  UpdatesAreCurrent'
<1>t. TypeInv
  BY GrantTypes
<1> SUFFICES ASSUME NEW d \in Clients, Saving(req'[d])
             PROVE  books'[req'[d].id] # NoRow /\ req'[d].row = books'[req'[d].id]
  BY DEF UpdatesAreCurrent, Saving
<1> DEFINE b == req[d].id
<1>1. CASE req'[d] = req[d]
  <2>1. Saving(req[d]) /\ b \in BookIds /\ books[b] # NoRow /\ req[d].row = books[b]
    BY <1>1, <1>t, WriterIds DEF UpdatesAreCurrent, Saving
  <2>2. ASSUME NEW c \in Clients, WriteBook(c) \/ RemoveBook(c), req[c].id = b, Steps(c)
        PROVE  FALSE
    BY <1>1, <2>1, <2>2 DEF WriteBook, RemoveBook, AboutToChange, UpdatesApart, Steps
  <2>3. books'[b] = books[b]
    BY <2>1, <2>2, LiveBookChanges DEF LiveBooks
  <2> QED
    BY <1>1, <2>1, <2>3
<1>2. CASE Founded(d, req'[d]) /\ UNCHANGED <<books, reviews>>
  BY <1>2 DEF Founded, UpdatesAreCurrent
<1> QED
  BY <1>t, <1>1, <1>2, RequestAfter, IdleRequest DEF Saving

\* The columns that record.Set leaves as asked for.
LEMMA SetAsAsked ==
    ASSUME NEW row \in Book, NEW u \in BookUpdate
    PROVE  /\ u.title = Blank \/ SetBookFields(row, u).title = u.title
           /\ u.status = Blank \/ SetBookFields(row, u).status = u.status
<1>1. SetBookFields(row, u) =
        [row EXCEPT !.title  = IF u.title = Blank  THEN @ ELSE u.title,
                    !.status = IF u.status = Blank THEN @ ELSE u.status]
  BY Zenon DEF SetBookFields, Blank
<1> QED
  BY <1>1 DEF Book

LEMMA AckedUpdate ==
    ASSUME GrantInv, UpdateInv, [Next]_vars, NEW c \in Clients,
           req[c].op = "UpdateBook", Steps(c), answer'[c] = "ok"
    PROVE  LET new == books'[req[c].id]
               u   == req[c].update
           IN  /\ new # NoRow
               /\ u.title \in {Blank, new.title}
               /\ u.status \in {Blank, new.status}
<1> DEFINE q == req[c]
           old == books[q.id]
           new == books'[q.id]
<1>t. /\ TypeInv
      /\ books \in [BookIds -> Book \cup {NoRow}]
      /\ NoRow \notin Book
      /\ WellFormed(q)
  BY GrantTypes
<1>1. answer[c] = "none"
  <2>1. q.pc # "idle"
    BY <1>t DEF WellFormed
  <2> QED
    BY <2>1 DEF UpdateInv, Pending
<1>2. WriteBook(c)
  BY <1>1, <1>t, RequestAfter DEF Steps
<1>3. /\ q.row = old /\ old # NoRow /\ q.id \in BookIds
  BY <1>2, <1>t, WriterIds DEF WriteBook, At, UpdateInv, UpdatesAreCurrent, Saving
<1>4. old \in Book
  BY <1>3, <1>t
<1>5. q.update \in BookUpdate /\ BookToSave(q) \in Book
  BY <1>2, <1>t DEF WriteBook, At, WellFormed
<1>6. BookToSave(q) = SetBookFields(old, q.update)
  BY <1>3 DEF BookToSave
<1>7. new = BookColumns(old, old, BookToSave(q))
  BY <1>2, <1>3, <1>t DEF WriteBook
<1> HIDE DEF q, old, new
<1>8. new \in Book
  BY <1>4, <1>5, <1>7, BookColumnsType
<1>9. new.title = BookToSave(q).title /\ new.status = BookToSave(q).status
  BY <1>7 DEF BookColumns, Column
<1>10. /\ q.update.title \in {Blank, new.title}
       /\ q.update.status \in {Blank, new.status}
  BY <1>4, <1>5, <1>6, <1>9, SetAsAsked
<1> QED
  BY <1>8, <1>10, <1>t DEF q, new

(***************************************************************************)
(* An update of a book that is answered ok is in the table when the answer *)
(* goes out, as long as no other request writes or deletes the book while  *)
(* the update is between its load and its write.                           *)
(***************************************************************************)
THEOREM UpdatesAreStored == Spec /\ []UpdatesApart => AckedUpdateIsStored
<1> DEFINE Stored ==
      \A c \in Clients :
         (req[c].op = "UpdateBook" /\ Steps(c) /\ answer'[c] = "ok") =>
            LET new == books'[req[c].id]
                u   == req[c].update
            IN  /\ new # NoRow
                /\ u.title \in {"", new.title}
                /\ u.status \in {"", new.status}
<1>1. GrantInv /\ UpdateInv /\ UpdatesApart /\ [Next]_vars => UpdateInv'
  BY NextPending, NextUpdatesAreCurrent, GrantTypes DEF UpdateInv
<1>2. GrantInv /\ UpdateInv /\ [Next]_vars => [Stored]_vars
  <2> SUFFICES ASSUME GrantInv, UpdateInv, [Next]_vars PROVE Stored
    OBVIOUS
  <2> QED
    BY AckedUpdate, Zenon DEF Blank
<1>3. Spec /\ []UpdatesApart => [][Stored]_vars
  BY <1>1, <1>2, InitUpdateInv, GrantInvariant, PTL DEF Spec
<1> QED
  BY <1>3, PTL DEF AckedUpdateIsStored

\* When requests come one at a time, an acknowledged update is stored.
COROLLARY SerialUpdatesAreStored ==
    ASSUME OneClient
    PROVE  Spec => AckedUpdateIsStored
<1>1. UpdatesApart
  BY DEF OneClient, UpdatesApart
<1> QED
  BY <1>1, UpdatesAreStored, PTL

=============================================================================
