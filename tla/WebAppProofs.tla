---------------------------- MODULE WebAppProofs ----------------------------
(***************************************************************************)
(* Theorems about the pages and forms of module WebApp: seen without its   *)
(* pages it is module Library, what its pages offer stays permitted, and   *)
(* its forms are made stale by nobody but their owner.                     *)
(***************************************************************************)
EXTENDS WebApp, LibraryTableProofs

-----------------------------------------------------------------------------
(***************************************************************************)
(* Every step of a tab is a step of some ConnectRPC handler, or of none.   *)
(***************************************************************************)

\* Everybody may list, so a page that was read is answered as a list is.
LEMMA ListsArePermitted ==
    ASSUME NEW u, NEW v
    PROVE  Authorize(u, v, "ListBooks", BookEntity("", ""))
BY DEF Authorize, Principal, BookEntity, UserPermits, BookPermits, ReviewPermits, Forbids

LEMMA ShownIsListed ==
    ASSUME NEW c \in Clients, req[c].pc = "handler", Answer(c, "ok"),
           UNCHANGED <<users, tables, issued>>
    PROVE  HandlerStep(c)
<1>1. CallerMay(c, "ListBooks", BookEntity("", ""))
  BY ListsArePermitted DEF CallerMay
<1>2. ListBooks(c)
  BY <1>1 DEF ListBooks, List
<1> QED
  BY <1>2 DEF HandlerStep

LEMMA FormHandlerStep ==
    ASSUME NEW c \in Browsers, FormHandler(c)
    PROVE  HandlerStep(c) \/ StoreFails(c) \/ UNCHANGED vars
<1>c. c \in Clients
  BY BrowsersAreClients
<1>1. CASE listBooks(c)
  BY <1>1 DEF listBooks, HandlerStep
<1>2. CASE showBook(c)
  BY <1>2 DEF showBook, HandlerStep
<1>3. CASE renderBook(c)
  BY <1>3, <1>c, ShownIsListed DEF renderBook
<1>4. CASE editBook(c)
  <2>1. /\ req[c].pc = "handler"
        /\ Answer(c, "notFound") \/ Answer(c, "ok")
        /\ UNCHANGED <<users, tables, issued>>
    BY <1>4 DEF editBook, Starts
  <2>2. CASE Answer(c, "notFound")
    BY <2>1, <2>2 DEF StoreFails
  <2>3. CASE Answer(c, "ok")
    BY <2>1, <2>3, <1>c, ShownIsListed
  <2> QED
    BY <2>1, <2>2, <2>3
<1>5. CASE createBook(c)
  BY <1>5 DEF createBook, HandlerStep
<1>6. CASE updateBook(c)
  <2>1. UpdateBook(c)
    BY <1>6 DEF updateBook, Starts, UpdateBook
  <2> QED
    BY <2>1 DEF HandlerStep
<1>7. CASE deleteBook(c)
  BY <1>7 DEF deleteBook, HandlerStep
<1>8. CASE publishBook(c)
  <2>1. [title |-> "", status |-> "published"] \in BookUpdate
    BY DEF BookUpdate, Statuses
  <2>2. UpdateBook(c)
    BY <1>8, <2>1 DEF publishBook, Starts, UpdateBook
  <2> QED
    BY <2>2 DEF HandlerStep
<1>9. CASE createReview(c)
  BY <1>9 DEF createReview, HandlerStep
<1>10. CASE deleteReview(c)
  BY <1>10 DEF deleteReview, HandlerStep
<1> QED
  BY <1>1, <1>2, <1>3, <1>4, <1>5, <1>6, <1>7, <1>8, <1>9, <1>10 DEF FormHandler

LEMMA WebStep == [WebNext]_webVars => [Next]_vars
<1>1. ASSUME NEW c \in Browsers, requireAuth(c) \/ FormHandler(c) \/ Respond(c)
      PROVE  [Next]_vars
  <2>1. c \in Clients
    BY BrowsersAreClients
  <2> QED
    BY <1>1, <2>1, FormHandlerStep DEF requireAuth, Respond, Next
<1>2. ASSUME NEW c \in Clients \ Browsers,
             Interceptor(c) \/ HandlerStep(c) \/ StoreStep(c) \/ StoreFails(c)
      PROVE  [Next]_vars
  BY <1>2 DEF Next
<1>3. ASSUME NEW u \in Users, VerifyAccount(u) \/ DeleteAccount(u)
      PROVE  [Next]_vars
  BY <1>3 DEF Next
<1>4. UNCHANGED webVars => UNCHANGED vars
  BY DEF webVars
<1> QED
  BY <1>1, <1>2, <1>3, <1>4 DEF WebNext

(***************************************************************************)
(* The front end does to the tables only what module Library allows; every *)
(* theorem about Spec is one about WebSpec.                                *)
(***************************************************************************)
THEOREM WebImplementsLibrary == WebSpec => ImplementsLibrary
<1>1. WebInit => Init
  BY DEF WebInit
<1> QED
  BY <1>1, WebStep, PTL DEF WebSpec, Spec, ImplementsLibrary

-----------------------------------------------------------------------------
(***************************************************************************)
(* What is known of a row that somebody has once seen under an id follows  *)
(* from the abstract table: it is that row, with the same fixed columns,   *)
(* or it is gone.                                                          *)
(***************************************************************************)
SeenBook(b)   == b \in BookIds /\ (books[b] # NoRow \/ b \in GoneBooks)
SeenReview(r) == r \in ReviewIds /\ (reviews[r] # NoRow \/ r \in GoneReviews)

LEMMA BookFate ==
    ASSUME IdsInv, [Next]_vars, NEW b, SeenBook(b)
    PROVE  /\ SeenBook(b)'
           /\ books'[b] # NoRow => books[b] # NoRow /\ books'[b].author = books[b].author
<1>t. books \in [BookIds -> Book \cup {NoRow}]
  BY DEF IdsInv, IInv, TypeInv, TypeOK
<1>1. CASE UNCHANGED <<books, GoneBooks>>
  BY <1>1 DEF SeenBook
<1>2. ASSUME NEW i \in BookIds, BookTable!Create(i)
      PROVE  /\ SeenBook(b)'
             /\ books'[b] # NoRow => books[b] # NoRow /\ books'[b].author = books[b].author
  <2>1. i # b /\ GoneBooks' = GoneBooks
    BY <1>2 DEF SeenBook, BookTable!Create, GoneBooks
  <2>2. books'[b] = books[b]
    BY <1>t, <1>2, <2>1 DEF SeenBook, BookTable!Create
  <2> QED
    BY <2>1, <2>2 DEF SeenBook
<1>3. ASSUME NEW i \in BookIds, BookTable!Refuse(i)
      PROVE  /\ SeenBook(b)'
             /\ books'[b] # NoRow => books[b] # NoRow /\ books'[b].author = books[b].author
  <2>1. books' = books /\ GoneBooks' = GoneBooks \cup {i}
    BY <1>3 DEF BookTable!Refuse, GoneBooks
  <2> QED
    BY <2>1 DEF SeenBook
<1>4. ASSUME NEW i \in BookIds, BookTable!Update(i)
      PROVE  /\ SeenBook(b)'
             /\ books'[b] # NoRow => books[b] # NoRow /\ books'[b].author = books[b].author
  <2>1. PICK row \in Book : row.author = books[i].author /\ books' = [books EXCEPT ![i] = row]
    BY <1>4 DEF BookTable!Update
  <2>2. books[i] # NoRow /\ GoneBooks' = GoneBooks
    BY <1>4 DEF BookTable!Update, GoneBooks
  <2>3. row # NoRow
    BY RowsAreRows
  <2> QED
    BY <1>t, <2>1, <2>2, <2>3 DEF SeenBook
<1>5. ASSUME NEW i \in BookIds, BookTable!Delete(i)
      PROVE  /\ SeenBook(b)'
             /\ books'[b] # NoRow => books[b] # NoRow /\ books'[b].author = books[b].author
  <2>1. books' = [books EXCEPT ![i] = NoRow] /\ GoneBooks' = GoneBooks \cup {i}
    BY <1>5 DEF BookTable!Delete, GoneBooks
  <2> QED
    BY <1>t, <2>1 DEF SeenBook
<1> QED
  BY <1>1, <1>2, <1>3, <1>4, <1>5, BookTableStep DEF BookTable!Next

SameReview(r) ==
    reviews'[r].book = reviews[r].book /\ reviews'[r].reviewer = reviews[r].reviewer

LEMMA ReviewFate ==
    ASSUME IdsInv, [Next]_vars, NEW r, SeenReview(r)
    PROVE  /\ SeenReview(r)'
           /\ reviews'[r] # NoRow => reviews[r] # NoRow /\ SameReview(r)
<1>t. reviews \in [ReviewIds -> Review \cup {NoRow}]
  BY DEF IdsInv, IInv, TypeInv, TypeOK
<1>1. CASE UNCHANGED <<reviews, GoneReviews>>
  BY <1>1 DEF SeenReview, SameReview
<1>2. ASSUME NEW i \in ReviewIds, ReviewTable!Create(i)
      PROVE  /\ SeenReview(r)'
             /\ reviews'[r] # NoRow => reviews[r] # NoRow /\ SameReview(r)
  <2>1. i # r /\ GoneReviews' = GoneReviews
    BY <1>2 DEF SeenReview, ReviewTable!Create, GoneReviews
  <2>2. reviews'[r] = reviews[r]
    BY <1>t, <1>2, <2>1 DEF SeenReview, ReviewTable!Create
  <2> QED
    BY <2>1, <2>2 DEF SeenReview, SameReview
<1>3. ASSUME NEW i \in ReviewIds, ReviewTable!Refuse(i)
      PROVE  /\ SeenReview(r)'
             /\ reviews'[r] # NoRow => reviews[r] # NoRow /\ SameReview(r)
  <2>1. reviews' = reviews /\ GoneReviews' = GoneReviews \cup {i}
    BY <1>3 DEF ReviewTable!Refuse, GoneReviews
  <2> QED
    BY <2>1 DEF SeenReview, SameReview
<1>4. ASSUME NEW i \in ReviewIds, ReviewTable!Update(i)
      PROVE  /\ SeenReview(r)'
             /\ reviews'[r] # NoRow => reviews[r] # NoRow /\ SameReview(r)
  <2>1. PICK row \in Review : row.book = reviews[i].book /\ row.reviewer = reviews[i].reviewer /\ reviews' = [reviews EXCEPT ![i] = row]
    BY <1>4 DEF ReviewTable!Update
  <2>2. reviews[i] # NoRow /\ GoneReviews' = GoneReviews
    BY <1>4 DEF ReviewTable!Update, GoneReviews
  <2>3. row # NoRow
    BY RowsAreRows
  <2> QED
    BY <1>t, <2>1, <2>2, <2>3 DEF SeenReview, SameReview
<1>5. ASSUME NEW i \in ReviewIds, ReviewTable!Delete(i)
      PROVE  /\ SeenReview(r)'
             /\ reviews'[r] # NoRow => reviews[r] # NoRow /\ SameReview(r)
  <2>1. reviews' = [reviews EXCEPT ![i] = NoRow] /\ GoneReviews' = GoneReviews \cup {i}
    BY <1>5 DEF ReviewTable!Delete, GoneReviews
  <2> QED
    BY <1>t, <2>1 DEF SeenReview, SameReview
<1> QED
  BY <1>1, <1>2, <1>3, <1>4, <1>5, ReviewTableStep DEF ReviewTable!Next

-----------------------------------------------------------------------------
(***************************************************************************)
(* Why a page's controls stay permitted: the book of the page was there    *)
(* when it was read, and each control was offered for a reason that never  *)
(* changes: who the author of the book is, and who wrote the review.       *)
(***************************************************************************)
Offered(p, x) ==
    /\ x.action \in {"UpdateBook", "DeleteBook"} => x.id = p.book /\ p.row.author = p.user
    /\ x.action = "CreateReview" => x.id = p.book /\ p.row.author # p.user
    /\ x.action = "DeleteReview" =>
         /\ SeenReview(x.id)
         /\ reviews[x.id] # NoRow =>
              /\ reviews[x.id].book = p.book
              /\ reviews[x.id].reviewer = p.user \/ p.row.author = p.user

PageOK(p) ==
    /\ SeenBook(p.book)
    /\ books[p.book] # NoRow => books[p.book].author = p.row.author
    /\ p.kind = "form" => p.row.author = p.user
    /\ \A x \in p.controls : Offered(p, x)

PagesOK == \A c \in Browsers : page[c] # NoPage => PageOK(page[c])

WebInv == IdsInv /\ page \in [Browsers -> Page \cup {NoPage}] /\ PagesOK

LEMMA PageKept ==
    ASSUME IdsInv, [Next]_vars, NEW p, PageOK(p)
    PROVE  PageOK(p)'
<1>1. SeenBook(p.book)' /\ (books'[p.book] # NoRow => books'[p.book].author = p.row.author)
  BY BookFate DEF PageOK
<1>2. ASSUME NEW x \in p.controls PROVE Offered(p, x)'
  <2>1. Offered(p, x)
    BY <1>2 DEF PageOK
  <2>2. x.action = "DeleteReview" =>
          /\ SeenReview(x.id)'
          /\ reviews'[x.id] # NoRow =>
               /\ reviews'[x.id].book = p.book
               /\ reviews'[x.id].reviewer = p.user \/ p.row.author = p.user
    BY <2>1, ReviewFate DEF Offered, SameReview
  <2> QED
    BY <2>1, <2>2 DEF Offered
<1> QED
  BY <1>1, <1>2 DEF PageOK

\* A book that a handler finds in the table has been seen.
LEMMA LiveIsSeen ==
    ASSUME NEW b \in BookIds, books[b] # NoRow
    PROVE  SeenBook(b)
BY DEF SeenBook

LEMMA ControlsOffered ==
    ASSUME NEW p, p.controls = BookControls(p.user, p.book, p.row)
                                 \cup ReviewControls(p.user, p.book, p.row),
           SeenBook(p.book), books[p.book] # NoRow => books[p.book].author = p.row.author,
           p.kind # "form"
    PROVE  PageOK(p)
<1>1. ASSUME NEW x \in p.controls PROVE Offered(p, x)
  <2>1. CASE x \in BookControls(p.user, p.book, p.row)
    BY <2>1 DEF BookControls, On, IsOwner, Offered
  <2>2. CASE x = On("CreateReview", p.book) /\ CanReview(p.user, p.row)
    BY <2>2 DEF On, CanReview, Offered
  <2>3. ASSUME NEW r \in ReviewsOf(p.book), CanDelete(p.user, reviews[r], p.row),
               x = On("DeleteReview", r)
        PROVE  Offered(p, x)
    BY <2>3 DEF On, CanDelete, ReviewsOf, SeenReview, Offered
  <2> QED
    BY <1>1, <2>1, <2>2, <2>3 DEF ReviewControls
<1> QED
  BY <1>1 DEF PageOK

-----------------------------------------------------------------------------
(***************************************************************************)
(* A tab keeps its page, loses it, or shows one that was fit to show       *)
(* before the step.                                                        *)
(***************************************************************************)
LEMMA PagesKept ==
    ASSUME WebInv, [Next]_vars,
           \A d \in Browsers : \/ page'[d] = page[d] \/ page'[d] = NoPage
                               \/ \E p : page'[d] = p /\ PageOK(p)
    PROVE  PagesOK'
<1> SUFFICES ASSUME NEW d \in Browsers, page'[d] # NoPage
             PROVE  PageOK(page[d])'
  BY DEF PagesOK
<1>1. PICK p : page'[d] = p /\ PageOK(p)
  BY DEF WebInv, PagesOK
<1>2. PageOK(p)'
  BY <1>1, PageKept DEF WebInv
<1> QED
  BY <1>1, <1>2 DEF PageOK, Offered

LEMMA PageShown ==
    ASSUME WebInv, [Next]_vars, NEW c \in Browsers, NEW p \in Page, PageOK(p),
           page' = [page EXCEPT ![c] = p]
    PROVE  page' \in [Browsers -> Page \cup {NoPage}] /\ PagesOK'
<1>1. page' \in [Browsers -> Page \cup {NoPage}]
  BY DEF WebInv
<1>2. \A d \in Browsers : page'[d] = page[d] \/ page'[d] = p
  BY DEF WebInv
<1> QED
  BY <1>1, <1>2, PagesKept

LEMMA PageStays ==
    ASSUME WebInv, [Next]_vars, page' = page \/ (\E c \in Browsers : Blank(c))
    PROVE  page' \in [Browsers -> Page \cup {NoPage}] /\ PagesOK'
<1>1. page' \in [Browsers -> Page \cup {NoPage}]
  BY DEF WebInv, Blank
<1>2. \A d \in Browsers : page'[d] = page[d] \/ page'[d] = NoPage
  BY DEF WebInv, Blank
<1> QED
  BY <1>1, <1>2, PagesKept

\* The pages that the handlers make from a book they have just read.
LEMMA ShowsLiveBook ==
    ASSUME WebInv, [Next]_vars, NEW c \in Browsers, req[c].pc = "handler",
           NEW b \in BookIds, books[b] # NoRow,
           \/ Show(c, "loading", b, books[b], {})
           \/ /\ books[b].author = req[c].user
              /\ Show(c, "form", b, books[b], {On("UpdateBook", b)})
    PROVE  page' \in [Browsers -> Page \cup {NoPage}] /\ PagesOK'
<1>1. req[c].user \in Principals /\ req[c].verified \in BOOLEAN /\ books[b] \in Book
  BY BrowsersAreClients DEF WebInv, IdsInv, IInv, TypeInv, TypeOK, WellFormed, Request
<1>2. SeenBook(b)
  BY LiveIsSeen
<1>3. CASE Show(c, "loading", b, books[b], {})
  <2> DEFINE p == [kind |-> "loading", user |-> req[c].user, verified |-> req[c].verified,
                   book |-> b, row |-> books[b], controls |-> {}]
  <2>1. p \in Page
    BY <1>1 DEF Page
  <2>2. PageOK(p)
    BY <1>2 DEF PageOK
  <2>3. page' = [page EXCEPT ![c] = p]
    BY <1>3 DEF Show
  <2> HIDE DEF p
  <2> QED
    BY <2>1, <2>2, <2>3, PageShown
<1>4. CASE /\ books[b].author = req[c].user
           /\ Show(c, "form", b, books[b], {On("UpdateBook", b)})
  <2> DEFINE p == [kind |-> "form", user |-> req[c].user, verified |-> req[c].verified,
                   book |-> b, row |-> books[b], controls |-> {On("UpdateBook", b)}]
  <2>1. p \in Page
    BY <1>1 DEF Page, On, Control
  <2>2. PageOK(p)
    BY <1>2, <1>4 DEF PageOK, Offered, On
  <2>3. page' = [page EXCEPT ![c] = p]
    BY <1>4 DEF Show
  <2> HIDE DEF p
  <2> QED
    BY <2>1, <2>2, <2>3, PageShown
<1> QED
  BY <1>3, <1>4

LEMMA ControlsTyped ==
    ASSUME NEW u, NEW b \in BookIds, NEW row
    PROVE  BookControls(u, b, row) \cup ReviewControls(u, b, row) \subseteq Control
BY DEF BookControls, ReviewControls, ReviewsOf, On, Control

LEMMA RenderPages ==
    ASSUME WebInv, [Next]_vars, NEW c \in Browsers, renderBook(c)
    PROVE  page' \in [Browsers -> Page \cup {NoPage}] /\ PagesOK'
<1> DEFINE q == page[c]
           controls == BookControls(q.user, q.book, q.row) \cup ReviewControls(q.user, q.book, q.row)
           p == [q EXCEPT !.kind = "book", !.controls = controls]
<1>1. q \in Page /\ PageOK(q) /\ page' = [page EXCEPT ![c] = p]
  BY DEF renderBook, WebInv, PagesOK
<1>2. controls \subseteq Control
  BY <1>1, ControlsTyped DEF Page
<1> HIDE DEF q, controls
<1>3. /\ p \in Page
      /\ p.controls = controls
      /\ p.user = q.user /\ p.book = q.book /\ p.row = q.row
      /\ p.kind # "form"
  BY <1>1, <1>2 DEF Page
<1>4. PageOK(p)
  BY <1>1, <1>3, ControlsOffered DEF PageOK, controls
<1> HIDE DEF p
<1> QED
  BY <1>1, <1>3, <1>4, PageShown

LEMMA FormHandlerPages ==
    ASSUME WebInv, [Next]_vars, NEW c \in Browsers, FormHandler(c)
    PROVE  page' \in [Browsers -> Page \cup {NoPage}] /\ PagesOK'
<1>1. CASE page' = page
  BY <1>1, PageStays
<1>2. CASE renderBook(c)
  BY <1>2, RenderPages
<1>3. CASE showBook(c)
  BY <1>1, <1>3, ShowsLiveBook DEF showBook, Starts
<1>4. CASE editBook(c)
  BY <1>1, <1>4, ShowsLiveBook DEF editBook, Starts, Owns, IsOwner
<1>5. CASE updateBook(c)
  <2>1. PICK b \in BookIds, u \in BookUpdate :
          LET next == [req[c] EXCEPT !.pc = "update", !.op = "UpdateBook", !.id = b, !.update = u]
          IN  /\ req[c].pc = "handler"
              /\ WithBook(c, b, "UpdateBook", next)
              /\ IF req'[c] = next THEN Show(c, "form", b, books[b], {On("UpdateBook", b)})
                 ELSE UNCHANGED page
    BY <1>5 DEF updateBook, Starts
  <2> DEFINE next == [req[c] EXCEPT !.pc = "update", !.op = "UpdateBook", !.id = b, !.update = u]
  <2>2. CASE req'[c] # next
    BY <1>1, <2>1, <2>2
  <2>3. CASE req'[c] = next
    <3>1. WellFormed(req[c]) /\ req \in [Clients -> Request] /\ c \in Clients
      BY BrowsersAreClients DEF WebInv, IdsInv, IInv, TypeInv, TypeOK
    <3>2. next.pc = "update"
      BY <3>1 DEF WellFormed, Request
    <3> HIDE DEF next
    <3>3. ASSUME NEW o, Answer(c, o)
          PROVE  FALSE
      <4>1. req'[c] = Idle
        BY <3>1, <3>3 DEF Answer
      <4>2. Idle.pc = "idle"
        BY DEF Idle
      <4> QED
        BY <2>3, <3>2, <4>1, <4>2
    <3>4. /\ books[b] # NoRow
          /\ CallerMay(c, "UpdateBook", BookEntity(books[b].author, books[b].status))
      BY <2>1, <3>3 DEF WithBook
    <3>5. books[b].author = req[c].user
      BY <3>4 DEF CallerMay, Authorize, Principal, BookEntity, UserPermits, BookPermits,
                  ReviewPermits, Forbids
    <3> QED
      BY <2>1, <2>3, <3>4, <3>5, ShowsLiveBook DEF next
  <2> QED
    BY <2>2, <2>3
<1> QED
  BY <1>1, <1>2, <1>3, <1>4, <1>5
     DEF FormHandler, listBooks, createBook, deleteBook, publishBook, createReview, deleteReview

LEMMA WebInvariant == WebSpec => []WebInv
<1>1. WebInit => WebInv
  BY InitIdsInv DEF WebInit, WebInv, PagesOK
<1>2. WebInv /\ [WebNext]_webVars => WebInv'
  <2> SUFFICES ASSUME WebInv, [WebNext]_webVars
               PROVE  page' \in [Browsers -> Page \cup {NoPage}] /\ PagesOK'
    BY WebStep, NextIdsInv DEF WebInv
  <2>1. [Next]_vars
    BY WebStep
  <2>2. ASSUME NEW c \in Browsers, requireAuth(c) \/ Respond(c)
        PROVE  page' = page \/ Blank(c)
    BY <2>2 DEF requireAuth, Respond
  <2>3. ASSUME NEW c \in Browsers, FormHandler(c)
        PROVE  page' \in [Browsers -> Page \cup {NoPage}] /\ PagesOK'
    BY <2>1, <2>3, FormHandlerPages
  <2> QED
    BY <2>1, <2>2, <2>3, PageStays DEF WebNext, webVars
<1> QED
  BY <1>1, <1>2, PTL DEF WebSpec

(***************************************************************************)
(* No page is too old: what it offers a verified user is permitted until   *)
(* the record is gone.  The book under the page's id has the author that   *)
(* the page was made for, or none, because the books table is a Table; so  *)
(* has each review.                                                        *)
(***************************************************************************)
THEOREM PagesStayPermitted == WebSpec => []OfferedStaysPermitted
<1>1. WebInv => OfferedStaysPermitted
  <2> SUFFICES ASSUME WebInv, NEW c \in Browsers, page[c] # NoPage,
                      NEW x \in page[c].controls
               PROVE  StillPermitted(page[c].user, x)
    BY DEF OfferedStaysPermitted, Tabs
  <2> DEFINE p == page[c]
  <2>1. PageOK(p) /\ Offered(p, x)
    BY DEF WebInv, PagesOK, PageOK
  <2> HIDE DEF p
  <2>2. x.action \in {"UpdateBook", "DeleteBook"} /\ x.id \in LiveBooks =>
          Authorize(p.user, TRUE, x.action, BookEntity(books[x.id].author, books[x.id].status))
    <3> SUFFICES ASSUME x.action \in {"UpdateBook", "DeleteBook"}, x.id \in LiveBooks
                 PROVE  books[x.id].author = p.user
      BY DEF Authorize, Principal, BookEntity, UserPermits, BookPermits, ReviewPermits, Forbids
    <3> QED
      BY <2>1 DEF PageOK, Offered, LiveBooks
  <2>3. x.action = "CreateReview" /\ x.id \in LiveBooks =>
          Authorize(p.user, TRUE, x.action, ReviewEntity(p.user, books[x.id].author))
    BY <2>1, CreateReviewPolicy DEF PageOK, Offered, LiveBooks
  <2>4. x.action = "DeleteReview" /\ x.id \in LiveReviews /\ reviews[x.id].book \in LiveBooks =>
          Authorize(p.user, TRUE, x.action,
                    ReviewEntity(reviews[x.id].reviewer, books[reviews[x.id].book].author))
    <3> SUFFICES ASSUME x.action = "DeleteReview", x.id \in LiveReviews,
                        reviews[x.id].book \in LiveBooks
                 PROVE  p.user \in {reviews[x.id].reviewer, books[reviews[x.id].book].author}
      BY DEF Authorize, Principal, ReviewEntity, UserPermits, BookPermits, ReviewPermits, Forbids
    <3> QED
      BY <2>1 DEF PageOK, Offered, LiveBooks, LiveReviews
  <2> QED
    BY <2>2, <2>3, <2>4 DEF StillPermitted, p
<1> QED
  BY <1>1, WebInvariant, PTL

-----------------------------------------------------------------------------
(***************************************************************************)
(* How a form goes stale.  What the row of a book holds is changed by      *)
(* nothing but the UPDATE of some updateBook, publishBook or UpdateBook;   *)
(* the tab that sent it has left its form once that UPDATE succeeds, and   *)
(* whoever else sent it is the author of the book, as is the user who was  *)
(* shown the form.                                                         *)
(***************************************************************************)
LEMMA HandlerReads ==
    ASSUME NEW c \in Clients, HandlerStep(c)
    PROVE  UNCHANGED tables
BY DEF HandlerStep, CreateBook, UpdateBook, DeleteBook, CreateReview, UpdateReview, DeleteReview,
       GetBook, ListBooks, ShowReview, ListReviews, List, GetReview, GetReviewedBook, WithBook,
       CreateRow

LEMMA BookChanged ==
    ASSUME IInv, NEW c \in Clients, Shape(c),
           NEW b \in BookIds, books[b] # NoRow, books'[b] # NoRow, books'[b] # books[b]
    PROVE  WriteBook(c) /\ req[c].id = b
<1>t. books \in [BookIds -> Book \cup {NoRow}]
  BY DEF IInv, TypeInv, TypeOK
<1>1. WritesRow(c)
  BY DEF Shape, GoesOn, Draws
<1>2. CASE InsertBook(c)
  <2>1. req[c].op = "CreateBook" /\ books' = [books EXCEPT ![req[c].id] = req[c].row]
    BY <1>2 DEF InsertBook, At
  <2>2. req[c].id # b
    BY <2>1 DEF IInv, NewIdsAreFresh, Known
  <2> QED
    BY <1>t, <2>1, <2>2
<1>3. CASE WriteBook(c)
  BY <1>t, <1>3 DEF WriteBook
<1>4. CASE RemoveBook(c)
  BY <1>t, <1>4 DEF RemoveBook
<1>5. CASE InsertReview(c) \/ WriteReview(c) \/ RemoveReview(c)
  BY <1>5 DEF InsertReview, WriteReview, RemoveReview
<1> QED
  BY <1>1, <1>2, <1>3, <1>4, <1>5 DEF WritesRow

\* A form that a handler shows holds the row that it has just read.
LEMMA FormShown ==
    ASSUME WebInv, NEW c \in Browsers, FormHandler(c)
    PROVE  /\ books' = books
           /\ \A d \in Browsers \ {c} : page'[d] = page[d]
           /\ \/ page'[c] = page[c]
              \/ page'[c].kind # "form"
              \/ page'[c].row = books[page'[c].book]
<1>c. c \in Clients /\ page \in [Browsers -> Page \cup {NoPage}]
  BY BrowsersAreClients DEF WebInv
<1>1. books' = books
  BY <1>c, FormHandlerStep, HandlerReads DEF StoreFails, vars, tables
<1>2. CASE page' = page
  BY <1>1, <1>2
<1>3. ASSUME NEW kind, NEW b, NEW controls, Show(c, kind, b, books[b], controls)
      PROVE  /\ \A d \in Browsers \ {c} : page'[d] = page[d]
             /\ page'[c].row = books[page'[c].book]
  BY <1>c, <1>3 DEF Show
<1>4. CASE renderBook(c)
  <2> DEFINE q == page[c]
             controls == BookControls(q.user, q.book, q.row) \cup ReviewControls(q.user, q.book, q.row)
             p == [q EXCEPT !.kind = "book", !.controls = controls]
  <2>1. q \in Page /\ page' = [page EXCEPT ![c] = p]
    BY <1>c, <1>4 DEF renderBook
  <2>2. p.kind = "book"
    BY <2>1 DEF Page
  <2> HIDE DEF p
  <2> QED
    BY <1>c, <1>1, <2>1, <2>2
<1>5. CASE showBook(c) \/ editBook(c) \/ updateBook(c)
  BY <1>1, <1>2, <1>3, <1>5 DEF showBook, editBook, updateBook
<1> QED
  BY <1>2, <1>4, <1>5
     DEF FormHandler, listBooks, createBook, deleteBook, publishBook, createReview, deleteReview

\* The UPDATE of a request of c, under a form that tab d keeps.
LEMMA OwnerWrites ==
    ASSUME WebInv, NEW d \in Browsers, page[d] # NoPage, page[d].kind = "form",
           NEW c \in Clients, WriteBook(c), req[c].id = page[d].book, books[page[d].book] # NoRow
    PROVE  /\ Steps(c)
           /\ req[c].op = "UpdateBook"
           /\ req[c].user = page[d].user
<1>1. PageOK(page[d]) /\ IInv /\ TypeOK
  BY DEF WebInv, PagesOK, IdsInv, IInv, TypeInv
<1>2. req[c].op = "UpdateBook" /\ req[c].pc = "write" /\ req'[c] = Idle
  BY <1>1 DEF WriteBook, At, Answer, TypeOK
<1>3. Idle.pc = "idle"
  BY DEF Idle
<1>4. Steps(c)
  BY <1>2, <1>3 DEF Steps
<1>5. books[page[d].book].author = page[d].user
  BY <1>1 DEF PageOK
<1> QED
  BY <1>1, <1>2, <1>4, <1>5 DEF IInv, BookWritersAreAuthors

\* Another client's step under a form of tab d, which was not stale before.
LEMMA OthersSave ==
    ASSUME WebInv, [Next]_vars, NEW d \in Browsers, page'[d] = page[d], Stale(d)', ~Stale(d)
    PROVE  /\ page[d] # NoPage /\ page[d].kind = "form"
           /\ page[d].book \in BookIds
           /\ books[page[d].book] # NoRow /\ books'[page[d].book] # NoRow
           /\ books'[page[d].book] # books[page[d].book]
<1> DEFINE b == page[d].book
<1>1. page[d] # NoPage /\ page[d].kind = "form" /\ books'[b] # NoRow /\ page[d].row # books'[b]
  BY DEF Stale, LiveBooks
<1>2. SeenBook(b)
  BY <1>1 DEF WebInv, PagesOK, PageOK
<1>3. b \in BookIds /\ books[b] # NoRow
  BY <1>1, <1>2, BookFate DEF WebInv, SeenBook
<1> QED
  BY <1>1, <1>3 DEF Stale, LiveBooks

LEMMA StaleByOwner ==
    ASSUME WebInv, [WebNext]_webVars, NEW d \in Browsers, Stale(d)',
           ~(Stale(d) /\ page'[d] = page[d])
    PROVE  \E c \in Clients \ {d} : /\ Steps(c)
                                    /\ req[c].op = "UpdateBook"
                                    /\ req[c].id = page'[d].book
                                    /\ req[c].user = page'[d].user
<1> DEFINE Goal == \E c \in Clients \ {d} : /\ Steps(c)
                                            /\ req[c].op = "UpdateBook"
                                            /\ req[c].id = page'[d].book
                                            /\ req[c].user = page'[d].user
<1>n. /\ [Next]_vars /\ IInv /\ TypeInv
      /\ page \in [Browsers -> Page \cup {NoPage}]
      /\ answer \in [Clients -> Answers]
      /\ page'[d] # NoPage /\ page'[d].kind = "form"
  BY WebStep DEF WebInv, IdsInv, IInv, TypeInv, TypeOK, Stale
<1>1. ASSUME books' = books PROVE page'[d] # page[d]
  BY <1>1, <1>n, OthersSave
<1>2. ASSUME NEW c \in Clients, page'[d] = page[d], HandlerStep(c) \/ StoreStep(c) \/ StoreFails(c)
      PROVE  WriteBook(c) /\ (c # d => Goal)
  <2>1. Shape(c)
    BY <1>2, <1>n, HandlerShape, StoreShape
  <2>2. /\ page[d] # NoPage /\ page[d].kind = "form"
        /\ page[d].book \in BookIds
        /\ books[page[d].book] # NoRow /\ books'[page[d].book] # NoRow
        /\ books'[page[d].book] # books[page[d].book]
    BY <1>2, <1>n, OthersSave
  <2>3. WriteBook(c) /\ req[c].id = page[d].book
    BY <1>n, <2>1, <2>2, BookChanged
  <2>4. Steps(c) /\ req[c].op = "UpdateBook" /\ req[c].user = page[d].user
    BY <2>2, <2>3, OwnerWrites
  <2> QED
    BY <1>2, <2>3, <2>4
<1>3. ASSUME NEW c \in Browsers, requireAuth(c)
      PROVE  FALSE
  BY <1>1, <1>3, <1>n DEF requireAuth, Interceptor, Blank, tables
<1>4. ASSUME NEW c \in Browsers, FormHandler(c)
      PROVE  FALSE
  <2>1. books' = books /\ page'[d] # page[d]
    BY <1>1, <1>4, FormShown
  <2>2. page'[d].row = books[page'[d].book]
    BY <1>4, <1>n, <2>1, FormShown
  <2> QED
    BY <2>1, <2>2 DEF Stale
<1>5. ASSUME NEW c \in Browsers, Respond(c)
      PROVE  Goal
  <2>c. c \in Clients
    BY BrowsersAreClients
  <2>1. page'[d] = page[d]
    BY <1>5, <1>n DEF Respond, Blank
  <2>2. WriteBook(c) /\ (c # d => Goal)
    BY <1>2, <1>5, <2>c, <2>1 DEF Respond
  <2>3. req[c].op = "UpdateBook" /\ answer'[c] = "ok"
    BY <1>n, <2>c, <2>2 DEF WriteBook, At, Answer
  <2>4. Blank(c)
    BY <1>5, <2>3 DEF Respond
  <2> QED
    BY <1>n, <2>2, <2>4 DEF Blank
<1>6. ASSUME NEW c \in Clients \ Browsers, page' = page,
             Interceptor(c) \/ HandlerStep(c) \/ StoreStep(c) \/ StoreFails(c)
      PROVE  Goal
  BY <1>1, <1>2, <1>6 DEF Interceptor, tables
<1>7. ASSUME NEW u \in Users, VerifyAccount(u) \/ DeleteAccount(u), page' = page
      PROVE  FALSE
  BY <1>1, <1>7 DEF VerifyAccount, DeleteAccount, tables
<1>8. CASE UNCHANGED webVars
  BY <1>1, <1>8 DEF webVars, vars, tables
<1> QED
  BY <1>3, <1>4, <1>5, <1>6, <1>7, <1>8 DEF WebNext

(***************************************************************************)
(* For any number of tabs, clients, users and books: a form goes stale     *)
(* only by an update that the same user sends through another client.      *)
(***************************************************************************)
THEOREM StaleFormsAreTheOwners == WebSpec => FormsGoStaleByOwner
<1>1. WebInv /\ [WebNext]_webVars =>
        [\A c \in Browsers : Stale(c)' =>
           \/ Stale(c) /\ page'[c] = page[c]
           \/ \E d \in Clients \ {c} : /\ Steps(d)
                                       /\ req[d].op = "UpdateBook"
                                       /\ req[d].id = page'[c].book
                                       /\ req[d].user = page'[c].user]_webVars
  <2> SUFFICES ASSUME WebInv, [WebNext]_webVars, NEW c \in Browsers, Stale(c)',
                      ~(Stale(c) /\ page'[c] = page[c])
               PROVE  \E d \in Clients \ {c} : /\ Steps(d)
                                               /\ req[d].op = "UpdateBook"
                                               /\ req[d].id = page'[c].book
                                               /\ req[d].user = page'[c].user
    OBVIOUS
  <2> QED
    BY StaleByOwner
<1> QED
  BY <1>1, WebInvariant, PTL DEF WebSpec, FormsGoStaleByOwner

=============================================================================
