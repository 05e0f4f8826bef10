------------------------------- MODULE WebApp -------------------------------
(***************************************************************************)
(* internal/web/books.go and internal/web/reviews.go: the pages and forms  *)
(* for books and reviews, next to the ConnectRPC handlers and over the     *)
(* same store.                                                             *)
(*                                                                         *)
(* A client in Browsers is a browser tab: page[c] is what it shows, a book *)
(* page or an edit form, as of the reads that made it.  A page lives on    *)
(* while the tables change; whatever is posted from it may be long out of  *)
(* date, and a tab can also post what no page of it offers, so the form    *)
(* handlers accept any input.  The other clients call the handlers of      *)
(* module Library.                                                         *)
(*                                                                         *)
(* The form handlers make the policy checks and the store calls of their   *)
(* ConnectRPC twins in the same order, so they are the same actions where  *)
(* only the answer differs: an answer names what the handler found out,    *)
(* whether the browser then gets a 404 page (books), a redirect (reviews), *)
(* a 500 page (a review whose book is gone) or a form with a message.      *)
(* What the pages contain beyond values and controls is left out.          *)
(***************************************************************************)
EXTENDS Library

CONSTANTS
    Browsers,  \* the clients that are browser tabs
    NoPage     \* a tab that shows nothing with controls on it

ASSUME BrowsersAreClients == Browsers \subseteq Clients

VARIABLE page  \* page[c]: what tab c shows

webVars == <<vars, page>>

\* A control on a page: the action of the policy it leads to, and the record.
Control == [action : {"UpdateBook", "DeleteBook", "CreateReview", "DeleteReview"},
            id : BookIds \cup ReviewIds]

\* While it is loading, a page holds the book that has been read for it.
Page == [kind : {"loading", "book", "form"}, user : Principals, verified : BOOLEAN,
         book : BookIds, row : Book, controls : SUBSET Control]

Show(c, kind, b, row, controls) ==
    page' = [page EXCEPT ![c] =
               [kind |-> kind, user |-> req[c].user, verified |-> req[c].verified,
                book |-> b, row |-> row, controls |-> controls]]

Blank(c) == page' = [page EXCEPT ![c] = NoPage]

WebInit == Init /\ page = [c \in Browsers |-> NoPage]

-----------------------------------------------------------------------------
\* requireAuth: the tab leaves its page and waits for the answer.
requireAuth(c) == Interceptor(c) /\ Blank(c)

\* The handler of tab c has read nothing yet.
Starts(c) == req[c].pc = "handler" /\ page[c] = NoPage

On(action, id) == [action |-> action, id |-> id]

BookControls(userID, b, row) ==
    IF IsOwner(userID, row) THEN {On("UpdateBook", b), On("DeleteBook", b)} ELSE {}

ReviewControls_Bug(userID, b, row) == {On("CreateReview", b)} \cup {On("DeleteReview", r) : r \in ReviewsOf(b)}

ReviewControls(userID, b, row) ==
    (IF CanReview(userID, row) THEN {On("CreateReview", b)} ELSE {})
      \cup {On("DeleteReview", r) : r \in {x \in ReviewsOf(b) : CanDelete(userID, reviews[x], row)}}

\* showBook, first call: GetBook and the policy.  A failure is a 404 page.
showBook(c) ==
    /\ Starts(c)
    /\ \/ GetBook(c) /\ answer'[c] # "ok" /\ UNCHANGED page
       \/ /\ \E b \in BookIds :
               /\ books[b] # NoRow
               /\ CallerMay(c, "GetBook", BookEntity(books[b].author, books[b].status))
               /\ Show(c, "loading", b, books[b], {})
          /\ UNCHANGED vars

\* showBook, second call: ListReviews and the template.  The book may be
\* another one by now, or gone; the page shows what was read.
renderBook(c) ==
    LET p == page[c]
    IN  /\ req[c].pc = "handler" /\ p # NoPage /\ p.kind = "loading"
        /\ page' = [page EXCEPT ![c] =
                      [p EXCEPT !.kind = "book",
                                !.controls = BookControls(p.user, p.book, p.row)
                                               \cup ReviewControls(p.user, p.book, p.row)]]
        /\ Answer(c, "ok")
        /\ UNCHANGED <<users, tables, issued>>

Owns(userID, b) == books[b] # NoRow /\ IsOwner(userID, books[b])

\* editBook asks no policy: it compares the author itself.
editBook(c) ==
    /\ Starts(c)
    /\ \E b \in BookIds :
         \/ ~Owns(req[c].user, b) /\ Answer(c, "notFound") /\ UNCHANGED page
         \/ /\ Owns(req[c].user, b)
            /\ Show(c, "form", b, books[b], {On("UpdateBook", b)})
            /\ Answer(c, "ok")
    /\ UNCHANGED <<users, tables, issued>>

createBook(c) == Starts(c) /\ CreateBook(c) /\ UNCHANGED page

\* An empty field of the form is an absent one.  The book that was read is
\* kept: if the store call fails, the form comes back with its values.
updateBook(c) ==
    /\ Starts(c)
    /\ \E b \in BookIds, u \in BookUpdate :
         LET next == [req[c] EXCEPT !.pc = "update", !.op = "UpdateBook",
                                    !.id = b, !.update = u]
         IN  /\ WithBook(c, b, "UpdateBook", next)
             /\ IF req'[c] = next THEN Show(c, "form", b, books[b], {On("UpdateBook", b)})
                ELSE UNCHANGED page

deleteBook(c) == Starts(c) /\ DeleteBook(c) /\ UNCHANGED page

publishBook_Bug(c) ==
    /\ Starts(c)
    /\ \E b \in BookIds :
         Continue(c, [req[c] EXCEPT !.pc = "update", !.op = "UpdateBook", !.id = b,
                                    !.update = [title |-> "", status |-> "published"]])
    /\ UNCHANGED <<users, tables, issued, page>>

publishBook(c) ==
    /\ Starts(c)
    /\ \E b \in BookIds :
         WithBook(c, b, "UpdateBook",
                  [req[c] EXCEPT !.pc = "update", !.op = "UpdateBook", !.id = b,
                                 !.update = [title |-> "", status |-> "published"]])
    /\ UNCHANGED page

createReview(c) == Starts(c) /\ CreateReview(c) /\ UNCHANGED page

\* The first read starts the handler; the second finds the review in hand.
deleteReview(c) == page[c] = NoPage /\ DeleteReview(c) /\ UNCHANGED page

listBooks(c) == Starts(c) /\ ListBooks(c) /\ UNCHANGED page

FormHandler(c) ==
    \/ listBooks(c) \/ showBook(c) \/ renderBook(c) \/ editBook(c)
    \/ createBook(c) \/ updateBook(c) \/ deleteBook(c) \/ publishBook(c)
    \/ createReview(c) \/ deleteReview(c)

Respond_Bug(c) ==
    /\ StoreStep(c) \/ StoreFails(c)
    /\ IF req[c].pc # "handler" THEN UNCHANGED page ELSE Blank(c)

\* A saved form redirects to the book; an update that failed shows it again.
\* Any other failure is an error page, a 500 one when the reviews of a book
\* page cannot be read.
Respond(c) ==
    /\ StoreStep(c) \/ StoreFails(c)
    /\ page[c] # NoPage /\ page[c].kind = "loading" => answer'[c] = "internal"
    /\ IF /\ req[c].pc # "handler"
          /\ req[c].op = "UpdateBook" => answer'[c] # "ok"
       THEN UNCHANGED page
       ELSE Blank(c)

WebNext ==
    \/ \E c \in Browsers : requireAuth(c) \/ FormHandler(c) \/ Respond(c)
    \/ /\ \E c \in Clients \ Browsers :
            Interceptor(c) \/ HandlerStep(c) \/ StoreStep(c) \/ StoreFails(c)
       /\ UNCHANGED page
    \/ /\ \E u \in Users : VerifyAccount(u) \/ DeleteAccount(u)
       /\ UNCHANGED page

WebSpec == WebInit /\ [][WebNext]_webVars

-----------------------------------------------------------------------------
(***************************************************************************)
(* Properties.                                                             *)
(***************************************************************************)
Tabs == {c \in Browsers : page[c] # NoPage}

\* What control x leads to is permitted to user u on the record as it is now;
\* a record that is gone is not found, which is another matter.
StillPermitted(u, x) ==
    /\ (x.action \in {"UpdateBook", "DeleteBook"} /\ x.id \in LiveBooks) =>
         Authorize(u, TRUE, x.action, BookEntity(books[x.id].author, books[x.id].status))
    /\ (x.action = "CreateReview" /\ x.id \in LiveBooks) =>
         Authorize(u, TRUE, x.action, ReviewEntity(u, books[x.id].author))
    /\ (x.action = "DeleteReview" /\ x.id \in LiveReviews) =>
         LET r == reviews[x.id]
         IN  r.book \in LiveBooks =>
               Authorize(u, TRUE, x.action, ReviewEntity(r.reviewer, books[r.book].author))

(***************************************************************************)
(* However old a page is, the controls that it shows to a verified user    *)
(* still lead to something that the user may do: other requests may have   *)
(* changed or deleted the book and its reviews since the page was made,    *)
(* and the user may have used another tab, but never does the policy       *)
(* refuse a click.                                                         *)
(***************************************************************************)
OfferedStaysPermitted ==
    \A c \in Tabs : page[c].verified =>
        \A x \in page[c].controls : StillPermitted(page[c].user, x)

\* Tab c has a form open whose values the book no longer has.
Stale(c) ==
    /\ page[c] # NoPage /\ page[c].kind = "form"
    /\ page[c].book \in LiveBooks
    /\ page[c].row # books[page[c].book]

(***************************************************************************)
(* A form sends back all its values, and those of an old form undo what    *)
(* was saved since.  Nobody but the user whom the form is shown to can     *)
(* make it old, and only by an update through another client: no form      *)
(* starts out stale, the tab's own save leaves it or fails and changes     *)
(* nothing, and no request that others have under way reaches the book.    *)
(***************************************************************************)
FormsGoStaleByOwner ==
    [][\A c \in Browsers : Stale(c)' =>
         \/ Stale(c) /\ page'[c] = page[c]
         \/ \E d \in Clients \ {c} : /\ Steps(d)
                                     /\ req[d].op = "UpdateBook"
                                     /\ req[d].id = page'[c].book
                                     /\ req[d].user = page'[c].user]_webVars

(***************************************************************************)
(* The front end adds pages and nothing else: seen without them, browsers  *)
(* and ConnectRPC clients together do only what module Library allows, so  *)
(* that all that is said there of the tables holds for the forms as well.  *)
(***************************************************************************)
ImplementsLibrary == Spec

=============================================================================
