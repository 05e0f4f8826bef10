------------------------------- MODULE Policy -------------------------------
(***************************************************************************)
(* The Cedar policy set of policies/policy.cedar and the way               *)
(* authz.Authorize evaluates it for one request.                           *)
(*                                                                         *)
(* A principal is the record [id, verified] that Authorize builds from the *)
(* authenticated user.  A resource is the record of attributes that the    *)
(* entity builders of the handlers give to Authorize: the author and the   *)
(* status of a book, the reviewer of a review and the author of its book,  *)
(* or the id of a user.  Entity types, entity ids that no policy reads,    *)
(* and the logging of the decision are left out.                           *)
(*                                                                         *)
(* Definitions whose name ends in _Bug are the mutated forms that the      *)
(* mutation check puts in the place of the definition that follows them;   *)
(* no specification uses them.                                             *)
(***************************************************************************)

\* The cedar.Entity of the principal, with its attributes id and verified.
Principal(userID, userVerified) == [id |-> userID, verified |-> userVerified]

\* The attributes of a Library::Book.
BookEntity(author, status) == [author |-> author, status |-> status]

\* The attributes of a Library::Review.
ReviewEntity(reviewer, bookAuthor) ==
    [reviewer |-> reviewer, book_author |-> bookAuthor]

\* The Library::User that stands for the caller itself.
UserSelfEntity(userID) == [id |-> userID]

(***************************************************************************)
(* The permit statements, one disjunct per statement.                      *)
(***************************************************************************)
UserPermits(p, action, r) ==
    \/ action = "GetMe" /\ r.id = p.id
    \/ action = "UpdateMe" /\ r.id = p.id

BookPermits_Bug(p, action, r) ==
    \/ action \in {"CreateBook", "UpdateBook", "DeleteBook"} /\ p.verified
    \/ action \in {"GetBook", "ListBooks"}

BookPermits(p, action, r) ==
    \/ action = "CreateBook" /\ p.verified
    \/ action = "GetBook" /\ r.status = "published"
    \/ action = "GetBook" /\ r.status = "draft" /\ r.author = p.id
    \/ action = "ListBooks"
    \/ action = "UpdateBook" /\ r.author = p.id /\ p.verified
    \/ action = "DeleteBook" /\ r.author = p.id /\ p.verified

ReviewPermits_Bug(p, action, r) ==
    \/ action = "CreateReview" /\ p.verified
    \/ /\ action \in {"UpdateReview", "DeleteReview"}
       /\ p.verified
       /\ p.id \in {r.reviewer, r.book_author}

ReviewPermits(p, action, r) ==
    \/ action = "CreateReview" /\ p.verified
    \/ action = "GetReview"
    \/ action = "ListReviews"
    \/ action = "UpdateReview" /\ r.reviewer = p.id /\ p.verified
    \/ action = "DeleteReview" /\ r.reviewer = p.id /\ p.verified
    \/ action = "DeleteReview" /\ r.book_author = p.id /\ p.verified

Forbids_Bug(p, action, r) == FALSE

\* The only forbid statement: an author does not review their own book.
Forbids(p, action, r) == action = "CreateReview" /\ r.book_author = p.id

\* Cedar's decision: some permit statement matches and no forbid does.
Authorize(userID, userVerified, action, resource) ==
    LET p == Principal(userID, userVerified)
    IN  /\ \/ UserPermits(p, action, resource)
           \/ BookPermits(p, action, resource)
           \/ ReviewPermits(p, action, resource)
        /\ ~Forbids(p, action, resource)

=============================================================================
