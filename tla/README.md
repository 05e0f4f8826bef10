# A TLA+ model of the library server

The repository is one Go binary: PocketBase as the embedded database and user
management, a ConnectRPC API for a small library of books and reviews, an HTML
front end over the same data, and Cedar policies that decide who may do what.
This directory holds TLA+ modules that model it, TLC configurations that check
them on small instances, and proofs that TLAPS checks for all instances.

## 1. Inventory

| Part | State it keeps | Operations | What makes it correct |
|---|---|---|---|
| `policies/policy.cedar`, `internal/authz` | the policy set, read once | `Authorize`, `Interceptor` | drafts are private, only verified authors write, nobody reviews their own book |
| `internal/library` | none of its own; a request holds what it has read so far | `Create/Get/List/Update/Delete` for books and reviews, `GetMe`, `UpdateMe` | a decision taken on what was read is still right when the write happens |
| `internal/store/pbstore` | the tables `books`, `reviews` (and `users`, kept by PocketBase) | ten methods, each one to three database calls | rows fit the schema, updates touch only their columns, a review keeps its book |
| `internal/store/memory` | two maps and an id counter behind a mutex | the same ten methods | every method is atomic, an id is handed out once |
| `internal/web` sign-in and profile | `users`, `_mfas`, `_otps` rows, the auth cookie, mails | register, verify, login, mfa, logout, name and password change | a login needs both factors (registering opens a session with neither), a changed password ends old sessions, no save undoes another |
| `internal/web` pages | none; a browser holds a rendered page or form | list, show, create, edit, publish, delete, review | pages offer what the policies permit, forms open no other way to the tables |
| `migrations` | the schema and the existing rows | six migrations, up and down | rows and collections fit each other at every version, existing books keep their author |

How they interact: a request arrives at the ConnectRPC handler or at a web
handler. The interceptor (or `requireAuth`) turns its token into a user id and
a verified flag, which the handler keeps for the rest of the request. The
handler reads rows through the store, builds the Cedar entities, calls
`Authorize`, and then calls the store to write. Every request runs in its own
goroutine. Nothing but the database is shared, and no lock or transaction spans
two database calls: between any two calls of one request, other requests run.
The migrations run before the server takes its first request.

What is hard about it:

* a check and the write it protects are two to four database calls apart
  (authorization on a snapshot, relations looked up before the INSERT);
* `Save` writes the columns that differ from the row *as it was loaded*;
* an update whose row is gone succeeds and does nothing;
* the rules are written in several places: Cedar, Go filters, template flags,
  schema validation;
* a page is decided once and clicked much later;
* every database call can fail, and some errors are ignored.

`PROJECT.json` lists each of these hazards at the line where it bites, with the
properties that cover it.

## 2. Modules

| Module | Models | Kind |
|---|---|---|
| `Policy` | `policy.cedar`, the entity builders, `authz.Authorize` | operators |
| `PbStore` | `pbstore.go`, PocketBase's Save and Delete, account verification and deletion | state machine parts |
| `Library` | the interceptor and the handlers of `books.go` and `reviews.go`; properties | state machine over `PbStore` and `Policy` |
| `WebApp` | the pages and forms of `web/books.go` and `web/reviews.go` | state machine over `Library`, which it implements |
| `SignIn` | `web/auth.go`, `web/profile.go`, `UpdateMe` of `library/users.go`; properties | state machine |
| `MemoryStore` | `memory.go`, statement by statement under the mutex | state machine |
| `Migrations` | the six migrations, up and down, on a database with rows | state machine |
| `Table` | the life of the ids and rows of one table | abstract specification, implemented by `Library` and `MemoryStore`, twice each |
| `StoreSpec` | `store.Store` with atomic methods | abstract specification, implemented by `MemoryStore` |
| `Accounts` | the life of a user account | abstract specification, implemented by `SignIn` |
| `MCLibrary`, `MCWebApp`, `MCSignIn`, `MCMemoryStore`, `MCMigrations` | instances for TLC | model checking |
| `LibraryProofs`, `LibraryTableProofs`, `LibraryGrantProofs`, `LibrarySerialProofs`, `WebAppProofs`, `SignInProofs`, `MemoryStoreProofs`, `MigrationsProofs` | theorems | proofs |

Definitions named `..._Bug` are plausible bugs of the definition that follows
them; each property is shown to fail when one of them is put in its place.

### Books and reviews (`Policy`, `PbStore`, `Library`)

`books` and `reviews` are the two tables, functions from ids to a row or
`NoRow`. `accounts` and `verified` are what books and reviews depend on of the
`users` collection. `issued` holds the ids generated so far: PocketBase makes
random ids, so an id is never used twice. `req[c]` is the request in flight of
client `c`: which call comes next (`pc`), the handler (`op`), the snapshot of
the interceptor (`user`, `verified`) and the values the goroutine holds (`id`,
`row`, `update`). `answer[c]` is how the last request of `c` ended.

One action is one database call and the code up to the next one:

    Interceptor -> handler
    CreateBook            Authorize, then Validate -> Insert
    UpdateBook, DeleteBook   GetBook + Authorize, then Find -> Validate -> Write, Find -> Remove
    CreateReview          GetBook + Authorize + rating check, then Validate -> Insert
    UpdateReview, DeleteReview   GetReview, then GetBook + Authorize (+ rating check), then as above

`Validate` stands for PocketBase's field validators, whose lookups of related
records are separate queries from the INSERT or UPDATE that follows. `Remove`
is one action because PocketBase's Delete runs in a transaction. `StoreFails`
lets the call at hand fail: the store reports a failed read of one record as
`ErrNotFound`, a failed list or a failed write as an internal error.

Abstractions. A title is a model value or `""`; a review text likewise; a
rating is one of a few integers around the bounds 1 and 5. Request values that
the schema rejects (a status that is no option) are in the input sets. The
entity ids and types no policy reads, response bodies, messages and logging are
left out. The `_superusers` collection counts, because the interceptor accepts
a token of any auth collection: a superuser is a verified principal whose id is
no record of `users`, so the relations reject what it writes. The tables start
empty, with the collections of the last migration.

PocketBase is not part of the repository. What the model says of it is marked
`external` in the map: column-wise UPDATE, validation before it, delete in a
transaction with the required-relation check, and the API with which a user
deletes their own account. Writes that a superuser makes in PocketBase's own
dashboard are outside these modules (`Migrations` has them).

### Pages and forms (`WebApp`)

Some clients are browser tabs. `page[c]` is what tab `c` shows: the kind of
page, the book and its values as they were read, and the controls, each the
policy action and record that it leads to. The form handlers make the policy
checks and the store calls of their ConnectRPC twins in the same order, so each
action of `WebApp` is the twin's action of `Library` plus what becomes of the
page. `showBook` takes two steps (book, then reviews, whose failure is a 500 page),
`editBook` compares the
author without a policy, `updateBook` keeps the book it read because a failed
save shows the form again. A tab can post what no page of it offers: the form
handlers accept any input.

### Sign-in and profile (`SignIn`)

`SignIn` keeps the rows of `users` (`account`: name, password, verified, token
key), `_mfas` and `_otps`, the mails that were sent (`mailed` codes,
verification `links`) and the auth tokens that were handed out (`sessions`).
`req[c]` is again the form submission under way, one action per database or
mail call:

    registerSubmit   Register, InsertAccount, SendLink (and the session)
    verifySubmit     VerifySubmit, SaveVerified
    loginSubmit      Login, ValidateMfa, InsertMfa, ValidateOtp, InsertOtp, SendOtp
    mfaSubmit        FindMfa, FindOtp, FindUser, SaveLogin, DeleteMfa, DeleteOtp (and the session)
    updateName       UpdateName, FindProfile, SaveName
    changePassword   ChangePassword, FindProfile, SavePassword, DropMfas
    UpdateMe         UpdateMe, FindProfile, then as one of these two, with a name, a password or both

`CallFails` ends a handler whose call fails; where the code ignores an error
(the verification mail, the verified flag of a login, the two deletes) the
action has an outcome in which the call did nothing and the handler goes on.
`Expire` lets a row reach its age limit at any time, `DeleteAccount` lets a user
delete their account between any two calls. A user id stands for the mail
address, a code for the id of its row: whoever enters a right code has read the
mail. A token is the user id and the generation of the token key it was signed
with; the password and the code that led to it are kept beside it, for the
properties only. Left out: page rendering, the cookie, wrong input that is
turned down before any write, and PocketBase's own login endpoints.

`SignIn` and `Library` are two views of the `users` collection. They meet in
`Accounts`: `SignIn` implements it, and `VerifyAccount` and `DeleteAccount`, the
only steps that `Library` allows that collection, are two of its three actions
(`Library` starts with all its users registered).

### The in-memory store (`MemoryStore`, `StoreSpec`, `Table`)

`table`, `nextID` and `mu` are the fields of the Go struct, `call[c]` the method
that goroutine `c` is in. Every statement that touches shared state is a step:
`Lock`, `GenID`, `Insert`, the two assignments of an update (`SetFirst`,
`SetSecond`), the lookups and `Unlock`. Nothing is validated, and a book is
deleted under its reviews: both as in the code.

`StoreSpec` is the store that a caller would like to have, where each method is
one step. `MemoryStore` maps to it with the update taking effect at its first
assignment and the create at the insertion. pbstore does not implement it when
requests overlap: an update loads, validates and writes in three calls, may be
told ok after its row was deleted, and returns the row as it saved it rather
than as the table has it. What both stores do guarantee is `Table`: an id is
new, live, gone for good; rows fit the collection; the columns that say whose a
row is never change.

### Migrations (`Migrations`)

`db` is the committed database (version, fields and rows of the collections,
settings), `run` the transaction of a run of migrations. `Begin`, `Migrate`
(one migration up or down), `Commit`, and `Crash`, which rolls back; between
runs the dashboard saves and deletes rows that are valid at that version.
Saving a collection drops the columns of fields that are gone and adds empty
ones for new fields; a field is known by its id, made of type and name. The
snapshot is version 0, because its own down migration does nothing; of the many
fields of its collections those are there that a later migration touches.

## 3. Runs

| Run | Instance | What it shows |
|---|---|---|
| `books` (`Books.cfg`) | 2 requests, 2 users, 1 superuser, 1 book, 2 titles, 1 invalid status | a stored book changes only for its verified author (`BooksWrittenByAuthor`); a stale update changes only the columns it names (`OnlyRequestedColumnsChange`); a deleted book stays deleted and no author changes (`BooksAreATable`); the list and the policies agree on who sees a book (`ListShowsExactlyGettable`) |
| `reviews` (`Reviews.cfg`) | 2 requests, 3 users, 1 superuser, 1 book, 1 review, ratings 0, 1, 5, 6 | tables well typed (`TypeOK`); no self review (`NoSelfReview`); what a request was granted stands until it writes (`GrantsStand`); a review changes only for its reviewer or, removed, for the book's author (`ReviewsWrittenByReviewerOrModerator`); buttons and policies agree (`ButtonsMatchPolicy`); a stale save of a review changes only the columns it names (`OnlyRequestedColumnsChange`); what the create/delete races leave behind: a review without its book is frozen (`OrphanReviewsAreFrozen`), a row of a deleted account can only be removed (`RowsOfTheGoneStay`); reviews are a `Table` (`ReviewsAreATable`); the proofs' inductive invariant (`IInv`) |
| `apart` (`Apart.cfg`) | 2 requests, 2 users, 1 superuser, 1 book, 1 review, 2 titles, 1 invalid status; `NoDeleteDuringInsert`, `UpdatesApart` | every review has its book (`EveryReviewHasBook`) unless the book is deleted between the validation and the INSERT of the review; an acknowledged update is in the table (`AckedUpdateIsStored`) unless another request changes the book between its load and its UPDATE |
| `live` (`Live.cfg`) | 2 requests, fairness | every request is answered (`EveryRequestAnswered`) |
| `web` (`Web.cfg`) | a tab and a ConnectRPC client, 2 users, 1 superuser, 1 book, 1 review | tabs and API clients together do only what `Library` allows (`ImplementsLibrary`); what a page offers a verified user is never refused by the policy, however old the page is (`OfferedStaysPermitted`); an open form is made stale by nobody but the user who has it open, through another client (`FormsGoStaleByOwner`) |
| `signin` (`SignIn.cfg`) | 2 requests, 1 account, 1 MFA row, 1 code, 1 password change, deletes may fail | shapes (`TypeOK`) and the proofs' inductive invariant (`IInv`); a revoked session or link never comes back (`RevokedStaysRevoked`); the abstract life of an account (`ImplementsAccounts`) |
| `profile` (`Profile.cfg`) | 3 requests of 1 account, 2 names, 2 passwords, 2 password changes, no login | no save of an older copy undoes a verification, a name or a password (`NoLostProfileChange`) |
| `signin_serial` (`SignInSerial.cfg`) | 1 submission at a time, 2 accounts, 2 MFA rows, 1 code, deletes succeed | a code opens a session only of the user it was mailed to (`SecondFactorIsOwn`); an account is verified by mail only (`VerifiedByMail`) |
| `logins_apart` (`LoginsApart.cfg`) | 2 requests, 1 account, 2 MFA rows, 1 code, 2 password changes, deletes succeed; `PasswordChangesApart`, `CodesApart` | whoever is logged in used the current password (`SessionsFollowPassword`) unless it was saved under a login that had checked the old one; a code opens one session (`OneSessionPerCode`) unless two requests have it accepted at once |
| `memory` (`Memory.cfg`) | 2 goroutines, 2 ids, 2 values per field | every method is atomic (`Linearizable`); both maps are `Table`s (`BooksAreATable`, `ReviewsAreATable`); the proofs' inductive invariant (`IInv`) |
| `migrations` (`Migrations.cfg`) | 2 users, 1 book, 1 text, all versions in any order | down undoes up (`DownUndoesUp`), rows hold options of the current fields (`SelectsFit`), renaming roles promotes nobody (`RanksKept`) |
| `authors` (`Authors.cfg`) | the same | a violation: the author that the second migration copies from the owner does not survive its own transaction (`AuthorsRetained`); see the findings in `PROJECT.json` |

Why the bounds are enough: every property relates at most one row, the row it
refers to, and two requests (the one that writes and the one that overtakes
it). A third user is needed where author, reviewer and stranger differ. Ids
are never reused, so one id per table covers creation, deletion and stale use
of the id; the fresh-id argument for several ids is what `IInv` and the proofs
are for. Two ids in `memory` let a create of a book and one of a review race
for the counter. A lost profile change takes three requests: one that
registers or verifies and two that save. One book is enough for `migrations`,
which treat all rows alike. Users and clients are interchangeable and form
symmetry sets in the runs without liveness, clients only where they are all of
a kind.

Four properties do not hold when requests overlap in any way whatever, because
the code does not guarantee them then. `CreateReview` checks the relation before
the INSERT and outside a transaction, so a delete in between strands the review;
`Save` skips columns that equal the loaded value and does not notice that the
row is gone; a login that read the password before a change may insert its MFA
row after the change deleted the others; two submissions of one code may both
find its row before either deletes it. For each of the four a predicate of one
state names that overlap (`NoDeleteDuringInsert`, `UpdatesApart`,
`PasswordChangesApart`, `CodesApart`), and the runs `apart` and `logins_apart`
explore every behaviour that keeps to the two of their module: their
specifications, in `MCLibrary` and `MCSignIn`, are `Init` and `Next` with the
predicates as further conjuncts. The last two also need deletes that succeed,
because `mfaSubmit` and the hook ignore the error of a delete. Section 4 proves
each property from its own predicate, for any number of requests. What holds with these overlaps as well is in
`reviews` (`OrphanReviewsAreFrozen`), `books` and `reviews`
(`OnlyRequestedColumnsChange`) and `signin` (`RevokedStaysRevoked`).

`SecondFactorIsOwn` and `VerifiedByMail` need two accounts, so TLC checks them
without overlap, and the proofs cover any number of overlapping submissions.

A form sends back all its values. One that was open when its user published the
book in another tab says "draft" and makes the book a draft again; that is what
the code does, and `FormsGoStaleByOwner` says how far it goes.

The `SignIn` runs do not check for deadlock: the instance has finitely many
ids, and when every account is deleted nothing is left to submit.

Fairness: `FairSpec` assumes weak fairness of the handler's and the store's
steps of each request. The Go runtime schedules every goroutine, and nothing in
this code blocks one forever. There is no fairness on failures (the database
need not fail), on new requests, or on the users collection.

## 4. Proofs

All theorems hold for any sets of users, requests, ids and values, finite or
not, that satisfy the named assumptions of the modules: ids of the two tables
differ, `NoRow` is no row and no value, users are not superusers and their ids
are no ids of MFA or OTP rows, the empty values are not proper values, tabs are
clients; `MaxKey` and `MaxId` are natural numbers. `MemoryStore` alone needs
finitely many callers, because its bound on ids counts them; of the rows, which
are Go structs, it assumes that none is nil (`NilIsNoRow`), that they have the
fields which say whose they are (`RowsHaveColumns`), and that a row with another
title, status, content or rating is a row (`RowsTakeUpdates`).

| Module | Theorem | Statement |
|---|---|---|
| `LibraryProofs` | `TypeCorrect`, `NoSelfReviews`, `BookWriters` | `TypeOK`, `NoSelfReview`, `BooksWrittenByAuthor` |
| | `ListAndPolicyAgree`, `PageAndPolicyAgree` | `ListShowsExactlyGettable`, `ButtonsMatchPolicy` |
| | `Invariant` | `IInv` |
| `LibraryTableProofs` | `BooksRefineTable`, `ReviewsRefineTable` | `BooksAreATable`, `ReviewsAreATable` |
| `LibraryGrantProofs` | `GrantsHold` | `GrantsStand` |
| | `ReviewWritersAllowed`, `OrphansFrozen`, `GoneRowsStay` | `ReviewsWrittenByReviewerOrModerator`, `OrphanReviewsAreFrozen`, `RowsOfTheGoneStay` |
| | `ColumnsAsRequested` | `OnlyRequestedColumnsChange` |
| `LibrarySerialProofs` | `ReviewsHaveBooks`, `SerialReviewsHaveBooks` | `EveryReviewHasBook` given `NoDeleteDuringInsert`; for one client |
| | `UpdatesAreStored`, `SerialUpdatesAreStored` | `AckedUpdateIsStored` given `UpdatesApart`; for one client |
| `WebAppProofs` | `WebImplementsLibrary`, `PagesStayPermitted`, `StaleFormsAreTheOwners` | `ImplementsLibrary`, `OfferedStaysPermitted`, `FormsGoStaleByOwner` |
| `SignInProofs` | `TypeCorrect`, `SecondFactors`, `Invariant` | `TypeOK`, `SecondFactorIsOwn`, `IInv` |
| | `RevokedForGood`, `AccountsRefined`, `VerifiedOnlyByMail`, `ChangesKept` | `RevokedStaysRevoked`, `ImplementsAccounts`, `VerifiedByMail`, `NoLostProfileChange` |
| | `SessionsFollow`, `SerialSessionsFollow` | `SessionsFollowPassword` given `PasswordChangesApart` and deletes that succeed; for one client |
| | `OneSession`, `SerialOneSession` | `OneSessionPerCode` given `CodesApart` and deletes that succeed; for one client |
| `MemoryStoreProofs` | `Invariant`, `MemoryIsLinearizable` | `IInv`, `Linearizable` |
| | `BooksTableRefined`, `ReviewsTableRefined` | `BooksAreATable`, `ReviewsAreATable` |
| `MigrationsProofs` | `DownRestores`, `OptionsStayValid`, `NobodyPromoted` | `DownUndoesUp`, `SelectsFit`, `RanksKept` |

**Library.** `TypeOK` is not inductive: that an UPDATE leaves a proper row needs
that what waits to be written was validated. `TypeInv` adds `WellFormed` for
every request under way. `NoSelfReview` is not inductive either: `InsertReview`
needs that the review about to be inserted is on somebody else's book
(`NoSelfReviewComing`), and `InsertBook` could make an existing review a self
review unless the new book's id is in no review and no request
(`NewIdsAreFresh`, which rests on `KnownIsIssued`). `BookWritersAreAuthors` and
`CallersAreVerified` say that what the policy decided on has not become stale.
Together these are `IInv`. `QuietStep` and `KeptStep` carry it over the steps
that add no claim; the others have a lemma each.

**Tables.** Every step of `Library` has one of three shapes (`StepShape`): it
goes on with a request and leaves the tables alone, it draws an id for a new
row, or it writes one row. `BookWrite` and `ReviewWrite` say what a write can be.
Each shape is one step of `Table` or a stutter, given that ids are fresh
(`IdsInv`, which adds the ids of reviews to `IInv`).

**Grants.** `GrantInv` adds to `IdsInv` that ids of reviews under change are not
new (`WritersKnowTheirReview`) and `GrantsStand`. Its step has two halves: the
request that moves establishes its claim (`Granting`), and no step of another
request can disturb it (`Kept`), because columns that name records are fixed,
ids are not reused, and a book with a review or an account with a row is not
deleted. The other four theorems follow from `GrantsStand` and from which steps change
a live row (`LiveBookChanges`, `ReviewsChangeByWrites`).

**Pages.** Each form handler is a handler step of `Library`, a failing store call
or a stutter (`FormHandlerStep`); the refinement carries the theorems about
`Library` over to `WebApp`. `PagesStayPermitted` strengthens the property with
what a page knows of the book and the review behind each control, which the
tables never change. `StaleFormsAreTheOwners` needs that only an UPDATE changes a
live row (`BookChanged`) and that the tab which sent it has left its form once it
succeeds (`Respond`); that whoever else sent it is the form's own user follows
from `BookWritersAreAuthors` and from the invariant of pages, by which the book of
a form has the author it was shown to or is gone.

**What overlap breaks.** Four properties do not hold when requests overlap in
any way whatever. Each theorem `Spec /\ []H => []P` about one of them names in
`H`, a predicate of one state, the overlap to be excluded, and any number of
requests may be under way otherwise; its corollary for a single client has no
other hypothesis than that (and, for the last two, `~DeletesFail`), because each
`H` is about two requests.

| Hypothesis | The overlap that it excludes |
|---|---|
| `NoDeleteDuringInsert` | a `DeleteBook` about to remove the book of a review that is validated and not inserted yet |
| `UpdatesApart` | a request about to write or remove a book that another `UpdateBook` has loaded and not written yet |
| `PasswordChangesApart` | a password about to be saved while a login of the same user has found the old one right and has not loaded the account; an MFA row used between that save and the deletion of the rows |
| `CodesApart` | two requests that have both found the same code and have not both finished |

`ReviewsHaveBooks` and `UpdatesAreStored` share the invariant that a request
relies on what it has just seen or on what it relied on before (`Founded`): that
the book of a validated review is there, that the row in hand of an update is
the row of the table. `SessionsFollow` strengthens the
property to all who are on the way to a session (`PasswordInv`): who has not
loaded the account holds its current password, who has loaded it holds the
password that goes with the key loaded, and an MFA row has the current password
or is about to be dropped. `OneSession` rests on `CodesAreSpent`: a session was
opened by a code whose row is gone, and by none that is still to open one; that
is why it needs deletes that succeed.

**Sign-in.** `TypeOK` includes `Held`: what a handler has in hand at each of its
calls. `SecondFactorIsOwn` is not inductive: `DeleteOtp` needs that an accepted
code is the user's own (`AcceptedCodesAreOwn`), which `FindOtp` has from the row
because codes are mailed to the user of their row (`MailFollowsRow`); `SendOtp`
keeps this and the sessions because a code about to be mailed is nobody else's
and was not mailed before (`SendersOwnTheirCode`, from `CodesAreIssued`).
`RevokedStaysRevoked` rests on `KeysArePast`: what a token or a loaded record
holds is never newer than the key of the account. `AccountsRefined` maps each
step to `Register`, `Verify` or `Delete` of one account or to a stutter, from
`TypeOK` and `KeysArePast` (a registered id was not used before).
`VerifiedOnlyByMail` adds that a request about to verify an account holds a link
or an accepted code (`VerifiersHaveLink`). `ChangesKept` goes through the four
saves column by column.

**Memory store.** `IInv` says that a goroutine between its `Lock` and its `Unlock`
is the holder of the mutex. So at most one caller has half an update or a drawn
id in hand, the mapped variables `SpecTable` and `SpecUsed` depend on the
holder alone, and each statement is one step of `StoreSpec` or a stutter. The two
`Table`s are refined by the maps as they are, with half an update in them.
`RowInv` adds that rows have ids which were handed out, so that an insertion
never replaces a row, and that the row of an update is still there at its second
assignment, which `IInv` gives: nobody else is inside a method to delete it.

**Migrations.** `DownUndoesUp` compares the database with what the migrations up
to its version make of the initial one, and is not inductive: `Up` and `Down`
change the rows as well, and a migration may rely on what an earlier one left in
them. `Fits` says outright what the fields, the columns of every row, the
options and the settings are at each version. Every migration up or down takes a
database that fits to one that fits (one lemma each), the dashboard keeps it so,
and `RunInv` says the same of the database inside a transaction, which lies
between the version it started from and the one it goes to. A run between two
versions with roles thus never passes through one without, where roles would be
lost, and `SameRanks` is kept along the way.

Only model-checked: `EveryRequestAnswered`, because liveness is out of the
prover's reach, and the violation that `authors` shows.

## 5. Not modelled

* Static files, templates and page layout: rendering without state. What the
  pages say and offer is in `WebApp`.
* The protobuf messages, generated code, development tasks: no behaviour of
  their own.
* `authz.LoadPolicies`, the command line and logging: the policy file is parsed
  at start-up, and `Policy` is a translation of that file.
* PocketBase itself, beyond what the code in `src/` relies on.
* In `Migrations`: the rows of `reviews`, and of the snapshot the fields that no
  later migration touches.
* The composition of `SignIn` with `Library` in one state space: a request of
  `Library` keeps only the id and the verified flag of its token, so what it
  needs of sign-in is `Accounts`.
