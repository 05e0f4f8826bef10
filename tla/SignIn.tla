------------------------------- MODULE SignIn -------------------------------
(***************************************************************************)
(* internal/web/auth.go, internal/web/profile.go and UpdateMe of           *)
(* internal/library/users.go: registration, login with a password and a    *)
(* mailed code, verification, changes of name and password, and what a     *)
(* changed password does to the sessions of an account.                    *)
(*                                                                         *)
(* As in module PbStore, every call on the database or the mailer is one   *)
(* step and the steps of different requests interleave:                    *)
(*                                                                         *)
(*   registerSubmit:  insertAccount -> sendLink                            *)
(*   verifySubmit:    (token) -> saveVerified                              *)
(*   loginSubmit:     (password) -> validateMfa -> insertMfa               *)
(*                      -> validateOtp -> insertOtp -> sendOtp             *)
(*   mfaSubmit:       (MFA) -> findOtp -> findUser -> saveLogin            *)
(*                      -> deleteMfa -> deleteOtp                          *)
(*   updateName:      (session) -> findProfile -> saveName                 *)
(*   changePassword:  (session) -> findProfile -> savePassword -> dropMfas *)
(*   UpdateMe:        as one of these two                                  *)
(*                                                                         *)
(* A submission that is turned down at once (passwords that do not match,  *)
(* a wrong password, an unknown address) changes nothing and is left out,  *)
(* and so are logout (it only clears the browser's cookie), pages and      *)
(* GetMe, which only show a record, and the branch of loginSubmit for a    *)
(* collection without MFA: the migrations turn it on.  A user id stands    *)
(* for its mail address too: addresses do not change here.  Whoever enters *)
(* a code that is right has read the mail it was sent in.                  *)
(*                                                                         *)
(* PocketBase: Save writes the columns that differ from the row as it was  *)
(* loaded; saving a new password also makes a new token key, on which      *)
(* every token of the account depends, and deletes the account's MFA rows. *)
(*                                                                         *)
(* Bounds: MfaIds and OtpIds are the ids one instance can hand out, MaxKey *)
(* the number of password changes of an account.                           *)
(***************************************************************************)
EXTENDS Integers, FiniteSets, Policy

CONSTANTS
    Users,        \* ids of users records, each with an address of its own
    Names,        \* names that users give themselves
    Passwords,    \* passwords that users choose
    MfaIds,       \* ids of _mfas records
    OtpIds,       \* ids of _otps records
    Clients,      \* requests in flight at the same time
    MaxKey,       \* bound on the generations of a token key
    DeletesFail,  \* whether the database can fail to delete a row
    NoRow         \* an absent record, or no value

ASSUME MaxKeyIsNat == MaxKey \in Nat
ASSUME DeletesFailIsBoolean == DeletesFail \in BOOLEAN
ASSUME NoRowIsNoValue == NoRow \notin Users \cup Names \cup Passwords \cup OtpIds
ASSUME UsersAreNoRows == Users \cap (MfaIds \cup OtpIds) = {}

VARIABLES
    account,   \* account[u]: the users record u, or NoRow
    mfas,      \* mfas[m]: the _mfas record m, or NoRow
    otps,      \* otps[o]: the _otps record o, or NoRow
    issued,    \* ids of users, MFA and OTP records that have been used
    mailed,    \* mailed[o]: whose address the code of o was sent to
    links,     \* the verification tokens that have been sent
    sessions,  \* the auth tokens that have been handed out
    req        \* req[c]: the request of c under way

vars == <<account, mfas, otps, issued, mailed, links, sessions, req>>

Keys == 0..MaxKey

Account == [name : Names, password : Passwords, verified : BOOLEAN, key : Keys]

ASSUME NoRowIsNoAccount == NoRow \notin Account

\* Not stored, but needed to say what a session is worth: the password that
\* was checked on the way to an Mfa and to a Session, and the code (by) that
\* opened a Session.
Mfa     == [user : Users, password : Passwords, expired : BOOLEAN]
Otp     == [user : Users, sentTo : Users \cup {NoRow}, expired : BOOLEAN]
Link    == [user : Users, key : Keys]
Session == [user : Users, key : Keys, password : Passwords, by : OtpIds \cup {NoRow}]

Pcs == {"idle", "insertAccount", "sendLink", "saveVerified",
        "validateMfa", "insertMfa", "validateOtp", "insertOtp", "sendOtp",
        "findOtp", "findUser", "saveLogin", "deleteMfa", "deleteOtp",
        "findProfile", "saveName", "savePassword", "dropMfas"}

\* The handler has a users record in memory / has been given a right code.
RowLoaded    == {"sendLink", "saveVerified", "saveLogin", "deleteMfa", "deleteOtp",
                 "saveName", "savePassword"}
CodeAccepted == {"findUser", "saveLogin", "deleteMfa", "deleteOtp"}

Request == [pc : Pcs,
            user : Users \cup {NoRow},
            name : Names \cup {NoRow},
            password : Passwords \cup {NoRow},
            mfa : MfaIds \cup {NoRow},
            otp : OtpIds \cup {NoRow},
            sentTo : Users \cup {NoRow},
            row : Account \cup {NoRow}]

Idle == [pc |-> "idle", user |-> NoRow, name |-> NoRow, password |-> NoRow,
         mfa |-> NoRow, otp |-> NoRow, sentTo |-> NoRow, row |-> NoRow]

Init ==
    /\ account = [u \in Users |-> NoRow]
    /\ mfas = [m \in MfaIds |-> NoRow]
    /\ otps = [o \in OtpIds |-> NoRow]
    /\ issued = {}
    /\ mailed = [o \in OtpIds |-> NoRow]
    /\ links = {}
    /\ sessions = {}
    /\ req = [c \in Clients |-> Idle]

At(c, pc) == req[c].pc = pc

Begin(c, r)  == At(c, "idle") /\ req' = [req EXCEPT ![c] = r]
GoOn(c, pc)  == req' = [req EXCEPT ![c].pc = pc]
Return(c)    == req' = [req EXCEPT ![c] = Idle]

\* FindAuthRecordByToken: the signature of a token depends on the token key.
Accepted(token) ==
    account[token.user] # NoRow /\ account[token.user].key = token.key

\* issueToken: NewAuthToken signs with the key of the record in memory.
IssueToken(c) ==
    sessions' = sessions \cup {[user |-> req[c].user, key |-> req[c].row.key,
                                password |-> req[c].password, by |-> req[c].otp]}

\* The error that a call returns ends the handler, and nothing has changed.
Fails(c, pcs) ==
    /\ req[c].pc \in pcs
    /\ Return(c)
    /\ UNCHANGED <<account, mfas, otps, issued, mailed, links, sessions>>

-----------------------------------------------------------------------------
(***************************************************************************)
(* Registration and verification.                                          *)
(***************************************************************************)
Register(c) ==
    /\ \E u \in Users \ issued, n \in Names, p \in Passwords :
         Begin(c, [Idle EXCEPT !.pc = "insertAccount", !.user = u, !.name = n, !.password = p])
    /\ UNCHANGED <<account, mfas, otps, issued, mailed, links, sessions>>

InsertAccount_Bug(c) ==
    LET u   == req[c].user
        row == [name |-> req[c].name, password |-> req[c].password,
                verified |-> TRUE, key |-> 0]
    IN  /\ At(c, "insertAccount")
        /\ u \notin issued
        /\ account' = [account EXCEPT ![u] = row]
        /\ issued' = issued \cup {u}
        /\ req' = [req EXCEPT ![c].pc = "sendLink", ![c].row = row]
        /\ UNCHANGED <<mfas, otps, mailed, links, sessions>>

\* The index on the address lets only one of two registrations in.
InsertAccount(c) ==
    LET u   == req[c].user
        row == [name |-> req[c].name, password |-> req[c].password,
                verified |-> FALSE, key |-> 0]
    IN  /\ At(c, "insertAccount")
        /\ u \notin issued
        /\ account' = [account EXCEPT ![u] = row]
        /\ issued' = issued \cup {u}
        /\ req' = [req EXCEPT ![c].pc = "sendLink", ![c].row = row]
        /\ UNCHANGED <<mfas, otps, mailed, links, sessions>>

\* The mail may fail: the user is logged in all the same.
SendLink(c) ==
    /\ At(c, "sendLink")
    /\ \/ links' = links \cup {[user |-> req[c].user, key |-> req[c].row.key]}
       \/ UNCHANGED links
    /\ IssueToken(c)
    /\ Return(c)
    /\ UNCHANGED <<account, mfas, otps, issued, mailed>>

VerifySubmit(c) ==
    /\ \E l \in links :
         /\ Accepted(l)
         /\ Begin(c, [Idle EXCEPT !.pc = "saveVerified", !.user = l.user,
                                  !.row = account[l.user]])
    /\ UNCHANGED <<account, mfas, otps, issued, mailed, links, sessions>>

\* Save of a record whose verified flag alone was set.
SetVerified_Bug(c) ==
    account' = [account EXCEPT ![req[c].user] =
                  IF @ = NoRow THEN NoRow ELSE [req[c].row EXCEPT !.verified = TRUE]]

Resurrect_Bug(c) == account' = [account EXCEPT ![req[c].user] = [req[c].row EXCEPT !.verified = TRUE]]

SetVerified(c) ==
    account' = [account EXCEPT ![req[c].user] =
                  IF @ = NoRow THEN NoRow ELSE [@ EXCEPT !.verified = TRUE]]

SaveVerified(c) ==
    /\ At(c, "saveVerified")
    /\ SetVerified(c)
    /\ Return(c)
    /\ UNCHANGED <<mfas, otps, issued, mailed, links, sessions>>

-----------------------------------------------------------------------------
(***************************************************************************)
(* loginSubmit and createAndSendOTP.                                       *)
(***************************************************************************)
Login(c) ==
    /\ \E u \in Users :
         /\ account[u] # NoRow
         /\ Begin(c, [Idle EXCEPT !.pc = "validateMfa", !.user = u,
                                  !.password = account[u].password])
    /\ UNCHANGED <<account, mfas, otps, issued, mailed, links, sessions>>

\* Save of a new row: PocketBase looks up the record that the row refers to,
\* and inserts the row in another call.
ValidateRef(c, pc, next) ==
    /\ At(c, pc)
    /\ account[req[c].user] # NoRow
    /\ GoOn(c, next)
    /\ UNCHANGED <<account, mfas, otps, issued, mailed, links, sessions>>

ValidateMfa(c) == ValidateRef(c, "validateMfa", "insertMfa")
ValidateOtp(c) == ValidateRef(c, "validateOtp", "insertOtp")

InsertMfa(c) ==
    /\ At(c, "insertMfa")
    /\ \E m \in MfaIds \ issued :
         /\ mfas' = [mfas EXCEPT ![m] = [user |-> req[c].user,
                                          password |-> req[c].password, expired |-> FALSE]]
         /\ issued' = issued \cup {m}
    /\ GoOn(c, "validateOtp")
    /\ UNCHANGED <<account, otps, mailed, links, sessions>>

InsertOtp_Bug(c) ==
    /\ At(c, "insertOtp")
    /\ \E o \in OtpIds \ issued :
         /\ otps' = [otps EXCEPT ![o] = [user |-> req[c].user, sentTo |-> NoRow,
                                          expired |-> FALSE]]
         /\ req' = [req EXCEPT ![c].pc = "sendOtp", ![c].otp = o]
    /\ UNCHANGED <<account, mfas, issued, mailed, links, sessions>>

InsertOtp(c) ==
    /\ At(c, "insertOtp")
    /\ \E o \in OtpIds \ issued :
         /\ otps' = [otps EXCEPT ![o] = [user |-> req[c].user, sentTo |-> NoRow,
                                          expired |-> FALSE]]
         /\ issued' = issued \cup {o}
         /\ req' = [req EXCEPT ![c].pc = "sendOtp", ![c].otp = o]
    /\ UNCHANGED <<account, mfas, mailed, links, sessions>>

\* SendRecordOTP notes in the row where the mail went.  When that fails, or
\* the row is gone, the mail is out nevertheless.
SendOtp(c) ==
    LET o == req[c].otp
    IN  /\ At(c, "sendOtp")
        /\ mailed' = [mailed EXCEPT ![o] = req[c].user]
        /\ \/ otps[o] # NoRow /\ otps' = [otps EXCEPT ![o].sentTo = req[c].user]
           \/ UNCHANGED otps
        /\ Return(c)
        /\ UNCHANGED <<account, mfas, issued, links, sessions>>

-----------------------------------------------------------------------------
(***************************************************************************)
(* mfaSubmit.                                                              *)
(***************************************************************************)
\* Delete of a row.  Where it is used an error is ignored.
Remove(table, id) == [table EXCEPT ![id] = NoRow]
MayFail(deletion, old) == {deletion} \cup IF DeletesFail THEN {old} ELSE {}

\* The browser sends the two ids of the form.  An unknown MFA id, or a row
\* that has expired, ends the attempt; finding and deleting an expired row is
\* one step here, because no request does anything else with such a row.
FindMfa(c) ==
    \E m \in MfaIds, o \in OtpIds :
      /\ mfas[m] # NoRow
      /\ IF mfas[m].expired
         THEN /\ At(c, "idle")
              /\ mfas' \in MayFail(Remove(mfas, m), mfas)
              /\ UNCHANGED req
         ELSE /\ Begin(c, [Idle EXCEPT !.pc = "findOtp", !.mfa = m, !.otp = o,
                                       !.user = mfas[m].user, !.password = mfas[m].password])
              /\ UNCHANGED mfas
      /\ UNCHANGED <<account, otps, issued, mailed, links, sessions>>

\* The id is unknown or the code is wrong: the attempt may be made again.
RefuseOtp(c) ==
    /\ At(c, "findOtp")
    /\ Return(c)
    /\ UNCHANGED <<account, mfas, otps, issued, mailed, links, sessions>>

DropExpiredOtp(c) ==
    LET o == req[c].otp
    IN  /\ At(c, "findOtp")
        /\ otps[o] # NoRow /\ otps[o].expired
        /\ otps' \in MayFail(Remove(otps, o), otps)
        /\ Return(c)
        /\ UNCHANGED <<account, mfas, issued, mailed, links, sessions>>

\* mfaProxy.RecordRef() == otpProxy.RecordRef()
FindOtp_Bug(c) ==
    LET o == req[c].otp
    IN  /\ At(c, "findOtp")
        /\ otps[o] # NoRow /\ ~otps[o].expired
        /\ mailed[o] # NoRow
        /\ req' = [req EXCEPT ![c].pc = "findUser", ![c].sentTo = otps[o].sentTo]
        /\ UNCHANGED <<account, mfas, otps, issued, mailed, links, sessions>>

\* A right code for the user of the MFA row.  Only the mail holds the code.
FindOtp(c) ==
    LET o == req[c].otp
    IN  /\ At(c, "findOtp")
        /\ otps[o] # NoRow /\ ~otps[o].expired
        /\ otps[o].user = req[c].user
        /\ mailed[o] # NoRow
        /\ req' = [req EXCEPT ![c].pc = "findUser", ![c].sentTo = otps[o].sentTo]
        /\ UNCHANGED <<account, mfas, otps, issued, mailed, links, sessions>>

FindUser_Bug(c) ==
    LET u == req[c].user
    IN  /\ At(c, "findUser")
        /\ req' = [req EXCEPT ![c].row = account[u],
                              ![c].pc = IF req[c].sentTo = u THEN "saveLogin" ELSE "deleteMfa"]
        /\ UNCHANGED <<account, mfas, otps, issued, mailed, links, sessions>>

\* A code that came by mail verifies the address.
FindUser(c) ==
    LET u == req[c].user
    IN  /\ At(c, "findUser")
        /\ account[u] # NoRow
        /\ req' = [req EXCEPT ![c].row = account[u],
                              ![c].pc = IF req[c].sentTo = u THEN "saveLogin" ELSE "deleteMfa"]
        /\ UNCHANGED <<account, mfas, otps, issued, mailed, links, sessions>>

\* The error of this Save is ignored.
SaveLogin(c) ==
    /\ At(c, "saveLogin")
    /\ SetVerified(c) \/ UNCHANGED account
    /\ GoOn(c, "deleteMfa")
    /\ UNCHANGED <<mfas, otps, issued, mailed, links, sessions>>

DeleteMfa(c) ==
    /\ At(c, "deleteMfa")
    /\ mfas' \in MayFail(Remove(mfas, req[c].mfa), mfas)
    /\ GoOn(c, "deleteOtp")
    /\ UNCHANGED <<account, otps, issued, mailed, links, sessions>>

DeleteOtp_Bug(c) ==
    /\ At(c, "deleteOtp")
    /\ IssueToken(c)
    /\ Return(c)
    /\ UNCHANGED <<account, mfas, otps, issued, mailed, links>>

\* ... and issueToken, with the record as FindUser loaded it.
DeleteOtp(c) ==
    /\ At(c, "deleteOtp")
    /\ otps' \in MayFail(Remove(otps, req[c].otp), otps)
    /\ IssueToken(c)
    /\ Return(c)
    /\ UNCHANGED <<account, mfas, issued, mailed, links>>

-----------------------------------------------------------------------------
(***************************************************************************)
(* updateName, changePassword and UpdateMe.                                *)
(***************************************************************************)
\* A session opens its own account to set a name and a password; NoRow stands
\* for a form without the field and for a nil pointer.
OpenProfile(c, names, passwords) ==
    /\ \E s \in sessions, name \in names, new \in passwords :
         /\ Accepted(s)
         /\ Authorize(s.user, account[s.user].verified, "UpdateMe", UserSelfEntity(s.user))
         /\ Begin(c, [Idle EXCEPT !.pc = "findProfile", !.user = s.user,
                                  !.name = name, !.password = new])
    /\ UNCHANGED <<account, mfas, otps, issued, mailed, links, sessions>>

UpdateName(c)     == OpenProfile(c, Names, {NoRow})
ChangePassword(c) == OpenProfile(c, {NoRow}, Passwords)
UpdateMe(c)       == OpenProfile(c, Names \cup {NoRow}, Passwords \cup {NoRow})

\* A caller who knows the current password may set a new one; any other who
\* tries is refused.
FindProfile(c) ==
    /\ At(c, "findProfile")
    /\ account[req[c].user] # NoRow
    /\ req' = [req EXCEPT ![c].row = account[req[c].user],
                          ![c].pc = IF req[c].password = NoRow THEN "saveName"
                                                               ELSE "savePassword"]
    /\ UNCHANGED <<account, mfas, otps, issued, mailed, links, sessions>>

\* The name column after Save: a name equal to the one loaded is not written.
NameColumn(c) ==
    IF req[c].name \in {NoRow, req[c].row.name} THEN account[req[c].user].name
                                                ELSE req[c].name

SaveName(c) ==
    /\ At(c, "saveName")
    /\ account' = [account EXCEPT ![req[c].user] =
           IF @ = NoRow THEN NoRow ELSE [@ EXCEPT !.name = NameColumn(c)]]
    /\ Return(c)
    /\ UNCHANGED <<mfas, otps, issued, mailed, links, sessions>>

SavePassword_Bug(c) ==
    LET u == req[c].user
    IN  /\ At(c, "savePassword")
        /\ account[u] # NoRow => account[u].key < MaxKey
        /\ account' = [account EXCEPT ![u] =
               IF @ = NoRow THEN NoRow
               ELSE [req[c].row EXCEPT !.password = req[c].password, !.key = account[u].key + 1]]
        /\ GoOn(c, "dropMfas")
        /\ UNCHANGED <<mfas, otps, issued, mailed, links, sessions>>

\* Save: the password and with it a token key that was never used before.
SavePassword(c) ==
    LET u == req[c].user
    IN  /\ At(c, "savePassword")
        /\ account[u] # NoRow => account[u].key < MaxKey
        /\ account' = [account EXCEPT ![u] =
               IF @ = NoRow THEN NoRow
               ELSE [@ EXCEPT !.name = NameColumn(c), !.password = req[c].password,
                              !.key = account[u].key + 1]]
        /\ GoOn(c, "dropMfas")
        /\ UNCHANGED <<mfas, otps, issued, mailed, links, sessions>>

DropMfas_Bug(c) ==
    /\ At(c, "dropMfas")
    /\ Return(c)
    /\ UNCHANGED <<account, mfas, otps, issued, mailed, links, sessions>>

\* The hook that ends logins begun with the old password.  An error while it
\* deletes the rows one by one is only logged.
DropMfas(c) ==
    LET own == {m \in MfaIds : mfas[m] # NoRow /\ mfas[m].user = req[c].user}
    IN  /\ At(c, "dropMfas")
        /\ \E gone \in SUBSET own :
             /\ DeletesFail \/ gone = own
             /\ mfas' = [m \in MfaIds |-> IF m \in gone THEN NoRow ELSE mfas[m]]
        /\ Return(c)
        /\ UNCHANGED <<account, otps, issued, mailed, links, sessions>>

-----------------------------------------------------------------------------
(***************************************************************************)
(* What PocketBase does without this code.                                 *)
(***************************************************************************)
\* Its API lets a user delete their account, with the rows that refer to it
\* (module PbStore says which accounts; here it may be any).
DeleteAccount(u) ==
    /\ account[u] # NoRow
    /\ account' = [account EXCEPT ![u] = NoRow]
    /\ mfas' = [m \in MfaIds |->
                  IF mfas[m] # NoRow /\ mfas[m].user = u THEN NoRow ELSE mfas[m]]
    /\ otps' = [o \in OtpIds |->
                  IF otps[o] # NoRow /\ otps[o].user = u THEN NoRow ELSE otps[o]]
    /\ UNCHANGED <<issued, mailed, links, sessions, req>>

\* Time passes: a row reaches its age limit (600 s for an MFA, 180 s for an OTP).
Expire ==
    /\ \/ /\ \E m \in MfaIds : mfas[m] # NoRow /\ mfas' = [mfas EXCEPT ![m].expired = TRUE]
          /\ UNCHANGED otps
       \/ /\ \E o \in OtpIds : otps[o] # NoRow /\ otps' = [otps EXCEPT ![o].expired = TRUE]
          /\ UNCHANGED mfas
    /\ UNCHANGED <<account, issued, mailed, links, sessions, req>>

\* Any other call that fails ends its handler with an error page.  Sending the
\* verification mail, saving the verified flag of a login and deleting do not.
CallFails(c) ==
    Fails(c, {"insertAccount", "saveVerified", "validateMfa", "insertMfa", "validateOtp", "insertOtp",
              "sendOtp", "findUser", "findProfile", "saveName", "savePassword"})

Step(c) ==
    \/ InsertAccount(c) \/ SendLink(c) \/ SaveVerified(c)
    \/ ValidateMfa(c) \/ InsertMfa(c) \/ ValidateOtp(c) \/ InsertOtp(c) \/ SendOtp(c)
    \/ RefuseOtp(c) \/ DropExpiredOtp(c) \/ FindOtp(c) \/ FindUser(c)
    \/ SaveLogin(c) \/ DeleteMfa(c) \/ DeleteOtp(c)
    \/ FindProfile(c) \/ SaveName(c) \/ SavePassword(c) \/ DropMfas(c)
    \/ CallFails(c)

Submit(c) ==
    \/ Register(c) \/ VerifySubmit(c) \/ Login(c) \/ FindMfa(c)
    \/ UpdateName(c) \/ ChangePassword(c) \/ UpdateMe(c)

Next ==
    \/ \E c \in Clients : Submit(c) \/ Step(c)
    \/ \E u \in Users : DeleteAccount(u)
    \/ Expire

Spec == Init /\ [][Next]_vars

-----------------------------------------------------------------------------
(***************************************************************************)
(* Properties.                                                             *)
(***************************************************************************)
\* What the goroutine of a request has in hand for the calls it still makes.
Held(r) ==
    /\ r.pc # "idle" => r.user \in Users
    /\ r.pc \notin {"idle", "saveVerified", "findProfile", "saveName"} => r.password \in Passwords
    /\ r.pc \in {"findOtp", "findUser", "saveLogin", "deleteMfa"} => r.mfa \in MfaIds
    /\ r.pc \in {"sendOtp", "findOtp"} \cup CodeAccepted => r.otp \in OtpIds
    /\ r.pc \in {"insertAccount", "sendLink"} => r.otp = NoRow
    /\ r.pc = "insertAccount" => r.name \in Names
    /\ r.pc \in RowLoaded => r.row \in Account

\* Every record has the shape of its collection, and a request that is about to
\* save a record or to open a session holds the record it loaded.
TypeOK ==
    /\ account \in [Users -> Account \cup {NoRow}]
    /\ mfas \in [MfaIds -> Mfa \cup {NoRow}]
    /\ otps \in [OtpIds -> Otp \cup {NoRow}]
    /\ issued \subseteq Users \cup MfaIds \cup OtpIds
    /\ mailed \in [OtpIds -> Users \cup {NoRow}]
    /\ links \subseteq Link
    /\ sessions \subseteq Session
    /\ req \in [Clients -> Request]
    /\ \A c \in Clients : Held(req[c])

\* A session that a code opened belongs to the user that code was mailed to:
\* mfaSubmit lets nobody complete their own password step with the code of
\* another user, however the forms of two logins are mixed up.
SecondFactorIsOwn ==
    \A s \in sessions : s.by # NoRow => mailed[s.by] = s.user

\* An account is marked verified only after a link or a code was mailed to
\* it: registering alone does not verify, and a login with a code verifies
\* no account but the one that the mail went to.
VerifiedByMail ==
    \A u \in Users :
      (account[u] # NoRow /\ account[u].verified) =>
        \/ \E l \in links : l.user = u
        \/ \E o \in OtpIds : mailed[o] = u

\* What a password change has revoked, a session or a verification link, is
\* never accepted again, although logins and verifications save a record that
\* they loaded before the change.
RevokedStaysRevoked ==
    [][\A token \in sessions \cup links : ~Accepted(token) => ~Accepted(token)']_vars

\* No save undoes what another request has saved meanwhile: an account stays
\* verified, and its name and password change only to those that a request
\* which saves its profile just then has asked for.
NoLostProfileChange ==
    [][\A u \in Users :
         account[u] # NoRow /\ account'[u] # NoRow =>
           /\ account[u].verified => account'[u].verified
           /\ \A f \in {"name", "password"} :
                \/ account'[u][f] = account[u][f]
                \/ \E c \in Clients : /\ req[c].pc \in {"saveName", "savePassword"}
                                      /\ req[c].user = u
                                      /\ account'[u][f] = req[c][f]]_vars

Present  == {u \in Users : account[u] # NoRow}
Verified == {u \in Present : account[u].verified}
UsedIds  == issued \cap Users

AccountsLife ==
    INSTANCE Accounts WITH present <- Present, verified <- Verified, used <- UsedIds

\* Sign-in implements the abstract life of an account: it is registered once,
\* unverified, stays verified once it is, and when it is deleted no save of a
\* record that was loaded before brings it back.  This is what module Library
\* builds on: its VerifyAccount and DeleteAccount are Verify and Delete there.
ImplementsAccounts == AccountsLife!Spec

\* No password of an account is saved while another request has checked the
\* old one and has not loaded the record that its session is signed with.
\* Between the save and the deletion of the MFA rows, nobody uses such a row.
PasswordChangesApart ==
    \A c, d \in Clients : req[c].user = req[d].user =>
        /\ At(d, "savePassword") =>
             req[c].pc \notin {"validateMfa", "insertMfa", "findOtp", "findUser"}
        /\ At(d, "dropMfas") => req[c].pc \notin {"findOtp", "findUser"}

\* Whoever is logged in got there with the password that the account has now,
\* as long as PasswordChangesApart and no delete fails.  A login begun with the
\* old password and waiting for its code ends with the password change, and a
\* token signed with the record loaded before the change is worth nothing.
SessionsFollowPassword ==
    \A s \in sessions : Accepted(s) => s.password = account[s.user].password

\* No two requests have the same code accepted and its session still to open.
CodesApart ==
    \A c, d \in Clients :
      c # d /\ req[c].pc \in CodeAccepted /\ req[d].pc \in CodeAccepted => req[c].otp # req[d].otp

\* A code opens one session, as long as CodesApart and no delete fails: it may
\* be sent in again at any time, with the MFA row that another request has
\* found already or with one of another login.
OneSessionPerCode ==
    [][\A c \in Clients :
         (At(c, "deleteOtp") /\ req'[c] = Idle) => \A s \in sessions : s.by # req[c].otp]_vars

-----------------------------------------------------------------------------
(***************************************************************************)
(* The inductive invariant behind SecondFactorIsOwn and                    *)
(* RevokedStaysRevoked.                                                    *)
(***************************************************************************)
\* The id of a code is never handed out again.
CodesAreIssued ==
    \A o \in OtpIds : otps[o] # NoRow \/ mailed[o] # NoRow => o \in issued

\* A code is mailed to the user its row refers to.
MailFollowsRow ==
    \A o \in OtpIds : otps[o] # NoRow /\ mailed[o] # NoRow => mailed[o] = otps[o].user

\* A code about to be mailed has not been mailed, and nobody else mails it.
SendersOwnTheirCode ==
    /\ \A c \in Clients :
         At(c, "sendOtp") =>
           /\ req[c].otp \in issued
           /\ mailed[req[c].otp] = NoRow
           /\ otps[req[c].otp] # NoRow => otps[req[c].otp].user = req[c].user
    /\ \A c, d \in Clients :
         At(c, "sendOtp") /\ At(d, "sendOtp") /\ c # d => req[c].otp # req[d].otp

\* Whoever entered a right code has the code of the user they log in as.
AcceptedCodesAreOwn ==
    \A c \in Clients : req[c].pc \in CodeAccepted => mailed[req[c].otp] = req[c].user

\* A key that somebody holds, in a token or in a loaded record, is not newer
\* than the key of the account, and its account is not one still to come.
KeyIsPast(u, key) ==
    u \in issued /\ (account[u] # NoRow => key <= account[u].key)

KeysArePast ==
    /\ \A u \in Users : account[u] # NoRow => u \in issued
    /\ \A token \in sessions \cup links : KeyIsPast(token.user, token.key)
    /\ \A c \in Clients :
         req[c].pc \in RowLoaded => KeyIsPast(req[c].user, req[c].row.key)

CodeInv == CodesAreIssued /\ MailFollowsRow /\ SendersOwnTheirCode /\ AcceptedCodesAreOwn

\* What SignInProofs carries from step to step: the code and key arguments
\* above, with the types they are about.
IInv == TypeOK /\ CodeInv /\ SecondFactorIsOwn /\ KeysArePast

=============================================================================
