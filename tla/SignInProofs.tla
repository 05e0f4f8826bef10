---------------------------- MODULE SignInProofs ----------------------------
(***************************************************************************)
(* Theorems about SignIn, for every value of its constants.                *)
(*                                                                         *)
(* Each of the three parts of IInv (types, codes, keys) is carried over a  *)
(* step by a lemma of its own; the parts about codes and keys use the      *)
(* types of the state before.                                              *)
(***************************************************************************)
EXTENDS SignIn, TLAPS

USE NoRowIsNoValue, MaxKeyIsNat, DeletesFailIsBoolean

-----------------------------------------------------------------------------
(***************************************************************************)
(* Types.                                                                  *)
(***************************************************************************)
\* A request that is replaced by a proper one leaves all requests proper.
LEMMA RequestStep ==
    ASSUME TypeOK, NEW c \in Clients, NEW r \in Request, Held(r),
           req' = [req EXCEPT ![c] = r]
    PROVE  /\ req' \in [Clients -> Request]
           /\ \A d \in Clients : Held(req'[d])
<1>1. req \in [Clients -> Request] /\ \A d \in Clients : Held(req[d])
  BY DEF TypeOK
<1>2. req' \in [Clients -> Request]
  BY <1>1
<1>3. ASSUME NEW d \in Clients PROVE Held(req'[d])
  <2>1. CASE d = c
    BY <2>1, <1>1
  <2>2. CASE d # c
    <3>1. req'[d] = req[d]
      BY <2>2, <1>1
    <3>2. QED BY <3>1, <1>1
  <2>3. QED BY <2>1, <2>2
<1>4. QED BY <1>2, <1>3

LEMMA IdleRequest == Idle \in Request /\ Held(Idle)
  BY DEF Idle, Request, Pcs, Held, RowLoaded, CodeAccepted

\* A handler that returns leaves all requests proper.
LEMMA ReturnStep ==
    ASSUME TypeOK, NEW c \in Clients, Return(c)
    PROVE  req' \in [Clients -> Request] /\ \A d \in Clients : Held(req'[d])
BY IdleRequest, RequestStep DEF Return

LEMMA InitType == Init => TypeOK
<1>1. SUFFICES ASSUME Init PROVE TypeOK
  OBVIOUS
<1>2. req \in [Clients -> Request] /\ \A d \in Clients : Held(req[d])
  BY <1>1, IdleRequest DEF Init
<1>3. QED BY <1>1, <1>2 DEF Init, TypeOK

\* An account whose flag is set, or whose password is replaced, is an account.
LEMMA SetVerifiedType ==
    ASSUME TypeOK, NEW c \in Clients, req[c].user \in Users, SetVerified(c)
    PROVE  account' \in [Users -> Account \cup {NoRow}]
<1>1. account \in [Users -> Account \cup {NoRow}]
  BY DEF TypeOK
<1>2. \A a \in Account : [a EXCEPT !.verified = TRUE] \in Account
  BY DEF Account
<1>3. QED BY <1>1, <1>2 DEF SetVerified

\* A session is signed for the account that the request has loaded.
LEMMA IssueTokenType ==
    ASSUME TypeOK, NEW c \in Clients, At(c, "sendLink") \/ At(c, "deleteOtp"), IssueToken(c)
    PROVE  sessions' \subseteq Session
<1>1. /\ sessions \subseteq Session
      /\ req[c] \in Request
      /\ Held(req[c])
  BY DEF TypeOK
<1>2. req[c].row \in Account /\ req[c].user \in Users /\ req[c].password \in Passwords
  BY <1>1 DEF Held, RowLoaded, At
<1>3. req[c].row.key \in Keys /\ req[c].otp \in OtpIds \cup {NoRow}
  BY <1>1, <1>2 DEF Account, Request
<1>4. QED BY <1>1, <1>2, <1>3 DEF IssueToken, Session

\* What a save leaves in the name column is a name.
LEMMA NameColumnType ==
    ASSUME TypeOK, NEW c \in Clients, account[req[c].user] \in Account
    PROVE  NameColumn(c) \in Names
<1>1. req[c].name \in Names \cup {NoRow}
  BY DEF TypeOK, Request
<1>2. QED BY <1>1 DEF NameColumn, Account

\* The three ways to edit a profile begin alike.
LEMMA ProfileOpened ==
    ASSUME NEW c \in Clients, UpdateName(c) \/ ChangePassword(c) \/ UpdateMe(c)
    PROVE  /\ \E s \in sessions, name \in Names \cup {NoRow}, new \in Passwords \cup {NoRow} :
                req' = [req EXCEPT ![c] = [Idle EXCEPT !.pc = "findProfile", !.user = s.user,
                                                       !.name = name, !.password = new]]
           /\ UNCHANGED <<account, mfas, otps, issued, mailed, links, sessions>>
<1>1. CASE UpdateName(c)
  BY <1>1 DEF UpdateName, OpenProfile, Begin
<1>2. CASE ChangePassword(c)
  BY <1>2 DEF ChangePassword, OpenProfile, Begin
<1>3. CASE UpdateMe(c)
  BY <1>3 DEF UpdateMe, OpenProfile, Begin
<1>4. QED BY <1>1, <1>2, <1>3

\* The types survive every step.
LEMMA TypeStep == TypeOK /\ [Next]_vars => TypeOK'
<1> SUFFICES ASSUME TypeOK, [Next]_vars PROVE TypeOK'
  OBVIOUS
<1> DEFINE ReqOK == req' \in [Clients -> Request] /\ \A d \in Clients : Held(req'[d])
<1>t. /\ account \in [Users -> Account \cup {NoRow}]
      /\ mfas \in [MfaIds -> Mfa \cup {NoRow}]
      /\ otps \in [OtpIds -> Otp \cup {NoRow}]
      /\ issued \subseteq Users \cup MfaIds \cup OtpIds
      /\ mailed \in [OtpIds -> Users \cup {NoRow}]
      /\ links \subseteq Link
      /\ sessions \subseteq Session
      /\ req \in [Clients -> Request]
      /\ \A d \in Clients : Held(req[d])
  BY DEF TypeOK
<1>1. ASSUME NEW c \in Clients, Register(c) PROVE TypeOK'
  <2>1. PICK u \in Users, n \in Names, p \in Passwords :
          req' = [req EXCEPT ![c] = [Idle EXCEPT !.pc = "insertAccount", !.user = u, !.name = n,
                                                 !.password = p]]
    BY <1>1 DEF Register, Begin
  <2>2. ReqOK
    BY <2>1, RequestStep DEF Idle, Request, Pcs, Held, RowLoaded, CodeAccepted
  <2>3. QED BY <1>1, <1>t, <2>2 DEF Register, TypeOK
<1>2. ASSUME NEW c \in Clients, VerifySubmit(c) PROVE TypeOK'
  <2>1. PICK l \in links : /\ Accepted(l)
                           /\ req' = [req EXCEPT ![c] = [Idle EXCEPT !.pc = "saveVerified",
                                        !.user = l.user, !.row = account[l.user]]]
    BY <1>2 DEF VerifySubmit, Begin
  <2>2. l.user \in Users /\ account[l.user] \in Account
    BY <2>1, <1>t DEF Link, Accepted
  <2>3. ReqOK
    BY <2>1, <2>2, RequestStep DEF Idle, Request, Pcs, Held, RowLoaded, CodeAccepted
  <2>4. QED BY <1>2, <1>t, <2>3 DEF VerifySubmit, TypeOK
<1>3. ASSUME NEW c \in Clients, Login(c) PROVE TypeOK'
  <2>1. PICK u \in Users : /\ account[u] # NoRow
                           /\ req' = [req EXCEPT ![c] = [Idle EXCEPT !.pc = "validateMfa",
                                        !.user = u, !.password = account[u].password]]
    BY <1>3 DEF Login, Begin
  <2>2. account[u].password \in Passwords
    BY <2>1, <1>t DEF Account
  <2>3. ReqOK
    BY <2>1, <2>2, RequestStep DEF Idle, Request, Pcs, Held, RowLoaded, CodeAccepted
  <2>4. QED BY <1>3, <1>t, <2>3 DEF Login, TypeOK
<1>4. ASSUME NEW c \in Clients, FindMfa(c) PROVE TypeOK'
  <2>1. PICK m \in MfaIds, o \in OtpIds :
          /\ mfas[m] # NoRow
          /\ IF mfas[m].expired
             THEN mfas' \in MayFail(Remove(mfas, m), mfas) /\ UNCHANGED req
             ELSE /\ req' = [req EXCEPT ![c] = [Idle EXCEPT !.pc = "findOtp", !.mfa = m, !.otp = o,
                               !.user = mfas[m].user, !.password = mfas[m].password]]
                  /\ UNCHANGED mfas
    BY <1>4 DEF FindMfa, Begin
  <2>2. mfas[m].user \in Users /\ mfas[m].password \in Passwords
    BY <2>1, <1>t DEF Mfa
  <2>3. CASE mfas[m].expired
    <3>1. mfas' \in [MfaIds -> Mfa \cup {NoRow}]
      BY <2>1, <2>3, <1>t DEF MayFail, Remove
    <3>2. QED BY <1>4, <1>t, <2>1, <2>3, <3>1 DEF FindMfa, TypeOK
  <2>4. CASE ~mfas[m].expired
    <3>1. ReqOK
      BY <2>1, <2>2, <2>4, RequestStep DEF Idle, Request, Pcs, Held, RowLoaded, CodeAccepted
    <3>2. QED BY <1>4, <1>t, <2>1, <2>4, <3>1 DEF FindMfa, TypeOK
  <2>5. QED BY <2>3, <2>4
<1>5. ASSUME NEW c \in Clients, UpdateName(c) \/ ChangePassword(c) \/ UpdateMe(c) PROVE TypeOK'
  <2>1. PICK s \in sessions, name \in Names \cup {NoRow}, new \in Passwords \cup {NoRow} :
          req' = [req EXCEPT ![c] = [Idle EXCEPT !.pc = "findProfile", !.user = s.user,
                                                 !.name = name, !.password = new]]
    BY <1>5, ProfileOpened
  <2>2. s.user \in Users
    BY <1>t DEF Session
  <2>3. ReqOK
    BY <2>1, <2>2, RequestStep DEF Idle, Request, Pcs, Held, RowLoaded, CodeAccepted
  <2>4. UNCHANGED <<account, mfas, otps, issued, mailed, links, sessions>>
    BY <1>5, ProfileOpened
  <2>5. QED BY <2>4, <1>t, <2>3 DEF TypeOK
<1>6. ASSUME NEW c \in Clients, Step(c) PROVE TypeOK'
  <2> DEFINE u == req[c].user
  <2>r. req[c] \in Request /\ Held(req[c])
    BY <1>t
  <2>1. CASE InsertAccount(c)
    <3> DEFINE row == [name |-> req[c].name, password |-> req[c].password,
                       verified |-> FALSE, key |-> 0]
    <3>1. u \in Users /\ row \in Account
      BY <2>r, <2>1 DEF InsertAccount, At, Held, Account, Keys
    <3>2. req' = [req EXCEPT ![c] = [req[c] EXCEPT !.pc = "sendLink", !.row = row]]
      BY <2>1, <1>t DEF InsertAccount
    <3>3. [req[c] EXCEPT !.pc = "sendLink", !.row = row] \in Request
      BY <2>r, <3>1 DEF Request, Pcs
    <3>4. Held([req[c] EXCEPT !.pc = "sendLink", !.row = row])
      BY <2>r, <2>1, <3>1 DEF InsertAccount, At, Held, RowLoaded, CodeAccepted, Request
    <3>5. ReqOK
      BY <3>2, <3>3, <3>4, RequestStep
    <3>6. QED BY <2>1, <1>t, <3>1, <3>5 DEF InsertAccount, TypeOK
  <2>2. CASE SendLink(c)
    <3>1. sessions' \subseteq Session
      BY <2>2, IssueTokenType DEF SendLink
    <3>2. ReqOK
      BY <2>2, ReturnStep DEF SendLink
    <3>3. [user |-> u, key |-> req[c].row.key] \in Link
      BY <2>r, <2>2 DEF SendLink, At, Held, RowLoaded, Account, Link
    <3>4. QED BY <2>2, <1>t, <3>1, <3>2, <3>3 DEF SendLink, TypeOK
  <2>3. CASE SaveVerified(c)
    <3>1. u \in Users
      BY <2>r, <2>3 DEF SaveVerified, At, Held
    <3>2. ReqOK
      BY <2>3, ReturnStep DEF SaveVerified
    <3>3. QED BY <2>3, <1>t, <3>1, <3>2, SetVerifiedType DEF SaveVerified, TypeOK
  <2>4. CASE ValidateMfa(c)
    <3>1. req' = [req EXCEPT ![c] = [req[c] EXCEPT !.pc = "insertMfa"]]
      BY <2>4, <1>t DEF ValidateMfa, ValidateRef, GoOn
    <3>2. [req[c] EXCEPT !.pc = "insertMfa"] \in Request /\ Held([req[c] EXCEPT !.pc = "insertMfa"])
      BY <2>r, <2>4 DEF ValidateMfa, ValidateRef, At, Request, Pcs, Held, RowLoaded, CodeAccepted
    <3>3. ReqOK
      BY <3>1, <3>2, RequestStep
    <3>4. QED BY <2>4, <1>t, <3>3 DEF ValidateMfa, ValidateRef, TypeOK
  <2>5. CASE InsertMfa(c)
    <3>1. u \in Users /\ req[c].password \in Passwords
      BY <2>r, <2>5 DEF InsertMfa, At, Held
    <3>2. mfas' \in [MfaIds -> Mfa \cup {NoRow}] /\ issued' \subseteq Users \cup MfaIds \cup OtpIds
      BY <2>5, <1>t, <3>1 DEF InsertMfa, Mfa
    <3>3. req' = [req EXCEPT ![c] = [req[c] EXCEPT !.pc = "validateOtp"]]
      BY <2>5, <1>t DEF InsertMfa, GoOn
    <3>4. [req[c] EXCEPT !.pc = "validateOtp"] \in Request /\ Held([req[c] EXCEPT !.pc = "validateOtp"])
      BY <2>r, <2>5 DEF InsertMfa, At, Request, Pcs, Held, RowLoaded, CodeAccepted
    <3>5. ReqOK
      BY <3>3, <3>4, RequestStep
    <3>6. QED BY <2>5, <1>t, <3>2, <3>5 DEF InsertMfa, TypeOK
  <2>6. CASE ValidateOtp(c)
    <3>1. req' = [req EXCEPT ![c] = [req[c] EXCEPT !.pc = "insertOtp"]]
      BY <2>6, <1>t DEF ValidateOtp, ValidateRef, GoOn
    <3>2. [req[c] EXCEPT !.pc = "insertOtp"] \in Request /\ Held([req[c] EXCEPT !.pc = "insertOtp"])
      BY <2>r, <2>6 DEF ValidateOtp, ValidateRef, At, Request, Pcs, Held, RowLoaded, CodeAccepted
    <3>3. ReqOK
      BY <3>1, <3>2, RequestStep
    <3>4. QED BY <2>6, <1>t, <3>3 DEF ValidateOtp, ValidateRef, TypeOK
  <2>7. CASE InsertOtp(c)
    <3>1. PICK o \in OtpIds \ issued :
            /\ otps' = [otps EXCEPT ![o] = [user |-> u, sentTo |-> NoRow, expired |-> FALSE]]
            /\ issued' = issued \cup {o}
            /\ req' = [req EXCEPT ![c].pc = "sendOtp", ![c].otp = o]
      BY <2>7 DEF InsertOtp
    <3>2. u \in Users
      BY <2>r, <2>7 DEF InsertOtp, At, Held
    <3>3. otps' \in [OtpIds -> Otp \cup {NoRow}] /\ issued' \subseteq Users \cup MfaIds \cup OtpIds
      BY <1>t, <3>1, <3>2 DEF Otp
    <3>4. req' = [req EXCEPT ![c] = [req[c] EXCEPT !.pc = "sendOtp", !.otp = o]]
      BY <3>1, <1>t
    <3>5. [req[c] EXCEPT !.pc = "sendOtp", !.otp = o] \in Request
      BY <2>r DEF Request, Pcs
    <3>6. Held([req[c] EXCEPT !.pc = "sendOtp", !.otp = o])
      BY <2>r, <2>7 DEF InsertOtp, At, Request, Held, RowLoaded, CodeAccepted
    <3>7. ReqOK
      BY <3>4, <3>5, <3>6, RequestStep
    <3>8. QED BY <2>7, <1>t, <3>3, <3>7 DEF InsertOtp, TypeOK
  <2>8. CASE SendOtp(c)
    <3> DEFINE o == req[c].otp
    <3>1. u \in Users /\ o \in OtpIds
      BY <2>r, <2>8 DEF SendOtp, At, Held
    <3>2. mailed' \in [OtpIds -> Users \cup {NoRow}]
      BY <2>8, <1>t, <3>1 DEF SendOtp
    <3>3. otps' \in [OtpIds -> Otp \cup {NoRow}]
      <4>1. \A r \in Otp : [r EXCEPT !.sentTo = u] \in Otp
        BY <3>1 DEF Otp
      <4>2. \/ otps' = otps
            \/ /\ otps[o] # NoRow
               /\ otps' = [otps EXCEPT ![o] = [otps[o] EXCEPT !.sentTo = u]]
        BY <2>8, <1>t DEF SendOtp
      <4>3. QED BY <4>1, <4>2, <1>t, <3>1
    <3>4. ReqOK
      BY <2>8, ReturnStep DEF SendOtp
    <3>5. QED BY <2>8, <1>t, <3>2, <3>3, <3>4 DEF SendOtp, TypeOK
  <2>9. CASE RefuseOtp(c)
    <3>1. ReqOK
      BY <2>9, ReturnStep DEF RefuseOtp
    <3>2. QED BY <2>9, <1>t, <3>1 DEF RefuseOtp, TypeOK
  <2>10. CASE DropExpiredOtp(c)
    <3>1. ReqOK
      BY <2>10, ReturnStep DEF DropExpiredOtp
    <3>2. otps' \in [OtpIds -> Otp \cup {NoRow}]
      BY <2>10, <1>t DEF DropExpiredOtp, MayFail, Remove
    <3>3. QED BY <2>10, <1>t, <3>1, <3>2 DEF DropExpiredOtp, TypeOK
  <2>11. CASE FindOtp(c)
    <3> DEFINE o == req[c].otp
               r == [req[c] EXCEPT !.pc = "findUser", !.sentTo = otps[o].sentTo]
    <3>1. req' = [req EXCEPT ![c] = r]
      BY <2>11, <1>t DEF FindOtp
    <3>2. o \in OtpIds
      BY <2>r, <2>11 DEF FindOtp, At, Held
    <3>3. otps[o].sentTo \in Users \cup {NoRow}
      BY <2>11, <1>t, <3>2 DEF FindOtp, Otp
    <3>4. r \in Request
      BY <2>r, <3>3 DEF Request, Pcs
    <3>5. Held(r)
      BY <2>r, <2>11 DEF FindOtp, At, Request, Held, RowLoaded, CodeAccepted
    <3>6. ReqOK
      BY <3>1, <3>4, <3>5, RequestStep
    <3>7. QED BY <2>11, <1>t, <3>6 DEF FindOtp, TypeOK
  <2>12. CASE FindUser(c)
    <3> DEFINE next == IF req[c].sentTo = u THEN "saveLogin" ELSE "deleteMfa"
               r == [req[c] EXCEPT !.pc = next, !.row = account[u]]
    <3>1. req' = [req EXCEPT ![c] = r]
      BY <2>12, <1>t DEF FindUser
    <3>2. account[u] \in Account
      BY <2>r, <2>12, <1>t DEF FindUser, At, Held
    <3>a. next \in Pcs
      BY DEF Pcs
    <3>3. r \in Request
      BY <2>r, <3>2, <3>a DEF Request
    <3>4. Held(r)
      BY <2>r, <2>12, <3>2 DEF FindUser, At, Request, Held, RowLoaded, CodeAccepted
    <3>5. ReqOK
      BY <3>1, <3>3, <3>4, RequestStep
    <3>6. QED BY <2>12, <1>t, <3>5 DEF FindUser, TypeOK
  <2>13. CASE SaveLogin(c)
    <3>1. u \in Users
      BY <2>r, <2>13 DEF SaveLogin, At, Held
    <3>2. account' \in [Users -> Account \cup {NoRow}]
      BY <2>13, <1>t, <3>1, SetVerifiedType DEF SaveLogin
    <3>3. req' = [req EXCEPT ![c] = [req[c] EXCEPT !.pc = "deleteMfa"]]
      BY <2>13, <1>t DEF SaveLogin, GoOn
    <3>4. [req[c] EXCEPT !.pc = "deleteMfa"] \in Request /\ Held([req[c] EXCEPT !.pc = "deleteMfa"])
      BY <2>r, <2>13 DEF SaveLogin, At, Request, Pcs, Held, RowLoaded, CodeAccepted
    <3>5. ReqOK
      BY <3>3, <3>4, RequestStep
    <3>6. QED BY <2>13, <1>t, <3>2, <3>5 DEF SaveLogin, TypeOK
  <2>14. CASE DeleteMfa(c)
    <3>1. mfas' \in [MfaIds -> Mfa \cup {NoRow}]
      BY <2>14, <1>t DEF DeleteMfa, MayFail, Remove
    <3>2. req' = [req EXCEPT ![c] = [req[c] EXCEPT !.pc = "deleteOtp"]]
      BY <2>14, <1>t DEF DeleteMfa, GoOn
    <3>3. [req[c] EXCEPT !.pc = "deleteOtp"] \in Request /\ Held([req[c] EXCEPT !.pc = "deleteOtp"])
      BY <2>r, <2>14 DEF DeleteMfa, At, Request, Pcs, Held, RowLoaded, CodeAccepted
    <3>4. ReqOK
      BY <3>2, <3>3, RequestStep
    <3>5. QED BY <2>14, <1>t, <3>1, <3>4 DEF DeleteMfa, TypeOK
  <2>15. CASE DeleteOtp(c)
    <3>1. sessions' \subseteq Session
      BY <2>15, IssueTokenType DEF DeleteOtp
    <3>2. ReqOK
      BY <2>15, ReturnStep DEF DeleteOtp
    <3>3. otps' \in [OtpIds -> Otp \cup {NoRow}]
      BY <2>15, <1>t DEF DeleteOtp, MayFail, Remove
    <3>4. QED BY <2>15, <1>t, <3>1, <3>2, <3>3 DEF DeleteOtp, TypeOK
  <2>16. CASE FindProfile(c)
    <3> DEFINE next == IF req[c].password = NoRow THEN "saveName" ELSE "savePassword"
               r == [req[c] EXCEPT !.pc = next, !.row = account[u]]
    <3>1. req' = [req EXCEPT ![c] = r]
      BY <2>16, <1>t DEF FindProfile
    <3>2. account[u] \in Account
      BY <2>r, <2>16, <1>t DEF FindProfile, At, Held
    <3>a. next \in Pcs
      BY DEF Pcs
    <3>3. r \in Request
      BY <2>r, <3>2, <3>a DEF Request
    <3>4. Held(r)
      BY <2>r, <2>16, <3>2 DEF FindProfile, At, Request, Held, RowLoaded, CodeAccepted
    <3>5. ReqOK
      BY <3>1, <3>3, <3>4, RequestStep
    <3>6. QED BY <2>16, <1>t, <3>5 DEF FindProfile, TypeOK
  <2>17. CASE SavePassword(c)
    <3>1. u \in Users /\ req[c].password \in Passwords
      BY <2>r, <2>17 DEF SavePassword, At, Held
    <3>2. ASSUME account[u] = NoRow PROVE account' \in [Users -> Account \cup {NoRow}]
      <4>1. account' = account
        BY <2>17, <1>t, <3>1, <3>2 DEF SavePassword
      <4>2. QED BY <4>1, <1>t
    <3>3. ASSUME account[u] # NoRow PROVE account' \in [Users -> Account \cup {NoRow}]
      <4>1. account[u] \in Account /\ account[u].key < MaxKey
        BY <2>17, <1>t, <3>1, <3>3 DEF SavePassword
      <4> DEFINE row == [account[u] EXCEPT !.name = NameColumn(c),
                                           !.password = req[c].password,
                                           !.key = account[u].key + 1]
      <4>a. account[u].key + 1 \in Keys
        BY <4>1 DEF Account, Keys
      <4>b. NameColumn(c) \in Names
        BY <4>1, NameColumnType DEF Account
      <4>2. row \in Account
        BY <3>1, <4>1, <4>a, <4>b DEF Account
      <4>3. account' = [account EXCEPT ![u] = row]
        BY <2>17, <1>t, <3>1, <3>3 DEF SavePassword
      <4>4. QED BY <4>2, <4>3, <1>t
    <3>4. req' = [req EXCEPT ![c] = [req[c] EXCEPT !.pc = "dropMfas"]]
      BY <2>17, <1>t DEF SavePassword, GoOn
    <3>5. [req[c] EXCEPT !.pc = "dropMfas"] \in Request /\ Held([req[c] EXCEPT !.pc = "dropMfas"])
      BY <2>r, <2>17 DEF SavePassword, At, Request, Pcs, Held, RowLoaded, CodeAccepted
    <3>6. ReqOK
      BY <3>4, <3>5, RequestStep
    <3>7. account' \in [Users -> Account \cup {NoRow}]
      BY <3>2, <3>3
    <3>8. QED BY <2>17, <1>t, <3>6, <3>7 DEF SavePassword, TypeOK
  <2>21. CASE SaveName(c)
    <3>1. u \in Users
      BY <2>r, <2>21 DEF SaveName, At, Held
    <3>2. account' \in [Users -> Account \cup {NoRow}]
      <4>1. CASE account[u] = NoRow
        <5>1. account' = account
          BY <2>21, <1>t, <3>1, <4>1 DEF SaveName
        <5>2. QED BY <5>1, <1>t
      <4>2. CASE account[u] # NoRow
        <5>1. account[u] \in Account
          BY <1>t, <3>1, <4>2
        <5>2. NameColumn(c) \in Names
          BY <5>1, NameColumnType DEF Account
        <5>3. account' = [account EXCEPT ![u] =
                            [account[u] EXCEPT !.name = NameColumn(c)]]
          BY <2>21, <1>t, <3>1, <4>2 DEF SaveName
        <5>4. [account[u] EXCEPT !.name = NameColumn(c)] \in Account
          BY <5>1, <5>2 DEF Account
        <5>5. QED BY <5>3, <5>4, <1>t
      <4>3. QED BY <4>1, <4>2
    <3>3. ReqOK
      BY <2>21, ReturnStep DEF SaveName
    <3>4. QED BY <2>21, <1>t, <3>2, <3>3 DEF SaveName, TypeOK
  <2>18. CASE DropMfas(c)
    <3>1. ReqOK
      BY <2>18, ReturnStep DEF DropMfas
    <3>2. mfas' \in [MfaIds -> Mfa \cup {NoRow}]
      BY <2>18, <1>t DEF DropMfas
    <3>3. QED BY <2>18, <1>t, <3>1, <3>2 DEF DropMfas, TypeOK
  <2>19. CASE CallFails(c)
    <3>1. ReqOK
      BY <2>19, ReturnStep DEF CallFails, Fails
    <3>2. QED BY <2>19, <1>t, <3>1 DEF CallFails, Fails, TypeOK
  <2>20. QED
    BY <1>6, <2>1, <2>2, <2>3, <2>4, <2>5, <2>6, <2>7, <2>8, <2>9, <2>10, <2>11, <2>12,
       <2>13, <2>14, <2>15, <2>16, <2>17, <2>18, <2>19, <2>21 DEF Step
<1>7. ASSUME NEW u \in Users, DeleteAccount(u) PROVE TypeOK'
  <2>1. /\ account' \in [Users -> Account \cup {NoRow}]
        /\ mfas' \in [MfaIds -> Mfa \cup {NoRow}]
        /\ otps' \in [OtpIds -> Otp \cup {NoRow}]
    BY <1>7, <1>t DEF DeleteAccount
  <2>2. QED BY <1>7, <1>t, <2>1 DEF DeleteAccount, TypeOK
<1>8. CASE Expire
  <2>1. (\A r \in Mfa : [r EXCEPT !.expired = TRUE] \in Mfa)
        /\ (\A r \in Otp : [r EXCEPT !.expired = TRUE] \in Otp)
    BY DEF Mfa, Otp
  <2>2. mfas' \in [MfaIds -> Mfa \cup {NoRow}] /\ otps' \in [OtpIds -> Otp \cup {NoRow}]
    BY <1>8, <1>t, <2>1 DEF Expire
  <2>3. QED BY <1>8, <1>t, <2>2 DEF Expire, TypeOK
<1>9. CASE UNCHANGED vars
  BY <1>9, <1>t DEF vars, TypeOK
<1>10. QED
  BY <1>1, <1>2, <1>3, <1>4, <1>5, <1>6, <1>7, <1>8, <1>9 DEF Next, Submit

\* Every record and request keeps its shape, whatever calls fail and overlap.
THEOREM TypeCorrect == Spec => []TypeOK
BY InitType, TypeStep, PTL DEF Spec

-----------------------------------------------------------------------------
(***************************************************************************)
(* Codes.                                                                  *)
(***************************************************************************)
\* A step that mails no code and makes no row, and after which a request that
\* has moved on and claims a right code has one of its own.
CodesKept ==
    /\ \A o \in OtpIds : otps'[o] # NoRow => otps[o] # NoRow /\ otps'[o].user = otps[o].user
    /\ mailed' = mailed
    /\ issued \subseteq issued'
    /\ \A s \in sessions' : s \in sessions \/ (s.by # NoRow => mailed[s.by] = s.user)
    /\ \A d \in Clients :
         \/ req'[d] = req[d]
         \/ /\ req'[d].pc # "sendOtp"
            /\ req'[d].pc \in CodeAccepted => mailed[req'[d].otp] = req'[d].user

LEMMA CodesKeptStep ==
    ASSUME TypeOK, CodeInv, SecondFactorIsOwn, CodesKept
    PROVE  CodeInv' /\ SecondFactorIsOwn'
<1>t. \A d \in Clients : At(d, "sendOtp") => req[d].otp \in OtpIds
  BY DEF TypeOK, Held, At
<1>1. CodesAreIssued' /\ MailFollowsRow'
  BY DEF CodeInv, CodesKept, CodesAreIssued, MailFollowsRow
<1>2. \A d \in Clients : At(d, "sendOtp")' => At(d, "sendOtp") /\ req'[d] = req[d]
  BY DEF CodesKept, At
<1>3. SendersOwnTheirCode'
  BY <1>t, <1>2 DEF CodeInv, CodesKept, SendersOwnTheirCode, At
<1>4. AcceptedCodesAreOwn'
  BY DEF CodeInv, CodesKept, AcceptedCodesAreOwn
<1>5. SecondFactorIsOwn'
  BY DEF CodesKept, SecondFactorIsOwn
<1>6. QED BY <1>1, <1>3, <1>4, <1>5 DEF CodeInv

LEMMA InitCodes == Init => CodeInv /\ SecondFactorIsOwn
BY DEF Init, CodeInv, CodesAreIssued, MailFollowsRow, SendersOwnTheirCode, AcceptedCodesAreOwn,
       SecondFactorIsOwn, Idle, At, CodeAccepted

\* A new code: its id was never used, so it has not been mailed, and no other
\* request is about to mail it.
LEMMA InsertOtpCodes ==
    ASSUME TypeOK, CodeInv, SecondFactorIsOwn, NEW c \in Clients, InsertOtp(c)
    PROVE  CodeInv' /\ SecondFactorIsOwn'
<1>t. otps \in [OtpIds -> Otp \cup {NoRow}] /\ req \in [Clients -> Request]
  BY DEF TypeOK
<1>1. PICK o \in OtpIds \ issued :
        /\ otps' = [otps EXCEPT ![o] = [user |-> req[c].user, sentTo |-> NoRow, expired |-> FALSE]]
        /\ issued' = issued \cup {o}
        /\ req' = [req EXCEPT ![c] = [req[c] EXCEPT !.pc = "sendOtp", !.otp = o]]
        /\ mailed' = mailed
        /\ sessions' = sessions
  BY <1>t DEF InsertOtp
<1>2. otps[o] = NoRow /\ mailed[o] = NoRow
  BY <1>1 DEF CodeInv, CodesAreIssued
<1>3. /\ otps'[o].user = req[c].user
      /\ \A x \in OtpIds : x # o => otps'[x] = otps[x]
  BY <1>1, <1>t
<1>4. /\ req'[c].pc = "sendOtp" /\ req'[c].otp = o /\ req'[c].user = req[c].user
      /\ \A d \in Clients : d # c => req'[d] = req[d]
  BY <1>1, <1>t DEF Request
<1>5. CodesAreIssued'
  BY <1>1, <1>3 DEF CodeInv, CodesAreIssued
<1>6. MailFollowsRow'
  BY <1>1, <1>2, <1>3 DEF CodeInv, MailFollowsRow
<1>7. SendersOwnTheirCode'
  <2>1. ASSUME NEW d \in Clients, d # c, At(d, "sendOtp")
        PROVE  req[d].otp \in OtpIds /\ req[d].otp \in issued /\ req[d].otp # o
    BY <2>1, <1>1 DEF TypeOK, Held, At, CodeInv, SendersOwnTheirCode
  <2>2. QED
    BY <2>1, <1>1, <1>2, <1>3, <1>4 DEF CodeInv, SendersOwnTheirCode, At
<1>8. AcceptedCodesAreOwn'
  BY <1>1, <1>4 DEF CodeInv, AcceptedCodesAreOwn, CodeAccepted
<1>9. SecondFactorIsOwn'
  BY <1>1 DEF SecondFactorIsOwn
<1>10. QED BY <1>5, <1>6, <1>7, <1>8, <1>9 DEF CodeInv

\* A code is mailed once, to the user of its row; until then it has opened no
\* session, because nobody could have entered it.
LEMMA SendOtpCodes ==
    ASSUME TypeOK, CodeInv, SecondFactorIsOwn, NEW c \in Clients, SendOtp(c)
    PROVE  CodeInv' /\ SecondFactorIsOwn'
<1> DEFINE o == req[c].otp
           u == req[c].user
<1>t. /\ otps \in [OtpIds -> Otp \cup {NoRow}]
      /\ mailed \in [OtpIds -> Users \cup {NoRow}]
      /\ req \in [Clients -> Request]
      /\ o \in OtpIds
      /\ u \in Users
  BY DEF TypeOK, SendOtp, At, Held
<1>1. /\ o \in issued /\ mailed[o] = NoRow
      /\ otps[o] # NoRow => otps[o].user = u
  BY DEF SendOtp, CodeInv, SendersOwnTheirCode
<1>2. /\ mailed'[o] = u
      /\ \A x \in OtpIds : x # o => mailed'[x] = mailed[x]
      /\ issued' = issued
      /\ sessions' = sessions
  BY <1>t DEF SendOtp
<1>3. \A x \in OtpIds : otps'[x] # NoRow => otps[x] # NoRow /\ otps'[x].user = otps[x].user
  <2>1. \/ otps' = otps
        \/ otps[o] # NoRow /\ otps' = [otps EXCEPT ![o] = [otps[o] EXCEPT !.sentTo = u]]
    BY <1>t DEF SendOtp
  <2>2. CASE otps' = otps
    BY <2>2
  <2>3. CASE otps[o] # NoRow /\ otps' = [otps EXCEPT ![o] = [otps[o] EXCEPT !.sentTo = u]]
    <3>1. otps[o] \in Otp
      BY <2>3, <1>t
    <3>2. [otps[o] EXCEPT !.sentTo = u].user = otps[o].user
      BY <3>1 DEF Otp
    <3>3. QED BY <2>3, <3>2, <1>t
  <2>4. QED BY <2>1, <2>2, <2>3
<1>4. /\ req'[c].pc = "idle"
      /\ \A d \in Clients : d # c => req'[d] = req[d]
  BY <1>t DEF SendOtp, Return, Idle
<1>5. CodesAreIssued'
  BY <1>1, <1>2, <1>3 DEF CodeInv, CodesAreIssued
<1>6. MailFollowsRow'
  BY <1>1, <1>2, <1>3 DEF CodeInv, MailFollowsRow
<1>7. SendersOwnTheirCode'
  <2>1. ASSUME NEW d \in Clients, At(d, "sendOtp")'
        PROVE  d # c /\ req'[d] = req[d] /\ At(d, "sendOtp") /\ req[d].otp \in OtpIds /\ req[d].otp # o
    <3>1. d # c
      BY <2>1, <1>4 DEF At
    <3>2. req'[d] = req[d] /\ At(d, "sendOtp")
      BY <2>1, <3>1, <1>4 DEF At
    <3>3. req[d].otp \in OtpIds
      BY <3>2 DEF TypeOK, Held, At
    <3>4. req[d].otp # o
      BY <3>1, <3>2 DEF SendOtp, CodeInv, SendersOwnTheirCode
    <3>5. QED BY <3>1, <3>2, <3>3, <3>4
  <2>2. QED
    BY <2>1, <1>2, <1>3 DEF CodeInv, SendersOwnTheirCode
<1>8. AcceptedCodesAreOwn'
  <2>1. ASSUME NEW d \in Clients, req'[d].pc \in CodeAccepted
        PROVE  mailed'[req'[d].otp] = req'[d].user
    <3>1. req'[d] = req[d] /\ req[d].pc \in CodeAccepted
      BY <2>1, <1>4 DEF CodeAccepted
    <3>2. mailed[req[d].otp] = req[d].user /\ req[d].otp \in OtpIds /\ req[d].user \in Users
      BY <3>1 DEF CodeInv, AcceptedCodesAreOwn, TypeOK, Held, CodeAccepted
    <3>3. QED BY <3>1, <3>2, <1>1, <1>2
  <2>2. QED BY <2>1 DEF AcceptedCodesAreOwn
<1>9. SecondFactorIsOwn'
  BY <1>1, <1>2 DEF SecondFactorIsOwn, TypeOK, Session
<1>10. QED BY <1>5, <1>6, <1>7, <1>8, <1>9 DEF CodeInv

\* A request that begins has no code to mail, and none accepted.
LEMMA BeginsWithoutCode ==
    ASSUME TypeOK, NEW c \in Clients, Submit(c)
    PROVE  req'[c] = req[c] \/ req'[c].pc \notin {"sendOtp"} \cup CodeAccepted
<1>t. req \in [Clients -> Request]
  BY DEF TypeOK
<1>1. CASE FindMfa(c)
  <2>1. \/ req' = req
        \/ \E m \in MfaIds, o \in OtpIds :
             req' = [req EXCEPT ![c] = [Idle EXCEPT !.pc = "findOtp", !.mfa = m, !.otp = o,
                       !.user = mfas[m].user, !.password = mfas[m].password]]
    BY <1>1 DEF FindMfa, Begin
  <2>2. req'[c] = req[c] \/ req'[c].pc = "findOtp"
    BY <2>1, <1>t DEF Idle
  <2>3. QED BY <2>2 DEF CodeAccepted
<1>2. CASE Register(c)
  BY <1>2, <1>t DEF Register, Begin, Idle, CodeAccepted
<1>3. CASE VerifySubmit(c)
  BY <1>3, <1>t DEF VerifySubmit, Begin, Idle, CodeAccepted
<1>4. CASE Login(c)
  BY <1>4, <1>t DEF Login, Begin, Idle, CodeAccepted
<1>5. CASE UpdateName(c) \/ ChangePassword(c) \/ UpdateMe(c)
  <2>1. \E s \in sessions, name \in Names \cup {NoRow}, new \in Passwords \cup {NoRow} :
          req' = [req EXCEPT ![c] = [Idle EXCEPT !.pc = "findProfile", !.user = s.user,
                                                 !.name = name, !.password = new]]
    BY <1>5, ProfileOpened
  <2>2. req'[c].pc = "findProfile"
    BY <2>1, <1>t DEF Idle
  <2>3. QED BY <2>2 DEF CodeAccepted
<1>6. QED BY <1>1, <1>2, <1>3, <1>4, <1>5 DEF Submit

\* No step gives a session to the wrong user.
LEMMA CodeStep ==
    TypeOK /\ CodeInv /\ SecondFactorIsOwn /\ [Next]_vars => CodeInv' /\ SecondFactorIsOwn'
<1> SUFFICES ASSUME TypeOK, CodeInv, SecondFactorIsOwn, [Next]_vars
             PROVE  CodeInv' /\ SecondFactorIsOwn'
  OBVIOUS
<1>t. /\ mfas \in [MfaIds -> Mfa \cup {NoRow}]
      /\ otps \in [OtpIds -> Otp \cup {NoRow}]
      /\ req \in [Clients -> Request]
      /\ \A d \in Clients : Held(req[d])
  BY DEF TypeOK
<1>1. ASSUME NEW c \in Clients, Submit(c) PROVE CodeInv' /\ SecondFactorIsOwn'
  <2>1. req'[c] = req[c] \/ req'[c].pc \notin {"sendOtp"} \cup CodeAccepted
    BY <1>1, BeginsWithoutCode
  <2>2. \A d \in Clients : d # c => req'[d] = req[d]
    BY <1>1, <1>t DEF Submit, Register, VerifySubmit, Login, FindMfa, UpdateName, ChangePassword,
         UpdateMe, OpenProfile, Begin
  <2>3. otps' = otps /\ mailed' = mailed /\ issued' = issued /\ sessions' = sessions
    BY <1>1 DEF Submit, Register, VerifySubmit, Login, FindMfa, UpdateName, ChangePassword,
         UpdateMe, OpenProfile
  <2>4. CodesKept
    BY <2>1, <2>2, <2>3 DEF CodesKept
  <2>5. QED BY <2>4, CodesKeptStep
<1>2. ASSUME NEW c \in Clients, Step(c) PROVE CodeInv' /\ SecondFactorIsOwn'
  <2>1. CASE InsertOtp(c)
    BY <2>1, InsertOtpCodes
  <2>2. CASE SendOtp(c)
    BY <2>2, SendOtpCodes
  <2>3. CASE FindOtp(c)
    <3> DEFINE o == req[c].otp
    <3>1. o \in OtpIds /\ mailed[o] = req[c].user
      BY <2>3, <1>t DEF FindOtp, At, Held, CodeInv, MailFollowsRow
    <3>2. req'[c].otp = o /\ req'[c].user = req[c].user /\ req'[c].pc = "findUser"
      BY <2>3, <1>t DEF FindOtp, Request
    <3>3. \A d \in Clients : d # c => req'[d] = req[d]
      BY <2>3, <1>t DEF FindOtp
    <3>4. CodesKept
      BY <2>3, <3>1, <3>2, <3>3 DEF FindOtp, CodesKept
    <3>5. QED BY <3>4, CodesKeptStep
  <2>4. CASE FindUser(c) \/ SaveLogin(c) \/ DeleteMfa(c)
    <3>1. req[c].pc \in CodeAccepted
      BY <2>4 DEF FindUser, SaveLogin, DeleteMfa, At, CodeAccepted
    <3>2. mailed[req[c].otp] = req[c].user
      BY <3>1 DEF CodeInv, AcceptedCodesAreOwn
    <3>3. req'[c].otp = req[c].otp /\ req'[c].user = req[c].user /\ req'[c].pc # "sendOtp"
      BY <2>4, <1>t DEF FindUser, SaveLogin, DeleteMfa, GoOn, Request
    <3>4. \A d \in Clients : d # c => req'[d] = req[d]
      BY <2>4, <1>t DEF FindUser, SaveLogin, DeleteMfa, GoOn
    <3>5. CodesKept
      BY <2>4, <3>2, <3>3, <3>4 DEF FindUser, SaveLogin, DeleteMfa, CodesKept
    <3>6. QED BY <3>5, CodesKeptStep
  <2>5. CASE DeleteOtp(c)
    <3>1. mailed[req[c].otp] = req[c].user
      BY <2>5 DEF DeleteOtp, At, CodeAccepted, CodeInv, AcceptedCodesAreOwn
    <3>2. \A s \in sessions' : s \in sessions \/ (s.by = req[c].otp /\ s.user = req[c].user)
      BY <2>5 DEF DeleteOtp, IssueToken
    <3>3. \A o \in OtpIds : otps'[o] # NoRow => otps'[o] = otps[o]
      BY <2>5, <1>t DEF DeleteOtp, MayFail, Remove
    <3>4. req'[c] = Idle /\ \A d \in Clients : d # c => req'[d] = req[d]
      BY <2>5, <1>t DEF DeleteOtp, Return
    <3>5. CodesKept
      BY <2>5, <3>1, <3>2, <3>3, <3>4 DEF DeleteOtp, CodesKept, Idle, CodeAccepted
    <3>6. QED BY <3>5, CodesKeptStep
  <2>6. CASE InsertAccount(c) \/ SendLink(c)
    <3>1. req[c].otp = NoRow
      BY <2>6, <1>t DEF InsertAccount, SendLink, At, Held
    <3>2. \A s \in sessions' : s \in sessions \/ s.by = NoRow
      BY <2>6, <3>1 DEF InsertAccount, SendLink, IssueToken
    <3>3. req'[c].pc \notin {"sendOtp"} \cup CodeAccepted
      BY <2>6, <1>t DEF InsertAccount, SendLink, Return, Idle, CodeAccepted, Request
    <3>4. \A d \in Clients : d # c => req'[d] = req[d]
      BY <2>6, <1>t DEF InsertAccount, SendLink, Return
    <3>5. CodesKept
      BY <2>6, <3>2, <3>3, <3>4 DEF InsertAccount, SendLink, CodesKept
    <3>6. QED BY <3>5, CodesKeptStep
  <2>7. CASE DropExpiredOtp(c)
    <3>1. \A o \in OtpIds : otps'[o] # NoRow => otps'[o] = otps[o]
      BY <2>7, <1>t DEF DropExpiredOtp, MayFail, Remove
    <3>2. req'[c] = Idle /\ \A d \in Clients : d # c => req'[d] = req[d]
      BY <2>7, <1>t DEF DropExpiredOtp, Return
    <3>3. CodesKept
      BY <2>7, <3>1, <3>2 DEF DropExpiredOtp, CodesKept, Idle, CodeAccepted
    <3>4. QED BY <3>3, CodesKeptStep
  <2>8. CASE \/ SaveVerified(c) \/ ValidateMfa(c) \/ InsertMfa(c) \/ ValidateOtp(c)
             \/ RefuseOtp(c) \/ FindProfile(c) \/ SaveName(c) \/ SavePassword(c)
             \/ DropMfas(c) \/ CallFails(c)
    <3>1. req'[c].pc \notin {"sendOtp"} \cup CodeAccepted
      BY <2>8, <1>t DEF SaveVerified, ValidateMfa, InsertMfa, ValidateOtp, ValidateRef, RefuseOtp,
         FindProfile, SaveName, SavePassword, DropMfas, CallFails, Fails, Return, GoOn, Idle, CodeAccepted,
         Request
    <3>2. \A d \in Clients : d # c => req'[d] = req[d]
      BY <2>8, <1>t DEF SaveVerified, ValidateMfa, InsertMfa, ValidateOtp, ValidateRef, RefuseOtp,
         FindProfile, SaveName, SavePassword, DropMfas, CallFails, Fails, Return, GoOn
    <3>3. otps' = otps /\ mailed' = mailed /\ issued \subseteq issued' /\ sessions' = sessions
      BY <2>8 DEF SaveVerified, ValidateMfa, InsertMfa, ValidateOtp, ValidateRef, RefuseOtp,
         FindProfile, SaveName, SavePassword, DropMfas, CallFails, Fails
    <3>4. CodesKept
      BY <3>1, <3>2, <3>3 DEF CodesKept
    <3>5. QED BY <3>4, CodesKeptStep
  <2>9. QED
    BY <1>2, <2>1, <2>2, <2>3, <2>4, <2>5, <2>6, <2>7, <2>8 DEF Step
<1>3. ASSUME NEW u \in Users, DeleteAccount(u) PROVE CodeInv' /\ SecondFactorIsOwn'
  <2>1. \A o \in OtpIds : otps'[o] # NoRow => otps'[o] = otps[o]
    BY <1>3, <1>t DEF DeleteAccount
  <2>2. CodesKept
    BY <1>3, <2>1 DEF DeleteAccount, CodesKept
  <2>3. QED BY <2>2, CodesKeptStep
<1>4. CASE Expire
  <2>1. \A o \in OtpIds : otps'[o] # NoRow => otps[o] # NoRow /\ otps'[o].user = otps[o].user
    <3>1. \A r \in Otp : [r EXCEPT !.expired = TRUE].user = r.user
      BY DEF Otp
    <3>2. otps' = otps \/ \E o \in OtpIds : /\ otps[o] # NoRow
                                           /\ otps' = [otps EXCEPT ![o] =
                                                         [otps[o] EXCEPT !.expired = TRUE]]
      BY <1>4, <1>t DEF Expire
    <3>3. QED BY <3>1, <3>2, <1>t
  <2>2. CodesKept
    BY <1>4, <2>1 DEF Expire, CodesKept
  <2>3. QED BY <2>2, CodesKeptStep
<1>5. CASE UNCHANGED vars
  <2>1. CodesKept
    BY <1>5 DEF vars, CodesKept
  <2>2. QED BY <2>1, CodesKeptStep
<1>6. QED BY <1>1, <1>2, <1>3, <1>4, <1>5 DEF Next

\* However many logins overlap, fail and mix up their forms, a session that a
\* code opened is one of the user the code was mailed to.
THEOREM SecondFactors == Spec => []SecondFactorIsOwn
<1>1. Init => TypeOK /\ CodeInv /\ SecondFactorIsOwn
  BY InitType, InitCodes
<1>2. (TypeOK /\ CodeInv /\ SecondFactorIsOwn) /\ [Next]_vars
        => (TypeOK /\ CodeInv /\ SecondFactorIsOwn)'
  BY TypeStep, CodeStep
<1>3. QED BY <1>1, <1>2, PTL DEF Spec

-----------------------------------------------------------------------------
(***************************************************************************)
(* Keys.                                                                   *)
(***************************************************************************)
\* What was revoked in the state before is revoked in the state after.
NothingRestored == \A token \in sessions \cup links : ~Accepted(token) => ~Accepted(token)'

\* A step that creates no account and gives none an older key, and after which
\* new tokens and newly loaded records have a key of the past.
KeysKept ==
    /\ \A u \in Users :
         account'[u] # NoRow => account[u] # NoRow /\ account[u].key <= account'[u].key
    /\ issued \subseteq issued'
    /\ \A t \in sessions' \cup links' : t \in sessions \cup links \/ KeyIsPast(t.user, t.key)
    /\ \A d \in Clients :
         \/ req'[d] = req[d]
         \/ req'[d].pc \in RowLoaded => KeyIsPast(req'[d].user, req'[d].row.key)

\* What a token and a loaded record hold is a key.
KeysAreKeys ==
    /\ \A u \in Users : account[u] # NoRow => account[u].key \in Int
    /\ \A t \in sessions \cup links : t.user \in Users /\ t.key \in Int
    /\ \A d \in Clients :
         req[d].pc \in RowLoaded => req[d].user \in Users /\ req[d].row.key \in Int

LEMMA HeldKeys == TypeOK => KeysAreKeys
<1> SUFFICES ASSUME TypeOK PROVE KeysAreKeys
  OBVIOUS
<1>1. \A a \in Account : a.key \in Int
  BY DEF Account, Keys
<1>2. \A u \in Users : account[u] # NoRow => account[u].key \in Int
  BY <1>1 DEF TypeOK
<1>3. \A t \in sessions \cup links : t.user \in Users /\ t.key \in Int
  BY DEF TypeOK, Session, Link, Keys
<1>4. \A d \in Clients : req[d].pc \in RowLoaded => req[d].user \in Users /\ req[d].row \in Account
  BY DEF TypeOK, Held, RowLoaded
<1>5. QED BY <1>1, <1>2, <1>3, <1>4 DEF KeysAreKeys

LEMMA KeysKeptStep ==
    ASSUME TypeOK, TypeOK', KeysArePast, KeysKept
    PROVE  KeysArePast' /\ NothingRestored
<1>0. KeysAreKeys /\ KeysAreKeys'
  BY HeldKeys, PTL
<1>1. /\ \A u \in Users : account[u] # NoRow => account[u].key \in Int
      /\ \A t \in sessions \cup links : t.user \in Users /\ t.key \in Int
  BY <1>0 DEF KeysAreKeys
<1>2. /\ \A u \in Users : account'[u] # NoRow => account'[u].key \in Int
      /\ \A t \in sessions' \cup links' : t.user \in Users /\ t.key \in Int
      /\ \A d \in Clients :
           req'[d].pc \in RowLoaded => req'[d].user \in Users /\ req'[d].row.key \in Int
  BY <1>0 DEF KeysAreKeys
<1>3. ASSUME NEW u \in Users, NEW key \in Int, KeyIsPast(u, key)
      PROVE  u \in issued' /\ (account'[u] # NoRow => key <= account'[u].key)
  BY <1>1, <1>2, <1>3 DEF KeysKept, KeyIsPast
<1>4. \A u \in Users : account'[u] # NoRow => u \in issued'
  BY DEF KeysKept, KeysArePast
<1>5. ASSUME NEW t \in sessions' \cup links'
      PROVE  t.user \in issued' /\ (account'[t.user] # NoRow => t.key <= account'[t.user].key)
  <2>1. KeyIsPast(t.user, t.key)
    BY <1>5 DEF KeysKept, KeysArePast
  <2>2. QED BY <2>1, <1>2, <1>3
<1>6. ASSUME NEW d \in Clients, req'[d].pc \in RowLoaded
      PROVE  /\ req'[d].user \in issued'
             /\ account'[req'[d].user] # NoRow => req'[d].row.key <= account'[req'[d].user].key
  <2>1. KeyIsPast(req'[d].user, req'[d].row.key)
    BY <1>6 DEF KeysKept, KeysArePast
  <2>2. QED BY <2>1, <1>2, <1>3, <1>6
<1>7. KeysArePast'
  BY <1>4, <1>5, <1>6 DEF KeysArePast, KeyIsPast
<1>8. NothingRestored
  <2>1. SUFFICES ASSUME NEW t \in sessions \cup links, Accepted(t)'
                 PROVE  Accepted(t)
    BY DEF NothingRestored
  <2>2. account'[t.user] # NoRow /\ account'[t.user].key = t.key
    BY <2>1 DEF Accepted
  <2>3. account[t.user] # NoRow /\ account[t.user].key <= t.key
    BY <2>2, <1>1 DEF KeysKept
  <2>4. t.key <= account[t.user].key
    BY <2>3 DEF KeysArePast, KeyIsPast
  <2>5. QED BY <2>3, <2>4, <1>1 DEF Accepted
<1>9. QED BY <1>7, <1>8

LEMMA InitKeys == Init => KeysArePast
BY DEF Init, KeysArePast, Idle, RowLoaded

\* A new account has an id of its own: nobody holds a key of it.
LEMMA InsertAccountKeys ==
    ASSUME TypeOK, KeysArePast, NEW c \in Clients, InsertAccount(c)
    PROVE  KeysArePast' /\ NothingRestored
<1> DEFINE u == req[c].user
           row == [name |-> req[c].name, password |-> req[c].password,
                   verified |-> FALSE, key |-> 0]
<1>t. /\ account \in [Users -> Account \cup {NoRow}]
      /\ req \in [Clients -> Request]
      /\ u \in Users
  BY DEF TypeOK, InsertAccount, At, Held
<1>1. /\ u \notin issued
      /\ account' = [account EXCEPT ![u] = row]
      /\ issued' = issued \cup {u}
      /\ req' = [req EXCEPT ![c] = [req[c] EXCEPT !.pc = "sendLink", !.row = row]]
      /\ sessions' = sessions /\ links' = links
  BY <1>t DEF InsertAccount
<1>2. account'[u].key = 0 /\ \A x \in Users : x # u => account'[x] = account[x]
  BY <1>1, <1>t
<1>3. req'[c].user = u /\ req'[c].row.key = 0 /\ \A d \in Clients : d # c => req'[d] = req[d]
  BY <1>1, <1>t DEF Request
<1>h. /\ \A t \in sessions \cup links : t.user \in Users
      /\ \A d \in Clients : req[d].pc \in RowLoaded => req[d].user \in Users
  BY HeldKeys DEF KeysAreKeys
<1>4. \A x \in Users : account'[x] # NoRow => x \in issued'
  BY <1>1, <1>2 DEF KeysArePast
<1>5. \A t \in sessions \cup links : t.user # u /\ KeyIsPast(t.user, t.key)'
  BY <1>1, <1>2, <1>h DEF KeysArePast, KeyIsPast
<1>6. ASSUME NEW d \in Clients, req'[d].pc \in RowLoaded
      PROVE  KeyIsPast(req[d].user, req[d].row.key)'
  <2>1. CASE d = c
    BY <2>1, <1>1, <1>2, <1>3 DEF KeyIsPast
  <2>2. CASE d # c
    <3>1. req'[d] = req[d] /\ req[d].pc \in RowLoaded
      BY <1>6, <2>2, <1>3
    <3>2. KeyIsPast(req[d].user, req[d].row.key) /\ req[d].user # u /\ req[d].user \in Users
      BY <3>1, <1>1, <1>h DEF KeysArePast, KeyIsPast
    <3>3. QED BY <3>1, <3>2, <1>1, <1>2 DEF KeyIsPast
  <2>3. QED BY <2>1, <2>2
<1>7. KeysArePast'
  BY <1>1, <1>4, <1>5, <1>6 DEF KeysArePast
<1>8. NothingRestored
  BY <1>2, <1>5, <1>h DEF NothingRestored, Accepted
<1>9. QED BY <1>7, <1>8

\* Setting the flag of an account leaves its key alone.
LEMMA SetVerifiedKeys ==
    ASSUME TypeOK, NEW c \in Clients, req[c].user \in Users, SetVerified(c)
    PROVE  \A u \in Users :
             account'[u] # NoRow => account[u] # NoRow /\ account[u].key <= account'[u].key
<1>1. account \in [Users -> Account \cup {NoRow}]
  BY DEF TypeOK
<1>2. \A a \in Account : [a EXCEPT !.verified = TRUE].key = a.key /\ a.key \in Int
  BY DEF Account, Keys
<1>3. QED BY <1>1, <1>2 DEF SetVerified

\* No step makes an account older than what somebody holds of it.
LEMMA KeyStep ==
    ASSUME TypeOK, TypeOK', KeysArePast, [Next]_vars
    PROVE  KeysArePast' /\ NothingRestored
<1>t. /\ account \in [Users -> Account \cup {NoRow}]
      /\ req \in [Clients -> Request]
      /\ \A d \in Clients : Held(req[d])
  BY DEF TypeOK
<1>k. KeysAreKeys
  BY HeldKeys
<1>e. ASSUME account' = account
      PROVE  \A u \in Users :
               account'[u] # NoRow => account[u] # NoRow /\ account[u].key <= account'[u].key
  BY <1>e, <1>k DEF KeysAreKeys
<1>1. ASSUME NEW c \in Clients, Submit(c) PROVE KeysArePast' /\ NothingRestored
  <2>1. account' = account /\ issued' = issued /\ sessions' = sessions /\ links' = links
    BY <1>1 DEF Submit, Register, VerifySubmit, Login, FindMfa, UpdateName, ChangePassword,
         UpdateMe, OpenProfile
  <2>2. \A d \in Clients : d # c => req'[d] = req[d]
    BY <1>1, <1>t DEF Submit, Register, VerifySubmit, Login, FindMfa, UpdateName, ChangePassword,
         UpdateMe, OpenProfile, Begin
  <2>3. \/ req'[c] = req[c]
        \/ req'[c].pc \in RowLoaded => KeyIsPast(req'[c].user, req'[c].row.key)
    <3>1. CASE FindMfa(c)
      <4>1. \/ req' = req
            \/ \E m \in MfaIds, o \in OtpIds :
                 req' = [req EXCEPT ![c] = [Idle EXCEPT !.pc = "findOtp", !.mfa = m, !.otp = o,
                           !.user = mfas[m].user, !.password = mfas[m].password]]
        BY <3>1 DEF FindMfa, Begin
      <4>2. req'[c] = req[c] \/ req'[c].pc = "findOtp"
        BY <4>1, <1>t DEF Idle
      <4>3. QED BY <4>2 DEF RowLoaded
    <3>2. CASE Register(c)
      BY <3>2, <1>t DEF Register, Begin, Idle, RowLoaded
    <3>3. CASE VerifySubmit(c)
      <4>1. PICK l \in links :
              /\ Accepted(l)
              /\ req' = [req EXCEPT ![c] = [Idle EXCEPT !.pc = "saveVerified", !.user = l.user,
                                                        !.row = account[l.user]]]
        BY <3>3 DEF VerifySubmit, Begin
      <4>2. req'[c].user = l.user /\ req'[c].row = account[l.user]
        BY <4>1, <1>t DEF Idle
      <4>3. l.user \in Users /\ account[l.user] # NoRow
        BY <4>1, <1>k DEF Accepted, KeysAreKeys
      <4>4. KeyIsPast(l.user, account[l.user].key)
        BY <4>3, <1>k DEF KeyIsPast, KeysArePast, KeysAreKeys
      <4>5. QED BY <4>2, <4>4
    <3>4. CASE Login(c)
      BY <3>4, <1>t DEF Login, Begin, Idle, RowLoaded
    <3>5. CASE UpdateName(c) \/ ChangePassword(c) \/ UpdateMe(c)
      <4>1. \E s \in sessions, name \in Names \cup {NoRow}, new \in Passwords \cup {NoRow} :
              req' = [req EXCEPT ![c] = [Idle EXCEPT !.pc = "findProfile", !.user = s.user,
                                                     !.name = name, !.password = new]]
        BY <3>5, ProfileOpened
      <4>2. req'[c].pc = "findProfile"
        BY <4>1, <1>t DEF Idle
      <4>3. QED BY <4>2 DEF RowLoaded
    <3>6. QED BY <1>1, <3>1, <3>2, <3>3, <3>4, <3>5 DEF Submit
  <2>4. KeysKept
    BY <2>1, <2>2, <2>3, <1>e DEF KeysKept
  <2>5. QED BY <2>4, KeysKeptStep
<1>2. ASSUME NEW c \in Clients, Step(c) PROVE KeysArePast' /\ NothingRestored
  <2> DEFINE u == req[c].user
  <2>1. CASE InsertAccount(c)
    BY <2>1, InsertAccountKeys
  <2>2. CASE SendLink(c) \/ DeleteOtp(c)
    <3>1. KeyIsPast(u, req[c].row.key)
      BY <2>2 DEF SendLink, DeleteOtp, At, RowLoaded, KeysArePast
    <3>2. \A t \in sessions' \cup links' :
            t \in sessions \cup links \/ (t.user = u /\ t.key = req[c].row.key)
      BY <2>2 DEF SendLink, DeleteOtp, IssueToken
    <3>3. req'[c] = Idle /\ \A d \in Clients : d # c => req'[d] = req[d]
      BY <2>2, <1>t DEF SendLink, DeleteOtp, Return
    <3>4. KeysKept
      BY <2>2, <3>1, <3>2, <3>3, <1>e DEF SendLink, DeleteOtp, KeysKept, Idle, RowLoaded
    <3>5. QED BY <3>4, KeysKeptStep
  <2>3. CASE SaveVerified(c)
    <3>1. u \in Users
      BY <2>3, <1>t DEF SaveVerified, At, Held
    <3>2. \A x \in Users :
            account'[x] # NoRow => account[x] # NoRow /\ account[x].key <= account'[x].key
      BY <2>3, <3>1, SetVerifiedKeys DEF SaveVerified
    <3>3. req'[c] = Idle /\ \A d \in Clients : d # c => req'[d] = req[d]
      BY <2>3, <1>t DEF SaveVerified, Return
    <3>4. KeysKept
      BY <2>3, <3>2, <3>3 DEF SaveVerified, KeysKept, Idle, RowLoaded
    <3>5. QED BY <3>4, KeysKeptStep
  <2>4. CASE SaveLogin(c) \/ DeleteMfa(c)
    <3>1. u \in Users /\ KeyIsPast(u, req[c].row.key)
      BY <2>4, <1>t DEF SaveLogin, DeleteMfa, At, Held, RowLoaded, KeysArePast
    <3>2. \A x \in Users :
            account'[x] # NoRow => account[x] # NoRow /\ account[x].key <= account'[x].key
      BY <2>4, <3>1, SetVerifiedKeys, <1>e DEF SaveLogin, DeleteMfa
    <3>3. req'[c].user = u /\ req'[c].row = req[c].row
      BY <2>4, <1>t DEF SaveLogin, DeleteMfa, GoOn, Request
    <3>4. \A d \in Clients : d # c => req'[d] = req[d]
      BY <2>4, <1>t DEF SaveLogin, DeleteMfa, GoOn
    <3>5. KeysKept
      BY <2>4, <3>1, <3>2, <3>3, <3>4 DEF SaveLogin, DeleteMfa, KeysKept
    <3>6. QED BY <3>5, KeysKeptStep
  <2>5. CASE FindUser(c) \/ FindProfile(c)
    <3>1. u \in Users /\ account[u] # NoRow
      BY <2>5, <1>t DEF FindUser, FindProfile, At, Held
    <3>2. KeyIsPast(u, account[u].key)
      BY <3>1, <1>k DEF KeyIsPast, KeysArePast, KeysAreKeys
    <3>3. req'[c].user = u /\ req'[c].row = account[u]
      BY <2>5, <1>t DEF FindUser, FindProfile, Request
    <3>4. \A d \in Clients : d # c => req'[d] = req[d]
      BY <2>5, <1>t DEF FindUser, FindProfile
    <3>5. KeysKept
      BY <2>5, <3>2, <3>3, <3>4, <1>e DEF FindUser, FindProfile, KeysKept
    <3>6. QED BY <3>5, KeysKeptStep
  <2>6. CASE SavePassword(c)
    <3>1. u \in Users
      BY <2>6, <1>t DEF SavePassword, At, Held
    <3>2. \A x \in Users : x # u => account'[x] = account[x]
      BY <2>6, <1>t, <3>1 DEF SavePassword
    <3>3. ASSUME account'[u] # NoRow
          PROVE  account[u] # NoRow /\ account[u].key <= account'[u].key
      <4>1. account[u] # NoRow
        BY <3>3, <2>6, <1>t, <3>1 DEF SavePassword
      <4>2. account'[u] = [account[u] EXCEPT !.name = NameColumn(c),
                                             !.password = req[c].password,
                                             !.key = account[u].key + 1]
        BY <4>1, <2>6, <1>t, <3>1 DEF SavePassword
      <4>3. account[u] \in Account /\ account[u].key \in Int
        BY <4>1, <1>t, <1>k, <3>1 DEF KeysAreKeys
      <4>4. account'[u].key = account[u].key + 1
        BY <4>2, <4>3 DEF Account
      <4>5. QED BY <4>1, <4>3, <4>4
    <3>4. \A x \in Users :
            account'[x] # NoRow => account[x] # NoRow /\ account[x].key <= account'[x].key
      BY <3>2, <3>3, <1>k DEF KeysAreKeys
    <3>5. req'[c].pc \notin RowLoaded /\ \A d \in Clients : d # c => req'[d] = req[d]
      BY <2>6, <1>t DEF SavePassword, GoOn, RowLoaded, Request
    <3>6. KeysKept
      BY <2>6, <3>4, <3>5 DEF SavePassword, KeysKept
    <3>7. QED BY <3>6, KeysKeptStep
  <2>9. CASE SaveName(c)
    <3>1. u \in Users
      BY <2>9, <1>t DEF SaveName, At, Held
    <3>2. \A x \in Users :
            account'[x] # NoRow => account[x] # NoRow /\ account[x].key <= account'[x].key
      <4>1. \A n : \A a \in Account : [a EXCEPT !.name = n].key = a.key /\ a.key \in Int
        BY DEF Account, Keys
      <4>2. QED BY <2>9, <1>t, <1>k, <3>1, <4>1 DEF SaveName, KeysAreKeys
    <3>3. req'[c] = Idle /\ \A d \in Clients : d # c => req'[d] = req[d]
      BY <2>9, <1>t DEF SaveName, Return
    <3>4. KeysKept
      BY <2>9, <3>2, <3>3 DEF SaveName, KeysKept, Idle, RowLoaded
    <3>5. QED BY <3>4, KeysKeptStep
  <2>7. CASE \/ ValidateMfa(c) \/ InsertMfa(c) \/ ValidateOtp(c) \/ InsertOtp(c) \/ SendOtp(c)
             \/ RefuseOtp(c) \/ DropExpiredOtp(c) \/ FindOtp(c) \/ DropMfas(c) \/ CallFails(c)
    <3>1. req'[c].pc \notin RowLoaded
      BY <2>7, <1>t DEF ValidateMfa, InsertMfa, ValidateOtp, ValidateRef, InsertOtp, SendOtp,
         RefuseOtp, DropExpiredOtp, FindOtp, DropMfas, CallFails, Fails, Return, GoOn, Idle,
         RowLoaded, Request
    <3>2. \A d \in Clients : d # c => req'[d] = req[d]
      BY <2>7, <1>t DEF ValidateMfa, InsertMfa, ValidateOtp, ValidateRef, InsertOtp, SendOtp,
         RefuseOtp, DropExpiredOtp, FindOtp, DropMfas, CallFails, Fails, Return, GoOn
    <3>3. account' = account /\ issued \subseteq issued' /\ sessions' = sessions /\ links' = links
      BY <2>7 DEF ValidateMfa, InsertMfa, ValidateOtp, ValidateRef, InsertOtp, SendOtp,
         RefuseOtp, DropExpiredOtp, FindOtp, DropMfas, CallFails, Fails
    <3>4. KeysKept
      BY <3>1, <3>2, <3>3, <1>e DEF KeysKept
    <3>5. QED BY <3>4, KeysKeptStep
  <2>8. QED BY <1>2, <2>1, <2>2, <2>3, <2>4, <2>5, <2>6, <2>7, <2>9 DEF Step
<1>3. ASSUME NEW u \in Users, DeleteAccount(u) PROVE KeysArePast' /\ NothingRestored
  <2>1. \A x \in Users : account'[x] # NoRow => account'[x] = account[x]
    BY <1>3, <1>t DEF DeleteAccount
  <2>2. KeysKept
    BY <1>3, <2>1, <1>k DEF DeleteAccount, KeysKept, KeysAreKeys
  <2>3. QED BY <2>2, KeysKeptStep
<1>4. CASE Expire \/ UNCHANGED vars
  <2>1. KeysKept
    BY <1>4, <1>e DEF Expire, vars, KeysKept
  <2>2. QED BY <2>1, KeysKeptStep
<1>5. QED BY <1>1, <1>2, <1>3, <1>4 DEF Next

\* A changed password ends the sessions and links of the account for good: no
\* login, verification or other password change that is under way with an
\* older copy of the record makes one of them valid again.
THEOREM RevokedForGood == Spec => RevokedStaysRevoked
<1>1. Init => TypeOK /\ KeysArePast
  BY InitType, InitKeys
<1>2. (TypeOK /\ KeysArePast) /\ [Next]_vars => (TypeOK /\ KeysArePast)' /\ NothingRestored
  BY TypeStep, KeyStep
<1>3. NothingRestored =>
        [\A token \in sessions \cup links : ~Accepted(token) => ~Accepted(token)']_vars
  BY DEF NothingRestored
<1>4. QED BY <1>1, <1>2, <1>3, PTL DEF Spec, RevokedStaysRevoked

-----------------------------------------------------------------------------
(***************************************************************************)
(* The life of an account.                                                 *)
(***************************************************************************)
AccountVars == <<Present, Verified, UsedIds>>

\* A step that changes at most names, passwords and keys of accounts.
LEMMA AccountsUntouched ==
    ASSUME \A x \in Users : (account'[x] # NoRow) <=> (account[x] # NoRow),
           \A x \in Users : account[x] # NoRow => account'[x].verified = account[x].verified,
           issued' \cap Users = issued \cap Users
    PROVE  UNCHANGED AccountVars
<1>1. Present' = Present
  BY DEF Present
<1>2. Verified' = Verified
  BY <1>1 DEF Verified, Present
<1>3. UsedIds' = UsedIds
  BY DEF UsedIds
<1>4. QED BY <1>1, <1>2, <1>3 DEF AccountVars

\* Saving the verified flag verifies an account that exists, or does nothing.
LEMMA SetVerifiedIsVerify ==
    ASSUME TypeOK, NEW c \in Clients, req[c].user \in Users, SetVerified(c), issued' = issued
    PROVE  AccountsLife!Verify(req[c].user) \/ UNCHANGED AccountVars
<1> DEFINE u == req[c].user
<1>1. account \in [Users -> Account \cup {NoRow}]
  BY DEF TypeOK
<1>2. CASE account[u] = NoRow
  <2>1. account' = account
    BY <1>1, <1>2 DEF SetVerified
  <2>2. QED BY <2>1, AccountsUntouched
<1>3. CASE account[u] # NoRow
  <2>1. account' = [account EXCEPT ![u] = [account[u] EXCEPT !.verified = TRUE]]
    BY <1>1, <1>3 DEF SetVerified
  <2>2. account[u] \in Account
    BY <1>1, <1>3
  <2>3. [account[u] EXCEPT !.verified = TRUE] \in Account
    BY <2>2 DEF Account
  <2>4. account'[u] \in Account /\ account'[u].verified = TRUE
    BY <1>1, <2>1, <2>2, <2>3 DEF Account
  <2>5. \A x \in Users : x # u => account'[x] = account[x]
    BY <1>1, <2>1
  <2>6. u \in Present /\ Present' = Present
    BY <1>3, <2>4, <2>5, NoRowIsNoAccount DEF Present
  <2>7. Verified' = Verified \cup {u}
    BY <2>4, <2>5, <2>6 DEF Verified, Present
  <2>8. QED BY <2>6, <2>7 DEF AccountsLife!Verify, UsedIds
<1>4. QED BY <1>2, <1>3

\* A new account: its id was not used, and it is not verified.
LEMMA InsertAccountIsRegister ==
    ASSUME TypeOK, KeysArePast, NEW c \in Clients, InsertAccount(c)
    PROVE  req[c].user \in Users /\ AccountsLife!Register(req[c].user)
<1> DEFINE u == req[c].user
           row == [name |-> req[c].name, password |-> req[c].password,
                   verified |-> FALSE, key |-> 0]
<1>1. account \in [Users -> Account \cup {NoRow}] /\ Held(req[c]) /\ req[c] \in Request
  BY DEF TypeOK
<1>2. u \in Users /\ row \in Account
  BY <1>1 DEF InsertAccount, At, Held, Account, Keys
<1>3. u \notin issued /\ issued' = issued \cup {u} /\ account' = [account EXCEPT ![u] = row]
  BY DEF InsertAccount
<1>4. account[u] = NoRow
  BY <1>2, <1>3 DEF KeysArePast
<1>5. account'[u] = row /\ row.verified = FALSE /\ \A x \in Users : x # u => account'[x] = account[x]
  BY <1>1, <1>2, <1>3
<1>6. row # NoRow
  BY <1>2, NoRowIsNoAccount
<1>7. Present' = Present \cup {u}
  BY <1>2, <1>5, <1>6 DEF Present
<1>8. Verified' = Verified
  BY <1>2, <1>4, <1>5, <1>7 DEF Verified, Present
<1>9. u \notin UsedIds /\ UsedIds' = UsedIds \cup {u}
  BY <1>2, <1>3 DEF UsedIds
<1>10. QED BY <1>2, <1>7, <1>8, <1>9 DEF AccountsLife!Register

\* A save of a name or a password keeps the account where it is.
LEMMA SaveProfileKeepsAccount ==
    ASSUME TypeOK, NEW c \in Clients, SaveName(c) \/ SavePassword(c)
    PROVE  UNCHANGED AccountVars
<1> DEFINE u == req[c].user
<1>1. /\ account \in [Users -> Account \cup {NoRow}]
      /\ u \in Users
  BY DEF TypeOK, SaveName, SavePassword, At, Held
<1>2. issued' = issued
  BY DEF SaveName, SavePassword
<1>3. CASE account[u] = NoRow
  <2>1. account' = account
    BY <1>1, <1>3 DEF SaveName, SavePassword
  <2>2. QED BY <1>2, <2>1, AccountsUntouched
<1>4. CASE account[u] # NoRow
  <2> DEFINE named == [account[u] EXCEPT !.name = NameColumn(c)]
             saved == [account[u] EXCEPT !.name = NameColumn(c), !.password = req[c].password,
                                         !.key = account[u].key + 1]
  <2>1. account[u] \in Account
    BY <1>1, <1>4
  <2>2. \/ account' = [account EXCEPT ![u] = named]
        \/ account' = [account EXCEPT ![u] = saved]
    BY <1>1, <1>4 DEF SaveName, SavePassword
  <2>8. NameColumn(c) \in Names /\ named \in Account
    BY <2>1, NameColumnType DEF Account
  <2>9. SavePassword(c) => req[c].password \in Passwords
    BY DEF SavePassword, At, TypeOK, Held
  <2>10. SavePassword(c) => saved \in Account
    <3>1. SavePassword(c) => account[u].key + 1 \in Keys
      BY <2>1, <1>4 DEF SavePassword, Account, Keys
    <3>2. QED BY <2>1, <2>8, <2>9, <3>1 DEF Account
  <2>3. named.verified = account[u].verified /\ saved.verified = account[u].verified
    BY <2>1 DEF Account
  <2>4. account'[u].verified = account[u].verified
    BY <1>1, <2>2, <2>3
  <2>5. account'[u] # NoRow
    <3>1. CASE SaveName(c)
      <4>1. account'[u] = named
        BY <1>1, <1>4, <3>1 DEF SaveName
      <4>2. QED BY <4>1, <2>8, NoRowIsNoAccount
    <3>2. CASE SavePassword(c)
      <4>1. account'[u] = saved
        BY <1>1, <1>4, <3>2 DEF SavePassword
      <4>2. QED BY <4>1, <2>10, <3>2, NoRowIsNoAccount
    <3>3. QED BY <3>1, <3>2
  <2>6. \A x \in Users : x # u => account'[x] = account[x]
    BY <1>1, <2>2
  <2>7. QED BY <1>1, <1>2, <1>4, <2>4, <2>5, <2>6, AccountsUntouched
<1>5. QED BY <1>3, <1>4

\* Every step of sign-in is a step of the abstract life of one account, or
\* leaves all of them alone.
LEMMA AccountsStep ==
    ASSUME TypeOK, KeysArePast, [Next]_vars
    PROVE  [AccountsLife!Next]_AccountVars
<1>t. /\ account \in [Users -> Account \cup {NoRow}]
      /\ \A d \in Clients : Held(req[d])
  BY DEF TypeOK
<1>1. ASSUME NEW c \in Clients, Submit(c) PROVE UNCHANGED AccountVars
  <2>1. account' = account /\ issued' = issued
    BY <1>1 DEF Submit, Register, VerifySubmit, Login, FindMfa, UpdateName, ChangePassword,
       UpdateMe, OpenProfile
  <2>2. QED BY <2>1, AccountsUntouched
<1>2. ASSUME NEW c \in Clients, Step(c) PROVE AccountsLife!Next \/ UNCHANGED AccountVars
  <2>1. CASE InsertAccount(c)
    BY <2>1, InsertAccountIsRegister DEF AccountsLife!Next
  <2>2. CASE SaveVerified(c) \/ SaveLogin(c)
    <3>1. req[c].user \in Users /\ issued' = issued /\ (SetVerified(c) \/ account' = account)
      BY <2>2, <1>t DEF SaveVerified, SaveLogin, At, Held
    <3>2. CASE SetVerified(c)
      BY <3>1, <3>2, SetVerifiedIsVerify DEF AccountsLife!Next
    <3>3. CASE account' = account
      BY <3>1, <3>3, AccountsUntouched
    <3>4. QED BY <3>1, <3>2, <3>3
  <2>3. CASE SaveName(c) \/ SavePassword(c)
    BY <2>3, SaveProfileKeepsAccount
  <2>4. CASE InsertMfa(c) \/ InsertOtp(c)
    <3>1. account' = account /\ \E id \in MfaIds \cup OtpIds : issued' = issued \cup {id}
      BY <2>4 DEF InsertMfa, InsertOtp
    <3>2. issued' \cap Users = issued \cap Users
      BY <3>1, UsersAreNoRows
    <3>3. QED BY <3>1, <3>2, AccountsUntouched
  <2>5. CASE \/ SendLink(c) \/ ValidateMfa(c) \/ ValidateOtp(c) \/ SendOtp(c) \/ RefuseOtp(c)
             \/ DropExpiredOtp(c) \/ FindOtp(c) \/ FindUser(c) \/ DeleteMfa(c) \/ DeleteOtp(c)
             \/ FindProfile(c) \/ DropMfas(c) \/ CallFails(c)
    <3>1. account' = account /\ issued' = issued
      BY <2>5 DEF SendLink, ValidateMfa, ValidateOtp, ValidateRef, SendOtp, RefuseOtp,
         DropExpiredOtp, FindOtp, FindUser, DeleteMfa, DeleteOtp, FindProfile, DropMfas,
         CallFails, Fails
    <3>2. QED BY <3>1, AccountsUntouched
  <2>6. QED BY <1>2, <2>1, <2>2, <2>3, <2>4, <2>5 DEF Step
<1>3. ASSUME NEW u \in Users, DeleteAccount(u) PROVE AccountsLife!Next
  <2>1. /\ account[u] # NoRow /\ account'[u] = NoRow /\ issued' = issued
        /\ \A x \in Users : x # u => account'[x] = account[x]
    BY <1>3, <1>t DEF DeleteAccount
  <2>2. u \in Present /\ Present' = Present \ {u}
    BY <2>1 DEF Present
  <2>3. Verified' = Verified \ {u}
    BY <2>1, <2>2 DEF Verified, Present
  <2>4. AccountsLife!Delete(u)
    BY <2>1, <2>2, <2>3 DEF AccountsLife!Delete, UsedIds
  <2>5. QED BY <2>4 DEF AccountsLife!Next
<1>4. CASE Expire \/ UNCHANGED vars
  <2>1. account' = account /\ issued' = issued
    BY <1>4 DEF Expire, vars
  <2>2. QED BY <2>1, AccountsUntouched
<1>5. QED BY <1>1, <1>2, <1>3, <1>4 DEF Next

\* Whatever requests overlap and whatever saves fail, an account is registered
\* once and unverified, stays verified once it is, and is gone for good when it
\* is deleted: no save of a record in memory brings it back.
THEOREM AccountsRefined == Spec => ImplementsAccounts
<1>1. Init => TypeOK /\ KeysArePast
  BY InitType, InitKeys
<1>2. (TypeOK /\ KeysArePast) /\ [Next]_vars => (TypeOK /\ KeysArePast)'
  BY TypeStep, KeyStep
<1>3. Init => AccountsLife!Init
  BY DEF Init, AccountsLife!Init, Present, Verified, UsedIds
<1>4. (TypeOK /\ KeysArePast) /\ [Next]_vars =>
        [AccountsLife!Next]_<<Present, Verified, UsedIds>>
  BY AccountsStep DEF AccountVars
<1>5. QED BY <1>1, <1>2, <1>3, <1>4, PTL DEF Spec, ImplementsAccounts, AccountsLife!Spec

-----------------------------------------------------------------------------
(***************************************************************************)
(* Verification.                                                           *)
(***************************************************************************)
Mailed(u) == (\E l \in links : l.user = u) \/ (\E o \in OtpIds : mailed[o] = u)

\* A request that is about to verify an account was opened with its link.
VerifiersHaveLink ==
    \A c \in Clients : At(c, "saveVerified") => \E l \in links : l.user = req[c].user

\* Only a verification and a login with a code make an account verified.
LEMMA WhoVerifies ==
    ASSUME TypeOK, KeysArePast, [Next]_vars, NEW x \in Verified', x \notin Verified
    PROVE  \E c \in Clients : (At(c, "saveVerified") \/ At(c, "saveLogin")) /\ x = req[c].user
<1>1. ASSUME Verified' = Verified PROVE FALSE
  BY <1>1
<1>2. ASSUME UNCHANGED AccountVars PROVE FALSE
  BY <1>1, <1>2 DEF AccountVars
<1>3. ASSUME account' = account PROVE FALSE
  BY <1>1, <1>3 DEF Verified, Present
<1>4. CASE \E c \in Clients : Submit(c)
  BY <1>3, <1>4 DEF Submit, Register, VerifySubmit, Login, FindMfa, UpdateName, ChangePassword,
     UpdateMe, OpenProfile
<1>5. ASSUME NEW c \in Clients, Step(c)
      PROVE  (At(c, "saveVerified") \/ At(c, "saveLogin")) /\ x = req[c].user
  <2>1. CASE InsertAccount(c)
    BY <2>1, <1>1, InsertAccountIsRegister DEF AccountsLife!Register
  <2>2. CASE SaveVerified(c) \/ SaveLogin(c)
    <3>1. SetVerified(c) /\ issued' = issued /\ req[c].user \in Users
      BY <2>2, <1>3 DEF SaveVerified, SaveLogin, TypeOK, At, Held
    <3>2. Verified' = Verified \cup {req[c].user}
      BY <3>1, <1>2, SetVerifiedIsVerify DEF AccountsLife!Verify
    <3>3. QED BY <2>2, <3>2 DEF SaveVerified, SaveLogin
  <2>3. CASE SaveName(c) \/ SavePassword(c)
    BY <2>3, <1>2, SaveProfileKeepsAccount
  <2>4. CASE \/ SendLink(c) \/ ValidateMfa(c) \/ InsertMfa(c) \/ ValidateOtp(c) \/ InsertOtp(c)
             \/ SendOtp(c) \/ RefuseOtp(c) \/ DropExpiredOtp(c) \/ FindOtp(c) \/ FindUser(c)
             \/ DeleteMfa(c) \/ DeleteOtp(c) \/ FindProfile(c) \/ DropMfas(c) \/ CallFails(c)
    BY <2>4, <1>3 DEF SendLink, ValidateMfa, InsertMfa, ValidateOtp, ValidateRef, InsertOtp,
       SendOtp, RefuseOtp, DropExpiredOtp, FindOtp, FindUser, DeleteMfa, DeleteOtp, FindProfile,
       DropMfas, CallFails, Fails
  <2>5. QED BY <1>5, <2>1, <2>2, <2>3, <2>4 DEF Step
<1>6. ASSUME NEW u \in Users, DeleteAccount(u) PROVE FALSE
  <2>1. \A y \in Users : account'[y] # NoRow => account'[y] = account[y] /\ account[y] # NoRow
    BY <1>6 DEF DeleteAccount, TypeOK
  <2>2. Verified' \subseteq Verified
    BY <2>1 DEF Verified, Present
  <2>3. QED BY <2>2
<1>7. CASE Expire \/ UNCHANGED vars
  BY <1>3, <1>7 DEF Expire, vars
<1>8. QED BY <1>4, <1>5, <1>6, <1>7 DEF Next

\* What has been mailed stays mailed: no code is mailed twice.
LEMMA MailedForGood ==
    ASSUME TypeOK, CodeInv, [Next]_vars, NEW u \in Users, Mailed(u)
    PROVE  Mailed(u)'
<1>1. ASSUME links \subseteq links', mailed' = mailed PROVE Mailed(u)'
  BY <1>1 DEF Mailed
<1>2. ASSUME NEW c \in Clients, Submit(c) PROVE Mailed(u)'
  BY <1>1, <1>2 DEF Submit, Register, VerifySubmit, Login, FindMfa, UpdateName, ChangePassword,
     UpdateMe, OpenProfile
<1>3. ASSUME NEW c \in Clients, Step(c) PROVE Mailed(u)'
  <2>1. CASE SendOtp(c)
    <3>1. /\ mailed \in [OtpIds -> Users \cup {NoRow}]
          /\ mailed' = [mailed EXCEPT ![req[c].otp] = req[c].user]
          /\ mailed[req[c].otp] = NoRow
          /\ links' = links
      BY <2>1 DEF SendOtp, TypeOK, CodeInv, SendersOwnTheirCode
    <3>2. \A o \in OtpIds : mailed[o] = u => mailed'[o] = u
      BY <3>1
    <3>3. QED BY <3>1, <3>2 DEF Mailed
  <2>2. CASE \/ InsertAccount(c) \/ SendLink(c) \/ SaveVerified(c) \/ ValidateMfa(c)
             \/ InsertMfa(c) \/ ValidateOtp(c) \/ InsertOtp(c) \/ RefuseOtp(c)
             \/ DropExpiredOtp(c) \/ FindOtp(c) \/ FindUser(c) \/ SaveLogin(c) \/ DeleteMfa(c)
             \/ DeleteOtp(c) \/ FindProfile(c) \/ SaveName(c) \/ SavePassword(c)
             \/ DropMfas(c) \/ CallFails(c)
    <3>1. links \subseteq links' /\ mailed' = mailed
      BY <2>2 DEF InsertAccount, SendLink, SaveVerified, ValidateMfa, InsertMfa, ValidateOtp,
         ValidateRef, InsertOtp, RefuseOtp, DropExpiredOtp, FindOtp, FindUser, SaveLogin,
         DeleteMfa, DeleteOtp, FindProfile, SaveName, SavePassword, DropMfas, CallFails, Fails
    <3>2. QED BY <3>1, <1>1
  <2>3. QED BY <1>3, <2>1, <2>2 DEF Step
<1>4. ASSUME NEW v \in Users, DeleteAccount(v) PROVE Mailed(u)'
  BY <1>1, <1>4 DEF DeleteAccount
<1>5. CASE Expire \/ UNCHANGED vars
  BY <1>1, <1>5 DEF Expire, vars
<1>6. QED BY <1>2, <1>3, <1>4, <1>5 DEF Next

LEMMA VerifiersStep ==
    ASSUME TypeOK, VerifiersHaveLink, [Next]_vars
    PROVE  VerifiersHaveLink'
<1>t. req \in [Clients -> Request]
  BY DEF TypeOK
<1>1. links \subseteq links'
  <2>1. \A c \in Clients : Step(c) => links \subseteq links'
    BY DEF Step, InsertAccount, SendLink, SaveVerified, ValidateMfa, InsertMfa, ValidateOtp,
       ValidateRef, InsertOtp, SendOtp, RefuseOtp, DropExpiredOtp, FindOtp, FindUser, SaveLogin,
       DeleteMfa, DeleteOtp, FindProfile, SaveName, SavePassword, DropMfas, CallFails, Fails
  <2>2. \A c \in Clients : Submit(c) => links' = links
    BY DEF Submit, Register, VerifySubmit, Login, FindMfa, UpdateName, ChangePassword, UpdateMe,
       OpenProfile
  <2>3. QED BY <2>1, <2>2 DEF Next, DeleteAccount, Expire, vars
<1>2. ASSUME NEW c \in Clients, \A d \in Clients : d # c => req'[d] = req[d],
             At(c, "saveVerified")' => \E l \in links : l.user = req'[c].user
      PROVE  VerifiersHaveLink'
  BY <1>1, <1>2 DEF VerifiersHaveLink, At
<1>3. ASSUME NEW c \in Clients, Submit(c) PROVE VerifiersHaveLink'
  <2>1. \A d \in Clients : d # c => req'[d] = req[d]
    BY <1>3, <1>t DEF Submit, Register, VerifySubmit, Login, FindMfa, UpdateName, ChangePassword,
       UpdateMe, OpenProfile, Begin
  <2>2. CASE VerifySubmit(c)
    <3>1. PICK l \in links :
            req' = [req EXCEPT ![c] = [Idle EXCEPT !.pc = "saveVerified", !.user = l.user,
                                                   !.row = account[l.user]]]
      BY <2>2 DEF VerifySubmit, Begin
    <3>2. req'[c].user = l.user
      BY <3>1, <1>t DEF Idle
    <3>3. QED BY <2>1, <3>2, <1>2
  <2>3. CASE FindMfa(c)
    <3>1. \/ req' = req
          \/ \E m \in MfaIds, o \in OtpIds :
               req' = [req EXCEPT ![c] = [Idle EXCEPT !.pc = "findOtp", !.mfa = m, !.otp = o,
                         !.user = mfas[m].user, !.password = mfas[m].password]]
      BY <2>3 DEF FindMfa, Begin
    <3>2. req'[c] = req[c] \/ req'[c].pc = "findOtp"
      BY <3>1, <1>t DEF Idle
    <3>3. QED BY <2>1, <3>2, <1>2 DEF VerifiersHaveLink, At
  <2>4. CASE Register(c) \/ Login(c)
    <3>1. req'[c].pc \in {"insertAccount", "validateMfa"}
      BY <2>4, <1>t DEF Register, Login, Begin, Idle
    <3>2. QED BY <2>1, <3>1, <1>2 DEF At
  <2>5. CASE UpdateName(c) \/ ChangePassword(c) \/ UpdateMe(c)
    <3>1. \E s \in sessions, name \in Names \cup {NoRow}, new \in Passwords \cup {NoRow} :
            req' = [req EXCEPT ![c] = [Idle EXCEPT !.pc = "findProfile", !.user = s.user,
                                                   !.name = name, !.password = new]]
      BY <2>5, ProfileOpened
    <3>2. req'[c].pc = "findProfile"
      BY <3>1, <1>t DEF Idle
    <3>3. QED BY <2>1, <3>2, <1>2 DEF At
  <2>6. QED BY <1>3, <2>2, <2>3, <2>4, <2>5 DEF Submit
<1>4. ASSUME NEW c \in Clients, Step(c) PROVE VerifiersHaveLink'
  <2>1. \A d \in Clients : d # c => req'[d] = req[d]
    BY <1>4, <1>t DEF Step, InsertAccount, SendLink, SaveVerified, ValidateMfa, InsertMfa,
       ValidateOtp, ValidateRef, InsertOtp, SendOtp, RefuseOtp, DropExpiredOtp, FindOtp, FindUser,
       SaveLogin, DeleteMfa, DeleteOtp, FindProfile, SaveName, SavePassword, DropMfas, CallFails,
       Fails, GoOn, Return
  <2>2. req'[c].pc # "saveVerified"
    BY <1>4, <1>t DEF Step, InsertAccount, SendLink, SaveVerified, ValidateMfa, InsertMfa,
       ValidateOtp, ValidateRef, InsertOtp, SendOtp, RefuseOtp, DropExpiredOtp, FindOtp, FindUser,
       SaveLogin, DeleteMfa, DeleteOtp, FindProfile, SaveName, SavePassword, DropMfas, CallFails,
       Fails, GoOn, Return, Idle, Request
  <2>3. QED BY <2>1, <2>2, <1>2 DEF At
<1>5. CASE (\E u \in Users : DeleteAccount(u)) \/ Expire \/ UNCHANGED vars
  <2>1. req' = req
    BY <1>5 DEF DeleteAccount, Expire, vars
  <2>2. QED BY <1>1, <2>1 DEF VerifiersHaveLink, At
<1>6. QED BY <1>3, <1>4, <1>5 DEF Next

\* Nobody has an account verified without having read a mail that was sent to
\* its address: neither registering nor the code of another user does it.
THEOREM VerifiedOnlyByMail == Spec => []VerifiedByMail
<1> DEFINE Inv == IInv /\ VerifiersHaveLink /\ VerifiedByMail
<1>1. Init => Inv
  <2>1. Init => IInv
    BY InitType, InitCodes, InitKeys DEF IInv
  <2>2. Init => VerifiersHaveLink /\ VerifiedByMail
    BY DEF Init, VerifiersHaveLink, VerifiedByMail, At, Idle
  <2>3. QED BY <2>1, <2>2
<1>2. Inv /\ [Next]_vars => Inv'
  <2>1. SUFFICES ASSUME Inv, [Next]_vars PROVE Inv'
    OBVIOUS
  <2>2. TypeOK /\ CodeInv /\ KeysArePast
    BY <2>1 DEF IInv
  <2>3. IInv'
    BY <2>1, TypeStep, CodeStep, KeyStep DEF IInv
  <2>4. VerifiersHaveLink'
    BY <2>1, <2>2, VerifiersStep
  <2>5. ASSUME NEW u \in Verified' PROVE Mailed(u)'
    <3>1. u \in Users
      BY <2>5 DEF Verified, Present
    <3>2. CASE u \in Verified
      <4>1. Mailed(u)
        BY <2>1, <3>2 DEF VerifiedByMail, Mailed, Verified, Present
      <4>2. QED BY <4>1, <3>1, <2>1, <2>2, MailedForGood
    <3>3. CASE u \notin Verified
      <4>1. PICK c \in Clients :
              (At(c, "saveVerified") \/ At(c, "saveLogin")) /\ u = req[c].user
        BY <3>3, <2>1, <2>2, <2>5, WhoVerifies
      <4>2. CASE At(c, "saveVerified")
        BY <4>1, <4>2, <2>1, <2>2, <3>1, MailedForGood DEF VerifiersHaveLink, Mailed
      <4>3. CASE At(c, "saveLogin")
        <5>1. req[c].otp \in OtpIds /\ mailed[req[c].otp] = u
          BY <4>1, <4>3, <2>2 DEF TypeOK, Held, At, CodeInv, AcceptedCodesAreOwn, CodeAccepted
        <5>2. QED BY <5>1, <2>1, <2>2, <3>1, MailedForGood DEF Mailed
      <4>4. QED BY <4>1, <4>2, <4>3
    <3>4. QED BY <3>2, <3>3
  <2>6. VerifiedByMail'
    BY <2>5 DEF VerifiedByMail, Mailed, Verified, Present
  <2>7. QED BY <2>3, <2>4, <2>6
<1>3. QED BY <1>1, <1>2, PTL DEF Spec

\* The inductive invariant as a whole, which the signin run checks too.
THEOREM Invariant == Spec => []IInv
<1>1. Init => IInv
  BY InitType, InitCodes, InitKeys DEF IInv
<1>2. IInv /\ [Next]_vars => IInv'
  BY TypeStep, CodeStep, KeyStep DEF IInv
<1>3. QED BY <1>1, <1>2, PTL DEF Spec

-----------------------------------------------------------------------------
(***************************************************************************)
(* Saves that overlap.                                                     *)
(***************************************************************************)
\* The account u of a request c changes as NoLostProfileChange has it.
Keeps(u) ==
    account[u] # NoRow /\ account'[u] # NoRow =>
      /\ account[u].verified => account'[u].verified
      /\ \A f \in {"name", "password"} :
           \/ account'[u][f] = account[u][f]
           \/ \E c \in Clients : /\ req[c].pc \in {"saveName", "savePassword"}
                                 /\ req[c].user = u
                                 /\ account'[u][f] = req[c][f]

\* The verified flag is saved alone.
LEMMA SetVerifiedKeeps ==
    ASSUME TypeOK, NEW c \in Clients, req[c].user \in Users, SetVerified(c), NEW u \in Users
    PROVE  Keeps(u)
<1>1. account \in [Users -> Account \cup {NoRow}]
  BY DEF TypeOK
<1>2. CASE u # req[c].user \/ account[u] = NoRow
  <2>1. account'[u] = account[u]
    BY <1>1, <1>2 DEF SetVerified
  <2>2. QED BY <2>1 DEF Keeps
<1>3. CASE u = req[c].user /\ account[u] # NoRow
  <2>1. account'[u] = [account[u] EXCEPT !.verified = TRUE] /\ account[u] \in Account
    BY <1>1, <1>3 DEF SetVerified
  <2>2. /\ account'[u].verified = TRUE
        /\ account'[u].name = account[u].name
        /\ account'[u].password = account[u].password
    BY <2>1 DEF Account
  <2>3. QED BY <2>2 DEF Keeps
<1>4. QED BY <1>2, <1>3

\* A save of a profile writes the columns that its request asked for.
LEMMA SaveProfileKeeps ==
    ASSUME TypeOK, NEW c \in Clients, SaveName(c) \/ SavePassword(c), NEW u \in Users
    PROVE  Keeps(u)
<1>1. /\ account \in [Users -> Account \cup {NoRow}]
      /\ req[c].user \in Users
      /\ req[c].pc \in {"saveName", "savePassword"}
  BY DEF TypeOK, SaveName, SavePassword, At, Held
<1>2. CASE u # req[c].user \/ account[u] = NoRow
  <2>1. account'[u] = account[u]
    BY <1>1, <1>2 DEF SaveName, SavePassword
  <2>2. QED BY <2>1 DEF Keeps
<1>3. CASE u = req[c].user /\ account[u] # NoRow
  <2> DEFINE named == [account[u] EXCEPT !.name = NameColumn(c)]
             saved == [account[u] EXCEPT !.name = NameColumn(c), !.password = req[c].password,
                                         !.key = account[u].key + 1]
  <2>1. account[u] \in Account
    BY <1>1, <1>3
  <2>2. SaveName(c) => account'[u] = named
    BY <1>1, <1>3 DEF SaveName
  <2>3. SavePassword(c) => account'[u] = saved
    BY <1>1, <1>3 DEF SavePassword
  <2>4. /\ named.verified = account[u].verified
        /\ named.name = NameColumn(c)
        /\ named.password = account[u].password
    BY <2>1 DEF Account
  <2>5. /\ saved.verified = account[u].verified
        /\ saved.name = NameColumn(c)
        /\ saved.password = req[c].password
    BY <2>1 DEF Account
  <2>6. NameColumn(c) \in {account[u].name, req[c].name}
    BY <1>3 DEF NameColumn
  <2> HIDE DEF named, saved
  <2>7. /\ account'[u].verified = account[u].verified
        /\ account'[u].name \in {account[u].name, req[c].name}
        /\ account'[u].password \in {account[u].password, req[c].password}
    BY <2>2, <2>3, <2>4, <2>5, <2>6
  <2>8. QED BY <1>1, <1>3, <2>7 DEF Keeps
<1>4. QED BY <1>2, <1>3

LEMMA ProfileStep ==
    ASSUME TypeOK, KeysArePast, [Next]_vars, NEW u \in Users
    PROVE  Keeps(u)
<1>t. /\ account \in [Users -> Account \cup {NoRow}]
      /\ \A d \in Clients : Held(req[d])
  BY DEF TypeOK
<1>u. account'[u] = account[u] \/ account[u] = NoRow \/ account'[u] = NoRow => Keeps(u)
  BY DEF Keeps
<1>1. ASSUME NEW c \in Clients, Submit(c) PROVE Keeps(u)
  BY <1>1, <1>u DEF Submit, Register, VerifySubmit, Login, FindMfa, UpdateName, ChangePassword,
     UpdateMe, OpenProfile
<1>2. ASSUME NEW c \in Clients, Step(c) PROVE Keeps(u)
  <2>1. CASE InsertAccount(c)
    <3>1. req[c].user \in Users /\ account[req[c].user] = NoRow
      BY <2>1, <1>t DEF InsertAccount, At, Held, KeysArePast
    <3>2. u # req[c].user => account'[u] = account[u]
      BY <2>1, <1>t DEF InsertAccount
    <3>3. QED BY <3>1, <3>2, <1>u
  <2>2. CASE SaveVerified(c) \/ SaveLogin(c)
    <3>1. req[c].user \in Users /\ (SetVerified(c) \/ account' = account)
      BY <2>2, <1>t DEF SaveVerified, SaveLogin, At, Held
    <3>2. QED BY <3>1, <1>u, SetVerifiedKeeps
  <2>3. CASE SaveName(c) \/ SavePassword(c)
    BY <2>3, SaveProfileKeeps
  <2>4. CASE \/ InsertMfa(c) \/ InsertOtp(c)
             \/ SendLink(c) \/ ValidateMfa(c) \/ ValidateOtp(c) \/ SendOtp(c) \/ RefuseOtp(c)
             \/ DropExpiredOtp(c) \/ FindOtp(c) \/ FindUser(c) \/ DeleteMfa(c) \/ DeleteOtp(c)
             \/ FindProfile(c) \/ DropMfas(c) \/ CallFails(c)
    <3>1. account' = account
      BY <2>4 DEF InsertMfa, InsertOtp, SendLink, ValidateMfa, ValidateOtp, ValidateRef, SendOtp,
         RefuseOtp, DropExpiredOtp, FindOtp, FindUser, DeleteMfa, DeleteOtp, FindProfile,
         DropMfas, CallFails, Fails
    <3>2. QED BY <3>1, <1>u
  <2>5. QED BY <1>2, <2>1, <2>2, <2>3, <2>4 DEF Step
<1>3. ASSUME NEW x \in Users, DeleteAccount(x) PROVE Keeps(u)
  <2>1. account'[x] = NoRow /\ (u # x => account'[u] = account[u])
    BY <1>3, <1>t DEF DeleteAccount
  <2>2. QED BY <2>1, <1>u
<1>4. CASE Expire \/ UNCHANGED vars
  <2>1. account' = account
    BY <1>4 DEF Expire, vars
  <2>2. QED BY <2>1, <1>u
<1>5. QED BY <1>1, <1>2, <1>3, <1>4 DEF Next

\* Verifications, name and password changes of one account may overlap in any
\* way: each save leaves to the others what they have saved.
THEOREM ChangesKept == Spec => NoLostProfileChange
<1>1. TypeOK /\ KeysArePast /\ [Next]_vars =>
        [\A u \in Users :
           account[u] # NoRow /\ account'[u] # NoRow =>
             /\ account[u].verified => account'[u].verified
             /\ \A f \in {"name", "password"} :
                  \/ account'[u][f] = account[u][f]
                  \/ \E c \in Clients : /\ req[c].pc \in {"saveName", "savePassword"}
                                        /\ req[c].user = u
                                        /\ account'[u][f] = req[c][f]]_vars
  BY ProfileStep DEF Keeps
<1>2. IInv => TypeOK /\ KeysArePast
  BY DEF IInv
<1>3. QED BY <1>1, <1>2, Invariant, PTL DEF Spec, NoLostProfileChange

-----------------------------------------------------------------------------
(***************************************************************************)
(* Sessions follow the password.  Whoever is on the way to a session holds *)
(* the password that the account has, or will hold it for as long as the   *)
(* token key is the one loaded.  A password change makes both false for a  *)
(* login that has already found the right password, or an MFA row, and has *)
(* not loaded the account yet: that is the overlap to exclude.             *)
(***************************************************************************)

OneClient == \A c, d \in Clients : c = d

LoggingIn == {"validateMfa", "insertMfa", "findOtp", "findUser"}
Bearers   == {"sendLink", "saveLogin", "deleteMfa", "deleteOtp"}

HasPassword(u, password) == account[u] # NoRow => password = account[u].password

\* ... as long as the account has that key.
HasKeyed(u, key, password) == account[u] # NoRow /\ account[u].key = key => password = account[u].password

Knows(q) ==
    /\ q.pc \in LoggingIn => q.user \in issued /\ HasPassword(q.user, q.password)
    /\ q.pc \in Bearers => HasKeyed(q.user, q.row.key, q.password)

Dropping(u) == \E d \in Clients : At(d, "dropMfas") /\ req[d].user = u

Current(row) ==
    /\ row.user \in issued
    /\ HasPassword(row.user, row.password) \/ Dropping(row.user)

PasswordInv ==
    /\ SessionsFollowPassword
    /\ \A c \in Clients : Knows(req[c])
    /\ \A m \in MfaIds : mfas[m] # NoRow => Current(mfas[m])

\* A step that changes no password and no key, and after which new sessions,
\* MFA rows and requests have the right ones.
PasswordsKept ==
    /\ \A u \in Users : account'[u] # NoRow =>
         /\ account[u] # NoRow
         /\ account'[u].password = account[u].password
         /\ account'[u].key = account[u].key
    /\ issued \subseteq issued'
    /\ \A s \in sessions' : s \in sessions \/ HasKeyed(s.user, s.key, s.password)
    /\ \A m \in MfaIds : mfas'[m] # NoRow =>
         \/ /\ mfas[m] # NoRow
            /\ mfas'[m].user = mfas[m].user
            /\ mfas'[m].password = mfas[m].password
         \/ /\ mfas'[m].user \in issued
            /\ HasPassword(mfas'[m].user, mfas'[m].password)
    /\ \A d \in Clients : req'[d] = req[d] \/ (~At(d, "dropMfas") /\ Knows(req'[d]))

\* Where passwords are held, they are those of users.
UserHolders ==
    /\ \A s \in sessions : s.user \in Users
    /\ \A m \in MfaIds : mfas[m] # NoRow => mfas[m].user \in Users
    /\ \A d \in Clients : req[d].pc # "idle" => req[d].user \in Users

LEMMA HoldersAreUsers == TypeOK => UserHolders
BY DEF TypeOK, Session, Mfa, Held, UserHolders

LEMMA PasswordsKeptStep ==
    ASSUME TypeOK, TypeOK', PasswordInv, PasswordsKept
    PROVE  PasswordInv'
<1>u. /\ \A s \in sessions' : s.user \in Users
      /\ \A m \in MfaIds : mfas'[m] # NoRow => mfas'[m].user \in Users
      /\ \A d \in Clients : req'[d].pc # "idle" => req'[d].user \in Users
  <2>1. UserHolders'
    BY HoldersAreUsers, PTL
  <2>2. QED BY <2>1 DEF UserHolders
<1>1. \A u \in Users : \A p : HasPassword(u, p) => HasPassword(u, p)'
  BY DEF PasswordsKept, HasPassword
<1>2. \A u \in Users : \A k, p : HasKeyed(u, k, p) => HasKeyed(u, k, p)'
  BY DEF PasswordsKept, HasKeyed
<1>3. SessionsFollowPassword'
  <2>1. \A s \in sessions : HasKeyed(s.user, s.key, s.password)
    BY DEF PasswordInv, SessionsFollowPassword, Accepted, HasKeyed
  <2>2. \A s \in sessions' : HasKeyed(s.user, s.key, s.password)'
    BY <1>u, <1>2, <2>1 DEF PasswordsKept
  <2>3. QED BY <2>2 DEF SessionsFollowPassword, Accepted, HasKeyed
<1>4. ASSUME NEW d \in Clients PROVE Knows(req[d])'
  <2>1. Knows(req'[d])
    BY DEF PasswordInv, PasswordsKept
  <2>2. req'[d].pc \in LoggingIn \cup Bearers => req'[d].user \in Users
    BY <1>u DEF LoggingIn, Bearers
  <2>3. QED BY <1>1, <1>2, <2>1, <2>2 DEF Knows, PasswordsKept
<1>5. ASSUME NEW m \in MfaIds, mfas'[m] # NoRow PROVE Current(mfas[m])'
  <2>1. mfas'[m].user \in Users
    BY <1>5, <1>u
  <2>2. CASE /\ mfas[m] # NoRow
             /\ mfas'[m].user = mfas[m].user
             /\ mfas'[m].password = mfas[m].password
    <3>1. Current(mfas[m])
      BY <2>2 DEF PasswordInv
    <3>2. \A u : Dropping(u) => Dropping(u)'
      BY DEF Dropping, PasswordsKept, At
    <3>3. QED BY <1>1, <2>1, <2>2, <3>1, <3>2 DEF Current, PasswordsKept
  <2>3. CASE /\ mfas'[m].user \in issued
             /\ HasPassword(mfas'[m].user, mfas'[m].password)
    BY <1>1, <2>1, <2>3 DEF Current, PasswordsKept
  <2>4. QED BY <1>5, <2>2, <2>3 DEF PasswordsKept
<1>6. QED BY <1>3, <1>4, <1>5 DEF PasswordInv

LEMMA InitPasswords == Init => PasswordInv
BY DEF Init, Idle, PasswordInv, SessionsFollowPassword, Knows, LoggingIn, Bearers

\* The verified flag and the name are saved without touching the password.
LEMMA SavesKeepPasswords ==
    ASSUME TypeOK, NEW c \in Clients, req[c].user \in Users, SetVerified(c) \/ SaveName(c)
    PROVE  \A u \in Users : account'[u] # NoRow =>
             /\ account[u] # NoRow
             /\ account'[u].password = account[u].password
             /\ account'[u].key = account[u].key
<1>1. account \in [Users -> Account \cup {NoRow}]
  BY DEF TypeOK
<1>2. \A a \in Account : /\ [a EXCEPT !.verified = TRUE].key = a.key
                         /\ [a EXCEPT !.verified = TRUE].password = a.password
  BY DEF Account
<1>3. \A n : \A a \in Account : /\ [a EXCEPT !.name = n].key = a.key
                                /\ [a EXCEPT !.name = n].password = a.password
  BY DEF Account
<1>4. CASE SetVerified(c)
  BY <1>1, <1>2, <1>4 DEF SetVerified
<1>5. CASE SaveName(c)
  BY <1>1, <1>3, <1>5 DEF SaveName
<1>6. QED BY <1>4, <1>5

\* Nobody holds a password of an account that is still to come.
LEMMA InsertAccountPasswords ==
    ASSUME TypeOK, TypeOK', KeysArePast, PasswordInv, NEW c \in Clients, InsertAccount(c)
    PROVE  PasswordInv'
<1> DEFINE u == req[c].user
           row == [name |-> req[c].name, password |-> req[c].password,
                   verified |-> FALSE, key |-> 0]
<1>t. /\ account \in [Users -> Account \cup {NoRow}]
      /\ req \in [Clients -> Request]
      /\ u \in Users
  BY DEF TypeOK, InsertAccount, At, Held
<1>h. UserHolders /\ UserHolders'
  BY HoldersAreUsers, PTL
<1>1. /\ u \notin issued
      /\ account' = [account EXCEPT ![u] = row]
      /\ issued' = issued \cup {u}
      /\ req' = [req EXCEPT ![c] = [req[c] EXCEPT !.pc = "sendLink", !.row = row]]
      /\ sessions' = sessions /\ mfas' = mfas
      /\ req[c].pc = "insertAccount"
  BY <1>t DEF InsertAccount, At
<1>2. \A x \in Users : x # u => account'[x] = account[x]
  BY <1>1, <1>t
<1>3. /\ req'[c].user = u /\ req'[c].row = row /\ req'[c].pc = "sendLink"
      /\ req'[c].password = req[c].password
      /\ \A d \in Clients : d # c => req'[d] = req[d]
  BY <1>1, <1>t DEF Request
<1>4. account'[u].password = req[c].password
  BY <1>1, <1>t
<1>5. \A x \in Users : \A p : x # u => (HasPassword(x, p) => HasPassword(x, p)')
  BY <1>2 DEF HasPassword
<1>6. \A x \in Users : \A k, p : x # u => (HasKeyed(x, k, p) => HasKeyed(x, k, p)')
  BY <1>2 DEF HasKeyed
<1>7. SessionsFollowPassword'
  BY <1>1, <1>2, <1>h DEF KeysArePast, KeyIsPast, PasswordInv, SessionsFollowPassword, Accepted,
     UserHolders
<1>8. ASSUME NEW d \in Clients PROVE Knows(req[d])'
  <2>1. CASE d = c
    BY <2>1, <1>3, <1>4 DEF Knows, LoggingIn, HasKeyed
  <2>2. CASE d # c
    <3>1. Knows(req[d]) /\ req'[d] = req[d]
      BY <2>2, <1>3 DEF PasswordInv
    <3>2. req[d].pc \in LoggingIn \cup Bearers => req[d].user \in Users /\ req[d].user \in issued
      BY <3>1, <1>h DEF Knows, KeysArePast, KeyIsPast, LoggingIn, Bearers, RowLoaded, UserHolders
    <3>3. QED BY <3>1, <3>2, <1>1, <1>5, <1>6 DEF Knows
  <2>3. QED BY <2>1, <2>2
<1>9. ASSUME NEW m \in MfaIds, mfas'[m] # NoRow PROVE Current(mfas[m])'
  <2>1. Current(mfas[m]) /\ mfas[m].user \in Users /\ mfas' = mfas
    BY <1>9, <1>1, <1>h DEF PasswordInv, UserHolders
  <2>2. mfas[m].user # u
    BY <2>1, <1>1 DEF Current
  <2>3. \A x : Dropping(x) => Dropping(x)'
    BY <1>1, <1>3 DEF Dropping, At
  <2>4. QED BY <2>1, <2>2, <2>3, <1>1, <1>5 DEF Current
<1>10. QED BY <1>7, <1>8, <1>9 DEF PasswordInv

\* A new password comes with a key that no session and no loaded record has.
LEMMA SavePasswordPasswords ==
    ASSUME TypeOK, TypeOK', KeysArePast, PasswordInv, PasswordChangesApart,
           NEW c \in Clients, SavePassword(c)
    PROVE  PasswordInv'
<1> DEFINE u == req[c].user
<1>t. /\ account \in [Users -> Account \cup {NoRow}]
      /\ req \in [Clients -> Request]
      /\ u \in Users
  BY DEF TypeOK, SavePassword, At, Held
<1>h. UserHolders /\ KeysAreKeys
  BY HoldersAreUsers, HeldKeys
<1>1. /\ req[c].pc = "savePassword"
      /\ req' = [req EXCEPT ![c] = [req[c] EXCEPT !.pc = "dropMfas"]]
      /\ mfas' = mfas /\ issued' = issued /\ sessions' = sessions
  BY <1>t DEF SavePassword, At, GoOn
<1>2. \A x \in Users : x # u => account'[x] = account[x]
  BY <1>t DEF SavePassword
<1>3. account'[u] # NoRow =>
        account[u] # NoRow /\ account[u].key \in Int /\ account'[u].key = account[u].key + 1
  <2>1. account'[u] # NoRow => account[u] # NoRow
    BY <1>t DEF SavePassword
  <2>2. ASSUME account[u] # NoRow
        PROVE  account[u].key \in Int /\ account'[u].key = account[u].key + 1
    <3>1. account'[u] = [account[u] EXCEPT !.name = NameColumn(c),
                                           !.password = req[c].password,
                                           !.key = account[u].key + 1]
      BY <2>2, <1>t DEF SavePassword
    <3>2. account[u] \in Account /\ account[u].key \in Int
      BY <2>2, <1>t, <1>h DEF KeysAreKeys
    <3>3. QED BY <3>1, <3>2 DEF Account
  <2>3. QED BY <2>1, <2>2
<1>4. /\ req'[c].user = u /\ req'[c].pc = "dropMfas"
      /\ \A d \in Clients : d # c => req'[d] = req[d]
  BY <1>1, <1>t DEF Request
<1>5. \A x \in Users : \A p : x # u => (HasPassword(x, p) => HasPassword(x, p)')
  BY <1>2 DEF HasPassword
<1>6. ASSUME NEW x \in Users, NEW k \in Int, NEW p, KeyIsPast(x, k), HasKeyed(x, k, p)
      PROVE  HasKeyed(x, k, p)'
  <2>1. CASE x # u
    BY <2>1, <1>2, <1>6 DEF HasKeyed
  <2>2. CASE x = u
    <3>1. account'[u] # NoRow => k <= account[u].key /\ k < account'[u].key
      BY <2>2, <1>3, <1>6 DEF KeyIsPast
    <3>2. account'[u] # NoRow => account'[u].key # k
      BY <3>1, <1>3
    <3>3. QED BY <2>2, <3>2 DEF HasKeyed
  <2>3. QED BY <2>1, <2>2
<1>7. SessionsFollowPassword'
  <2>1. ASSUME NEW s \in sessions PROVE HasKeyed(s.user, s.key, s.password)'
    <3>1. HasKeyed(s.user, s.key, s.password)
      BY <2>1 DEF PasswordInv, SessionsFollowPassword, Accepted, HasKeyed
    <3>2. s.user \in Users /\ s.key \in Int /\ KeyIsPast(s.user, s.key)
      BY <2>1, <1>h DEF KeysAreKeys, KeysArePast
    <3>3. QED BY <3>1, <3>2, <1>6
  <2>2. QED BY <2>1, <1>1 DEF SessionsFollowPassword, Accepted, HasKeyed
<1>8. ASSUME NEW d \in Clients PROVE Knows(req[d])'
  <2>1. CASE d = c
    BY <2>1, <1>4 DEF Knows, LoggingIn, Bearers
  <2>2. CASE d # c
    <3>1. Knows(req[d]) /\ req'[d] = req[d]
      BY <2>2, <1>4 DEF PasswordInv
    <3>2. req[d].pc \in LoggingIn => req[d].user \in Users /\ req[d].user # u
      BY <1>1, <1>h DEF PasswordChangesApart, At, LoggingIn, UserHolders
    <3>3. req[d].pc \in Bearers =>
            /\ req[d].user \in Users /\ req[d].row.key \in Int
            /\ KeyIsPast(req[d].user, req[d].row.key)
      BY <1>h DEF KeysAreKeys, KeysArePast, Bearers, RowLoaded
    <3>4. req[d].pc \in Bearers => HasKeyed(req[d].user, req[d].row.key, req[d].password)'
      BY <3>1, <3>3, <1>6 DEF Knows
    <3>5. QED BY <3>1, <3>2, <3>4, <1>1, <1>5 DEF Knows
  <2>3. QED BY <2>1, <2>2
<1>9. ASSUME NEW m \in MfaIds, mfas'[m] # NoRow PROVE Current(mfas[m])'
  <2>1. Current(mfas[m]) /\ mfas[m].user \in Users /\ mfas' = mfas /\ issued' = issued
    BY <1>9, <1>1, <1>h DEF PasswordInv, UserHolders
  <2>2. Dropping(u)'
    BY <1>4 DEF Dropping, At
  <2>3. \A x : Dropping(x) => Dropping(x)'
    BY <1>1, <1>4 DEF Dropping, At
  <2>4. CASE mfas[m].user = u
    BY <2>1, <2>2, <2>4, <1>4 DEF Current
  <2>5. CASE mfas[m].user # u
    <3>1. HasPassword(mfas[m].user, mfas[m].password)' \/ Dropping(mfas[m].user)'
      BY <2>1, <2>3, <2>5, <1>5 DEF Current
    <3>2. QED BY <2>1, <3>1 DEF Current
  <2>6. QED BY <2>4, <2>5
<1>10. QED BY <1>7, <1>8, <1>9 DEF PasswordInv

\* When no deletion fails, the logins that were begun with the old password
\* end here.
LEMMA DropMfasPasswords ==
    ASSUME ~DeletesFail, TypeOK, TypeOK', PasswordInv, NEW c \in Clients, DropMfas(c)
    PROVE  PasswordInv'
<1> DEFINE u == req[c].user
           own == {m \in MfaIds : mfas[m] # NoRow /\ mfas[m].user = u}
<1>t. mfas \in [MfaIds -> Mfa \cup {NoRow}] /\ req \in [Clients -> Request]
  BY DEF TypeOK
<1>1. /\ mfas' = [m \in MfaIds |-> IF m \in own THEN NoRow ELSE mfas[m]]
      /\ account' = account /\ issued' = issued /\ sessions' = sessions
      /\ req' = [req EXCEPT ![c] = Idle]
  BY DEF DropMfas, Return
<1>2. req'[c] = Idle /\ \A d \in Clients : d # c => req'[d] = req[d]
  BY <1>1, <1>t
<1>3. SessionsFollowPassword'
  BY <1>1 DEF PasswordInv, SessionsFollowPassword, Accepted
<1>4. ASSUME NEW d \in Clients PROVE Knows(req[d])'
  <2>1. Knows(req'[d])
    BY <1>2 DEF PasswordInv, Knows, Idle, LoggingIn, Bearers
  <2>2. QED BY <2>1, <1>1 DEF Knows, HasPassword, HasKeyed
<1>5. ASSUME NEW m \in MfaIds, mfas'[m] # NoRow PROVE Current(mfas[m])'
  <2>1. mfas'[m] = mfas[m] /\ mfas[m] # NoRow /\ mfas[m].user # u
    BY <1>1, <1>5
  <2>2. Current(mfas[m])
    BY <2>1 DEF PasswordInv
  <2>3. Dropping(mfas[m].user) => Dropping(mfas[m].user)'
    BY <2>1, <1>2 DEF Dropping, At
  <2>4. QED BY <2>1, <2>2, <2>3, <1>1 DEF Current, HasPassword
<1>6. QED BY <1>3, <1>4, <1>5 DEF PasswordInv

\* A request that begins has a password only if it is the right one.
LEMMA SubmitPasswords ==
    ASSUME TypeOK, KeysArePast, PasswordInv, PasswordChangesApart',
           NEW c \in Clients, Submit(c)
    PROVE  PasswordsKept
<1>t. /\ account \in [Users -> Account \cup {NoRow}]
      /\ mfas \in [MfaIds -> Mfa \cup {NoRow}]
      /\ req \in [Clients -> Request]
  BY DEF TypeOK
<1>1. account' = account /\ issued' = issued /\ sessions' = sessions
  BY DEF Submit, Register, VerifySubmit, Login, FindMfa, UpdateName, ChangePassword,
     UpdateMe, OpenProfile
<1>2. \A d \in Clients : d # c => req'[d] = req[d]
  BY <1>t DEF Submit, Register, VerifySubmit, Login, FindMfa, UpdateName, ChangePassword,
     UpdateMe, OpenProfile, Begin
<1>3. At(c, "idle")
  BY DEF Submit, Register, VerifySubmit, Login, FindMfa, UpdateName, ChangePassword,
     UpdateMe, OpenProfile, Begin
<1>4. \A m \in MfaIds : mfas'[m] # NoRow => mfas'[m] = mfas[m] /\ mfas[m] # NoRow
  BY <1>t DEF Submit, Register, VerifySubmit, Login, FindMfa, UpdateName, ChangePassword,
     UpdateMe, OpenProfile, MayFail, Remove
<1>5. req'[c] = req[c] \/ Knows(req'[c])
  <2>1. CASE FindMfa(c)
    <3>1. CASE req' = req
      BY <3>1
    <3>2. CASE req' # req
      <4>1. PICK m \in MfaIds, o \in OtpIds :
              /\ mfas[m] # NoRow
              /\ req' = [req EXCEPT ![c] = [Idle EXCEPT !.pc = "findOtp", !.mfa = m, !.otp = o,
                           !.user = mfas[m].user, !.password = mfas[m].password]]
        BY <2>1, <3>2 DEF FindMfa, Begin
      <4>2. /\ req'[c].pc = "findOtp"
            /\ req'[c].user = mfas[m].user
            /\ req'[c].password = mfas[m].password
        BY <4>1, <1>t DEF Idle
      <4>3. ~Dropping(mfas[m].user)
        <5>1. SUFFICES ASSUME NEW d \in Clients, At(d, "dropMfas"), req[d].user = mfas[m].user
                       PROVE  FALSE
          BY DEF Dropping
        <5>2. req'[d] = req[d] /\ req'[d].user = req'[c].user
          BY <5>1, <4>2, <1>2, <1>3 DEF At
        <5>3. QED BY <5>1, <5>2, <4>2 DEF PasswordChangesApart, At
      <4>4. Current(mfas[m])
        BY <4>1 DEF PasswordInv
      <4>5. QED BY <4>2, <4>3, <4>4 DEF Knows, Current, Bearers
    <3>3. QED BY <3>1, <3>2
  <2>2. CASE Login(c)
    <3>1. PICK u \in Users :
            /\ account[u] # NoRow
            /\ req' = [req EXCEPT ![c] = [Idle EXCEPT !.pc = "validateMfa", !.user = u,
                                                      !.password = account[u].password]]
      BY <2>2 DEF Login, Begin
    <3>2. req'[c].pc = "validateMfa" /\ req'[c].user = u /\ req'[c].password = account[u].password
      BY <3>1, <1>t DEF Idle
    <3>3. u \in issued
      BY <3>1 DEF KeysArePast
    <3>4. QED BY <3>2, <3>3 DEF Knows, HasPassword, Bearers
  <2>3. CASE Register(c) \/ VerifySubmit(c)
    <3>1. Register(c) => req'[c].pc = "insertAccount"
      BY <1>t DEF Register, Begin, Idle
    <3>2. VerifySubmit(c) => req'[c].pc = "saveVerified"
      BY <1>t DEF VerifySubmit, Begin, Idle
    <3>3. QED BY <2>3, <3>1, <3>2 DEF Knows, LoggingIn, Bearers
  <2>4. CASE UpdateName(c) \/ ChangePassword(c) \/ UpdateMe(c)
    <3>1. \E s \in sessions, name \in Names \cup {NoRow}, new \in Passwords \cup {NoRow} :
            req' = [req EXCEPT ![c] = [Idle EXCEPT !.pc = "findProfile", !.user = s.user,
                                                   !.name = name, !.password = new]]
      BY <2>4, ProfileOpened
    <3>2. req'[c].pc = "findProfile"
      BY <3>1, <1>t DEF Idle
    <3>3. QED BY <3>2 DEF Knows, LoggingIn, Bearers
  <2>5. QED BY <2>1, <2>2, <2>3, <2>4 DEF Submit
<1>6. ~At(c, "dropMfas")
  BY <1>3 DEF At
<1>7. QED BY <1>1, <1>2, <1>4, <1>5, <1>6 DEF PasswordsKept

\* A request that goes on hands what it knows to its next step, to an MFA row
\* and to the session that it opens.
LEMMA StepPasswords ==
    ASSUME TypeOK, PasswordInv, NEW c \in Clients, Step(c),
           ~InsertAccount(c), ~SavePassword(c), ~DropMfas(c)
    PROVE  PasswordsKept
<1> DEFINE u == req[c].user
           password == req[c].password
           key == req[c].row.key
<1>t. /\ account \in [Users -> Account \cup {NoRow}]
      /\ mfas \in [MfaIds -> Mfa \cup {NoRow}]
      /\ req \in [Clients -> Request]
      /\ \A d \in Clients : Held(req[d])
  BY DEF TypeOK
<1>1. \A d \in Clients : d # c => req'[d] = req[d]
  BY <1>t DEF Step, InsertAccount, SendLink, SaveVerified, ValidateMfa, InsertMfa,
     ValidateOtp, ValidateRef, InsertOtp, SendOtp, RefuseOtp, DropExpiredOtp, FindOtp, FindUser,
     SaveLogin, DeleteMfa, DeleteOtp, FindProfile, SaveName, SavePassword, DropMfas, CallFails,
     Fails, GoOn, Return
<1>2. issued \subseteq issued'
  BY DEF Step, InsertAccount, SendLink, SaveVerified, ValidateMfa, InsertMfa,
     ValidateOtp, ValidateRef, InsertOtp, SendOtp, RefuseOtp, DropExpiredOtp, FindOtp, FindUser,
     SaveLogin, DeleteMfa, DeleteOtp, FindProfile, SaveName, SavePassword, DropMfas, CallFails,
     Fails
<1>3. ~At(c, "dropMfas")
  BY DEF Step, InsertAccount, SendLink, SaveVerified, ValidateMfa, InsertMfa,
     ValidateOtp, ValidateRef, InsertOtp, SendOtp, RefuseOtp, DropExpiredOtp, FindOtp, FindUser,
     SaveLogin, DeleteMfa, DeleteOtp, FindProfile, SaveName, SavePassword, DropMfas, CallFails,
     Fails, At
<1>4. \A x \in Users : account'[x] # NoRow =>
         /\ account[x] # NoRow
         /\ account'[x].password = account[x].password
         /\ account'[x].key = account[x].key
  <2>1. CASE SaveVerified(c) \/ SaveLogin(c) \/ SaveName(c)
    <3>1. u \in Users
      BY <2>1, <1>t DEF SaveVerified, SaveLogin, SaveName, At, Held
    <3>2. SetVerified(c) \/ SaveName(c) \/ account' = account
      BY <2>1 DEF SaveVerified, SaveLogin
    <3>3. QED BY <3>1, <3>2, SavesKeepPasswords
  <2>2. CASE ~(SaveVerified(c) \/ SaveLogin(c) \/ SaveName(c))
    <3>1. account' = account
      BY <2>2 DEF Step, SendLink, ValidateMfa, InsertMfa, ValidateOtp, ValidateRef, InsertOtp,
         SendOtp, RefuseOtp, DropExpiredOtp, FindOtp, FindUser, DeleteMfa, DeleteOtp,
         FindProfile, CallFails, Fails
    <3>2. QED BY <3>1
  <2>3. QED BY <2>1, <2>2
<1>5. \A s \in sessions' : s \in sessions \/ HasKeyed(s.user, s.key, s.password)
  <2>1. CASE SendLink(c) \/ DeleteOtp(c)
    <3>1. HasKeyed(u, key, password)
      BY <2>1 DEF SendLink, DeleteOtp, At, Bearers, PasswordInv, Knows
    <3>2. \A s \in sessions' :
            s \in sessions \/ (s.user = u /\ s.key = key /\ s.password = password)
      BY <2>1 DEF SendLink, DeleteOtp, IssueToken
    <3>3. QED BY <3>1, <3>2
  <2>2. CASE ~(SendLink(c) \/ DeleteOtp(c))
    <3>1. sessions' = sessions
      BY <2>2 DEF Step, SaveVerified, ValidateMfa, InsertMfa, ValidateOtp, ValidateRef, InsertOtp,
         SendOtp, RefuseOtp, DropExpiredOtp, FindOtp, FindUser, SaveLogin, DeleteMfa,
         FindProfile, SaveName, CallFails, Fails
    <3>2. QED BY <3>1
  <2>3. QED BY <2>1, <2>2
<1>6. \A m \in MfaIds : mfas'[m] # NoRow =>
         \/ /\ mfas[m] # NoRow
            /\ mfas'[m].user = mfas[m].user
            /\ mfas'[m].password = mfas[m].password
         \/ /\ mfas'[m].user \in issued
            /\ HasPassword(mfas'[m].user, mfas'[m].password)
  <2>1. CASE InsertMfa(c)
    <3>1. u \in issued /\ HasPassword(u, password)
      BY <2>1 DEF InsertMfa, At, LoggingIn, PasswordInv, Knows
    <3>2. PICK m \in MfaIds :
            mfas' = [mfas EXCEPT ![m] = [user |-> u, password |-> password, expired |-> FALSE]]
      BY <2>1 DEF InsertMfa
    <3>3. mfas'[m].user = u /\ mfas'[m].password = password
      BY <3>2, <1>t
    <3>4. \A x \in MfaIds : x # m => mfas'[x] = mfas[x]
      BY <3>2, <1>t
    <3>5. QED BY <3>1, <3>3, <3>4
  <2>2. CASE DeleteMfa(c)
    BY <2>2, <1>t DEF DeleteMfa, MayFail, Remove
  <2>3. CASE ~(InsertMfa(c) \/ DeleteMfa(c))
    <3>1. mfas' = mfas
      BY <2>3 DEF Step, SendLink, SaveVerified, ValidateMfa, ValidateOtp, ValidateRef, InsertOtp,
         SendOtp, RefuseOtp, DropExpiredOtp, FindOtp, FindUser, SaveLogin, DeleteOtp,
         FindProfile, SaveName, CallFails, Fails
    <3>2. QED BY <3>1
  <2>4. QED BY <2>1, <2>2, <2>3
<1>7. Knows(req'[c])
  <2>1. CASE ValidateMfa(c) \/ FindOtp(c)
    <3>1. u \in issued /\ HasPassword(u, password)
      BY <2>1 DEF ValidateMfa, ValidateRef, FindOtp, At, LoggingIn, PasswordInv, Knows
    <3>2. /\ req'[c].user = u /\ req'[c].password = password
          /\ req'[c].pc \in {"insertMfa", "findUser"}
      BY <2>1, <1>t DEF ValidateMfa, ValidateRef, FindOtp, GoOn, Request
    <3>3. QED BY <3>1, <3>2 DEF Knows, LoggingIn, Bearers
  <2>2. CASE FindUser(c)
    <3>1. HasPassword(u, password)
      BY <2>2 DEF FindUser, At, LoggingIn, PasswordInv, Knows
    <3>2. /\ req'[c].user = u /\ req'[c].password = password
          /\ req'[c].pc \in {"saveLogin", "deleteMfa"}
      BY <2>2, <1>t DEF FindUser, Request
    <3>3. QED BY <3>1, <3>2 DEF Knows, LoggingIn, HasPassword, HasKeyed
  <2>3. CASE SaveLogin(c) \/ DeleteMfa(c)
    <3>1. HasKeyed(u, key, password)
      BY <2>3 DEF SaveLogin, DeleteMfa, At, Bearers, PasswordInv, Knows
    <3>2. /\ req'[c].user = u /\ req'[c].password = password /\ req'[c].row = req[c].row
          /\ req'[c].pc \in {"deleteMfa", "deleteOtp"}
      BY <2>3, <1>t DEF SaveLogin, DeleteMfa, GoOn, Request
    <3>3. QED BY <3>1, <3>2 DEF Knows, LoggingIn
  <2>4. CASE ~(ValidateMfa(c) \/ FindOtp(c) \/ FindUser(c) \/ SaveLogin(c) \/ DeleteMfa(c))
    <3>1. req'[c].pc \notin LoggingIn \cup Bearers
      BY <2>4, <1>t DEF Step, SendLink, SaveVerified, InsertMfa, ValidateOtp, ValidateRef,
         InsertOtp, SendOtp, RefuseOtp, DropExpiredOtp, DeleteOtp, FindProfile, SaveName,
         CallFails, Fails, GoOn, Return, Idle, Request, LoggingIn, Bearers
    <3>2. QED BY <3>1 DEF Knows
  <2>5. QED BY <2>1, <2>2, <2>3, <2>4
<1>8. QED BY <1>1, <1>2, <1>3, <1>4, <1>5, <1>6, <1>7 DEF PasswordsKept

LEMMA NextPasswords ==
    ASSUME ~DeletesFail, TypeOK, TypeOK', KeysArePast, PasswordInv,
           PasswordChangesApart, PasswordChangesApart', [Next]_vars
    PROVE  PasswordInv'
<1>t. /\ account \in [Users -> Account \cup {NoRow}]
      /\ mfas \in [MfaIds -> Mfa \cup {NoRow}]
  BY DEF TypeOK
<1>1. ASSUME NEW c \in Clients, Submit(c) PROVE PasswordInv'
  BY <1>1, SubmitPasswords, PasswordsKeptStep
<1>2. ASSUME NEW c \in Clients, Step(c) PROVE PasswordInv'
  <2>1. CASE InsertAccount(c)
    BY <2>1, InsertAccountPasswords
  <2>2. CASE SavePassword(c)
    BY <2>2, SavePasswordPasswords
  <2>3. CASE DropMfas(c)
    BY <2>3, DropMfasPasswords
  <2>4. CASE ~InsertAccount(c) /\ ~SavePassword(c) /\ ~DropMfas(c)
    BY <1>2, <2>4, StepPasswords, PasswordsKeptStep
  <2>5. QED BY <2>1, <2>2, <2>3, <2>4
<1>3. ASSUME NEW u \in Users, DeleteAccount(u) PROVE PasswordInv'
  <2>1. \A x \in Users : account'[x] # NoRow => account'[x] = account[x]
    BY <1>3, <1>t DEF DeleteAccount
  <2>2. \A m \in MfaIds : mfas'[m] # NoRow => mfas'[m] = mfas[m]
    BY <1>3, <1>t DEF DeleteAccount
  <2>3. PasswordsKept
    BY <1>3, <2>1, <2>2 DEF DeleteAccount, PasswordsKept
  <2>4. QED BY <2>3, PasswordsKeptStep
<1>4. CASE Expire \/ UNCHANGED vars
  <2>1. account' = account /\ issued' = issued /\ sessions' = sessions /\ req' = req
    BY <1>4 DEF Expire, vars
  <2>2. \A m \in MfaIds : mfas'[m] # NoRow =>
          /\ mfas[m] # NoRow
          /\ mfas'[m].user = mfas[m].user
          /\ mfas'[m].password = mfas[m].password
    <3>1. CASE mfas' = mfas
      BY <3>1
    <3>2. CASE mfas' # mfas
      <4>1. PICK n \in MfaIds :
              mfas[n] # NoRow /\ mfas' = [mfas EXCEPT ![n] = [mfas[n] EXCEPT !.expired = TRUE]]
        BY <1>4, <3>2 DEF Expire, vars
      <4>2. mfas[n] \in Mfa
        BY <4>1, <1>t
      <4>3. mfas'[n].user = mfas[n].user /\ mfas'[n].password = mfas[n].password
        BY <4>1, <4>2, <1>t DEF Mfa
      <4>4. \A m \in MfaIds : m # n => mfas'[m] = mfas[m]
        BY <4>1, <1>t
      <4>5. QED BY <4>1, <4>3, <4>4
    <3>3. QED BY <3>1, <3>2
  <2>3. PasswordsKept
    BY <2>1, <2>2 DEF PasswordsKept
  <2>4. QED BY <2>3, PasswordsKeptStep
<1>5. QED BY <1>1, <1>2, <1>3, <1>4 DEF Next

\* If the database deletes what it is told to, and no password is saved while
\* another request is between checking the old one and loading the account, then
\* every session that is accepted was opened with the password of today: the
\* token key and the deletion of the MFA rows together revoke whatever a login
\* had reached.
THEOREM SessionsFollow ==
    ASSUME ~DeletesFail
    PROVE  Spec /\ []PasswordChangesApart => []SessionsFollowPassword
<1> DEFINE Inv == TypeOK /\ KeysArePast /\ PasswordInv
<1>1. Init => Inv
  BY InitType, InitKeys, InitPasswords
<1>2. Inv /\ PasswordChangesApart /\ PasswordChangesApart' /\ [Next]_vars => Inv'
  BY TypeStep, KeyStep, NextPasswords
<1>3. Inv => SessionsFollowPassword
  BY DEF PasswordInv
<1>4. QED BY <1>1, <1>2, <1>3, PTL DEF Spec

LEMMA OneClientApart == TypeOK /\ OneClient => PasswordChangesApart
BY DEF OneClient, PasswordChangesApart, At

\* Without overlap that is the case, whatever the requests are.
COROLLARY SerialSessionsFollow ==
    ASSUME ~DeletesFail, OneClient
    PROVE  Spec => []SessionsFollowPassword
<1>1. Spec => []PasswordChangesApart
  BY TypeCorrect, OneClientApart, PTL
<1>2. QED BY <1>1, SessionsFollow, PTL

-----------------------------------------------------------------------------
(***************************************************************************)
(* One session per code.  A code is spent when its row is gone; nobody     *)
(* finds it again then, and what has to be excluded is that two requests   *)
(* have both found it before.                                              *)
(***************************************************************************)

Spent(o) == o \in issued /\ otps[o] = NoRow

\* A session was opened by a spent code, and by none that a request is about
\* to open another one with.
CodesAreSpent ==
    /\ \A s \in sessions : s.by # NoRow => Spent(s.by)
    /\ \A c \in Clients : req[c].pc \in CodeAccepted => \A s \in sessions : s.by # req[c].otp

\* A step that opens no session with a code and brings no spent code back.
SpentKept ==
    /\ issued \subseteq issued'
    /\ \A o \in OtpIds : Spent(o) => otps'[o] = NoRow
    /\ \A s \in sessions' : s \in sessions \/ s.by = NoRow
    /\ \A d \in Clients : req'[d].pc \in CodeAccepted =>
         \/ req[d].pc \in CodeAccepted /\ req'[d].otp = req[d].otp
         \/ ~Spent(req'[d].otp)

\* Codes are codes where a session or a request that got one accepted has one.
CodeHolders ==
    /\ \A s \in sessions : s.by # NoRow => s.by \in OtpIds
    /\ \A d \in Clients : req[d].pc \in CodeAccepted => req[d].otp \in OtpIds /\ req[d].otp # NoRow

LEMMA HoldersHaveCodes == TypeOK => CodeHolders
BY NoRowIsNoValue DEF TypeOK, Session, Held, CodeHolders

LEMMA InitSpent == Init => CodesAreSpent
BY DEF Init, CodesAreSpent, CodeAccepted, Idle

LEMMA SpentKeptStep ==
    ASSUME TypeOK, TypeOK', CodesAreSpent, SpentKept
    PROVE  CodesAreSpent'
<1>h. CodeHolders /\ CodeHolders'
  BY HoldersHaveCodes, PTL
<1>1. ASSUME NEW s \in sessions', s.by # NoRow PROVE Spent(s.by)'
  <2>1. s \in sessions /\ Spent(s.by) /\ s.by \in OtpIds
    BY <1>1, <1>h DEF SpentKept, CodesAreSpent, CodeHolders
  <2>2. QED BY <2>1 DEF SpentKept, Spent
<1>2. ASSUME NEW d \in Clients, req'[d].pc \in CodeAccepted, NEW s \in sessions'
      PROVE  s.by # req'[d].otp
  <2>1. req'[d].otp # NoRow
    BY <1>2, <1>h DEF CodeHolders
  <2>2. CASE s.by = NoRow
    BY <2>1, <2>2
  <2>3. CASE s.by # NoRow
    <3>1. s \in sessions /\ Spent(s.by)
      BY <2>3 DEF SpentKept, CodesAreSpent
    <3>2. QED BY <1>2, <3>1 DEF SpentKept, CodesAreSpent
  <2>4. QED BY <2>2, <2>3
<1>3. QED BY <1>1, <1>2 DEF CodesAreSpent

\* The row goes before the session is opened, so that the code is spent.
LEMMA DeleteOtpSpends ==
    ASSUME ~DeletesFail, TypeOK, TypeOK', CodeInv, CodesAreSpent, CodesApart,
           NEW c \in Clients, DeleteOtp(c)
    PROVE  CodesAreSpent'
<1> DEFINE o == req[c].otp
<1>t. /\ otps \in [OtpIds -> Otp \cup {NoRow}]
      /\ req \in [Clients -> Request]
      /\ Held(req[c])
  BY DEF TypeOK
<1>h. CodeHolders
  BY HoldersHaveCodes
<1>1. req[c].pc \in CodeAccepted /\ o \in OtpIds /\ req[c].user \in Users
  BY <1>t DEF DeleteOtp, At, CodeAccepted, Held
<1>2. o \in issued
  BY <1>1, NoRowIsNoValue DEF CodeInv, AcceptedCodesAreOwn, CodesAreIssued
<1>3. otps' = [otps EXCEPT ![o] = NoRow] /\ issued' = issued
  BY DEF DeleteOtp, MayFail, Remove
<1>4. otps'[o] = NoRow /\ \A x \in OtpIds : x # o => otps'[x] = otps[x]
  BY <1>1, <1>3, <1>t
<1>5. \A s \in sessions' : s \in sessions \/ s.by = o
  BY DEF DeleteOtp, IssueToken
<1>6. /\ req'[c].pc = "idle"
      /\ \A d \in Clients : d # c => req'[d] = req[d]
  BY <1>t DEF DeleteOtp, Return, Idle
<1>7. ASSUME NEW s \in sessions', s.by # NoRow PROVE Spent(s.by)'
  <2>1. CASE s.by = o
    BY <2>1, <1>2, <1>3, <1>4 DEF Spent
  <2>2. CASE s.by # o
    <3>1. Spent(s.by) /\ s.by \in OtpIds
      BY <1>5, <1>7, <1>h, <2>2 DEF CodesAreSpent, CodeHolders
    <3>2. QED BY <3>1, <2>2, <1>3, <1>4 DEF Spent
  <2>3. QED BY <2>1, <2>2
<1>8. ASSUME NEW d \in Clients, req'[d].pc \in CodeAccepted, NEW s \in sessions'
      PROVE  s.by # req'[d].otp
  <2>1. d # c /\ req'[d] = req[d] /\ req[d].pc \in CodeAccepted
    BY <1>6, <1>8 DEF CodeAccepted
  <2>2. req[d].otp # o
    BY <2>1, <1>1 DEF CodesApart
  <2>3. QED BY <2>1, <2>2, <1>5 DEF CodesAreSpent
<1>9. QED BY <1>7, <1>8 DEF CodesAreSpent

LEMMA NextSpent ==
    ASSUME ~DeletesFail, TypeOK, TypeOK', CodeInv, CodesAreSpent, CodesApart, [Next]_vars
    PROVE  CodesAreSpent'
<1>t. /\ otps \in [OtpIds -> Otp \cup {NoRow}]
      /\ req \in [Clients -> Request]
      /\ \A d \in Clients : Held(req[d])
  BY DEF TypeOK
<1>1. ASSUME NEW c \in Clients, Submit(c) PROVE CodesAreSpent'
  <2>1. \A d \in Clients : d # c => req'[d] = req[d]
    BY <1>1, <1>t DEF Submit, Register, VerifySubmit, Login, FindMfa, UpdateName, ChangePassword,
       UpdateMe, OpenProfile, Begin
  <2>2. otps' = otps /\ issued' = issued /\ sessions' = sessions
    BY <1>1 DEF Submit, Register, VerifySubmit, Login, FindMfa, UpdateName, ChangePassword,
       UpdateMe, OpenProfile
  <2>3. req'[c] = req[c] \/ req'[c].pc \notin CodeAccepted
    BY <1>1, BeginsWithoutCode
  <2>4. SpentKept
    BY <2>1, <2>2, <2>3 DEF SpentKept, Spent
  <2>5. QED BY <2>4, SpentKeptStep
<1>2. ASSUME NEW c \in Clients, Step(c) PROVE CodesAreSpent'
  <2>0. \A d \in Clients : d # c => req'[d] = req[d]
    BY <1>2, <1>t DEF Step, InsertAccount, SendLink, SaveVerified, ValidateMfa, InsertMfa,
       ValidateOtp, ValidateRef, InsertOtp, SendOtp, RefuseOtp, DropExpiredOtp, FindOtp, FindUser,
       SaveLogin, DeleteMfa, DeleteOtp, FindProfile, SaveName, SavePassword, DropMfas, CallFails,
       Fails, GoOn, Return
  <2>1. CASE DeleteOtp(c)
    BY <2>1, DeleteOtpSpends
  <2>2. CASE InsertOtp(c)
    <3>1. PICK o \in OtpIds \ issued :
            /\ otps' = [otps EXCEPT ![o] = [user |-> req[c].user, sentTo |-> NoRow,
                                            expired |-> FALSE]]
            /\ issued' = issued \cup {o}
      BY <2>2 DEF InsertOtp
    <3>2. \A x \in OtpIds : x # o => otps'[x] = otps[x]
      BY <3>1, <1>t
    <3>3. req'[c].pc \notin CodeAccepted /\ sessions' = sessions
      BY <2>2, <1>t DEF InsertOtp, CodeAccepted, Request
    <3>4. SpentKept
      BY <2>0, <3>1, <3>2, <3>3 DEF SpentKept, Spent
    <3>5. QED BY <3>4, SpentKeptStep
  <2>3. CASE FindOtp(c)
    <3>1. req'[c].otp = req[c].otp /\ otps[req[c].otp] # NoRow
      BY <2>3, <1>t DEF FindOtp, Request
    <3>2. SpentKept
      BY <2>0, <2>3, <3>1 DEF FindOtp, SpentKept, Spent
    <3>3. QED BY <3>2, SpentKeptStep
  <2>4. CASE FindUser(c) \/ SaveLogin(c) \/ DeleteMfa(c)
    <3>1. req[c].pc \in CodeAccepted
      BY <2>4 DEF FindUser, SaveLogin, DeleteMfa, At, CodeAccepted
    <3>2. req'[c].otp = req[c].otp
      BY <2>4, <1>t DEF FindUser, SaveLogin, DeleteMfa, GoOn, Request
    <3>3. otps' = otps /\ issued' = issued /\ sessions' = sessions
      BY <2>4 DEF FindUser, SaveLogin, DeleteMfa
    <3>4. SpentKept
      BY <2>0, <3>1, <3>2, <3>3 DEF SpentKept, Spent
    <3>5. QED BY <3>4, SpentKeptStep
  <2>5. CASE ~(DeleteOtp(c) \/ InsertOtp(c) \/ FindOtp(c) \/ FindUser(c) \/ SaveLogin(c) \/ DeleteMfa(c))
    <3>1. issued \subseteq issued'
      BY <1>2, <2>5 DEF Step, InsertAccount, SendLink, SaveVerified, ValidateMfa, InsertMfa,
         ValidateOtp, ValidateRef, SendOtp, RefuseOtp, DropExpiredOtp, FindProfile, SaveName,
         SavePassword, DropMfas, CallFails, Fails
    <3>2. \A o \in OtpIds : Spent(o) => otps'[o] = NoRow
      BY <1>2, <1>t, <2>5 DEF Step, InsertAccount, SendLink, SaveVerified, ValidateMfa, InsertMfa,
         ValidateOtp, ValidateRef, SendOtp, RefuseOtp, DropExpiredOtp, FindProfile, SaveName,
         SavePassword, DropMfas, CallFails, Fails, MayFail, Remove, Spent
    <3>3. \A s \in sessions' : s \in sessions \/ s.by = NoRow
      <4>1. CASE SendLink(c)
        BY <4>1, <1>t DEF SendLink, IssueToken, At, Held
      <4>2. CASE ~SendLink(c)
        <5>1. sessions' = sessions
          BY <1>2, <2>5, <4>2 DEF Step, InsertAccount, SaveVerified, ValidateMfa, InsertMfa,
             ValidateOtp, ValidateRef, SendOtp, RefuseOtp, DropExpiredOtp, FindProfile, SaveName,
             SavePassword, DropMfas, CallFails, Fails
        <5>2. QED BY <5>1
      <4>3. QED BY <4>1, <4>2
    <3>4. req'[c].pc \notin CodeAccepted
      BY <1>2, <1>t, <2>5 DEF Step, InsertAccount, SendLink, SaveVerified, ValidateMfa, InsertMfa,
         ValidateOtp, ValidateRef, SendOtp, RefuseOtp, DropExpiredOtp, FindProfile, SaveName,
         SavePassword, DropMfas, CallFails, Fails, GoOn, Return, Idle, Request, CodeAccepted
    <3>5. SpentKept
      BY <2>0, <3>1, <3>2, <3>3, <3>4 DEF SpentKept
    <3>6. QED BY <3>5, SpentKeptStep
  <2>6. QED BY <2>1, <2>2, <2>3, <2>4, <2>5
<1>3. ASSUME NEW u \in Users, DeleteAccount(u) PROVE CodesAreSpent'
  <2>1. \A o \in OtpIds : Spent(o) => otps'[o] = NoRow
    BY <1>3, <1>t DEF DeleteAccount, Spent
  <2>2. SpentKept
    BY <1>3, <2>1 DEF DeleteAccount, SpentKept
  <2>3. QED BY <2>2, SpentKeptStep
<1>4. CASE Expire \/ UNCHANGED vars
  <2>1. issued' = issued /\ sessions' = sessions /\ req' = req
    BY <1>4 DEF Expire, vars
  <2>2. \A o \in OtpIds : Spent(o) => otps'[o] = NoRow
    BY <1>4, <1>t DEF Expire, vars, Spent
  <2>3. SpentKept
    BY <2>1, <2>2 DEF SpentKept
  <2>4. QED BY <2>3, SpentKeptStep
<1>5. QED BY <1>1, <1>2, <1>3, <1>4 DEF Next

\* If the database deletes what it is told to, a code that has opened a session
\* opens no other, however often and in which forms it is sent in again, unless
\* two requests had both found its row before either of them deleted it.
THEOREM OneSession ==
    ASSUME ~DeletesFail
    PROVE  Spec /\ []CodesApart => OneSessionPerCode
<1> DEFINE Inv == TypeOK /\ CodeInv /\ SecondFactorIsOwn /\ CodesAreSpent
<1>1. Init => Inv
  BY InitType, InitCodes, InitSpent
<1>2. Inv /\ CodesApart /\ [Next]_vars => Inv'
  BY TypeStep, CodeStep, NextSpent
<1>3. Inv =>
        [\A c \in Clients :
           (At(c, "deleteOtp") /\ req'[c] = Idle) => \A s \in sessions : s.by # req[c].otp]_vars
  BY DEF CodesAreSpent, At, CodeAccepted
<1>4. QED BY <1>1, <1>2, <1>3, PTL DEF Spec, OneSessionPerCode

\* Without overlap that is the case, whatever the requests are.
COROLLARY SerialOneSession ==
    ASSUME ~DeletesFail, OneClient
    PROVE  Spec => OneSessionPerCode
<1>1. CodesApart
  BY DEF OneClient, CodesApart
<1>2. QED BY <1>1, OneSession, PTL

=============================================================================
