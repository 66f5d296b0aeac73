------------------------------ MODULE Sessions ------------------------------
(***************************************************************************)
(* Accounts, refresh tokens and the cookies that carry them.               *)
(*                                                                         *)
(* A process is one HTTP request to /auth; a step is one SQL statement,    *)
(* each committed by itself: nothing under modules/auth runs in a          *)
(* transaction.  A device is a browser: requests that it has under way     *)
(* share its cookie, and answers reach it in any order.                    *)
(*                                                                         *)
(* A session is a sign-in and the refresh tokens that rotation derives     *)
(* from it, named by its first token.                                      *)
(***************************************************************************)
EXTENDS Integers, Sequences, FiniteSets

CONSTANTS
  Reqs,         \* concurrent requests
  Devices,      \* browsers
  Emails,       \* people: a users row is found by its email
  AdminEmails,  \* ADMIN_EMAILS
  MaxTokens,    \* bound: refresh_tokens rows ever inserted
  MaxResets,    \* bound: password resets of an account
  NOBODY        \* no account

ASSUME SessionsAssumption ==
  /\ AdminEmails \subseteq Emails
  /\ MaxTokens \in Nat /\ MaxResets \in Nat
  /\ NOBODY \notin Emails

NoToken == 0

VARIABLES
  users,     \* the users table
  tokens,    \* the refresh_tokens table, by order of insertion
  req,       \* the request each process serves
  cookie,    \* refresh_token cookie of each device
  access,    \* the account each device holds an access token of
  mailed,    \* accounts that a password reset link was made for
  signedOut, \* history: sessions that a logout was acknowledged for
  closed,    \* history: sessions that may end: logout, revoke all, expiry,
             \* or a rotation that died half way
  halfReset  \* history: accounts whose last reset died before it revoked

history == <<signedOut, closed, halfReset>>
vars == <<users, tokens, req, cookie, access, mailed, signedOut, closed, halfReset>>

\* One row of users: the index on email allows one that is not deleted.
UserRow == [state: {"absent", "active", "inactive"},
            password: BOOLEAN,   \* password_hash is not null
            resets: 0..MaxResets] \* which password it is: how often it was reset

\* One row of refresh_tokens.  dead: revoked, or deleted when it had expired.
TokenRow == [user: Emails, session: 1..MaxTokens, state: {"live", "expired", "dead"},
             auth: 0..MaxResets, \* history: the password the session started under
             carried: BOOLEAN]   \* history: it was being issued during a revoke-all

Ops == {"register", "login", "google", "refresh", "logout", "logout_all", "reset"}

Steps == {"save_user", "save_address", "update_google", "insert", "store_hash",
          "respond", "revoke", "signed_out", "save_password", "revoke_all"}

Request == [pc: Steps, op: Ops, user: Emails, device: Devices,
            withAddress: BOOLEAN, token: 0..MaxTokens, session: 0..MaxTokens,
            auth: 0..MaxResets, carried: BOOLEAN]

Idle == [pc |-> "idle"]

TypeOK ==
  /\ users \in [Emails -> UserRow]
  /\ tokens \in Seq(TokenRow) /\ Len(tokens) <= MaxTokens
  /\ req \in [Reqs -> Request \cup {Idle}]
  /\ cookie \in [Devices -> 0..Len(tokens)]
  /\ access \in [Devices -> Emails \cup {NOBODY}]
  /\ mailed \subseteq Emails
  /\ signedOut \subseteq closed
  /\ closed \subseteq 1..Len(tokens)
  /\ halfReset \subseteq Emails

Init ==
  /\ users = [e \in Emails |-> [state |-> "absent", password |-> FALSE, resets |-> 0]]
  /\ tokens = <<>>
  /\ req = [r \in Reqs |-> Idle]
  /\ cookie = [d \in Devices |-> NoToken]
  /\ access = [d \in Devices |-> NOBODY]
  /\ mailed = {}
  /\ signedOut = {} /\ closed = {} /\ halfReset = {}

-----------------------------------------------------------------------------
(* Requests.                                                               *)

\* Process r takes up a request that has passed its first read.
Begin(r, pc, op, e, d) ==
  [pc |-> pc, op |-> op, user |-> e, device |-> d, withAddress |-> FALSE,
   token |-> NoToken, session |-> NoToken, auth |-> users[e].resets, carried |-> FALSE]

Goto(r, pc) == req' = [req EXCEPT ![r].pc = pc]

\* An exception, a driver error or the server dying: no answer arrives.  What
\* was written stays.  A rotation that dies after it revoked loses its session.
Fail(r) ==
  /\ req[r].pc # "idle"
  /\ req' = [req EXCEPT ![r] = Idle]
  /\ closed' = IF req[r].op = "refresh" /\ req[r].pc # "revoke"
               THEN closed \cup {req[r].session} ELSE closed
  /\ halfReset' = IF req[r].op = "reset" /\ req[r].pc = "revoke_all"
                  THEN halfReset \cup {req[r].user} ELSE halfReset
  /\ UNCHANGED <<users, tokens, cookie, access, mailed, signedOut>>

\* JwtStrategy: an access token is good for an account that is active.
JwtGuard(d, e) == access[d] = e /\ users[e].state = "active"

-----------------------------------------------------------------------------
(* generateTokenPair.                                                      *)

\* The row is inserted first, for its id; the hash is only 'pending'.
InsertToken(r) ==
  LET q == req[r]
      id == Len(tokens) + 1
      s == IF q.op = "refresh" THEN q.session ELSE id IN
  /\ q.pc = "insert" /\ id <= MaxTokens
  /\ tokens' = Append(tokens, [user |-> q.user, session |-> s, state |-> "live",
                               auth |-> q.auth, carried |-> q.carried])
  /\ req' = [req EXCEPT ![r] = [q EXCEPT !.pc = "store_hash", !.token = id, !.session = s]]
  /\ UNCHANGED <<users, cookie, access, mailed, history>>

\* The tokens are signed and the hash stored.
StoreHash(r) ==
  /\ req[r].pc = "store_hash"
  /\ Goto(r, "respond")
  /\ UNCHANGED <<users, tokens, cookie, access, mailed, history>>

\* Mutant of SetRefreshTokenCookie: the Google callback sets none.
NoCookieForGoogle(d, id) ==
  cookie' = IF \E r \in Reqs : req[r] # Idle /\ req[r].op = "google" /\ req[r].token = id
            THEN cookie ELSE [cookie EXCEPT ![d] = id]

SetRefreshTokenCookie(d, id) == cookie' = [cookie EXCEPT ![d] = id]

\* The controller's answer to register, login, Google sign-in and refresh.
Respond(r) ==
  LET q == req[r] IN
  /\ q.pc = "respond"
  /\ SetRefreshTokenCookie(q.device, q.token)
  /\ access' = [access EXCEPT ![q.device] = q.user]
  /\ req' = [req EXCEPT ![r] = Idle]
  /\ UNCHANGED <<users, tokens, mailed, history>>

-----------------------------------------------------------------------------
(* Registration and sign-in.                                               *)

\* What registration asks for, names and the password apart.
RegisterDto == [email: Emails, withAddress: BOOLEAN]

\* register looks the email up; the password is hashed meanwhile.
Register(r, d, dto) ==
  /\ req[r] = Idle /\ Len(tokens) < MaxTokens
  /\ users[dto.email].state = "absent"
  /\ req' = [req EXCEPT ![r] = [Begin(r, "save_user", "register", dto.email, d)
                                EXCEPT !.withAddress = dto.withAddress]]
  /\ UNCHANGED <<users, tokens, cookie, access, mailed, history>>

\* Mutant of SaveUser: the account waits for its email to be verified.
SaveUnverified(r) ==
  LET q == req[r] IN
  /\ q.pc = "save_user" /\ users[q.user].state = "absent"
  /\ users' = [users EXCEPT ![q.user].state = "unverified"]
  /\ Goto(r, IF q.withAddress THEN "save_address" ELSE "insert")
  /\ UNCHANGED <<tokens, cookie, access, mailed, history>>

\* Where another request saved the email first the index refuses the row.
SaveUser(r) ==
  LET q == req[r] IN
  /\ q.pc = "save_user" /\ users[q.user].state = "absent"
  /\ users' = [users EXCEPT ![q.user] =
       [@ EXCEPT !.state = "active",
                 !.password = q.op = "register" \/ q.user \in AdminEmails]]
  /\ Goto(r, IF q.withAddress THEN "save_address" ELSE "insert")
  /\ UNCHANGED <<tokens, cookie, access, mailed, history>>

\* The address given at registration: its row is in Addresses.
SaveAddress(r) ==
  /\ req[r].pc = "save_address"
  /\ Goto(r, "insert")
  /\ UNCHANGED <<users, tokens, cookie, access, mailed, history>>

\* login with the account's password of that moment.
Login(r, d, e) ==
  /\ req[r] = Idle /\ Len(tokens) < MaxTokens
  /\ users[e].state = "active" /\ users[e].password
  /\ req' = [req EXCEPT ![r] = Begin(r, "insert", "login", e, d)]
  /\ UNCHANGED <<users, tokens, cookie, access, mailed, history>>

\* googleLogin finds the account, or will create it.  It does not look at
\* isActive.
GoogleLogin(r, d, e) ==
  /\ req[r] = Idle /\ Len(tokens) < MaxTokens
  /\ req' = [req EXCEPT ![r] = Begin(r,
       IF users[e].state = "absent" THEN "save_user" ELSE "update_google", "google", e, d)]
  /\ UNCHANGED <<users, tokens, cookie, access, mailed, history>>

\* An administrator's account is given the standard password.
UpdateGoogleUser(r) ==
  /\ req[r].pc = "update_google"
  /\ users' = [users EXCEPT ![req[r].user].password = @ \/ req[r].user \in AdminEmails]
  /\ Goto(r, "insert")
  /\ UNCHANGED <<tokens, cookie, access, mailed, history>>

-----------------------------------------------------------------------------
(* Rotation and logout.                                                    *)

\* Mutant of ValidateRefreshToken: it revokes the token, as its comment says.
ValidateAndRevoke(id) ==
  /\ tokens[id].state = "live"
  /\ tokens' = [tokens EXCEPT ![id].state = "dead"]

\* The row is there, not revoked, not expired, and the user is active.
ValidateRefreshToken(id) ==
  /\ tokens[id].state = "live"
  /\ users[tokens[id].user].state = "active"
  /\ UNCHANGED tokens

\* JwtRefreshGuard for refresh and logout: req.user is the token's user and
\* the token's id.
RefreshGuard(r, d, op) ==
  LET id == cookie[d] IN
  /\ req[r] = Idle /\ id # NoToken /\ op \in {"refresh", "logout"}
  /\ Len(tokens) < MaxTokens
  /\ ValidateRefreshToken(id)
  /\ req' = [req EXCEPT ![r] =
       [Begin(r, "revoke", op, tokens[id].user, d)
        EXCEPT !.token = id, !.session = tokens[id].session,
               !.auth = tokens[id].auth, !.carried = tokens[id].carried]]
  /\ UNCHANGED <<users, cookie, access, mailed, history>>

\* An expired token is revoked when somebody presents it.
RefuseExpired(d) ==
  /\ cookie[d] # NoToken /\ tokens[cookie[d]].state = "expired"
  /\ tokens' = [tokens EXCEPT ![cookie[d]].state = "dead"]
  /\ UNCHANGED <<users, req, cookie, access, mailed, history>>

\* Mutant of RevokeToken: it ignores result.affected.
RevokeUnchecked(id) == tokens' = [tokens EXCEPT ![id].state = "dead"]

\* UPDATE ... WHERE is_revoked = false; affected 0 is an exception.
RevokeToken(id) ==
  /\ tokens[id].state # "dead"
  /\ tokens' = [tokens EXCEPT ![id].state = "dead"]

\* refresh revokes the consumed token, then issues a pair; logout only revokes.
Revoke(r) ==
  LET q == req[r] IN
  /\ q.pc = "revoke"
  /\ RevokeToken(q.token)
  /\ IF q.op = "refresh"
     THEN /\ Goto(r, "insert")
          /\ UNCHANGED <<signedOut, closed>>
     ELSE /\ Goto(r, "signed_out")
          /\ signedOut' = signedOut \cup {q.session}
          /\ closed' = closed \cup {q.session}
  /\ UNCHANGED <<users, cookie, access, mailed, halfReset>>

\* logout and logoutAll answer by clearing the cookie; the client forgets its
\* access token.
ClearRefreshTokenCookie(r) ==
  LET q == req[r] IN
  /\ q.pc = "signed_out"
  /\ cookie' = [cookie EXCEPT ![q.device] = NoToken]
  /\ access' = [access EXCEPT ![q.device] = NOBODY]
  /\ req' = [req EXCEPT ![r] = Idle]
  /\ UNCHANGED <<users, tokens, mailed, history>>

LogoutAll(r, d, e) ==
  /\ req[r] = Idle /\ Len(tokens) < MaxTokens
  /\ JwtGuard(d, e)
  /\ req' = [req EXCEPT ![r] = Begin(r, "revoke_all", "logout_all", e, d)]
  /\ UNCHANGED <<users, tokens, cookie, access, mailed, history>>

\* Mutant of RevokeAllUserTokens: rows whose hash is still 'pending' are left.
RevokeAllHashed(e) ==
  [i \in DOMAIN tokens |->
     IF tokens[i].user = e /\ ~\E r \in Reqs : req[r].pc = "store_hash" /\ req[r].token = i
     THEN [tokens[i] EXCEPT !.state = "dead"] ELSE tokens[i]]

RevokeAllUserTokens(e) ==
  [i \in DOMAIN tokens |->
     IF tokens[i].user = e THEN [tokens[i] EXCEPT !.state = "dead"] ELSE tokens[i]]

\* The requests that will insert a token of e, which UPDATE cannot see.
AboutToInsert(e) ==
  {r \in Reqs : /\ req[r].pc \in {"save_address", "update_google", "insert"}
                /\ req[r].user = e}

\* revokeAllUserTokens, last step of logoutAll and of resetPassword.
RevokeAll(r) ==
  LET q == req[r] IN
  /\ q.pc = "revoke_all"
  /\ tokens' = RevokeAllUserTokens(q.user)
  /\ req' = [p \in Reqs |->
       IF p = r THEN IF q.op = "reset" THEN Idle ELSE [q EXCEPT !.pc = "signed_out"]
       ELSE IF p \in AboutToInsert(q.user) THEN [req[p] EXCEPT !.carried = TRUE]
       ELSE req[p]]
  /\ closed' = closed \cup {tokens[i].session : i \in {j \in DOMAIN tokens : tokens[j].user = q.user}}
  /\ halfReset' = halfReset \ {q.user}
  /\ UNCHANGED <<users, cookie, access, mailed, signedOut>>

-----------------------------------------------------------------------------
(* Password reset.                                                         *)

\* The link stays good until it expires, however often it is used.
ForgotPassword(e) ==
  /\ users[e].state = "active" /\ e \notin mailed
  /\ mailed' = mailed \cup {e}
  /\ UNCHANGED <<users, tokens, req, cookie, access, history>>

\* resetPassword verifies the link and finds the account; it hashes meanwhile.
ResetPassword(r, d, e) ==
  /\ req[r] = Idle /\ e \in mailed /\ users[e].state = "active"
  /\ users[e].resets < MaxResets
  /\ req' = [req EXCEPT ![r] = Begin(r, "save_password", "reset", e, d)]
  /\ UNCHANGED <<users, tokens, cookie, access, mailed, history>>

SavePassword(r) ==
  LET e == req[r].user IN
  /\ req[r].pc = "save_password" /\ users[e].resets < MaxResets
  /\ users' = [users EXCEPT ![e].password = TRUE, ![e].resets = @ + 1]
  /\ Goto(r, "revoke_all")
  /\ UNCHANGED <<tokens, cookie, access, mailed, history>>

-----------------------------------------------------------------------------
(* Time, housekeeping and operators.                                       *)

Expire(i) ==
  /\ i \in DOMAIN tokens /\ tokens[i].state = "live"
  /\ tokens' = [tokens EXCEPT ![i].state = "expired"]
  /\ closed' = closed \cup {tokens[i].session}
  /\ UNCHANGED <<users, req, cookie, access, mailed, signedOut, halfReset>>

PurgeExpiredTokens ==
  /\ \E i \in DOMAIN tokens : tokens[i].state = "expired"
  /\ tokens' = [i \in DOMAIN tokens |->
       IF tokens[i].state = "expired" THEN [tokens[i] EXCEPT !.state = "dead"] ELSE tokens[i]]
  /\ UNCHANGED <<users, req, cookie, access, mailed, history>>

\* is_active has readers and no writer in the program: somebody clears it in
\* the database.
Deactivate(e) ==
  /\ users[e].state = "active"
  /\ users' = [users EXCEPT ![e].state = "inactive"]
  /\ UNCHANGED <<tokens, req, cookie, access, mailed, history>>

-----------------------------------------------------------------------------
(* The endpoints of AuthController.                                        *)

PostRegister(r, d) == \E dto \in RegisterDto : Register(r, d, dto)
PostLogin(r, d) == \E e \in Emails : Login(r, d, e)
PostLogout(r, d) == RefreshGuard(r, d, "logout")
PostLogoutAll(r, d) == \E e \in Emails : LogoutAll(r, d, e)
PostRefresh(r, d) == RefreshGuard(r, d, "refresh") \/ RefuseExpired(d)
PostForgotPassword == \E e \in Emails : ForgotPassword(e)
PostResetPassword(r, d) == \E e \in Emails : ResetPassword(r, d, e)
GoogleCallback(r, d) == \E e \in Emails : GoogleLogin(r, d, e)

\* The statements that follow within a request.
Continue(r) ==
  \/ SaveUser(r) \/ SaveAddress(r) \/ UpdateGoogleUser(r)
  \/ InsertToken(r) \/ StoreHash(r) \/ Respond(r) \/ Revoke(r)
  \/ ClearRefreshTokenCookie(r) \/ RevokeAll(r) \/ SavePassword(r)

Next ==
  \/ \E r \in Reqs : Continue(r) \/ Fail(r)
  \/ \E r \in Reqs, d \in Devices :
       \/ PostRegister(r, d) \/ PostLogin(r, d) \/ GoogleCallback(r, d)
       \/ PostRefresh(r, d) \/ PostLogout(r, d) \/ PostLogoutAll(r, d)
       \/ PostResetPassword(r, d)
  \/ PostForgotPassword \/ PurgeExpiredTokens
  \/ \E e \in Emails : Deactivate(e)
  \/ \E i \in 1..MaxTokens : Expire(i)

Spec == Init /\ [][Next]_vars

-----------------------------------------------------------------------------

Live(i) == tokens[i].state = "live"

\* Rotation never forks a session: however many requests present one token
\* at once, at most one refresh token of a session is good at any time, and
\* none while a rotation that has revoked is still to insert its successor
\* (auth.service.ts:256 and the affected check of token.service.ts:143).
OneLivePerSession ==
  \A s \in 1..Len(tokens) :
    Cardinality({i \in DOMAIN tokens : tokens[i].session = s /\ Live(i)}
                \cup {r \in Reqs : /\ req[r].pc = "insert" /\ req[r].op = "refresh"
                                   /\ req[r].session = s}) <= 1

\* A session whose logout was acknowledged never comes back: no token of it
\* is good and no rotation of it will issue one, whatever refresh was under
\* way at the time (auth.service.ts:236, 250).
LogoutEndsSession ==
  \A s \in signedOut :
    /\ \A i \in DOMAIN tokens : tokens[i].session = s => ~Live(i)
    /\ \A r \in Reqs : ~ /\ req[r].pc = "insert" /\ req[r].op = "refresh"
                         /\ req[r].session = s

\* A device that is signed in can renew: its cookie is good, or its session
\* may have ended for a reason, or the answer with the successor is on its
\* way.  Two tabs that refresh at once, or a login answered before an older
\* refresh, do not leave it with a spent cookie (auth.controller.ts:156, 262).
SignedInCanRenew ==
  \A d \in Devices : access[d] # NOBODY =>
    /\ cookie[d] # NoToken
    /\ LET s == tokens[cookie[d]].session IN
       \/ Live(cookie[d])
       \/ s \in closed
       \/ \E r \in Reqs : /\ req[r].pc \in {"insert", "store_hash", "respond"}
                          /\ req[r].op = "refresh" /\ req[r].device = d
                          /\ req[r].session = s

\* After a password reset the sessions started under an earlier password are
\* over, but for those that a request was issuing a token to at the moment of
\* the revocation, and while a reset is between its two statements or died
\* there (auth.service.ts:340-343: the password is saved first, the tokens are
\* revoked second).
OldPasswordSessionsEnd ==
  \A i \in DOMAIN tokens :
    LET e == tokens[i].user IN
    Live(i) /\ tokens[i].auth < users[e].resets =>
      \/ tokens[i].carried
      \/ e \in halfReset
      \/ \E r \in Reqs : req[r].pc = "revoke_all" /\ req[r].user = e
=============================================================================
