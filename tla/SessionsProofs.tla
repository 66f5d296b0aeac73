--------------------------- MODULE SessionsProofs ---------------------------
(***************************************************************************)
(* Theorems about Sessions, for every set of requests, devices and         *)
(* accounts and every bound on tokens and resets.                          *)
(***************************************************************************)
EXTENDS Sessions, TLAPS, SequenceTheorems, FiniteSetTheorems

-----------------------------------------------------------------------------
(* The inductive invariant, part by part.                                  *)

Renewing(r) == req[r].pc = "insert" /\ req[r].op = "refresh"
Issuing(r) == req[r].pc \in {"store_hash", "respond"}

\* A request that has a token in hand: the one it was asked to renew or to
\* revoke, or the one it has inserted.
HasToken(r) == req[r].pc = "revoke" \/ Renewing(r) \/ Issuing(r)

HandInv(r) ==
  /\ req[r] # Idle /\ req[r].op = "refresh" =>
       req[r].pc \in {"revoke", "insert", "store_hash", "respond"}
  /\ req[r].pc = "save_password" => req[r].op = "reset"
  /\ HasToken(r) =>
       /\ req[r].token \in DOMAIN tokens
       /\ req[r].session = tokens[req[r].token].session

\* A session is named by its first token.
SessionsNamed == \A i \in DOMAIN tokens : tokens[i].session <= i

TypeInv == TypeOK /\ SessionsNamed /\ \A r \in Reqs : HandInv(r)

Dead(i) == tokens[i].state = "dead"

\* OneLivePerSession counts live tokens; a rotation may also revoke one that
\* expired after the guard had looked, so that expired ones have to count.
OneHolder ==
  /\ \A i, j \in DOMAIN tokens :
       tokens[i].session = tokens[j].session /\ ~Dead(i) /\ ~Dead(j) => i = j
  /\ \A r, p \in Reqs :
       Renewing(r) /\ Renewing(p) /\ req[r].session = req[p].session => r = p
  /\ \A i \in DOMAIN tokens, r \in Reqs :
       Renewing(r) /\ req[r].session = tokens[i].session => Dead(i)

LogoutFinal ==
  \A s \in signedOut :
    /\ \A i \in DOMAIN tokens : tokens[i].session = s => Dead(i)
    /\ \A r \in Reqs : Renewing(r) => req[r].session # s

\* A token that is being issued is in no cookie and in no other request's
\* hands; a cookie's token is on one device, and only from there is its
\* revocation asked for.
OneCarrier ==
  /\ \A r \in Reqs : Issuing(r) =>
       /\ \A d \in Devices : cookie[d] # req[r].token
       /\ \A p \in Reqs \ {r} : (Issuing(p) \/ req[p].pc = "revoke") => req[p].token # req[r].token
       /\ Live(req[r].token) \/ req[r].session \in closed
  /\ \A d, c \in Devices : cookie[d] = cookie[c] /\ cookie[d] # NoToken => d = c
  /\ \A r \in Reqs, d \in Devices :
       req[r].pc = "revoke" /\ cookie[d] = req[r].token => req[r].device = d

\* A password reset of e has saved the password and has yet to revoke.
Resetting(e) == \E r \in Reqs : req[r].pc = "revoke_all" /\ req[r].op = "reset" /\ req[r].user = e

Excused(e) == e \in halfReset \/ Resetting(e)

\* A request that will insert a token knows as well as a token does whether
\* it is of an old password; one that was given a token knows what it says.
Fits(r) ==
  LET q == req[r] IN
  /\ q.pc = "save_password" => users[q.user].state # "absent"
  /\ q.pc = "revoke" =>
       /\ q.user = tokens[q.token].user
       /\ q.auth = tokens[q.token].auth /\ q.carried = tokens[q.token].carried
  /\ q.pc \in {"save_address", "update_google", "insert"} /\ q.auth < users[q.user].resets =>
       q.carried \/ Excused(q.user)

RowFits(i) ==
  ~Dead(i) /\ tokens[i].auth < users[tokens[i].user].resets =>
    tokens[i].carried \/ Excused(tokens[i].user)

OldPasswords ==
  /\ \A e \in Emails : users[e].state = "absent" => users[e].resets = 0
  /\ \A r \in Reqs : Fits(r)
  /\ \A i \in DOMAIN tokens : RowFits(i)

-----------------------------------------------------------------------------
(* What the statements do to the tables.                                   *)

\* No row of refresh_tokens is added, and rows only get worse.
Fading ==
  /\ tokens' \in Seq(TokenRow) /\ Len(tokens') = Len(tokens)
  /\ \A i \in 1..Len(tokens) :
       /\ tokens'[i].user = tokens[i].user
       /\ tokens'[i].session = tokens[i].session
       /\ tokens'[i].auth = tokens[i].auth
       /\ tokens'[i].carried = tokens[i].carried
       /\ Dead(i) => Dead(i)'
       /\ Live(i)' => Live(i)

LEMMA TokenTypes ==
  ASSUME TypeOK
  PROVE  /\ Len(tokens) \in Nat /\ DOMAIN tokens = 1..Len(tokens)
         /\ \A i \in 1..Len(tokens) : tokens[i] \in TokenRow
  BY LenProperties, ElementOfSeq DEF TypeOK

LEMMA UnchangedFades == ASSUME TypeOK, UNCHANGED tokens PROVE Fading
  BY DEF Fading, TypeOK, Dead, Live

\* UPDATE of the state of some rows.
LEMMA UpdateFades ==
  ASSUME TypeOK, NEW S, NEW state \in {"expired", "dead"},
         \A i \in S \cap (1..Len(tokens)) : state = "dead" \/ ~Dead(i),
         tokens' = [i \in DOMAIN tokens |->
           IF i \in S THEN [tokens[i] EXCEPT !.state = state] ELSE tokens[i]]
  PROVE  /\ Fading
         /\ \A i \in 1..Len(tokens) :
              tokens'[i].state = IF i \in S THEN state ELSE tokens[i].state
<1>1. /\ Len(tokens) \in Nat /\ DOMAIN tokens = 1..Len(tokens)
      /\ \A i \in 1..Len(tokens) : tokens[i] \in TokenRow
  BY TokenTypes
<1>2. \A i \in 1..Len(tokens) :
        tokens'[i] = IF i \in S THEN [tokens[i] EXCEPT !.state = state] ELSE tokens[i]
  BY <1>1
<1>3. ASSUME NEW i \in 1..Len(tokens)
      PROVE  /\ tokens'[i] \in TokenRow
             /\ tokens'[i].user = tokens[i].user
             /\ tokens'[i].session = tokens[i].session
             /\ tokens'[i].auth = tokens[i].auth
             /\ tokens'[i].carried = tokens[i].carried
             /\ tokens'[i].state = IF i \in S THEN state ELSE tokens[i].state
  BY <1>1, <1>2 DEF TokenRow
<1>4. tokens' \in [1..Len(tokens) -> TokenRow]
  BY <1>1, <1>3
<1>5. tokens' \in Seq(TokenRow) /\ Len(tokens') = Len(tokens)
  <2>1. DOMAIN tokens' = 1..Len(tokens)
    BY <1>4
  <2>2. tokens' \in Seq(TokenRow)
    BY <1>1, <1>4, SeqDef
  <2>3. QED
    BY <1>1, <2>1, <2>2, LenProperties
<1>6. QED
  BY <1>3, <1>5 DEF Fading, Dead, Live

LEMMA UpdateOneFades ==
  ASSUME TypeOK, NEW i \in 1..Len(tokens), NEW state \in {"expired", "dead"},
         state = "dead" \/ ~Dead(i),
         tokens' = [tokens EXCEPT ![i].state = state]
  PROVE  /\ Fading
         /\ \A j \in 1..Len(tokens) :
              tokens'[j].state = IF j = i THEN state ELSE tokens[j].state
<1>1. DOMAIN tokens = 1..Len(tokens)
  BY TokenTypes
<1>2. PICK S : S = {i}
  OBVIOUS
<1>3. tokens' = [j \in DOMAIN tokens |->
        IF j \in S THEN [tokens[j] EXCEPT !.state = state] ELSE tokens[j]]
  BY <1>1, <1>2
<1>4. \A j \in S \cap (1..Len(tokens)) : state = "dead" \/ ~Dead(j)
  BY <1>2
<1>5. /\ Fading
      /\ \A j \in 1..Len(tokens) :
           tokens'[j].state = IF j \in S THEN state ELSE tokens[j].state
  BY <1>3, <1>4, UpdateFades
<1>6. QED
  BY <1>2, <1>5

LEMMA InsertAppends ==
  ASSUME TypeInv, NEW r \in Reqs, InsertToken(r)
  PROVE  /\ req[r] \in Request
         /\ tokens' \in Seq(TokenRow) /\ Len(tokens') = Len(tokens) + 1
         /\ Len(tokens') <= MaxTokens
         /\ \A i \in 1..Len(tokens) : tokens'[i] = tokens[i]
         /\ tokens'[Len(tokens) + 1].session =
              IF req[r].op = "refresh" THEN req[r].session ELSE Len(tokens) + 1
         /\ tokens'[Len(tokens) + 1].session \in 1..Len(tokens) + 1
         /\ tokens'[Len(tokens) + 1].user = req[r].user
         /\ tokens'[Len(tokens) + 1].state = "live"
         /\ tokens'[Len(tokens) + 1].auth = req[r].auth
         /\ tokens'[Len(tokens) + 1].carried = req[r].carried
<1> DEFINE id == Len(tokens) + 1
           s == IF req[r].op = "refresh" THEN req[r].session ELSE id
           row == [user |-> req[r].user, session |-> s, state |-> "live",
                   auth |-> req[r].auth, carried |-> req[r].carried]
<1>1. Len(tokens) \in Nat /\ DOMAIN tokens = 1..Len(tokens) /\ tokens \in Seq(TokenRow)
  BY TokenTypes DEF TypeInv, TypeOK
<1>2. req[r].pc = "insert" /\ id <= MaxTokens /\ tokens' = Append(tokens, row)
  BY DEF InsertToken
<1>3. req[r] \in Request
  BY <1>2 DEF TypeInv, TypeOK, Idle
<1>4. s \in 1..id
  <2>1. CASE req[r].op = "refresh"
    <3>1. req[r].token \in 1..Len(tokens) /\ req[r].session = tokens[req[r].token].session
      BY <1>1, <1>2, <2>1 DEF TypeInv, HandInv, HasToken, Renewing
    <3>2. tokens[req[r].token].session \in 1..MaxTokens
      BY <3>1, TokenTypes DEF TypeInv, TokenRow
    <3>3. tokens[req[r].token].session <= req[r].token
      BY <1>1, <3>1 DEF TypeInv, SessionsNamed
    <3>4. MaxTokens \in Nat
      BY SessionsAssumption
    <3>5. QED
      BY <1>1, <2>1, <3>1, <3>2, <3>3, <3>4
  <2>2. CASE req[r].op # "refresh"
    BY <1>1, <2>2
  <2>3. QED
    BY <2>1, <2>2
<1>5. row \in TokenRow
  <2>1. s \in 1..MaxTokens
    BY <1>1, <1>2, <1>4, SessionsAssumption
  <2>2. QED
    BY <1>3, <2>1 DEF TokenRow, Request
<1>6. /\ tokens' \in Seq(TokenRow) /\ Len(tokens') = id
      /\ \A i \in 1..Len(tokens) : tokens'[i] = tokens[i]
      /\ tokens'[id] = row
  <2> HIDE DEF row
  <2> QED BY <1>1, <1>2, <1>5
<1>7. QED
  BY <1>2, <1>3, <1>4, <1>6

-----------------------------------------------------------------------------
(* Types.                                                                  *)

\* Only request r moves on, to t.
Advances(r, t) == req' = [req EXCEPT ![r] = t]

LEMMA Waiting ==
  ASSUME TypeOK, NEW r \in Reqs
  PROVE  /\ req[r].pc = "idle" <=> req[r] = Idle
         /\ req[r] # Idle => req[r] \in Request
  BY DEF TypeOK, Request, Steps, Idle

LEMMA AdvanceIs ==
  ASSUME TypeOK, NEW r \in Reqs, NEW t, Advances(r, t)
  PROVE  /\ req'[r] = t
         /\ \A p \in Reqs \ {r} : req'[p] = req[p]
         /\ t \in Request \cup {Idle} => req' \in [Reqs -> Request \cup {Idle}]
  BY DEF TypeOK, Advances

\* r goes on with all that it has in hand.
LEMMA GotoIs ==
  ASSUME TypeOK, NEW r \in Reqs, NEW pc \in Steps, req[r] \in Request, Goto(r, pc)
  PROVE  \E t \in Request :
           /\ Advances(r, t) /\ t.pc = pc
           /\ t.op = req[r].op /\ t.user = req[r].user /\ t.device = req[r].device
           /\ t.token = req[r].token /\ t.session = req[r].session
           /\ t.auth = req[r].auth /\ t.carried = req[r].carried
<1>1. [req[r] EXCEPT !.pc = pc] \in Request
  BY DEF Request
<1>2. Advances(r, [req[r] EXCEPT !.pc = pc])
  BY DEF Advances, Goto
<1>3. QED
  BY <1>1, <1>2 DEF Request

LEMMA BeginIs ==
  ASSUME TypeOK, NEW r \in Reqs, NEW pc \in Steps, NEW op \in Ops, NEW e \in Emails,
         NEW d \in Devices
  PROVE  /\ Begin(r, pc, op, e, d) \in Request
         /\ Begin(r, pc, op, e, d).pc = pc /\ Begin(r, pc, op, e, d).op = op
         /\ Begin(r, pc, op, e, d).user = e /\ Begin(r, pc, op, e, d).device = d
         /\ Begin(r, pc, op, e, d).auth = users[e].resets
<1>1. users[e].resets \in 0..MaxResets
  BY DEF TypeOK, UserRow
<1>2. NoToken \in 0..MaxTokens
  BY SessionsAssumption DEF NoToken
<1>3. QED
  BY <1>1, <1>2 DEF Begin, Request

\* Rows of refresh_tokens stay where they are.
TokensStay ==
  /\ DOMAIN tokens \subseteq DOMAIN tokens'
  /\ \A i \in DOMAIN tokens : tokens'[i].session = tokens[i].session

LEMMA FadingStays ==
  ASSUME TypeInv, Fading
  PROVE  /\ TokensStay /\ SessionsNamed'
         /\ DOMAIN tokens' = DOMAIN tokens
<1>1. DOMAIN tokens' = 1..Len(tokens) /\ DOMAIN tokens = 1..Len(tokens)
  BY TokenTypes, LenProperties DEF Fading, TypeInv
<1>2. QED
  BY <1>1 DEF Fading, TokensStay, TypeInv, SessionsNamed

\* A step of r to t under which the rows stay.
LEMMA StepHand ==
  ASSUME TypeInv, TokensStay, NEW r \in Reqs, NEW t \in Request \cup {Idle},
         Advances(r, t), HandInv(r)'
  PROVE  /\ req' \in [Reqs -> Request \cup {Idle}]
         /\ \A p \in Reqs : HandInv(p)'
<1>1. /\ req' \in [Reqs -> Request \cup {Idle}]
      /\ \A p \in Reqs \ {r} : req'[p] = req[p]
  BY AdvanceIs DEF TypeInv
<1>2. ASSUME NEW p \in Reqs \ {r} PROVE HandInv(p)'
  BY <1>1, <1>2 DEF TypeInv, TokensStay, HandInv, HasToken, Renewing, Issuing
<1>3. QED
  BY <1>1, <1>2

\* A step of r to t that adds no token.
LEMMA StepTypes ==
  ASSUME TypeInv, Fading, NEW r \in Reqs, NEW t \in Request \cup {Idle},
         Advances(r, t), HandInv(r)',
         users' \in [Emails -> UserRow],
         cookie' \in [Devices -> 0..Len(tokens)],
         access' \in [Devices -> Emails \cup {NOBODY}],
         mailed' \subseteq Emails,
         signedOut' \subseteq closed', closed' \subseteq 1..Len(tokens),
         halfReset' \subseteq Emails
  PROVE  TypeInv'
<1>1. TokensStay /\ SessionsNamed'
  BY FadingStays
<1>2. /\ req' \in [Reqs -> Request \cup {Idle}]
      /\ \A p \in Reqs : HandInv(p)'
  BY <1>1, StepHand
<1>3. tokens' \in Seq(TokenRow) /\ Len(tokens') = Len(tokens)
  BY DEF Fading
<1>4. QED
  BY <1>1, <1>2, <1>3 DEF TypeInv, TypeOK

\* The arrival of a request without a token, or a step of one.
LEMMA QuietTypes ==
  ASSUME TypeInv, NEW r \in Reqs, NEW t \in Request \cup {Idle}, Advances(r, t),
         t.pc \notin {"revoke", "store_hash", "respond"},
         t # Idle => t.op # "refresh",
         t.pc = "save_password" => t.op = "reset",
         users' \in [Emails -> UserRow],
         UNCHANGED <<tokens, cookie, access, mailed, history>>
  PROVE  TypeInv'
<1>1. req'[r] = t
  BY AdvanceIs DEF TypeInv
<1>2. HandInv(r)'
  BY <1>1 DEF HandInv, HasToken, Renewing, Issuing, Idle
<1>3. Fading
  BY UnchangedFades DEF TypeInv
<1>4. QED
  BY <1>2, <1>3, StepTypes, TokenTypes DEF TypeInv, TypeOK, history

\* The endpoints that bring a request without a token.
LEMMA ArrivalIs ==
  ASSUME TypeInv, NEW r \in Reqs, NEW d \in Devices,
         \/ PostRegister(r, d) \/ PostLogin(r, d) \/ GoogleCallback(r, d)
         \/ PostLogoutAll(r, d) \/ PostResetPassword(r, d)
  PROVE  /\ req[r] = Idle /\ UNCHANGED <<users, tokens, cookie, access, mailed, history>>
         /\ \E t \in Request :
              /\ Advances(r, t) /\ t.op # "refresh"
              /\ t.pc \in {"save_user", "insert", "update_google", "revoke_all", "save_password"}
              /\ t.auth = users[t.user].resets
              /\ t.pc = "save_password" => t.op = "reset" /\ users[t.user].state = "active"
<1> DEFINE Arrived ==
      /\ req[r] = Idle /\ UNCHANGED <<users, tokens, cookie, access, mailed, history>>
      /\ \E t \in Request :
           /\ Advances(r, t) /\ t.op # "refresh"
           /\ t.pc \in {"save_user", "insert", "update_google", "revoke_all", "save_password"}
           /\ t.auth = users[t.user].resets
           /\ t.pc = "save_password" => t.op = "reset" /\ users[t.user].state = "active"
<1>1. ASSUME NEW dto \in RegisterDto, Register(r, d, dto) PROVE Arrived
  <2>1. PICK b : b = Begin(r, "save_user", "register", dto.email, d)
    OBVIOUS
  <2>2. dto.email \in Emails /\ dto.withAddress \in BOOLEAN
    BY DEF RegisterDto
  <2>3. "save_user" \in Steps /\ "register" \in Ops
    BY DEF Steps, Ops
  <2>4. /\ b \in Request /\ b.pc = "save_user" /\ b.op = "register"
        /\ b.user = dto.email /\ b.auth = users[dto.email].resets
    BY <2>1, <2>2, <2>3, BeginIs DEF TypeInv
  <2>5. PICK t : t = [b EXCEPT !.withAddress = dto.withAddress]
    OBVIOUS
  <2>6. /\ t \in Request /\ t.pc = "save_user" /\ t.op = "register"
        /\ t.user = b.user /\ t.auth = b.auth
    BY <2>2, <2>4, <2>5 DEF Request
  <2>7. Advances(r, t)
    BY <1>1, <2>1, <2>5 DEF Register, Advances
  <2>8. QED
    BY <1>1, <2>4, <2>6, <2>7 DEF Register
<1>2. ASSUME NEW pc \in {"save_user", "insert", "update_google", "revoke_all", "save_password"},
             NEW op \in Ops \ {"refresh"}, NEW e \in Emails,
             req' = [req EXCEPT ![r] = Begin(r, pc, op, e, d)], req[r] = Idle,
             pc = "save_password" => op = "reset" /\ users[e].state = "active",
             UNCHANGED <<users, tokens, cookie, access, mailed, history>>
      PROVE  Arrived
  <2>1. PICK t : t = Begin(r, pc, op, e, d)
    OBVIOUS
  <2>2. pc \in Steps
    BY DEF Steps
  <2>3. /\ t \in Request /\ t.pc = pc /\ t.op = op /\ t.user = e
        /\ t.auth = users[e].resets
    BY <2>1, <2>2, BeginIs DEF TypeInv
  <2>4. Advances(r, t)
    BY <1>2, <2>1 DEF Advances
  <2>5. QED
    BY <1>2, <2>3, <2>4
<1>3. ASSUME NEW e \in Emails, Login(r, d, e) PROVE Arrived
  BY <1>2, <1>3 DEF Login, Ops
<1>4. ASSUME NEW e \in Emails, GoogleLogin(r, d, e) PROVE Arrived
  <2>1. PICK pc \in {"save_user", "update_google"} :
          req' = [req EXCEPT ![r] = Begin(r, pc, "google", e, d)]
    BY <1>4 DEF GoogleLogin
  <2>2. QED
    BY <1>2, <1>4, <2>1 DEF GoogleLogin, Ops
<1>5. ASSUME NEW e \in Emails, LogoutAll(r, d, e) PROVE Arrived
  BY <1>2, <1>5 DEF LogoutAll, Ops
<1>6. ASSUME NEW e \in Emails, ResetPassword(r, d, e) PROVE Arrived
  BY <1>2, <1>6 DEF ResetPassword, Ops
<1>7. QED
  BY <1>1, <1>3, <1>4, <1>5, <1>6
     DEF PostRegister, PostLogin, GoogleCallback, PostLogoutAll, PostResetPassword

LEMMA ArrivalTypes ==
  ASSUME TypeInv, NEW r \in Reqs, NEW d \in Devices,
         \/ PostRegister(r, d) \/ PostLogin(r, d) \/ GoogleCallback(r, d)
         \/ PostLogoutAll(r, d) \/ PostResetPassword(r, d)
  PROVE  TypeInv'
  BY ArrivalIs, QuietTypes DEF TypeInv, TypeOK

\* JwtRefreshGuard hands over the cookie's token, which is live.
LEMMA GuardIs ==
  ASSUME TypeInv, NEW r \in Reqs, NEW d \in Devices, NEW op \in {"refresh", "logout"},
         RefreshGuard(r, d, op)
  PROVE  \E t \in Request :
           /\ Advances(r, t) /\ t.pc = "revoke" /\ t.op = op /\ t.device = d
           /\ cookie[d] \in 1..Len(tokens) /\ Live(cookie[d])
           /\ t.token = cookie[d]
           /\ t.user = tokens[cookie[d]].user /\ t.session = tokens[cookie[d]].session
           /\ t.auth = tokens[cookie[d]].auth /\ t.carried = tokens[cookie[d]].carried
<1> DEFINE id == cookie[d]
<1>1. id \in 1..Len(tokens)
  BY TokenTypes DEF RefreshGuard, TypeInv, TypeOK, NoToken
<1>2. /\ tokens[id].user \in Emails /\ tokens[id].session \in 1..MaxTokens
      /\ tokens[id].auth \in 0..MaxResets /\ tokens[id].carried \in BOOLEAN
      /\ tokens[id].session \in 0..MaxTokens
  BY <1>1, TokenTypes, SessionsAssumption DEF TypeInv, TokenRow
<1>3. id \in 0..MaxTokens
  BY <1>1, TokenTypes, SessionsAssumption DEF TypeInv, TypeOK
<1>4. PICK b : b = Begin(r, "revoke", op, tokens[id].user, d)
  OBVIOUS
<1>5. b \in Request /\ b.pc = "revoke" /\ b.op = op /\ b.device = d /\ b.user = tokens[id].user
  BY <1>2, <1>4, BeginIs DEF TypeInv, Steps, Ops
<1>6. PICK t : t = [b EXCEPT !.token = id, !.session = tokens[id].session,
                             !.auth = tokens[id].auth, !.carried = tokens[id].carried]
  OBVIOUS
<1>7. /\ t \in Request /\ t.pc = "revoke" /\ t.op = op /\ t.device = d /\ t.token = id
      /\ t.user = tokens[id].user /\ t.session = tokens[id].session
      /\ t.auth = tokens[id].auth /\ t.carried = tokens[id].carried
  <2> HIDE DEF id
  <2> QED BY <1>2, <1>3, <1>5, <1>6 DEF Request
<1>8. Advances(r, t) /\ Live(id)
  BY <1>4, <1>6 DEF RefreshGuard, ValidateRefreshToken, Advances, Live
<1>9. QED
  BY <1>1, <1>7, <1>8

LEMMA GuardTypes ==
  ASSUME TypeInv, NEW r \in Reqs, NEW d \in Devices, NEW op \in {"refresh", "logout"},
         RefreshGuard(r, d, op)
  PROVE  TypeInv'
<1>1. PICK t \in Request :
        /\ Advances(r, t) /\ t.pc = "revoke" /\ t.op = op
        /\ cookie[d] \in 1..Len(tokens) /\ t.token = cookie[d]
        /\ t.session = tokens[cookie[d]].session
  BY GuardIs
<1>2. req'[r] = t
  BY <1>1, AdvanceIs DEF TypeInv
<1>3. UNCHANGED <<users, tokens, cookie, access, mailed, history>>
  BY DEF RefreshGuard, ValidateRefreshToken
<1>4. HandInv(r)'
  BY <1>1, <1>2, <1>3, TokenTypes DEF TypeInv, HandInv, HasToken, Renewing, Issuing
<1>5. QED
  BY <1>1, <1>3, <1>4, StepTypes, UnchangedFades, TokenTypes DEF TypeInv, TypeOK, history

\* The statements that only change users, or nothing.
LEMMA GotoTypes ==
  ASSUME TypeInv, NEW r \in Reqs,
         SaveUser(r) \/ SaveAddress(r) \/ UpdateGoogleUser(r) \/ StoreHash(r) \/ SavePassword(r)
  PROVE  TypeInv'
<1>1. req[r] \in Request /\ HandInv(r) /\ req[r].user \in Emails
  <2>1. req[r] # Idle
    BY DEF SaveUser, SaveAddress, UpdateGoogleUser, StoreHash, SavePassword, Idle
  <2>2. QED
    BY <2>1, Waiting DEF TypeInv, Request
<1>2. users \in [Emails -> UserRow]
  BY DEF TypeInv, TypeOK
<1>3. ASSUME NEW pc \in {"save_address", "insert", "revoke_all"}, Goto(r, pc),
             req[r].pc \in {"save_user", "save_address", "update_google", "save_password"},
             users' \in [Emails -> UserRow],
             UNCHANGED <<tokens, cookie, access, mailed, history>>
      PROVE  TypeInv'
  <2>1. PICK t \in Request : Advances(r, t) /\ t.pc = pc /\ t.op = req[r].op
    BY <1>1, <1>3, GotoIs DEF TypeInv, Steps
  <2>2. t.op # "refresh"
    BY <1>1, <1>3, <2>1 DEF HandInv, Idle
  <2>3. QED
    BY <1>3, <2>1, <2>2, QuietTypes
<1>4. CASE SaveUser(r)
  <2>1. users' \in [Emails -> UserRow]
    BY <1>1, <1>2, <1>4 DEF SaveUser, UserRow
  <2>2. QED
    BY <1>3, <1>4, <2>1 DEF SaveUser
<1>5. CASE SaveAddress(r)
  BY <1>2, <1>3, <1>5 DEF SaveAddress
<1>6. CASE UpdateGoogleUser(r)
  <2>1. users' \in [Emails -> UserRow]
    BY <1>1, <1>2, <1>6 DEF UpdateGoogleUser, UserRow
  <2>2. QED
    BY <1>3, <1>6, <2>1 DEF UpdateGoogleUser
<1>7. CASE StoreHash(r)
  <2>1. PICK t \in Request : /\ Advances(r, t) /\ t.pc = "respond" /\ t.op = req[r].op
                             /\ t.token = req[r].token /\ t.session = req[r].session
    BY <1>1, <1>7, GotoIs DEF TypeInv, Steps, StoreHash
  <2>2. req'[r] = t /\ UNCHANGED <<users, tokens, cookie, access, mailed, history>>
    BY <1>7, <2>1, AdvanceIs DEF TypeInv, StoreHash
  <2>3. HandInv(r)'
    BY <1>1, <1>7, <2>1, <2>2 DEF HandInv, HasToken, Renewing, Issuing, StoreHash
  <2>4. QED
    BY <2>1, <2>2, <2>3, StepTypes, UnchangedFades, TokenTypes DEF TypeInv, TypeOK, history
<1>8. CASE SavePassword(r)
  <2>1. users[req[r].user].resets + 1 \in 0..MaxResets
    BY <1>1, <1>2, <1>8, SessionsAssumption DEF SavePassword, UserRow
  <2>2. users' \in [Emails -> UserRow]
    BY <1>1, <1>2, <1>8, <2>1 DEF SavePassword, UserRow
  <2>3. QED
    BY <1>3, <1>8, <2>2 DEF SavePassword
<1>9. QED
  BY <1>4, <1>5, <1>6, <1>7, <1>8

\* The request that has inserted a token goes on with it.
LEMMA InsertIs ==
  ASSUME TypeInv, NEW r \in Reqs, InsertToken(r)
  PROVE  \E t \in Request :
           /\ Advances(r, t) /\ t.pc = "store_hash" /\ t.token = Len(tokens) + 1
           /\ t.op = req[r].op /\ t.user = req[r].user /\ t.device = req[r].device
           /\ t.session = IF req[r].op = "refresh" THEN req[r].session ELSE Len(tokens) + 1
<1> DEFINE id == Len(tokens) + 1
           s == IF req[r].op = "refresh" THEN req[r].session ELSE id
<1>1. req[r] \in Request /\ s \in 1..id /\ id <= MaxTokens
  BY InsertAppends
<1>2. id \in 0..MaxTokens /\ s \in 0..MaxTokens
  BY <1>1, TokenTypes, SessionsAssumption DEF TypeInv
<1>3. PICK t : t = [req[r] EXCEPT !.pc = "store_hash", !.token = id, !.session = s]
  OBVIOUS
<1>4. /\ t \in Request /\ t.pc = "store_hash" /\ t.token = id /\ t.session = s
      /\ t.op = req[r].op /\ t.user = req[r].user /\ t.device = req[r].device
  <2> HIDE DEF id, s
  <2> QED BY <1>1, <1>2, <1>3 DEF Request, Steps
<1>5. Advances(r, t)
  BY <1>3 DEF InsertToken, Advances
<1>6. QED
  BY <1>4, <1>5

LEMMA InsertTypes ==
  ASSUME TypeInv, NEW r \in Reqs, InsertToken(r)
  PROVE  TypeInv'
<1> DEFINE id == Len(tokens) + 1
           s == IF req[r].op = "refresh" THEN req[r].session ELSE id
<1>1. /\ Len(tokens) \in Nat /\ DOMAIN tokens = 1..Len(tokens)
      /\ tokens' \in Seq(TokenRow) /\ Len(tokens') = id /\ id <= MaxTokens
      /\ \A i \in 1..Len(tokens) : tokens'[i] = tokens[i]
      /\ tokens'[id].session = s /\ s \in 1..id
  BY InsertAppends, TokenTypes DEF TypeInv
<1>2. DOMAIN tokens' = 1..id
  BY <1>1, LenProperties
<1>3. TokensStay
  BY <1>1, <1>2 DEF TokensStay
<1>4. SessionsNamed'
  BY <1>1, <1>2 DEF TypeInv, SessionsNamed
<1>5. PICK t \in Request : /\ Advances(r, t) /\ t.pc = "store_hash" /\ t.token = id
                           /\ t.op = req[r].op /\ t.session = s
  BY InsertIs
<1>6. req'[r] = t
  BY <1>5, AdvanceIs DEF TypeInv
<1>7. HandInv(r)'
  BY <1>1, <1>2, <1>5, <1>6 DEF HandInv, HasToken, Renewing, Issuing
<1>8. /\ req' \in [Reqs -> Request \cup {Idle}]
      /\ \A p \in Reqs : HandInv(p)'
  BY <1>3, <1>5, <1>7, StepHand
<1>9. UNCHANGED <<users, cookie, access, mailed, history>>
  BY DEF InsertToken
<1>10. cookie' \in [Devices -> 0..Len(tokens')] /\ closed' \subseteq 1..Len(tokens')
  BY <1>1, <1>9 DEF TypeInv, TypeOK, history
<1>11. QED
  BY <1>1, <1>4, <1>8, <1>9, <1>10 DEF TypeInv, TypeOK, history

\* The end of a request.
LEMMA EndHand ==
  ASSUME TypeInv, NEW r \in Reqs, Advances(r, Idle)
  PROVE  HandInv(r)'
<1>1. req'[r] = Idle
  BY AdvanceIs DEF TypeInv
<1>2. QED
  BY <1>1 DEF HandInv, HasToken, Renewing, Issuing, Idle

LEMMA AnswerTypes ==
  ASSUME TypeInv, NEW r \in Reqs, Respond(r) \/ ClearRefreshTokenCookie(r)
  PROVE  TypeInv'
<1>1. req[r] \in Request
  BY Waiting DEF TypeInv, Respond, ClearRefreshTokenCookie, Idle
<1>2. Advances(r, Idle) /\ UNCHANGED <<users, tokens, mailed, history>>
  BY DEF Respond, ClearRefreshTokenCookie, Advances
<1>3. cookie' \in [Devices -> 0..Len(tokens)]
  <2>1. CASE Respond(r)
    <3>1. req[r].token \in 1..Len(tokens)
      BY <2>1, TokenTypes DEF TypeInv, HandInv, HasToken, Issuing, Respond
    <3>2. req[r].token \in 0..Len(tokens)
      BY <3>1, TokenTypes DEF TypeInv
    <3>3. QED
      BY <2>1, <3>2 DEF Respond, SetRefreshTokenCookie, TypeInv, TypeOK
  <2>2. CASE ClearRefreshTokenCookie(r)
    <3>1. NoToken \in 0..Len(tokens)
      BY TokenTypes DEF NoToken, TypeInv
    <3>2. QED
      BY <2>2, <3>1 DEF ClearRefreshTokenCookie, TypeInv, TypeOK
  <2>3. QED
    BY <2>1, <2>2
<1>4. access' \in [Devices -> Emails \cup {NOBODY}]
  BY <1>1 DEF Respond, ClearRefreshTokenCookie, Request, TypeInv, TypeOK
<1>5. QED
  BY <1>2, <1>3, <1>4, EndHand, StepTypes, UnchangedFades, TokenTypes DEF TypeInv, TypeOK, history

\* RevokeToken spends the token the request has in hand.
LEMMA RevokeIs ==
  ASSUME TypeInv, NEW r \in Reqs, Revoke(r)
  PROVE  /\ req[r] \in Request /\ Fading
         /\ req[r].token \in 1..Len(tokens) /\ ~Dead(req[r].token)
         /\ req[r].session = tokens[req[r].token].session
         /\ \A i \in 1..Len(tokens) :
              tokens'[i].state = IF i = req[r].token THEN "dead" ELSE tokens[i].state
         /\ \E t \in Request :
              /\ Advances(r, t)
              /\ t.pc = IF req[r].op = "refresh" THEN "insert" ELSE "signed_out"
              /\ t.op = req[r].op /\ t.user = req[r].user /\ t.device = req[r].device
              /\ t.token = req[r].token /\ t.session = req[r].session
              /\ t.auth = req[r].auth /\ t.carried = req[r].carried
<1>1. req[r].pc = "revoke" /\ req[r] \in Request
  BY Waiting DEF TypeInv, Revoke, Idle
<1>2. /\ req[r].token \in 1..Len(tokens)
      /\ req[r].session = tokens[req[r].token].session
  BY <1>1, TokenTypes DEF TypeInv, HandInv, HasToken
<1>3. ~Dead(req[r].token) /\ tokens' = [tokens EXCEPT ![req[r].token].state = "dead"]
  BY DEF Revoke, RevokeToken, Dead
<1>4. /\ Fading
      /\ \A i \in 1..Len(tokens) :
           tokens'[i].state = IF i = req[r].token THEN "dead" ELSE tokens[i].state
  BY <1>2, <1>3, UpdateOneFades DEF TypeInv
<1>5. Goto(r, IF req[r].op = "refresh" THEN "insert" ELSE "signed_out")
  BY DEF Revoke
<1>6. QED
  BY <1>1, <1>2, <1>3, <1>4, <1>5, GotoIs DEF TypeInv, Steps

LEMMA RevokeTypes ==
  ASSUME TypeInv, NEW r \in Reqs, Revoke(r)
  PROVE  TypeInv'
<1>1. PICK t \in Request :
        /\ Advances(r, t)
        /\ t.pc = IF req[r].op = "refresh" THEN "insert" ELSE "signed_out"
        /\ t.op = req[r].op /\ t.token = req[r].token /\ t.session = req[r].session
  BY RevokeIs
<1>2. /\ Fading /\ req[r].token \in 1..Len(tokens)
      /\ req[r].session = tokens[req[r].token].session
  BY RevokeIs
<1>3. req'[r] = t /\ tokens'[t.token].session = t.session /\ t.token \in DOMAIN tokens'
  BY <1>1, <1>2, AdvanceIs, FadingStays, TokenTypes DEF TypeInv, Fading
<1>4. HandInv(r)'
  BY <1>1, <1>3 DEF HandInv, HasToken, Renewing, Issuing
<1>5. req[r].session \in 1..Len(tokens)
  <2>1. tokens[req[r].token].session \in Nat \ {0} /\ tokens[req[r].token].session <= req[r].token
    BY <1>2, TokenTypes, SessionsAssumption DEF TypeInv, SessionsNamed, TokenRow
  <2>2. QED
    BY <1>2, <2>1, TokenTypes DEF TypeInv
<1>6. signedOut' \subseteq closed' /\ closed' \subseteq 1..Len(tokens)
  BY <1>5, TokenTypes DEF Revoke, TypeInv, TypeOK
<1>7. UNCHANGED <<users, cookie, access, mailed, halfReset>>
  BY DEF Revoke
<1>8. QED
  BY <1>1, <1>2, <1>4, <1>6, <1>7, StepTypes DEF TypeInv, TypeOK

\* A step that leaves every request where it is and adds no token.
LEMMA StillTypes ==
  ASSUME TypeInv, Fading, UNCHANGED req,
         users' \in [Emails -> UserRow],
         cookie' \in [Devices -> 0..Len(tokens)],
         access' \in [Devices -> Emails \cup {NOBODY}],
         mailed' \subseteq Emails,
         signedOut' \subseteq closed', closed' \subseteq 1..Len(tokens),
         halfReset' \subseteq Emails
  PROVE  TypeInv'
<1>1. TokensStay /\ SessionsNamed'
  BY FadingStays
<1>2. ASSUME NEW r \in Reqs PROVE HandInv(r)'
  BY <1>1 DEF TypeInv, TokensStay, HandInv, HasToken, Renewing, Issuing
<1>3. tokens' \in Seq(TokenRow) /\ Len(tokens') = Len(tokens)
  BY DEF Fading
<1>4. QED
  BY <1>1, <1>2, <1>3 DEF TypeInv, TypeOK

LEMMA FailTypes ==
  ASSUME TypeInv, NEW r \in Reqs, Fail(r)
  PROVE  TypeInv'
<1>1. req[r] # Idle /\ req[r] \in Request
  BY Waiting DEF TypeInv, Fail, Idle
<1>2. ASSUME req[r].op = "refresh", req[r].pc # "revoke"
      PROVE  req[r].session \in 1..Len(tokens)
  <2>1. /\ req[r].token \in 1..Len(tokens)
        /\ req[r].session = tokens[req[r].token].session
    BY <1>1, <1>2, TokenTypes DEF TypeInv, HandInv, HasToken, Renewing, Issuing
  <2>2. tokens[req[r].token].session \in Nat \ {0} /\ tokens[req[r].token].session <= req[r].token
    BY <2>1, TokenTypes, SessionsAssumption DEF TypeInv, SessionsNamed, TokenRow
  <2>3. QED
    BY <2>1, <2>2, TokenTypes DEF TypeInv
<1>3. closed' \subseteq 1..Len(tokens) /\ signedOut' \subseteq closed'
  BY <1>2 DEF Fail, TypeInv, TypeOK
<1>4. halfReset' \subseteq Emails
  BY <1>1 DEF Fail, TypeInv, TypeOK, Request
<1>5. Advances(r, Idle) /\ UNCHANGED <<users, tokens, cookie, access, mailed>>
  BY DEF Fail, Advances
<1>6. QED
  BY <1>3, <1>4, <1>5, EndHand, StepTypes, UnchangedFades DEF TypeInv, TypeOK

\* What a revocation of all leaves of another request: it knows that its
\* token is being issued at that time.
LEMMA RevokeAllIs ==
  ASSUME TypeInv, NEW r \in Reqs, RevokeAll(r)
  PROVE  /\ req[r] \in Request /\ Fading
         /\ \A i \in 1..Len(tokens) :
              tokens'[i].state = IF tokens[i].user = req[r].user THEN "dead" ELSE tokens[i].state
         /\ req' \in [Reqs -> Request \cup {Idle}]
         /\ \A p \in Reqs \ {r} :
              /\ req'[p].pc = req[p].pc
              /\ req[p] # Idle =>
                   /\ req'[p] # Idle
                   /\ req'[p].op = req[p].op /\ req'[p].user = req[p].user
                   /\ req'[p].device = req[p].device /\ req'[p].token = req[p].token
                   /\ req'[p].session = req[p].session /\ req'[p].auth = req[p].auth
                   /\ req'[p].carried = (req[p].carried \/ p \in AboutToInsert(req[r].user))
         /\ req'[r].pc \in {"idle", "signed_out"}
         /\ req'[r].pc = "signed_out" => req'[r].op = req[r].op
<1>1. req[r].pc = "revoke_all" /\ req[r] \in Request /\ req[r].user \in Emails
  BY Waiting DEF TypeInv, RevokeAll, Idle, Request
<1>2. PICK S : S = {i \in 1..Len(tokens) : tokens[i].user = req[r].user}
  OBVIOUS
<1>3. tokens' = [i \in DOMAIN tokens |->
        IF i \in S THEN [tokens[i] EXCEPT !.state = "dead"] ELSE tokens[i]]
  BY <1>2, TokenTypes DEF TypeInv, RevokeAll, RevokeAllUserTokens
<1>4. /\ Fading
      /\ \A i \in 1..Len(tokens) :
           tokens'[i].state = IF i \in S THEN "dead" ELSE tokens[i].state
  BY <1>3, UpdateFades DEF TypeInv
<1>5. req' = [p \in Reqs |->
        IF p = r THEN IF req[r].op = "reset" THEN Idle ELSE [req[r] EXCEPT !.pc = "signed_out"]
        ELSE IF p \in AboutToInsert(req[r].user) THEN [req[p] EXCEPT !.carried = TRUE]
        ELSE req[p]]
  BY DEF RevokeAll
<1>6. /\ req'[r] \in Request \cup {Idle} /\ req'[r].pc \in {"idle", "signed_out"}
      /\ req'[r].pc = "signed_out" => req'[r].op = req[r].op
  BY <1>1, <1>5 DEF Request, Steps, Idle
<1>7. ASSUME NEW p \in Reqs \ {r}
      PROVE  /\ req'[p] \in Request \cup {Idle}
             /\ req'[p].pc = req[p].pc
             /\ req[p] # Idle =>
                   /\ req'[p] # Idle
                   /\ req'[p].op = req[p].op /\ req'[p].user = req[p].user
                   /\ req'[p].device = req[p].device /\ req'[p].token = req[p].token
                   /\ req'[p].session = req[p].session /\ req'[p].auth = req[p].auth
                   /\ req'[p].carried = (req[p].carried \/ p \in AboutToInsert(req[r].user))
  <2>1. CASE p \in AboutToInsert(req[r].user)
    <3>1. req[p] \in Request
      BY <2>1, Waiting DEF TypeInv, AboutToInsert, Idle
    <3>2. req'[p] = [req[p] EXCEPT !.carried = TRUE]
      BY <1>5, <2>1
    <3>3. req'[p] \in Request
      BY <3>1, <3>2 DEF Request
    <3>4. QED
      BY <2>1, <3>1, <3>2, <3>3, Waiting DEF Request, TypeInv, Idle, Steps
  <2>2. CASE p \notin AboutToInsert(req[r].user)
    <3>1. req'[p] = req[p]
      BY <1>5, <2>2
    <3>2. req[p] # Idle => req[p].carried \in BOOLEAN
      BY Waiting DEF TypeInv, Request
    <3>3. QED
      BY <2>2, <3>1, <3>2 DEF TypeInv, TypeOK
  <2>3. QED
    BY <2>1, <2>2
<1>8. req' \in [Reqs -> Request \cup {Idle}]
  BY <1>5, <1>6, <1>7
<1>9. QED
  BY <1>1, <1>2, <1>4, <1>6, <1>7, <1>8

LEMMA RevokeAllTypes ==
  ASSUME TypeInv, NEW r \in Reqs, RevokeAll(r)
  PROVE  TypeInv'
<1>1. /\ req[r] \in Request /\ Fading
      /\ req' \in [Reqs -> Request \cup {Idle}]
      /\ \A p \in Reqs \ {r} :
           /\ req'[p].pc = req[p].pc
           /\ req[p] # Idle => /\ req'[p] # Idle
                               /\ req'[p].op = req[p].op /\ req'[p].token = req[p].token
                               /\ req'[p].session = req[p].session
      /\ req'[r].pc \in {"idle", "signed_out"}
      /\ req'[r].pc = "signed_out" => req'[r].op = req[r].op
  BY RevokeAllIs
<1>2. TokensStay /\ SessionsNamed'
  BY <1>1, FadingStays
<1>3. HandInv(r)'
  <2>1. req[r] # Idle /\ req[r].op # "refresh"
    BY DEF TypeInv, HandInv, RevokeAll, Idle
  <2>2. req'[r].pc = "idle" => req'[r] = Idle
    BY <1>1 DEF Request, Steps
  <2>3. QED
    BY <1>1, <2>1, <2>2 DEF HandInv, HasToken, Renewing, Issuing
<1>4. ASSUME NEW p \in Reqs \ {r} PROVE HandInv(p)'
  <2>1. req[p] = Idle => req'[p] = Idle
    BY <1>1 DEF Idle, Request, Steps
  <2>2. HandInv(p)
    BY DEF TypeInv
  <2>3. CASE req[p] = Idle
    BY <2>1, <2>3 DEF HandInv, HasToken, Renewing, Issuing, Idle
  <2>4. CASE req[p] # Idle
    BY <1>1, <1>2, <2>2, <2>4 DEF TokensStay, HandInv, HasToken, Renewing, Issuing
  <2>5. QED
    BY <2>3, <2>4
<1>5. closed' \subseteq 1..Len(tokens) /\ signedOut' \subseteq closed'
  <2>1. ASSUME NEW i \in DOMAIN tokens PROVE tokens[i].session \in 1..Len(tokens)
    <3>1. /\ i \in 1..Len(tokens) /\ tokens[i].session \in 1..MaxTokens
          /\ tokens[i].session <= i
      BY <2>1, TokenTypes DEF TypeInv, SessionsNamed, TokenRow
    <3>2. QED
      BY <3>1, TokenTypes, SessionsAssumption DEF TypeInv
  <2>2. QED
    BY <2>1 DEF RevokeAll, TypeInv, TypeOK
<1>6. halfReset' \subseteq Emails /\ UNCHANGED <<users, cookie, access, mailed>>
  BY DEF RevokeAll, TypeInv, TypeOK
<1>7. tokens' \in Seq(TokenRow) /\ Len(tokens') = Len(tokens)
  BY <1>1 DEF Fading
<1>8. QED
  BY <1>1, <1>2, <1>3, <1>4, <1>5, <1>6, <1>7 DEF TypeInv, TypeOK

\* Expiry, the purge of expired rows and the refusal of one.
LEMMA ExpireIs ==
  ASSUME TypeInv, NEW i \in 1..MaxTokens, Expire(i)
  PROVE  /\ Fading /\ i \in 1..Len(tokens)
         /\ \A j \in 1..Len(tokens) :
              tokens'[j].state = IF j = i THEN "expired" ELSE tokens[j].state
  BY UpdateOneFades, TokenTypes DEF Expire, TypeInv, Dead

LEMMA PurgeIs ==
  ASSUME TypeInv, PurgeExpiredTokens
  PROVE  /\ Fading
         /\ \A j \in 1..Len(tokens) : Live(j) => Live(j)'
<1>1. PICK S : S = {i \in 1..Len(tokens) : tokens[i].state = "expired"}
  OBVIOUS
<1>2. tokens' = [i \in DOMAIN tokens |->
        IF i \in S THEN [tokens[i] EXCEPT !.state = "dead"] ELSE tokens[i]]
  BY <1>1, TokenTypes DEF TypeInv, PurgeExpiredTokens
<1>3. /\ Fading
      /\ \A i \in 1..Len(tokens) :
           tokens'[i].state = IF i \in S THEN "dead" ELSE tokens[i].state
  BY <1>2, UpdateFades DEF TypeInv
<1>4. QED
  BY <1>1, <1>3 DEF Live

LEMMA RefuseIs ==
  ASSUME TypeInv, NEW d \in Devices, RefuseExpired(d)
  PROVE  /\ Fading
         /\ \A j \in 1..Len(tokens) : Live(j) => Live(j)'
<1>1. cookie[d] \in 1..Len(tokens)
  BY TokenTypes DEF RefuseExpired, TypeInv, TypeOK, NoToken
<1>2. tokens' = [tokens EXCEPT ![cookie[d]].state = "dead"] /\ ~Live(cookie[d])
  BY DEF RefuseExpired, Live
<1>3. /\ Fading
      /\ \A j \in 1..Len(tokens) :
           tokens'[j].state = IF j = cookie[d] THEN "dead" ELSE tokens[j].state
  BY <1>1, <1>2, UpdateOneFades DEF TypeInv
<1>4. QED
  BY <1>2, <1>3 DEF Live

LEMMA TimeTypes ==
  ASSUME TypeInv,
         \/ \E d \in Devices : RefuseExpired(d)
         \/ PurgeExpiredTokens \/ PostForgotPassword
         \/ \E e \in Emails : Deactivate(e)
         \/ \E i \in 1..MaxTokens : Expire(i)
  PROVE  TypeInv'
<1>1. ASSUME NEW d \in Devices, RefuseExpired(d) PROVE TypeInv'
  BY <1>1, RefuseIs, StillTypes DEF RefuseExpired, history, TypeInv, TypeOK
<1>2. CASE PurgeExpiredTokens
  BY <1>2, PurgeIs, StillTypes DEF PurgeExpiredTokens, history, TypeInv, TypeOK
<1>3. CASE PostForgotPassword
  BY <1>3, UnchangedFades, StillTypes
     DEF PostForgotPassword, ForgotPassword, history, TypeInv, TypeOK
<1>4. ASSUME NEW e \in Emails, Deactivate(e) PROVE TypeInv'
  <2>1. users' \in [Emails -> UserRow]
    BY <1>4 DEF Deactivate, TypeInv, TypeOK, UserRow
  <2>2. QED
    BY <1>4, <2>1, UnchangedFades, StillTypes DEF Deactivate, history, TypeInv, TypeOK
<1>5. ASSUME NEW i \in 1..MaxTokens, Expire(i) PROVE TypeInv'
  <2>1. Fading /\ i \in 1..Len(tokens)
    BY <1>5, ExpireIs
  <2>2. tokens[i].session \in 1..Len(tokens)
    <3>1. /\ tokens[i].session \in 1..MaxTokens
          /\ tokens[i].session <= i
      BY <2>1, TokenTypes DEF TypeInv, SessionsNamed, TokenRow
    <3>2. QED
      BY <2>1, <3>1, TokenTypes, SessionsAssumption DEF TypeInv
  <2>3. closed' \subseteq 1..Len(tokens) /\ signedOut' \subseteq closed'
    BY <1>5, <2>2 DEF Expire, TypeInv, TypeOK
  <2>4. QED
    BY <1>5, <2>1, <2>3, StillTypes DEF Expire, TypeInv, TypeOK
<1>6. QED
  BY <1>1, <1>2, <1>3, <1>4, <1>5

LEMMA InitTypes == ASSUME Init PROVE TypeInv
<1>1. tokens = <<>> /\ Len(tokens) = 0 /\ tokens \in Seq(TokenRow) /\ DOMAIN tokens = {}
  BY EmptySeq DEF Init
<1>2. users \in [Emails -> UserRow]
  BY SessionsAssumption DEF Init, UserRow
<1>3. TypeOK
  BY <1>1, <1>2, SessionsAssumption DEF Init, TypeOK, NoToken
<1>4. \A r \in Reqs : HandInv(r)
  BY DEF Init, HandInv, HasToken, Renewing, Issuing, Idle
<1>5. QED
  BY <1>1, <1>3, <1>4 DEF TypeInv, SessionsNamed

\* A step, by what it does to tokens and requests.
LEMMA StepCases ==
  ASSUME Next
  PROVE  \/ \E r \in Reqs, d \in Devices :
              \/ PostRegister(r, d) \/ PostLogin(r, d) \/ GoogleCallback(r, d)
              \/ PostLogoutAll(r, d) \/ PostResetPassword(r, d)
         \/ \E r \in Reqs, d \in Devices, op \in {"refresh", "logout"} : RefreshGuard(r, d, op)
         \/ \E r \in Reqs : \/ SaveUser(r) \/ SaveAddress(r) \/ UpdateGoogleUser(r)
                            \/ StoreHash(r) \/ SavePassword(r)
         \/ \E r \in Reqs : InsertToken(r)
         \/ \E r \in Reqs : Respond(r) \/ ClearRefreshTokenCookie(r)
         \/ \E r \in Reqs : Revoke(r)
         \/ \E r \in Reqs : RevokeAll(r)
         \/ \E r \in Reqs : Fail(r)
         \/ \E d \in Devices : RefuseExpired(d)
         \/ PurgeExpiredTokens \/ PostForgotPassword
         \/ \E e \in Emails : Deactivate(e)
         \/ \E i \in 1..MaxTokens : Expire(i)
  BY DEF Next, Continue, PostRefresh, PostLogout

LEMMA NextTypes == ASSUME TypeInv, [Next]_vars PROVE TypeInv'
<1>1. CASE UNCHANGED vars
  BY <1>1, UnchangedFades, StillTypes DEF vars, TypeInv, TypeOK
<1>2. CASE Next
  BY <1>2, StepCases, ArrivalTypes, GuardTypes, GotoTypes, InsertTypes, AnswerTypes,
     RevokeTypes, RevokeAllTypes, FailTypes, TimeTypes
<1>3. QED
  BY <1>1, <1>2

\* Every table, cookie and request keeps its type; a request that renews,
\* revokes or issues a token holds one that exists and belongs to its session
\* (token.service.ts, auth.service.ts).
THEOREM TypeCorrect == Spec => []TypeOK
<1>1. Init => TypeInv
  BY InitTypes
<1>2. TypeInv /\ [Next]_vars => TypeInv'
  BY NextTypes
<1>3. TypeInv => TypeOK
  BY DEF TypeInv
<1>4. QED
  BY <1>1, <1>2, <1>3, PTL DEF Spec

-----------------------------------------------------------------------------
(* Rotation and logout.                                                    *)

\* No row is added, rows only get worse, and no request begins to renew.
Settles ==
  /\ Fading
  /\ \A p \in Reqs : Renewing(p)' => Renewing(p) /\ req'[p].session = req[p].session

LEMMA AdvanceSettles ==
  ASSUME TypeInv, Fading, NEW r \in Reqs, NEW t, Advances(r, t),
         t.pc # "insert" \/ t.op # "refresh"
  PROVE  Settles
  BY AdvanceIs DEF TypeInv, Settles, Renewing

\* The statements that go on to another without a token table in between.
LEMMA GoesOn ==
  ASSUME TypeInv, NEW r \in Reqs,
         SaveUser(r) \/ SaveAddress(r) \/ UpdateGoogleUser(r) \/ StoreHash(r) \/ SavePassword(r)
  PROVE  /\ req[r] \in Request
         /\ UNCHANGED <<tokens, cookie, access, mailed, history>>
         /\ \E t \in Request :
              /\ Advances(r, t) /\ t.op = req[r].op /\ t.user = req[r].user
              /\ t.device = req[r].device
              /\ t.token = req[r].token /\ t.session = req[r].session
              /\ t.auth = req[r].auth /\ t.carried = req[r].carried
              /\ IF req[r].pc = "store_hash" THEN t.pc = "respond"
                 ELSE /\ t.pc \in {"save_address", "insert", "revoke_all"} /\ t.op # "refresh"
                      /\ t.pc = "revoke_all" => req[r].pc = "save_password"
<1>1. req[r] # Idle /\ req[r] \in Request /\ HandInv(r)
  BY Waiting DEF SaveUser, SaveAddress, UpdateGoogleUser, StoreHash, SavePassword, Idle, TypeInv
<1>2. UNCHANGED <<tokens, cookie, access, mailed, history>>
  BY DEF SaveUser, SaveAddress, UpdateGoogleUser, StoreHash, SavePassword
<1>3. PICK pc \in Steps :
        /\ Goto(r, pc)
        /\ IF req[r].pc = "store_hash" THEN pc = "respond"
           ELSE /\ pc \in {"save_address", "insert", "revoke_all"}
                /\ req[r].pc \in {"save_user", "save_address", "update_google", "save_password"}
                /\ pc = "revoke_all" => req[r].pc = "save_password"
  BY DEF SaveUser, SaveAddress, UpdateGoogleUser, StoreHash, SavePassword, Steps
<1>4. req[r].pc # "store_hash" => req[r].op # "refresh"
  BY <1>1, <1>3 DEF HandInv
<1>5. QED
  BY <1>1, <1>2, <1>3, <1>4, GotoIs DEF TypeInv

\* Only an insert and a rotation's revocation do more.
LEMMA StepSettles ==
  ASSUME TypeInv, [Next]_vars
  PROVE  Settles \/ (\E r \in Reqs : InsertToken(r)) \/ (\E r \in Reqs : Revoke(r))
<1>1. UNCHANGED tokens => Fading
  BY UnchangedFades DEF TypeInv
<1>2. Fading /\ UNCHANGED req => Settles
  BY DEF Settles, Renewing
<1>3. CASE UNCHANGED vars
  BY <1>1, <1>2, <1>3 DEF vars
<1>4. ASSUME NEW r \in Reqs, NEW d \in Devices,
             \/ PostRegister(r, d) \/ PostLogin(r, d) \/ GoogleCallback(r, d)
             \/ PostLogoutAll(r, d) \/ PostResetPassword(r, d)
      PROVE  Settles
  BY <1>1, <1>4, ArrivalIs, AdvanceSettles
<1>5. ASSUME NEW r \in Reqs, NEW d \in Devices, NEW op \in {"refresh", "logout"},
             RefreshGuard(r, d, op)
      PROVE  Settles
  <2>1. UNCHANGED tokens
    BY <1>5 DEF RefreshGuard, ValidateRefreshToken
  <2>2. QED
    BY <1>1, <1>5, <2>1, GuardIs, AdvanceSettles
<1>6. ASSUME NEW r \in Reqs,
             \/ SaveUser(r) \/ SaveAddress(r) \/ UpdateGoogleUser(r)
             \/ StoreHash(r) \/ SavePassword(r)
      PROVE  Settles
  BY <1>1, <1>6, GoesOn, AdvanceSettles
<1>7. ASSUME NEW r \in Reqs, Respond(r) \/ ClearRefreshTokenCookie(r) \/ Fail(r)
      PROVE  Settles
  BY <1>1, <1>7, AdvanceSettles DEF Respond, ClearRefreshTokenCookie, Fail, Advances, Idle
<1>8. ASSUME NEW r \in Reqs, RevokeAll(r) PROVE Settles
  <2>1. /\ Fading /\ req'[r].pc # "insert"
        /\ \A p \in Reqs \ {r} :
             /\ req'[p].pc = req[p].pc
             /\ req[p] # Idle => req'[p].op = req[p].op /\ req'[p].session = req[p].session
    BY <1>8, RevokeAllIs
  <2>2. QED
    BY <2>1 DEF Settles, Renewing, Idle
<1>9. CASE \/ \E d \in Devices : RefuseExpired(d)
           \/ PurgeExpiredTokens \/ PostForgotPassword
           \/ \E e \in Emails : Deactivate(e)
           \/ \E i \in 1..MaxTokens : Expire(i)
  BY <1>1, <1>2, <1>9, RefuseIs, PurgeIs, ExpireIs
     DEF RefuseExpired, PurgeExpiredTokens, PostForgotPassword, ForgotPassword, Deactivate, Expire
<1>10. QED
  BY <1>3, <1>4, <1>5, <1>6, <1>7, <1>8, <1>9, StepCases

\* An insert of a rotation takes the place of its request, any other begins
\* a session.
LEMMA InsertHolds ==
  ASSUME TypeInv, OneHolder, NEW r \in Reqs, InsertToken(r)
  PROVE  OneHolder'
<1> DEFINE id == Len(tokens) + 1
<1>1. /\ Len(tokens) \in Nat /\ DOMAIN tokens = 1..Len(tokens)
      /\ tokens' \in Seq(TokenRow) /\ Len(tokens') = id
      /\ \A i \in 1..Len(tokens) : tokens'[i] = tokens[i]
      /\ tokens'[id].session = IF req[r].op = "refresh" THEN req[r].session ELSE id
  BY InsertAppends, TokenTypes DEF TypeInv
<1>2. DOMAIN tokens' = 1..Len(tokens) \cup {id}
  BY <1>1, LenProperties
<1>3. req[r].pc = "insert" /\ ~Renewing(r)' /\ \A p \in Reqs \ {r} : req'[p] = req[p]
  BY InsertIs, AdvanceIs DEF TypeInv, InsertToken, Renewing
<1>4. \A i \in 1..Len(tokens) : tokens[i].session # id
  BY <1>1, TokenTypes DEF TypeInv, SessionsNamed, TokenRow
<1>5. \A p \in Reqs : Renewing(p) => req[p].session \in 1..Len(tokens) /\ req[p].session # id
  <2>1. SUFFICES ASSUME NEW p \in Reqs, Renewing(p)
                 PROVE  req[p].session \in 1..Len(tokens) /\ req[p].session # id
    OBVIOUS
  <2>2. /\ req[p].token \in 1..Len(tokens)
        /\ req[p].session = tokens[req[p].token].session
    BY <1>1, <2>1 DEF TypeInv, HandInv, HasToken
  <2>3. /\ tokens[req[p].token].session \in Nat \ {0}
        /\ tokens[req[p].token].session <= req[p].token
    BY <1>1, <2>2, TokenTypes, SessionsAssumption DEF TypeInv, SessionsNamed, TokenRow
  <2>4. QED
    BY <1>1, <2>2, <2>3
<1>6. \A i \in 1..Len(tokens) : Dead(i)' = Dead(i)
  BY <1>1 DEF Dead
<1>7. \A i \in 1..Len(tokens) : tokens'[id].session = tokens'[i].session => Dead(i)
  BY <1>1, <1>3, <1>4 DEF OneHolder, Renewing
<1>8. \A p \in Reqs : Renewing(p)' =>
        /\ p # r /\ Renewing(p) /\ req'[p].session = req[p].session
        /\ req[p].session # tokens'[id].session
  BY <1>1, <1>3, <1>5 DEF OneHolder, Renewing
<1>9. QED
  BY <1>1, <1>2, <1>6, <1>7, <1>8 DEF OneHolder

\* The request that revokes takes the place of the token.
LEMMA RevokeHolds ==
  ASSUME TypeInv, OneHolder, NEW r \in Reqs, Revoke(r)
  PROVE  OneHolder'
<1>1. /\ Fading /\ req[r].token \in 1..Len(tokens) /\ ~Dead(req[r].token)
      /\ req[r].session = tokens[req[r].token].session
      /\ \A i \in 1..Len(tokens) :
           tokens'[i].state = IF i = req[r].token THEN "dead" ELSE tokens[i].state
  BY RevokeIs
<1>2. req'[r].session = req[r].session /\ \A p \in Reqs \ {r} : req'[p] = req[p]
  BY RevokeIs, AdvanceIs DEF TypeInv
<1>3. DOMAIN tokens' = DOMAIN tokens /\ DOMAIN tokens = 1..Len(tokens)
  BY <1>1, FadingStays, TokenTypes DEF TypeInv
<1>4. \A i \in 1..Len(tokens) :
        /\ tokens'[i].session = tokens[i].session /\ (Dead(i) => Dead(i)')
        /\ tokens[i].session = req[r].session => Dead(i)'
  BY <1>1, <1>3 DEF Fading, OneHolder, Dead
<1>5. \A p \in Reqs \ {r} :
        /\ Renewing(p)' <=> Renewing(p)
        /\ Renewing(p) => req[p].session # req[r].session
  BY <1>1, <1>2, <1>3 DEF OneHolder, Renewing
<1>6. QED
  BY <1>2, <1>3, <1>4, <1>5 DEF OneHolder

LEMMA NextHolds == ASSUME TypeInv, OneHolder, [Next]_vars PROVE OneHolder'
<1>1. CASE Settles
  <2>1. DOMAIN tokens' = DOMAIN tokens /\ DOMAIN tokens = 1..Len(tokens)
    BY <1>1, FadingStays, TokenTypes DEF TypeInv, Settles
  <2>2. QED
    BY <1>1, <2>1 DEF Settles, Fading, OneHolder
<1>2. QED
  BY <1>1, StepSettles, InsertHolds, RevokeHolds

\* Only a logout's revocation is acknowledged.
LEMMA SignedOutStays ==
  ASSUME [Next]_vars
  PROVE  signedOut' = signedOut \/ \E r \in Reqs : Revoke(r)
<1>1. CASE UNCHANGED vars
  BY <1>1 DEF vars
<1>2. CASE Next
  BY <1>2, StepCases
     DEF history, PostRegister, PostLogin, GoogleCallback, PostLogoutAll,
       PostResetPassword, Register, Login, GoogleLogin, LogoutAll, ResetPassword,
       RefreshGuard, SaveUser, SaveAddress, UpdateGoogleUser, StoreHash, SavePassword,
       InsertToken, Respond, ClearRefreshTokenCookie, RevokeAll, Fail, RefuseExpired,
       PurgeExpiredTokens, PostForgotPassword, ForgotPassword, Deactivate, Expire
<1>3. QED
  BY <1>1, <1>2

LEMMA NextFinal ==
  ASSUME TypeInv, OneHolder, LogoutFinal, [Next]_vars
  PROVE  LogoutFinal'
<1>1. DOMAIN tokens = 1..Len(tokens) /\ Len(tokens) \in Nat
  BY TokenTypes DEF TypeInv
<1>2. signedOut \subseteq 1..Len(tokens)
  BY DEF TypeInv, TypeOK
<1>3. ASSUME NEW r \in Reqs, Revoke(r) PROVE LogoutFinal'
  <2>1. /\ Fading /\ req[r].token \in 1..Len(tokens) /\ ~Dead(req[r].token)
        /\ req[r].session = tokens[req[r].token].session
        /\ \A i \in 1..Len(tokens) :
             tokens'[i].state = IF i = req[r].token THEN "dead" ELSE tokens[i].state
    BY <1>3, RevokeIs
  <2>2. /\ \A p \in Reqs \ {r} : req'[p] = req[p]
        /\ Renewing(r)' => req[r].op = "refresh" /\ req'[r].session = req[r].session
    BY <1>3, RevokeIs, AdvanceIs DEF TypeInv, Renewing
  <2>3. DOMAIN tokens' = 1..Len(tokens)
    BY <1>1, <2>1, FadingStays
  <2>4. signedOut' = IF req[r].op = "refresh" THEN signedOut ELSE signedOut \cup {req[r].session}
    BY <1>3 DEF Revoke
  <2>5. req[r].session \notin signedOut
    BY <1>1, <2>1 DEF LogoutFinal
  <2>6. /\ \A i \in 1..Len(tokens) : tokens[i].session = req[r].session => Dead(i)'
        /\ \A p \in Reqs : Renewing(p) => req[p].session # req[r].session
    BY <1>1, <2>1 DEF OneHolder, Dead
  <2>7. ASSUME NEW s \in signedOut', NEW i \in 1..Len(tokens), tokens'[i].session = s
        PROVE  Dead(i)'
    BY <1>1, <2>1, <2>4, <2>6, <2>7 DEF LogoutFinal, Fading
  <2>8. ASSUME NEW s \in signedOut', NEW p \in Reqs, Renewing(p)'
        PROVE  req'[p].session # s
    <3>1. CASE p = r
      BY <2>2, <2>4, <2>5, <2>8, <3>1
    <3>2. CASE p # r
      BY <2>2, <2>4, <2>6, <2>8, <3>2 DEF LogoutFinal, Renewing
    <3>3. QED
      BY <3>1, <3>2
  <2>9. QED
    BY <2>3, <2>7, <2>8 DEF LogoutFinal
<1>4. CASE Settles /\ signedOut' = signedOut
  <2>1. DOMAIN tokens' = 1..Len(tokens)
    BY <1>1, <1>4, FadingStays DEF Settles
  <2>2. QED
    BY <1>1, <1>4, <2>1 DEF Settles, Fading, LogoutFinal
<1>5. ASSUME NEW r \in Reqs, InsertToken(r) PROVE LogoutFinal'
  <2> DEFINE id == Len(tokens) + 1
  <2>1. /\ tokens' \in Seq(TokenRow) /\ Len(tokens') = id
        /\ \A i \in 1..Len(tokens) : tokens'[i] = tokens[i]
        /\ tokens'[id].session = IF req[r].op = "refresh" THEN req[r].session ELSE id
    BY <1>5, InsertAppends
  <2>2. DOMAIN tokens' = 1..Len(tokens) \cup {id}
    BY <1>1, <2>1, LenProperties
  <2>3. req[r].pc = "insert" /\ ~Renewing(r)' /\ \A p \in Reqs \ {r} : req'[p] = req[p]
    BY <1>5, InsertIs, AdvanceIs DEF TypeInv, InsertToken, Renewing
  <2>4. signedOut' = signedOut
    BY <1>5 DEF InsertToken, history
  <2>5. tokens'[id].session \notin signedOut
    <3>1. CASE req[r].op = "refresh"
      BY <2>1, <2>3, <3>1 DEF LogoutFinal, Renewing
    <3>2. CASE req[r].op # "refresh"
      <4>1. tokens'[id].session = id /\ id \notin 1..Len(tokens)
        BY <1>1, <2>1, <3>2
      <4>2. QED
        BY <1>2, <4>1
    <3>3. QED
      BY <3>1, <3>2
  <2>6. QED
    BY <1>1, <2>1, <2>2, <2>3, <2>4, <2>5 DEF LogoutFinal, Renewing, Dead
<1>6. QED
  BY <1>3, <1>4, <1>5, StepSettles, SignedOutStays

-----------------------------------------------------------------------------
(* The theorems of rotation and logout.                                    *)

LEMMA OneOfAll ==
  ASSUME NEW S, \A x, y \in S : x = y
  PROVE  Cardinality(S) <= 1
<1>1. CASE S = {}
  BY <1>1, FS_EmptySet
<1>2. CASE \E x : S = {x}
  BY <1>2, FS_Singleton
<1>3. QED
  BY <1>1, <1>2

LEMMA HolderIsOne == ASSUME TypeInv, OneHolder PROVE OneLivePerSession
<1>1. SUFFICES ASSUME NEW s \in 1..Len(tokens)
               PROVE  Cardinality({i \in DOMAIN tokens : tokens[i].session = s /\ Live(i)}
                        \cup {r \in Reqs : /\ req[r].pc = "insert" /\ req[r].op = "refresh"
                                            /\ req[r].session = s}) <= 1
  BY DEF OneLivePerSession
<1>2. PICK T, R :
        /\ T = {i \in DOMAIN tokens : tokens[i].session = s /\ Live(i)}
        /\ R = {r \in Reqs : /\ req[r].pc = "insert" /\ req[r].op = "refresh"
                             /\ req[r].session = s}
  OBVIOUS
<1>3. \A i, j \in T : i = j
  BY <1>2 DEF OneHolder, Live, Dead
<1>4. \A r, p \in R : r = p
  BY <1>2 DEF OneHolder, Renewing
<1>5. T = {} \/ R = {}
  BY <1>2 DEF OneHolder, Renewing, Live, Dead
<1>6. \A x, y \in T \cup R : x = y
  BY <1>3, <1>4, <1>5
<1>7. QED
  BY <1>2, <1>6, OneOfAll

\* Whatever requests present a token at once, a session has at most one good
\* token or rotation in progress (auth.service.ts:256, token.service.ts:143).
THEOREM RotationNeverForks == Spec => []OneLivePerSession
<1>1. Init => TypeInv /\ OneHolder
  BY InitTypes, EmptySeq DEF Init, OneHolder, Renewing, Idle
<1>2. TypeInv /\ OneHolder /\ [Next]_vars => (TypeInv /\ OneHolder)'
  BY NextTypes, NextHolds
<1>3. TypeInv /\ OneHolder => OneLivePerSession
  BY HolderIsOne
<1>4. QED
  BY <1>1, <1>2, <1>3, PTL DEF Spec

\* Once a logout is acknowledged, no refresh that was under way brings the
\* session back (auth.service.ts:236, 250).
THEOREM LogoutIsFinal == Spec => []LogoutEndsSession
<1> DEFINE Inv == TypeInv /\ OneHolder /\ LogoutFinal
<1>1. Init => Inv
  BY InitTypes, EmptySeq DEF Init, OneHolder, LogoutFinal, Renewing, Idle
<1>2. Inv /\ [Next]_vars => Inv'
  BY NextTypes, NextHolds, NextFinal
<1>3. Inv => LogoutEndsSession
  BY DEF LogoutFinal, LogoutEndsSession, Renewing, Live, Dead
<1>4. QED
  BY <1>1, <1>2, <1>3, PTL DEF Spec

-----------------------------------------------------------------------------
(* Renewal.                                                                *)

\* A rotation that has spent its token and has not yet been answered.
Succeeding(r) == req[r].pc \in {"insert", "store_hash", "respond"} /\ req[r].op = "refresh"

\* A step that leaves cookies alone, kills a token only where its session may
\* end, and takes no request's token or place.
Carries ==
  /\ Fading /\ UNCHANGED <<cookie, access>> /\ closed \subseteq closed'
  /\ \A i \in 1..Len(tokens) : Live(i) => Live(i)' \/ tokens[i].session \in closed'
  /\ \A p \in Reqs :
       /\ Issuing(p)' =>
            Issuing(p) /\ req'[p].token = req[p].token /\ req'[p].session = req[p].session
       /\ req'[p].pc = "revoke" =>
            /\ req[p].pc = "revoke"
            /\ req'[p].token = req[p].token /\ req'[p].device = req[p].device
       /\ Succeeding(p) =>
            \/ /\ Succeeding(p)' /\ req'[p].device = req[p].device
               /\ req'[p].session = req[p].session
            \/ req[p].session \in closed'

LEMMA CarriesOneCarrier == ASSUME TypeInv, OneCarrier, Carries PROVE OneCarrier'
<1>1. DOMAIN tokens = 1..Len(tokens)
  BY TokenTypes DEF TypeInv
<1>2. ASSUME NEW r \in Reqs, Issuing(r)'
      PROVE  /\ \A d \in Devices : cookie'[d] # req'[r].token
             /\ \A p \in Reqs \ {r} :
                  (Issuing(p)' \/ req'[p].pc = "revoke") => req'[p].token # req'[r].token
             /\ Live(req[r].token)' \/ req'[r].session \in closed'
  <2>1. Issuing(r) /\ req'[r].token = req[r].token /\ req'[r].session = req[r].session
    BY <1>2 DEF Carries
  <2>2. req[r].token \in 1..Len(tokens) /\ req[r].session = tokens[req[r].token].session
    BY <1>1, <2>1 DEF TypeInv, HandInv, HasToken
  <2>3. Live(req[r].token) \/ req[r].session \in closed
    BY <2>1 DEF OneCarrier
  <2>4. Live(req[r].token)' \/ req'[r].session \in closed'
    BY <2>1, <2>2, <2>3 DEF Carries
  <2>5. QED
    BY <2>1, <2>4 DEF Carries, OneCarrier
<1>3. \A d, c \in Devices : cookie'[d] = cookie'[c] /\ cookie'[d] # NoToken => d = c
  BY DEF Carries, OneCarrier
<1>4. \A r \in Reqs, d \in Devices :
        req'[r].pc = "revoke" /\ cookie'[d] = req'[r].token => req'[r].device = d
  BY DEF Carries, OneCarrier
<1>5. QED
  BY <1>2, <1>3, <1>4 DEF OneCarrier

\* SignedInCanRenew of one device.
CanRenew(d) ==
  access[d] # NOBODY =>
    /\ cookie[d] # NoToken
    /\ \/ Live(cookie[d])
       \/ tokens[cookie[d]].session \in closed
       \/ \E r \in Reqs : /\ Succeeding(r) /\ req[r].device = d
                          /\ req[r].session = tokens[cookie[d]].session

LEMMA RenewOfDevices == SignedInCanRenew <=> \A d \in Devices : CanRenew(d)
  BY DEF SignedInCanRenew, CanRenew, Succeeding

LEMMA CookieTypes ==
  ASSUME TypeInv, NEW d \in Devices, cookie[d] # NoToken
  PROVE  cookie[d] \in 1..Len(tokens)
  BY TokenTypes DEF TypeInv, TypeOK, NoToken

LEMMA CarriesRenewal ==
  ASSUME TypeInv, Carries, NEW d \in Devices, CanRenew(d)
  PROVE  CanRenew(d)'
<1>1. SUFFICES ASSUME access'[d] # NOBODY
               PROVE  /\ cookie'[d] # NoToken
                      /\ \/ Live(cookie[d])'
                         \/ tokens'[cookie[d]].session \in closed'
                         \/ \E r \in Reqs : /\ Succeeding(r)' /\ req'[r].device = d
                                            /\ req'[r].session = tokens'[cookie[d]].session
  BY DEF CanRenew, Carries, Live
<1>2. cookie'[d] = cookie[d] /\ cookie[d] # NoToken /\ access[d] # NOBODY
  BY <1>1 DEF Carries, CanRenew
<1>3. /\ cookie[d] \in 1..Len(tokens)
      /\ tokens'[cookie[d]].session = tokens[cookie[d]].session
  BY <1>2, CookieTypes DEF Carries, Fading
<1>4. CASE Live(cookie[d])
  BY <1>2, <1>3, <1>4 DEF Carries
<1>5. CASE tokens[cookie[d]].session \in closed
  BY <1>2, <1>3, <1>5 DEF Carries
<1>6. ASSUME NEW r \in Reqs, Succeeding(r), req[r].device = d,
             req[r].session = tokens[cookie[d]].session
      PROVE  \/ tokens'[cookie[d]].session \in closed'
             \/ /\ Succeeding(r)' /\ req'[r].device = d
                /\ req'[r].session = tokens'[cookie[d]].session
  BY <1>3, <1>6 DEF Carries
<1>7. QED
  BY <1>1, <1>2, <1>4, <1>5, <1>6 DEF CanRenew

LEMMA StillCarries ==
  ASSUME TypeInv, Fading, UNCHANGED <<req, cookie, access>>, closed \subseteq closed',
         \A i \in 1..Len(tokens) : Live(i) => Live(i)' \/ tokens[i].session \in closed'
  PROVE  Carries
  BY DEF Carries, Issuing, Succeeding

LEMMA AdvanceCarries ==
  ASSUME TypeInv, UNCHANGED <<tokens, cookie, access>>, closed \subseteq closed',
         NEW r \in Reqs, NEW t, Advances(r, t), t.pc # "revoke",
         t.pc \in {"store_hash", "respond"} =>
           Issuing(r) /\ t.token = req[r].token /\ t.session = req[r].session,
         Succeeding(r) =>
           \/ /\ t.pc \in {"insert", "store_hash", "respond"} /\ t.op = "refresh"
              /\ t.device = req[r].device /\ t.session = req[r].session
           \/ req[r].session \in closed'
  PROVE  Carries
<1>1. Fading /\ \A i \in 1..Len(tokens) : Live(i) => Live(i)'
  BY UnchangedFades DEF TypeInv, Live
<1>2. req'[r] = t /\ \A p \in Reqs \ {r} : req'[p] = req[p]
  BY AdvanceIs DEF TypeInv
<1>3. QED
  BY <1>1, <1>2 DEF Carries, Issuing, Succeeding

\* The steps that do not bring a token from one hand to another.
LEMMA StepCarries ==
  ASSUME TypeInv, [Next]_vars
  PROVE  \/ Carries
         \/ \E r \in Reqs : \/ InsertToken(r) \/ Respond(r) \/ ClearRefreshTokenCookie(r)
                            \/ Revoke(r)
         \/ \E r \in Reqs, d \in Devices, op \in {"refresh", "logout"} : RefreshGuard(r, d, op)
<1>1. UNCHANGED tokens => Fading /\ \A i \in 1..Len(tokens) : Live(i) => Live(i)'
  BY UnchangedFades DEF TypeInv, Live
<1>2. CASE UNCHANGED vars
  BY <1>1, <1>2, StillCarries DEF vars
<1>3. ASSUME NEW r \in Reqs, NEW d \in Devices,
             \/ PostRegister(r, d) \/ PostLogin(r, d) \/ GoogleCallback(r, d)
             \/ PostLogoutAll(r, d) \/ PostResetPassword(r, d)
      PROVE  Carries
  <2>1. ~Succeeding(r)
    BY <1>3, ArrivalIs DEF Succeeding, Idle
  <2>2. QED
    BY <1>3, <2>1, ArrivalIs, AdvanceCarries DEF history
<1>4. ASSUME NEW r \in Reqs,
             \/ SaveUser(r) \/ SaveAddress(r) \/ UpdateGoogleUser(r)
             \/ StoreHash(r) \/ SavePassword(r)
      PROVE  Carries
  <2>1. PICK t \in Request :
          /\ Advances(r, t) /\ t.op = req[r].op /\ t.device = req[r].device
          /\ t.token = req[r].token /\ t.session = req[r].session
          /\ IF req[r].pc = "store_hash" THEN t.pc = "respond"
             ELSE t.pc \in {"save_address", "insert", "revoke_all"} /\ t.op # "refresh"
    BY <1>4, GoesOn
  <2>2. UNCHANGED <<tokens, cookie, access, history>>
    BY <1>4, GoesOn
  <2>3. QED
    BY <2>1, <2>2, AdvanceCarries DEF history, Issuing, Succeeding
<1>5. ASSUME NEW r \in Reqs, RevokeAll(r) PROVE Carries
  <2>1. /\ Fading
        /\ \A i \in 1..Len(tokens) :
             tokens'[i].state = IF tokens[i].user = req[r].user THEN "dead" ELSE tokens[i].state
        /\ \A p \in Reqs \ {r} :
             /\ req'[p].pc = req[p].pc
             /\ req[p] # Idle => /\ req'[p].op = req[p].op /\ req'[p].device = req[p].device
                                 /\ req'[p].token = req[p].token
                                 /\ req'[p].session = req[p].session
        /\ req'[r].pc \in {"idle", "signed_out"}
    BY <1>5, RevokeAllIs
  <2>2. /\ UNCHANGED <<cookie, access>> /\ closed \subseteq closed'
        /\ \A i \in DOMAIN tokens : tokens[i].user = req[r].user => tokens[i].session \in closed'
        /\ req[r].pc = "revoke_all"
    BY <1>5 DEF RevokeAll
  <2>3. \A i \in 1..Len(tokens) : Live(i) => Live(i)' \/ tokens[i].session \in closed'
    BY <2>1, <2>2, TokenTypes DEF Live, TypeInv
  <2>4. QED
    BY <2>1, <2>2, <2>3 DEF Carries, Issuing, Succeeding, Idle
<1>6. ASSUME NEW r \in Reqs, Fail(r) PROVE Carries
  <2>1. Succeeding(r) => req[r].session \in closed'
    BY <1>6 DEF Fail, Succeeding
  <2>2. /\ Advances(r, Idle) /\ closed \subseteq closed'
        /\ UNCHANGED <<tokens, cookie, access>>
    BY <1>6 DEF Fail, Advances
  <2>3. Idle.pc = "idle"
    BY DEF Idle
  <2>4. QED
    BY <2>1, <2>2, <2>3, AdvanceCarries
<1>7. CASE PurgeExpiredTokens
  BY <1>7, PurgeIs, StillCarries DEF PurgeExpiredTokens, history
<1>8. ASSUME NEW d \in Devices, RefuseExpired(d) PROVE Carries
  BY <1>8, RefuseIs, StillCarries DEF RefuseExpired, history
<1>9. CASE PostForgotPassword \/ \E e \in Emails : Deactivate(e)
  BY <1>1, <1>9, StillCarries DEF PostForgotPassword, ForgotPassword, Deactivate, history
<1>10. ASSUME NEW i \in 1..MaxTokens, Expire(i) PROVE Carries
  <2>1. /\ Fading
        /\ \A j \in 1..Len(tokens) :
             tokens'[j].state = IF j = i THEN "expired" ELSE tokens[j].state
    BY <1>10, ExpireIs
  <2>2. closed' = closed \cup {tokens[i].session} /\ UNCHANGED <<req, cookie, access>>
    BY <1>10 DEF Expire
  <2>3. \A j \in 1..Len(tokens) : Live(j) => Live(j)' \/ tokens[j].session \in closed'
    BY <2>1, <2>2 DEF Live
  <2>4. QED
    BY <2>1, <2>2, <2>3, StillCarries
<1>11. QED
  BY <1>2, <1>3, <1>4, <1>5, <1>6, <1>7, <1>8, <1>9, <1>10, StepCases

LEMMA InsertCarrier ==
  ASSUME TypeInv, OneCarrier, SignedInCanRenew, NEW r \in Reqs, InsertToken(r)
  PROVE  OneCarrier' /\ SignedInCanRenew'
<1> DEFINE id == Len(tokens) + 1
<1>1. /\ Len(tokens) \in Nat /\ DOMAIN tokens = 1..Len(tokens)
      /\ \A i \in 1..Len(tokens) : tokens'[i] = tokens[i]
      /\ tokens'[id].state = "live" /\ id \notin 1..Len(tokens) /\ id \notin 0..Len(tokens)
  BY InsertAppends, TokenTypes DEF TypeInv
<1>2. PICK t \in Request :
        /\ Advances(r, t) /\ t.pc = "store_hash" /\ t.token = id
        /\ t.op = req[r].op /\ t.device = req[r].device
        /\ req[r].op = "refresh" => t.session = req[r].session
  BY InsertIs
<1>3. req'[r] = t /\ \A p \in Reqs \ {r} : req'[p] = req[p]
  BY <1>2, AdvanceIs DEF TypeInv
<1>4. UNCHANGED <<cookie, access, closed>> /\ req[r].pc = "insert"
  BY DEF InsertToken, history
<1>5. \A d \in Devices : cookie[d] # id
  BY <1>1 DEF TypeInv, TypeOK
<1>6. \A p \in Reqs : (Issuing(p) \/ req[p].pc = "revoke") =>
        req[p].token \in 1..Len(tokens) /\ req[p].token # id
  BY <1>1 DEF TypeInv, HandInv, HasToken
<1>7. OneCarrier'
  <2>1. ASSUME NEW p \in Reqs, Issuing(p)'
        PROVE  /\ \A d \in Devices : cookie'[d] # req'[p].token
               /\ \A q \in Reqs \ {p} :
                    (Issuing(q)' \/ req'[q].pc = "revoke") => req'[q].token # req'[p].token
               /\ Live(req[p].token)' \/ req'[p].session \in closed'
    <3>1. CASE p = r
      BY <1>1, <1>2, <1>3, <1>4, <1>5, <1>6, <3>1 DEF Issuing, Live
    <3>2. CASE p # r
      <4>1. Issuing(p) /\ req'[p] = req[p] /\ req[p].token \in 1..Len(tokens) /\ req[p].token # id
        BY <1>3, <1>6, <2>1, <3>2 DEF Issuing
      <4>2. Live(req[p].token)' \/ req'[p].session \in closed'
        BY <1>1, <1>4, <4>1 DEF OneCarrier, Live
      <4>3. QED
        BY <1>2, <1>3, <1>4, <4>1, <4>2 DEF OneCarrier, Issuing
    <3>3. QED
      BY <3>1, <3>2
  <2>2. \A p \in Reqs, d \in Devices :
          req'[p].pc = "revoke" /\ cookie'[d] = req'[p].token => req'[p].device = d
    BY <1>2, <1>3, <1>4 DEF OneCarrier
  <2>3. QED
    BY <1>4, <2>1, <2>2 DEF OneCarrier
<1>8. ASSUME NEW d \in Devices PROVE CanRenew(d)'
  <2>1. CanRenew(d) /\ cookie'[d] = cookie[d] /\ access'[d] = access[d]
    BY <1>4, RenewOfDevices
  <2>2. cookie[d] # NoToken => tokens'[cookie[d]] = tokens[cookie[d]]
    BY <1>1, CookieTypes
  <2>3. \A p \in Reqs : Succeeding(p) =>
          /\ Succeeding(p)' /\ req'[p].device = req[p].device
          /\ req'[p].session = req[p].session
    BY <1>2, <1>3 DEF Succeeding
  <2>4. QED
    BY <1>4, <2>1, <2>2, <2>3 DEF CanRenew, Live
<1>9. QED
  BY <1>7, <1>8 DEF SignedInCanRenew, CanRenew, Succeeding

\* The answer puts the token it has in hand into the device's cookie.
LEMMA RespondCarrier ==
  ASSUME TypeInv, OneCarrier, SignedInCanRenew, NEW r \in Reqs, Respond(r)
  PROVE  OneCarrier' /\ SignedInCanRenew'
<1> DEFINE device == req[r].device
           id == req[r].token
<1>1. req[r] \in Request /\ Issuing(r) /\ device \in Devices
  BY Waiting DEF TypeInv, Respond, Issuing, Idle, Request
<1>2. /\ id \in 1..Len(tokens) /\ req[r].session = tokens[id].session
      /\ Live(id) \/ tokens[id].session \in closed
      /\ id # NoToken
  BY <1>1, TokenTypes DEF TypeInv, HandInv, HasToken, OneCarrier, NoToken
<1>3. /\ cookie' = [cookie EXCEPT ![device] = id]
      /\ access' = [access EXCEPT ![device] = req[r].user]
      /\ UNCHANGED <<tokens, closed>> /\ Advances(r, Idle)
  BY DEF Respond, SetRefreshTokenCookie, Advances, history
<1>4. req'[r] = Idle /\ \A p \in Reqs \ {r} : req'[p] = req[p]
  BY <1>3, AdvanceIs DEF TypeInv
<1>5. \A d \in Devices : /\ cookie'[d] = IF d = device THEN id ELSE cookie[d]
                         /\ d # device => access'[d] = access[d]
  BY <1>1, <1>3 DEF TypeInv, TypeOK
<1>6. \A p \in Reqs : Issuing(p)' => p # r /\ Issuing(p) /\ req'[p] = req[p]
  BY <1>4 DEF Issuing, Idle
<1>7. \A p \in Reqs : req'[p].pc = "revoke" => p # r /\ req'[p] = req[p]
  BY <1>4 DEF Idle
<1>8. OneCarrier'
  <2>1. ASSUME NEW p \in Reqs, Issuing(p)'
        PROVE  /\ \A d \in Devices : cookie'[d] # req'[p].token
               /\ \A q \in Reqs \ {p} :
                    (Issuing(q)' \/ req'[q].pc = "revoke") => req'[q].token # req'[p].token
               /\ Live(req[p].token)' \/ req'[p].session \in closed'
    BY <1>1, <1>3, <1>5, <1>6, <1>7, <2>1 DEF OneCarrier, Live
  <2>2. \A d, c \in Devices : cookie'[d] = cookie'[c] /\ cookie'[d] # NoToken => d = c
    BY <1>1, <1>5 DEF OneCarrier
  <2>3. \A p \in Reqs, d \in Devices :
          req'[p].pc = "revoke" /\ cookie'[d] = req'[p].token => req'[p].device = d
    BY <1>1, <1>5, <1>7 DEF OneCarrier
  <2>4. QED
    BY <2>1, <2>2, <2>3 DEF OneCarrier
<1>9. ASSUME NEW d \in Devices PROVE CanRenew(d)'
  <2>1. CASE d = device
    BY <1>2, <1>3, <1>5, <2>1 DEF CanRenew, Live
  <2>2. CASE d # device
    <3>1. \A p \in Reqs : Succeeding(p) /\ req[p].device = d => Succeeding(p)' /\ req'[p] = req[p]
      BY <1>4, <2>2 DEF Succeeding
    <3>2. CanRenew(d)
      BY RenewOfDevices
    <3>3. QED
      BY <1>3, <1>5, <2>2, <3>1, <3>2 DEF CanRenew, Live
  <2>3. QED
    BY <2>1, <2>2
<1>10. QED
  BY <1>8, <1>9 DEF SignedInCanRenew, CanRenew, Succeeding

LEMMA ClearCarrier ==
  ASSUME TypeInv, OneCarrier, SignedInCanRenew, NEW r \in Reqs, ClearRefreshTokenCookie(r)
  PROVE  OneCarrier' /\ SignedInCanRenew'
<1> DEFINE device == req[r].device
<1>1. req[r] \in Request /\ ~Succeeding(r) /\ device \in Devices
  BY Waiting DEF TypeInv, ClearRefreshTokenCookie, Succeeding, Idle, Request
<1>2. /\ cookie' = [cookie EXCEPT ![device] = NoToken]
      /\ access' = [access EXCEPT ![device] = NOBODY]
      /\ UNCHANGED <<tokens, closed>> /\ Advances(r, Idle)
  BY DEF ClearRefreshTokenCookie, Advances, history
<1>3. req'[r] = Idle /\ \A p \in Reqs \ {r} : req'[p] = req[p]
  BY <1>2, AdvanceIs DEF TypeInv
<1>4. \A d \in Devices : /\ cookie'[d] = IF d = device THEN NoToken ELSE cookie[d]
                         /\ access'[d] = IF d = device THEN NOBODY ELSE access[d]
  BY <1>1, <1>2 DEF TypeInv, TypeOK
<1>5. \A p \in Reqs : Issuing(p) \/ req[p].pc = "revoke" => req[p].token # NoToken
  BY TokenTypes DEF TypeInv, HandInv, HasToken, NoToken
<1>6. \A p \in Reqs : Issuing(p)' => p # r /\ Issuing(p) /\ req'[p] = req[p]
  BY <1>3 DEF Issuing, Idle
<1>7. \A p \in Reqs : req'[p].pc = "revoke" => p # r /\ req'[p] = req[p]
  BY <1>3 DEF Idle
<1>8. OneCarrier'
  <2>1. ASSUME NEW p \in Reqs, Issuing(p)'
        PROVE  /\ \A d \in Devices : cookie'[d] # req'[p].token
               /\ \A q \in Reqs \ {p} :
                    (Issuing(q)' \/ req'[q].pc = "revoke") => req'[q].token # req'[p].token
               /\ Live(req[p].token)' \/ req'[p].session \in closed'
    BY <1>2, <1>4, <1>5, <1>6, <1>7, <2>1 DEF OneCarrier, Live
  <2>2. \A d, c \in Devices : cookie'[d] = cookie'[c] /\ cookie'[d] # NoToken => d = c
    BY <1>4 DEF OneCarrier
  <2>3. \A p \in Reqs, d \in Devices :
          req'[p].pc = "revoke" /\ cookie'[d] = req'[p].token => req'[p].device = d
    BY <1>4, <1>5, <1>7 DEF OneCarrier
  <2>4. QED
    BY <2>1, <2>2, <2>3 DEF OneCarrier
<1>9. \A p \in Reqs : Succeeding(p) => Succeeding(p)' /\ req'[p] = req[p]
  BY <1>1, <1>3 DEF Succeeding
<1>10. ASSUME NEW d \in Devices PROVE CanRenew(d)'
  BY <1>2, <1>4, <1>9, RenewOfDevices DEF CanRenew, Live
<1>11. QED
  BY <1>8, <1>10 DEF SignedInCanRenew, CanRenew, Succeeding

\* A rotation's request takes the place of the token it spends, on the one
\* device that has it.
LEMMA RevokeCarrier ==
  ASSUME TypeInv, OneCarrier, SignedInCanRenew, NEW r \in Reqs, Revoke(r)
  PROVE  OneCarrier' /\ SignedInCanRenew'
<1> DEFINE id == req[r].token
<1>1. /\ Fading /\ id \in 1..Len(tokens) /\ req[r].session = tokens[id].session
      /\ \A i \in 1..Len(tokens) :
           tokens'[i].state = IF i = id THEN "dead" ELSE tokens[i].state
  BY RevokeIs
<1>2. PICK t \in Request :
        /\ Advances(r, t)
        /\ t.pc = IF req[r].op = "refresh" THEN "insert" ELSE "signed_out"
        /\ t.op = req[r].op /\ t.device = req[r].device /\ t.session = req[r].session
  BY RevokeIs
<1>3. req'[r] = t /\ \A p \in Reqs \ {r} : req'[p] = req[p]
  BY <1>2, AdvanceIs DEF TypeInv
<1>4. /\ UNCHANGED <<cookie, access>> /\ closed \subseteq closed' /\ req[r].pc = "revoke"
      /\ req[r].op # "refresh" => req[r].session \in closed'
  BY DEF Revoke
<1>5. \A p \in Reqs : Issuing(p)' => p # r /\ Issuing(p) /\ req'[p] = req[p]
  BY <1>2, <1>3 DEF Issuing
<1>6. \A p \in Reqs : req'[p].pc = "revoke" => p # r /\ req[p].pc = "revoke" /\ req'[p] = req[p]
  BY <1>2, <1>3
<1>7. OneCarrier'
  <2>1. ASSUME NEW p \in Reqs, Issuing(p)'
        PROVE  /\ \A d \in Devices : cookie'[d] # req'[p].token
               /\ \A q \in Reqs \ {p} :
                    (Issuing(q)' \/ req'[q].pc = "revoke") => req'[q].token # req'[p].token
               /\ Live(req[p].token)' \/ req'[p].session \in closed'
    <3>1. p # r /\ Issuing(p) /\ req'[p] = req[p]
      BY <1>5, <2>1
    <3>2. req[p].token # id /\ req[p].token \in 1..Len(tokens)
      BY <1>4, <3>1, TokenTypes DEF OneCarrier, TypeInv, HandInv, HasToken
    <3>3. Live(req[p].token)' \/ req'[p].session \in closed'
      BY <1>1, <1>4, <3>1, <3>2 DEF OneCarrier, Live
    <3>4. QED
      BY <1>4, <1>5, <1>6, <3>1, <3>3 DEF OneCarrier
  <2>2. \A p \in Reqs, d \in Devices :
          req'[p].pc = "revoke" /\ cookie'[d] = req'[p].token => req'[p].device = d
    BY <1>4, <1>6 DEF OneCarrier
  <2>3. QED
    BY <1>4, <2>1, <2>2 DEF OneCarrier
<1>8. \A p \in Reqs : Succeeding(p) => Succeeding(p)' /\ req'[p] = req[p]
  BY <1>3, <1>4 DEF Succeeding
<1>9. ASSUME NEW d \in Devices PROVE CanRenew(d)'
  <2>1. SUFFICES ASSUME access[d] # NOBODY PROVE CanRenew(d)'
    BY <1>4 DEF CanRenew
  <2>2. CanRenew(d) /\ cookie[d] # NoToken /\ cookie'[d] = cookie[d]
    BY <1>4, <2>1, RenewOfDevices DEF CanRenew
  <2>3. cookie[d] \in 1..Len(tokens) /\ tokens'[cookie[d]].session = tokens[cookie[d]].session
    BY <1>1, <2>2, CookieTypes DEF Fading
  <2>4. CASE cookie[d] = id
    <3>1. req[r].device = d
      BY <1>4, <2>4 DEF OneCarrier
    <3>2. CASE req[r].op = "refresh"
      <4>1. Succeeding(r)' /\ req'[r].device = d /\ req'[r].session = tokens'[cookie[d]].session
        BY <1>1, <1>2, <1>3, <2>3, <2>4, <3>1, <3>2 DEF Succeeding
      <4>2. QED
        BY <2>2, <4>1 DEF CanRenew
    <3>3. CASE req[r].op # "refresh"
      BY <1>1, <1>4, <2>2, <2>3, <2>4, <3>3 DEF CanRenew
    <3>4. QED
      BY <3>2, <3>3
  <2>5. CASE cookie[d] # id
    <3>1. Live(cookie[d]) => Live(cookie[d])'
      BY <1>1, <2>2, <2>3, <2>5 DEF Live
    <3>2. QED
      BY <1>4, <1>8, <2>1, <2>2, <2>3, <3>1 DEF CanRenew
  <2>6. QED
    BY <2>4, <2>5
<1>10. QED
  BY <1>7, <1>9 DEF SignedInCanRenew, CanRenew, Succeeding

LEMMA GuardCarrier ==
  ASSUME TypeInv, OneCarrier, SignedInCanRenew,
         NEW r \in Reqs, NEW d \in Devices, NEW op \in {"refresh", "logout"},
         RefreshGuard(r, d, op)
  PROVE  OneCarrier' /\ SignedInCanRenew'
<1>1. PICK t \in Request :
        /\ Advances(r, t) /\ t.pc = "revoke" /\ t.device = d /\ t.token = cookie[d]
        /\ cookie[d] \in 1..Len(tokens)
  BY GuardIs
<1>2. req'[r] = t /\ \A p \in Reqs \ {r} : req'[p] = req[p]
  BY <1>1, AdvanceIs DEF TypeInv
<1>3. UNCHANGED <<tokens, cookie, access, closed>> /\ req[r] = Idle
  BY DEF RefreshGuard, ValidateRefreshToken, history
<1>4. \A p \in Reqs : Issuing(p)' => p # r /\ Issuing(p) /\ req'[p] = req[p]
  BY <1>1, <1>2 DEF Issuing
<1>5. cookie[d] # NoToken
  BY <1>1, TokenTypes DEF TypeInv, NoToken
<1>6. OneCarrier'
  <2>1. ASSUME NEW p \in Reqs, Issuing(p)'
        PROVE  /\ \A c \in Devices : cookie'[c] # req'[p].token
               /\ \A q \in Reqs \ {p} :
                    (Issuing(q)' \/ req'[q].pc = "revoke") => req'[q].token # req'[p].token
               /\ Live(req[p].token)' \/ req'[p].session \in closed'
    <3>1. p # r /\ Issuing(p) /\ req'[p] = req[p]
      BY <1>4, <2>1
    <3>2. req[p].token # cookie[d]
      BY <3>1 DEF OneCarrier
    <3>3. QED
      BY <1>1, <1>2, <1>3, <1>4, <3>1, <3>2 DEF OneCarrier, Live
  <2>2. \A p \in Reqs, c \in Devices :
          req'[p].pc = "revoke" /\ cookie'[c] = req'[p].token => req'[p].device = c
    BY <1>1, <1>2, <1>3, <1>5 DEF OneCarrier
  <2>3. QED
    BY <1>3, <2>1, <2>2 DEF OneCarrier
<1>7. \A p \in Reqs : Succeeding(p) => Succeeding(p)' /\ req'[p] = req[p]
  BY <1>2, <1>3 DEF Succeeding, Idle
<1>8. ASSUME NEW c \in Devices PROVE CanRenew(c)'
  BY <1>3, <1>7, RenewOfDevices DEF CanRenew, Live
<1>9. QED
  BY <1>6, <1>8 DEF SignedInCanRenew, CanRenew, Succeeding

\* A device that is signed in has a good token, a rotation on its way, or a
\* session that may have ended: racing tabs never strand it
\* (auth.controller.ts:156, 262).
THEOREM RenewalSurvivesRaces == Spec => []SignedInCanRenew
<1> DEFINE Inv == TypeInv /\ OneCarrier /\ SignedInCanRenew
<1>1. Init => Inv
  BY InitTypes DEF Init, OneCarrier, SignedInCanRenew, Issuing, Idle
<1>2. Inv /\ [Next]_vars => Inv'
  <2>1. SUFFICES ASSUME Inv, [Next]_vars PROVE OneCarrier' /\ SignedInCanRenew'
    BY NextTypes
  <2>2. CASE Carries
    <3>1. \A d \in Devices : CanRenew(d)'
      BY <2>1, <2>2, RenewOfDevices, CarriesRenewal
    <3>2. SignedInCanRenew'
      BY <3>1 DEF SignedInCanRenew, CanRenew, Succeeding
    <3>3. QED
      BY <2>1, <2>2, <3>2, CarriesOneCarrier
  <2>3. QED
    BY <2>1, <2>2, StepCarries, InsertCarrier, RespondCarrier, ClearCarrier,
       RevokeCarrier, GuardCarrier
<1>3. QED
  BY <1>1, <1>2, PTL DEF Spec

-----------------------------------------------------------------------------
(* Passwords.                                                              *)

UsersStay ==
  \A e \in Emails : /\ users'[e].resets = users[e].resets
                    /\ users'[e].state = "absent" => users[e].state = "absent"

ExcusesStay == \A e \in Emails : Excused(e) => Excused(e)'

LEMMA UserTypes ==
  ASSUME TypeOK
  PROVE  /\ \A e \in Emails : users[e].resets \in Nat
         /\ \A r \in Reqs : req[r] # Idle => req[r].user \in Emails /\ req[r].auth \in Nat
         /\ \A i \in 1..Len(tokens) : tokens[i].user \in Emails
<1>1. \A e \in Emails : users[e].resets \in 0..MaxResets
  BY DEF TypeOK, UserRow
<1>2. \A r \in Reqs : req[r] # Idle => req[r].user \in Emails /\ req[r].auth \in 0..MaxResets
  BY Waiting DEF Request
<1>3. QED
  BY <1>1, <1>2, TokenTypes, SessionsAssumption DEF TokenRow

LEMMA SameUsersStay == ASSUME UNCHANGED users PROVE UsersStay
  BY DEF UsersStay

\* A reset is over when it has revoked, or when it is known to have died.
LEMMA AdvanceExcuses ==
  ASSUME TypeInv, NEW r \in Reqs, NEW t, Advances(r, t), halfReset \subseteq halfReset',
         req[r].pc = "revoke_all" /\ req[r].op = "reset" => req[r].user \in halfReset'
  PROVE  ExcusesStay
<1>1. \A p \in Reqs \ {r} : req'[p] = req[p]
  BY AdvanceIs DEF TypeInv
<1>2. QED
  BY <1>1 DEF ExcusesStay, Excused, Resetting

LEMMA OthersFit ==
  ASSUME TypeInv, UsersStay, ExcusesStay, NEW p \in Reqs, req'[p] = req[p], Fits(p),
         \A i \in 1..Len(tokens) : /\ tokens'[i].user = tokens[i].user
                                   /\ tokens'[i].auth = tokens[i].auth
                                   /\ tokens'[i].carried = tokens[i].carried
  PROVE  Fits(p)'
<1>1. CASE req[p] = Idle
  BY <1>1 DEF Fits, Idle
<1>2. CASE req[p] # Idle
  <2>1. req[p].user \in Emails
    BY <1>2, UserTypes DEF TypeInv
  <2>2. req[p].pc = "revoke" => req[p].token \in 1..Len(tokens)
    BY TokenTypes DEF TypeInv, HandInv, HasToken
  <2>3. QED
    BY <2>1, <2>2 DEF Fits, UsersStay, ExcusesStay
<1>3. QED
  BY <1>1, <1>2

LEMMA RowsFit ==
  ASSUME TypeInv, OldPasswords, UsersStay, ExcusesStay, Fading
  PROVE  \A i \in DOMAIN tokens' : RowFits(i)'
<1>1. DOMAIN tokens' = 1..Len(tokens) /\ DOMAIN tokens = 1..Len(tokens)
  BY FadingStays, TokenTypes DEF TypeInv
<1>2. ASSUME NEW i \in 1..Len(tokens), ~Dead(i)',
             tokens'[i].auth < users'[tokens'[i].user].resets
      PROVE  tokens'[i].carried \/ Excused(tokens[i].user)'
  <2>1. /\ tokens'[i].user = tokens[i].user /\ tokens'[i].auth = tokens[i].auth
        /\ tokens'[i].carried = tokens[i].carried /\ ~Dead(i) /\ tokens[i].user \in Emails
    BY <1>2, UserTypes DEF Fading, TypeInv
  <2>2. users'[tokens[i].user].resets = users[tokens[i].user].resets
    BY <2>1 DEF UsersStay
  <2>3. tokens[i].carried \/ Excused(tokens[i].user)
    BY <1>1, <1>2, <2>1, <2>2 DEF OldPasswords, RowFits
  <2>4. QED
    BY <2>1, <2>3 DEF ExcusesStay, Excused, Resetting
<1>3. QED
  BY <1>1, <1>2 DEF RowFits

\* A step of r to t that keeps passwords and excuses.
LEMMA AdvanceFits ==
  ASSUME TypeInv, OldPasswords, UsersStay, ExcusesStay, Fading,
         NEW r \in Reqs, NEW t, Advances(r, t), Fits(r)'
  PROVE  OldPasswords'
<1>1. \A p \in Reqs \ {r} : Fits(p)'
  BY AdvanceIs, OthersFit DEF TypeInv, OldPasswords, Fading
<1>2. QED
  BY <1>1, RowsFit DEF OldPasswords, UsersStay

LEMMA StillFits ==
  ASSUME TypeInv, OldPasswords, UsersStay, Fading, UNCHANGED <<req, halfReset>>
  PROVE  OldPasswords'
<1>1. ExcusesStay
  BY DEF ExcusesStay, Excused, Resetting
<1>2. \A p \in Reqs : Fits(p)'
  BY <1>1, OthersFit DEF OldPasswords, Fading
<1>3. QED
  BY <1>1, <1>2, RowsFit DEF OldPasswords, UsersStay

LEMMA ArrivalFits ==
  ASSUME TypeInv, OldPasswords, NEW r \in Reqs, NEW d \in Devices,
         \/ PostRegister(r, d) \/ PostLogin(r, d) \/ GoogleCallback(r, d)
         \/ PostLogoutAll(r, d) \/ PostResetPassword(r, d)
  PROVE  OldPasswords'
<1>1. req[r] = Idle /\ UNCHANGED <<users, tokens, halfReset>>
  BY ArrivalIs DEF history
<1>2. PICK t \in Request :
        /\ Advances(r, t)
        /\ t.pc \in {"save_user", "insert", "update_google", "revoke_all", "save_password"}
        /\ t.auth = users[t.user].resets
        /\ t.pc = "save_password" => users[t.user].state = "active"
  BY ArrivalIs
<1>3. req'[r] = t /\ t.user \in Emails /\ users[t.user].resets \in Nat
  BY <1>2, AdvanceIs, UserTypes DEF TypeInv, Request
<1>4. Fits(r)'
  BY <1>1, <1>2, <1>3 DEF Fits
<1>5. ExcusesStay
  BY <1>1, <1>2, AdvanceExcuses DEF Idle
<1>6. QED
  BY <1>1, <1>2, <1>4, <1>5, SameUsersStay, UnchangedFades, AdvanceFits DEF TypeInv

LEMMA GuardFits ==
  ASSUME TypeInv, OldPasswords, NEW r \in Reqs, NEW d \in Devices,
         NEW op \in {"refresh", "logout"}, RefreshGuard(r, d, op)
  PROVE  OldPasswords'
<1>1. req[r] = Idle /\ UNCHANGED <<users, tokens, halfReset>>
  BY DEF RefreshGuard, ValidateRefreshToken, history
<1>2. PICK t \in Request :
        /\ Advances(r, t) /\ t.pc = "revoke" /\ t.token = cookie[d]
        /\ t.user = tokens[cookie[d]].user
        /\ t.auth = tokens[cookie[d]].auth /\ t.carried = tokens[cookie[d]].carried
  BY GuardIs
<1>3. Fits(r)'
  BY <1>1, <1>2, AdvanceIs DEF TypeInv, Fits
<1>4. ExcusesStay
  BY <1>1, <1>2, AdvanceExcuses DEF Idle
<1>5. QED
  BY <1>1, <1>2, <1>3, <1>4, SameUsersStay, UnchangedFades, AdvanceFits DEF TypeInv

\* An account that is being created has no earlier password.
LEMMA GoesOnFits ==
  ASSUME TypeInv, OldPasswords, NEW r \in Reqs,
         SaveUser(r) \/ SaveAddress(r) \/ UpdateGoogleUser(r) \/ StoreHash(r)
  PROVE  OldPasswords'
<1>1. /\ req[r] \in Request /\ UNCHANGED <<tokens, halfReset>>
      /\ req[r].pc \in {"save_user", "save_address", "update_google", "store_hash"}
  BY GoesOn DEF history, SaveUser, SaveAddress, UpdateGoogleUser, StoreHash
<1>2. PICK t \in Request :
        /\ Advances(r, t) /\ t.user = req[r].user
        /\ t.auth = req[r].auth /\ t.carried = req[r].carried
        /\ IF req[r].pc = "store_hash" THEN t.pc = "respond"
           ELSE /\ t.pc \in {"save_address", "insert", "revoke_all"}
                /\ t.pc = "revoke_all" => req[r].pc = "save_password"
  BY GoesOn
<1>3. req'[r] = t /\ t.user \in Emails /\ t.auth \in Nat /\ users[t.user].resets \in Nat
  BY <1>1, <1>2, AdvanceIs, Waiting, UserTypes DEF TypeInv, Request, Idle, Steps
<1>4. UsersStay
  <2>1. CASE SaveUser(r)
    BY <1>2, <1>3, <2>1 DEF SaveUser, UsersStay, TypeInv, TypeOK, UserRow
  <2>2. CASE UpdateGoogleUser(r)
    BY <1>2, <1>3, <2>2 DEF UpdateGoogleUser, UsersStay, TypeInv, TypeOK, UserRow
  <2>3. CASE SaveAddress(r) \/ StoreHash(r)
    BY <2>3, SameUsersStay DEF SaveAddress, StoreHash
  <2>4. QED
    BY <2>1, <2>2, <2>3
<1>5. ExcusesStay
  BY <1>1, <1>2, AdvanceExcuses
<1>6. t.pc # "revoke" /\ t.pc # "save_password"
  BY <1>2
<1>7. t.pc \in {"save_address", "update_google", "insert"} /\ t.auth < users'[t.user].resets =>
        t.carried \/ Excused(req[r].user)
  <2>1. users'[t.user].resets = users[t.user].resets
    BY <1>3, <1>4 DEF UsersStay
  <2>2. CASE req[r].pc = "save_user"
    <3>1. SaveUser(r) /\ users[t.user].state = "absent"
      BY <1>2, <2>2 DEF SaveUser, SaveAddress, UpdateGoogleUser, StoreHash
    <3>2. users[t.user].resets = 0
      BY <1>3, <3>1 DEF OldPasswords
    <3>3. QED
      BY <1>3, <2>1, <3>2
  <2>3. CASE req[r].pc \in {"save_address", "update_google"}
    BY <1>2, <2>1, <2>3 DEF OldPasswords, Fits
  <2>4. CASE req[r].pc = "store_hash"
    BY <1>2, <2>4
  <2>5. QED
    BY <1>1, <2>2, <2>3, <2>4
<1>8. Fits(r)'
  BY <1>2, <1>3, <1>5, <1>6, <1>7 DEF Fits, ExcusesStay
<1>9. QED
  BY <1>1, <1>2, <1>4, <1>5, <1>8, UnchangedFades, AdvanceFits DEF TypeInv

LEMMA EndFits ==
  ASSUME TypeInv, OldPasswords, NEW r \in Reqs,
         Respond(r) \/ ClearRefreshTokenCookie(r) \/ Fail(r)
  PROVE  OldPasswords'
<1>1. Advances(r, Idle) /\ UNCHANGED <<users, tokens>> /\ halfReset \subseteq halfReset'
  BY DEF Respond, ClearRefreshTokenCookie, Fail, Advances, history
<1>2. Fits(r)'
  BY <1>1, AdvanceIs DEF TypeInv, Fits, Idle
<1>3. req[r].pc = "revoke_all" /\ req[r].op = "reset" => req[r].user \in halfReset'
  BY DEF Respond, ClearRefreshTokenCookie, Fail
<1>4. ExcusesStay
  BY <1>1, <1>3, AdvanceExcuses
<1>5. QED
  BY <1>1, <1>2, <1>4, SameUsersStay, UnchangedFades, AdvanceFits DEF TypeInv

\* A rotation hands on what its token says.
LEMMA RevokeFits ==
  ASSUME TypeInv, OldPasswords, NEW r \in Reqs, Revoke(r)
  PROVE  OldPasswords'
<1>1. /\ req[r] \in Request /\ Fading /\ req[r].token \in DOMAIN tokens /\ ~Dead(req[r].token)
      /\ UNCHANGED <<users, halfReset>> /\ req[r].pc = "revoke"
  BY RevokeIs, TokenTypes DEF Revoke, TypeInv
<1>2. PICK t \in Request :
        /\ Advances(r, t) /\ t.user = req[r].user
        /\ t.pc = IF req[r].op = "refresh" THEN "insert" ELSE "signed_out"
        /\ t.auth = req[r].auth /\ t.carried = req[r].carried
  BY RevokeIs
<1>3. ExcusesStay
  BY <1>1, <1>2, AdvanceExcuses
<1>4. RowFits(req[r].token) /\ Fits(r)
  BY <1>1 DEF OldPasswords
<1>5. t.auth < users[t.user].resets => t.carried \/ Excused(req[r].user)
  BY <1>1, <1>2, <1>4 DEF RowFits, Fits
<1>6. req[r].user \in Emails
  BY <1>1 DEF Request
<1>7. Fits(r)'
  BY <1>1, <1>2, <1>3, <1>5, <1>6, AdvanceIs DEF TypeInv, Fits, ExcusesStay
<1>8. QED
  BY <1>1, <1>2, <1>3, <1>7, SameUsersStay, AdvanceFits

LEMMA InsertFits ==
  ASSUME TypeInv, OldPasswords, NEW r \in Reqs, InsertToken(r)
  PROVE  OldPasswords'
<1>0. PICK id : id = Len(tokens) + 1
  OBVIOUS
<1>1. /\ Len(tokens) \in Nat /\ DOMAIN tokens = 1..Len(tokens)
      /\ tokens' \in Seq(TokenRow) /\ Len(tokens') = id
      /\ \A i \in 1..Len(tokens) : tokens'[i] = tokens[i]
      /\ tokens'[id].user = req[r].user /\ tokens'[id].auth = req[r].auth
      /\ tokens'[id].carried = req[r].carried
  BY <1>0, InsertAppends, TokenTypes DEF TypeInv
<1>2. DOMAIN tokens' = 1..Len(tokens) \cup {id}
  BY <1>0, <1>1, LenProperties
<1>3. PICK t \in Request : Advances(r, t) /\ t.pc = "store_hash"
  BY InsertIs
<1>4. req'[r] = t /\ UNCHANGED <<users, halfReset>> /\ req[r].pc = "insert"
  BY <1>3, AdvanceIs DEF TypeInv, InsertToken, history
<1>5. ExcusesStay /\ UsersStay
  BY <1>3, <1>4, AdvanceExcuses, SameUsersStay
<1>6. Fits(r)'
  BY <1>3, <1>4 DEF Fits
<1>7. \A p \in Reqs \ {r} : Fits(p)'
  BY <1>1, <1>3, <1>5, AdvanceIs, OthersFit DEF TypeInv, OldPasswords
<1>8. \A i \in 1..Len(tokens) : RowFits(i)'
  <2>1. ASSUME NEW i \in 1..Len(tokens) PROVE RowFits(i)'
    <3>1. RowFits(i) /\ tokens'[i] = tokens[i] /\ tokens[i].user \in Emails
      BY <1>1, UserTypes DEF OldPasswords, TypeInv
    <3>2. Excused(tokens[i].user) => Excused(tokens[i].user)'
      BY <3>1, <1>5 DEF ExcusesStay, Excused, Resetting
    <3>3. QED
      BY <1>4, <3>1, <3>2 DEF RowFits, Dead
  <2>2. QED
    BY <2>1
<1>9. RowFits(id)'
  <2>1. req[r].user \in Emails
    BY <1>4, UserTypes DEF TypeInv, Idle
  <2>2. req[r].auth < users[req[r].user].resets => req[r].carried \/ Excused(req[r].user)
    BY <1>4 DEF OldPasswords, Fits
  <2>3. \A e \in Emails : Excused(e) => Excused(e)'
    BY <1>5 DEF ExcusesStay
  <2>4. \A e \in Emails : tokens'[id].user = e =>
          (tokens'[id].auth < users'[e].resets => tokens'[id].carried \/ Excused(e)')
    BY <1>1, <1>4, <2>1, <2>2, <2>3
  <2>5. QED
    BY <1>1, <2>1, <2>4 DEF RowFits, Excused, Resetting
<1>10. QED
  BY <1>2, <1>4, <1>6, <1>7, <1>8, <1>9 DEF OldPasswords

\* The account's other sessions are excused until the request has revoked.
LEMMA SavePasswordFits ==
  ASSUME TypeInv, OldPasswords, NEW r \in Reqs, SavePassword(r)
  PROVE  OldPasswords'
<1>0. PICK e : e = req[r].user
  OBVIOUS
<1>1. /\ req[r] \in Request /\ e \in Emails /\ req[r].op = "reset"
      /\ users[e].state # "absent" /\ req[r].pc = "save_password"
  BY <1>0, Waiting DEF TypeInv, HandInv, SavePassword, Idle, Request, OldPasswords, Fits
<1>2. PICK t \in Request : /\ Advances(r, t) /\ t.op = req[r].op /\ t.user = e
                           /\ t.pc = "revoke_all"
  BY <1>0, <1>1, GotoIs DEF TypeInv, SavePassword, Steps
<1>3. req'[r] = t /\ \A p \in Reqs \ {r} : req'[p] = req[p]
  BY <1>2, AdvanceIs DEF TypeInv
<1>4. UNCHANGED <<tokens, halfReset>>
  BY DEF SavePassword, history
<1>5. \A u \in Emails : /\ users'[u].state = users[u].state
                        /\ u # e => users'[u].resets = users[u].resets
  BY <1>0, <1>1 DEF SavePassword, TypeInv, TypeOK, UserRow
<1>6. Resetting(e)' /\ Excused(e)'
  BY <1>1, <1>2, <1>3 DEF Resetting, Excused
<1>7. ExcusesStay
  BY <1>1, <1>2, <1>4, AdvanceExcuses
<1>8. ASSUME NEW p \in Reqs PROVE Fits(p)'
  <2>1. CASE p = r
    BY <1>2, <1>3, <2>1 DEF Fits
  <2>2. CASE p # r /\ req[p] = Idle
    BY <1>3, <2>2 DEF Fits, Idle
  <2>3. CASE p # r /\ req[p] # Idle
    <3>1. req'[p] = req[p] /\ req[p].user \in Emails /\ Fits(p)
      BY <1>3, <2>3, UserTypes DEF TypeInv, OldPasswords
    <3>2. CASE req[p].user = e
      <4>1. req[p].user = e => Excused(req[p].user)'
        BY <1>3, <1>6, <2>3 DEF Excused, Resetting
      <4>2. QED
        BY <1>4, <1>5, <3>1, <3>2, <4>1 DEF Fits
    <3>3. CASE req[p].user # e
      BY <1>4, <1>5, <1>7, <3>1, <3>3 DEF Fits, ExcusesStay
    <3>4. QED
      BY <3>2, <3>3
  <2>4. QED
    BY <2>1, <2>2, <2>3
<1>9. ASSUME NEW i \in DOMAIN tokens PROVE RowFits(i)'
  <2>1. tokens[i].user \in Emails /\ RowFits(i) /\ tokens' = tokens
    BY <1>4, UserTypes, TokenTypes DEF TypeInv, OldPasswords
  <2>2. Excused(tokens[i].user) => Excused(tokens[i].user)'
    BY <1>7, <2>1 DEF ExcusesStay, Excused, Resetting
  <2>3. CASE tokens[i].user = e
    <3>1. Excused(tokens[i].user)'
      BY <1>1, <1>2, <1>3, <2>1, <2>3 DEF Excused, Resetting
    <3>2. QED
      BY <3>1 DEF RowFits
  <2>4. CASE tokens[i].user # e
    BY <1>5, <2>1, <2>2, <2>4 DEF RowFits, Dead
  <2>5. QED
    BY <2>3, <2>4
<1>10. \A u \in Emails : users'[u].state = "absent" => users'[u].resets = 0
  BY <1>1, <1>5 DEF OldPasswords
<1>11. QED
  BY <1>4, <1>8, <1>9, <1>10 DEF OldPasswords

\* A revocation of all ends the account's sessions, but for tokens that are
\* being issued.
LEMMA RevokeAllFits ==
  ASSUME TypeInv, OldPasswords, NEW r \in Reqs, RevokeAll(r)
  PROVE  OldPasswords'
<1>0. PICK e : e = req[r].user
  OBVIOUS
<1>1. /\ req[r] \in Request /\ Fading
      /\ \A i \in 1..Len(tokens) :
           tokens'[i].state = IF tokens[i].user = e THEN "dead" ELSE tokens[i].state
      /\ \A p \in Reqs \ {r} :
           /\ req'[p].pc = req[p].pc
           /\ req[p] # Idle =>
                /\ req'[p].op = req[p].op /\ req'[p].user = req[p].user
                /\ req'[p].token = req[p].token /\ req'[p].auth = req[p].auth
                /\ req'[p].carried = (req[p].carried \/ p \in AboutToInsert(e))
      /\ req'[r].pc \in {"idle", "signed_out"}
  BY <1>0, RevokeAllIs
<1>2. halfReset' = halfReset \ {e} /\ UNCHANGED users
  BY <1>0 DEF RevokeAll
<1>3. ASSUME NEW u \in Emails, u # e, Excused(u) PROVE Excused(u)'
  BY <1>0, <1>1, <1>2, <1>3 DEF Excused, Resetting, Idle
<1>4. DOMAIN tokens' = 1..Len(tokens) /\ DOMAIN tokens = 1..Len(tokens)
  BY <1>1, FadingStays, TokenTypes DEF TypeInv
<1>5. ASSUME NEW i \in 1..Len(tokens) PROVE RowFits(i)'
  <2>1. /\ tokens'[i].user = tokens[i].user /\ tokens'[i].auth = tokens[i].auth
        /\ tokens'[i].carried = tokens[i].carried
        /\ tokens[i].user \in Emails /\ RowFits(i)
    BY <1>1, <1>4, UserTypes DEF Fading, TypeInv, OldPasswords
  <2>2. CASE tokens[i].user = e
    BY <1>1, <2>2 DEF RowFits, Dead
  <2>3. CASE tokens[i].user # e
    <3>1. Dead(i)' <=> Dead(i)
      BY <1>1, <2>3 DEF Dead
    <3>2. RowFits(i)' <=>
            (~Dead(i) /\ tokens[i].auth < users[tokens[i].user].resets =>
               tokens[i].carried \/ (tokens'[i].user \in halfReset' \/ Resetting(tokens[i].user)'))
      BY <1>2, <2>1, <3>1 DEF RowFits, Excused, Resetting
    <3>3. \A u \in Emails : u # e /\ Excused(u) => u \in halfReset' \/ Resetting(u)'
      BY <1>3 DEF Excused
    <3>4. tokens[i].user \in halfReset' \/ Resetting(tokens[i].user)' \/ ~Excused(tokens[i].user)
      BY <2>1, <2>3, <3>3 DEF Resetting
    <3>5. QED
      BY <2>1, <3>2, <3>4 DEF RowFits
  <2>4. QED
    BY <2>2, <2>3
<1>6. ASSUME NEW p \in Reqs PROVE Fits(p)'
  <2>1. CASE p = r
    BY <1>1, <2>1 DEF Fits
  <2>2. CASE p # r /\ req[p] = Idle
    BY <1>1, <2>2 DEF Fits, Idle
  <2>3. CASE p # r /\ req[p] # Idle
    <3>1. /\ req[p].user \in Emails /\ Fits(p) /\ req[p] \in Request
          /\ req[p].carried \in BOOLEAN
      BY <2>3, UserTypes, Waiting DEF TypeInv, OldPasswords, Request
    <3>2. /\ req'[p].pc = req[p].pc /\ req'[p].user = req[p].user
          /\ req'[p].token = req[p].token /\ req'[p].auth = req[p].auth
          /\ req'[p].carried = (req[p].carried \/ p \in AboutToInsert(e))
      BY <1>1, <2>3
    <3>3. req[p].pc = "save_password" => users'[req[p].user].state # "absent"
      BY <1>2, <3>1 DEF Fits
    <3>4. ASSUME req[p].pc = "revoke"
          PROVE  /\ req[p].user = tokens'[req[p].token].user
                 /\ req[p].auth = tokens'[req[p].token].auth
                 /\ req'[p].carried = tokens'[req[p].token].carried
      <4>1. req[p].token \in 1..Len(tokens)
        BY <1>4, <3>4 DEF TypeInv, HandInv, HasToken
      <4>2. req'[p].carried = req[p].carried
        BY <3>1, <3>2, <3>4 DEF AboutToInsert
      <4>3. QED
        BY <1>1, <3>1, <3>4, <4>1, <4>2 DEF Fading, Fits
    <3>5. ASSUME req[p].pc \in {"save_address", "update_google", "insert"},
                 req[p].auth < users[req[p].user].resets
          PROVE  req'[p].carried \/ Excused(req[p].user)'
      <4>1. CASE req[p].user = e
        BY <3>2, <3>5, <4>1 DEF AboutToInsert
      <4>2. CASE req[p].user # e
        <5>1. req[p].carried \/ Excused(req[p].user)
          BY <3>1, <3>5 DEF Fits
        <5>2. \A u \in Emails : u # e /\ Excused(u) => u \in halfReset' \/ Resetting(u)'
          BY <1>3 DEF Excused
        <5>3. QED
          BY <3>1, <3>2, <4>2, <5>1, <5>2 DEF Excused, Resetting
      <4>3. QED
        BY <4>1, <4>2
    <3>6. QED
      BY <1>2, <3>2, <3>3, <3>4, <3>5 DEF Fits
  <2>4. QED
    BY <2>1, <2>2, <2>3
<1>7. QED
  BY <1>2, <1>4, <1>5, <1>6 DEF OldPasswords

LEMMA TimeFits ==
  ASSUME TypeInv, OldPasswords,
         \/ \E d \in Devices : RefuseExpired(d)
         \/ PurgeExpiredTokens \/ PostForgotPassword
         \/ \E e \in Emails : Deactivate(e)
         \/ \E i \in 1..MaxTokens : Expire(i)
  PROVE  OldPasswords'
<1>1. UNCHANGED <<req, halfReset>>
  BY DEF RefuseExpired, PurgeExpiredTokens, PostForgotPassword, ForgotPassword,
     Deactivate, Expire, history
<1>2. Fading
  BY RefuseIs, PurgeIs, ExpireIs, UnchangedFades
     DEF PostForgotPassword, ForgotPassword, Deactivate, TypeInv
<1>3. UsersStay
  <2>1. ASSUME NEW e \in Emails, Deactivate(e) PROVE UsersStay
    BY <2>1 DEF Deactivate, UsersStay, TypeInv, TypeOK, UserRow
  <2>2. QED
    BY <2>1, SameUsersStay
       DEF RefuseExpired, PurgeExpiredTokens, PostForgotPassword, ForgotPassword, Expire
<1>4. QED
  BY <1>1, <1>2, <1>3, StillFits

LEMMA NextFits == ASSUME TypeInv, OldPasswords, [Next]_vars PROVE OldPasswords'
<1>1. CASE UNCHANGED vars
  BY <1>1, SameUsersStay, UnchangedFades, StillFits DEF vars, TypeInv
<1>2. CASE Next
  BY <1>2, StepCases, ArrivalFits, GuardFits, GoesOnFits, InsertFits, EndFits,
     RevokeFits, SavePasswordFits, RevokeAllFits, TimeFits
<1>3. QED
  BY <1>1, <1>2

\* After a password reset no token of a session that began under an earlier
\* password is good, unless it was being issued during the revocation or the
\* reset died before it revoked (auth.service.ts:340-343).
THEOREM ResetEndsOldSessions == Spec => []OldPasswordSessionsEnd
<1> DEFINE Inv == TypeInv /\ OldPasswords
<1>1. Init => Inv
  BY InitTypes, EmptySeq DEF Init, OldPasswords, Fits, Idle
<1>2. Inv /\ [Next]_vars => Inv'
  BY NextTypes, NextFits
<1>3. Inv => OldPasswordSessionsEnd
  BY DEF OldPasswords, RowFits, Excused, Resetting, OldPasswordSessionsEnd, Live, Dead
<1>4. QED
  BY <1>1, <1>2, <1>3, PTL DEF Spec

=============================================================================
