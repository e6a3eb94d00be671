----------------------------- MODULE AuthService -----------------------------
(***************************************************************************)
(* The auth service: registration, login and /auth/me over PostgreSQL, and *)
(* the tokens, which the booking service verifies by itself.               *)
(*                                                                         *)
(* A request is a goroutine of net/http.  Its statement runs in a backend  *)
(* of the database, which goes on when the request has given up after      *)
(* queryTimeout: an INSERT may still commit behind an answer of 500.       *)
(* Full names, which nothing reads, and password hashing, which the code   *)
(* does not do, are left out.                                              *)
(***************************************************************************)
EXTENDS BookingDomain, FiniteSets

CONSTANTS
  Request,        \* the requests
  Calls,          \* what a request may ask: records with a field op
  ForeignTokens,  \* tokens in circulation that this service has not issued
  TokenLife,      \* 24 hours, in ticks of the clock
  MaxTime         \* bound: the last tick

ASSUME AuthAssumption ==
  /\ TokenLife \in Nat \ {0} /\ MaxTime \in Nat
  /\ \A c \in Calls : c.op \in {"register", "login", "me"}

VARIABLES
  users,      \* table users: its committed rows
  nextId,     \* the sequence of users.id
  pending,    \* request -> the row its INSERT has written and not committed
  statement,  \* request -> how far the database is with its INSERT
  call,       \* request -> what it asks
  phase,      \* request -> what its handler does next
  bearer,     \* request -> the claims of its token (/auth/me)
  reply,      \* request -> what it was answered
  tokens,     \* tokens issued so far
  now,        \* the clock
  known,      \* history: the credentials were in the table when the login began
  outage      \* history: a statement of the request has failed

dbVars == <<users, nextId, pending, statement>>
historyVars == <<known, outage>>
vars == <<dbVars, call, phase, bearer, reply, tokens, now, historyVars>>

-----------------------------------------------------------------------------
\* Texts a client sends: a word, "" for none, with or without spaces around it.

TrimSpace(text) == [word |-> text.word, spaces |-> FALSE]
IsBlank(text) == TrimSpace(text).word = ""

\* Fault: a role that only this service knows.
RoleOfGuests(role) == role \in KnownRole \cup {"unknown"}

IsValidRole(role) == role \in KnownRole

User == [id : Nat, login : {c.login.word : c \in {d \in Calls : d.op = "register"}},
         password : {c.password : c \in {d \in Calls : d.op = "register"}}, role : KnownRole]

NewUser(r, id) ==
  [id |-> id, login |-> TrimSpace(call[r].login).word, password |-> call[r].password,
   role |-> call[r].role]

Answered(status, user, token) == [status |-> status, user |-> user, token |-> token]
NoReply == Answered(0, {}, {})

\* errors.Is(...) of writeUserError; 500 is any other error.
StatusOf(err) ==
  CASE err \in {"invalid_role", "invalid_data", "not_found"} -> 400
    [] err = "exists" -> 409
    [] OTHER -> 500

-----------------------------------------------------------------------------
\* Tokens.  A claim that may be missing is a set of at most one value.

\* Fault: the user whose id was never scanned from the row.
AnonymousToken(u) ==
  [alg |-> "HS256", sub |-> {0}, user_id |-> {u.id}, login |-> u.login, role |-> u.role,
   exp |-> now + TokenLife]

Generate(u) ==
  [alg |-> "HS256", sub |-> {u.id}, user_id |-> {u.id}, login |-> u.login, role |-> u.role,
   exp |-> now + TokenLife]

UserIDFromClaims(t) == IF t.sub # {} THEN t.sub ELSE t.user_id

\* Auth: any HMAC signature under the secret, a subject or, without it, user_id.
Verify(t) ==
  {[user |-> i, login |-> t.login, role |-> t.role] :
     i \in IF t.alg \in {"HS256", "HS512"} /\ now < t.exp THEN UserIDFromClaims(t) ELSE {}}

\* Booking: HS256, a subject and a role of the closed set.
Identity(t) ==
  {[user |-> i, login |-> t.login, role |-> t.role] :
     i \in IF t.alg = "HS256" /\ now < t.exp /\ IsKnown(t.role) THEN t.sub ELSE {}}

-----------------------------------------------------------------------------

Init ==
  /\ users = {} /\ nextId = 1 /\ tokens = {} /\ now = 0
  /\ pending = [r \in Request |-> {}]
  /\ statement = [r \in Request |-> "none"]
  /\ call \in [Request -> Calls]
  /\ phase = [r \in Request |-> "idle"]
  /\ bearer = [r \in Request |-> {}]
  /\ reply = [r \in Request |-> NoReply]
  /\ known = [r \in Request |-> FALSE]
  /\ outage = [r \in Request |-> FALSE]

Reply(r, answer) ==
  /\ phase' = [phase EXCEPT ![r] = "done"]
  /\ reply' = [reply EXCEPT ![r] = answer]

Fail(r, status) == Reply(r, Answered(status, {}, {}))

-----------------------------------------------------------------------------
\* The database: INSERT INTO users ... RETURNING id, in a backend of its own.

\* Fault: the login is looked up before the insert instead of indexed.
CommittedLogin(login) == \E u \in users : u.login = login

Taken(login) == \E u \in users \cup UNION {pending[q] : q \in Request} : u.login = login

\* The unique index has no entry for the login: the row is written.
Insert(r) ==
  /\ statement[r] = "sent"
  /\ ~Taken(NewUser(r, nextId).login)
  /\ pending' = [pending EXCEPT ![r] = {NewUser(r, nextId)}]
  /\ nextId' = nextId + 1
  /\ statement' = [statement EXCEPT ![r] = "inserted"]
  /\ UNCHANGED <<users, call, phase, bearer, reply, tokens, now, historyVars>>

\* 23505, once the entry met in the index is committed.  An id is used up.
Duplicate(r) ==
  /\ statement[r] = "sent"
  /\ \E u \in users : u.login = NewUser(r, nextId).login
  /\ nextId' = nextId + 1
  /\ statement' = [statement EXCEPT ![r] = "duplicate"]
  /\ UNCHANGED <<users, pending, call, phase, bearer, reply, tokens, now, historyVars>>

CommitRow(r) ==
  /\ statement[r] = "inserted"
  /\ users' = users \cup pending[r]
  /\ pending' = [pending EXCEPT ![r] = {}]
  /\ statement' = [statement EXCEPT ![r] = "committed"]
  /\ UNCHANGED <<nextId, call, phase, bearer, reply, tokens, now, historyVars>>

\* The statement is cancelled by its client or ended with the connection.
AbortRow(r) ==
  /\ statement[r] \in {"sent", "inserted"}
  /\ pending' = [pending EXCEPT ![r] = {}]
  /\ statement' = [statement EXCEPT ![r] = "aborted"]
  /\ UNCHANGED <<users, nextId, call, phase, bearer, reply, tokens, now, historyVars>>

Backend(r) == Insert(r) \/ Duplicate(r) \/ CommitRow(r) \/ AbortRow(r)

-----------------------------------------------------------------------------
\* POST /api/auth/register

RefuseRegister(r) ==
  /\ phase[r] = "idle" /\ call[r].op = "register"
  /\ \/ IsBlank(call[r].login) \/ IsBlank(call[r].password)
     \/ ~IsValidRole(call[r].role)
  /\ Fail(r, StatusOf("invalid_data"))
  /\ UNCHANGED <<dbVars, call, bearer, tokens, now, historyVars>>

StartRegister(r) ==
  /\ phase[r] = "idle" /\ call[r].op = "register"
  /\ ~IsBlank(call[r].login) /\ ~IsBlank(call[r].password) /\ IsValidRole(call[r].role)
  /\ phase' = [phase EXCEPT ![r] = "create"]
  /\ statement' = [statement EXCEPT ![r] = "sent"]
  /\ UNCHANGED <<users, nextId, pending, call, bearer, reply, tokens, now, historyVars>>

Registered(r) ==
  /\ phase[r] = "create" /\ statement[r] = "committed"
  /\ \E u \in users : u.login = NewUser(r, 0).login /\ Reply(r, Answered(200, {u}, {}))
  /\ UNCHANGED <<dbVars, call, bearer, tokens, now, historyVars>>

Exists(r) ==
  /\ phase[r] = "create" /\ statement[r] = "duplicate"
  /\ Fail(r, StatusOf("exists"))
  /\ UNCHANGED <<dbVars, call, bearer, tokens, now, historyVars>>

\* queryTimeout or a lost connection, whatever the backend has done or will do.
WriteFails(r) ==
  /\ phase[r] = "create"
  /\ Fail(r, StatusOf("write user"))
  /\ UNCHANGED <<dbVars, call, bearer, tokens, now, historyVars>>

-----------------------------------------------------------------------------
\* POST /api/auth/login

RefuseLogin(r) ==
  /\ phase[r] = "idle" /\ call[r].op = "login"
  /\ IsBlank(call[r].login) \/ IsBlank(call[r].password)
  /\ Fail(r, 400)
  /\ UNCHANGED <<dbVars, call, bearer, tokens, now, historyVars>>

Matches(r, u) == u.login = TrimSpace(call[r].login).word /\ u.password = call[r].password

StartLogin(r) ==
  /\ phase[r] = "idle" /\ call[r].op = "login"
  /\ ~IsBlank(call[r].login) /\ ~IsBlank(call[r].password)
  /\ phase' = [phase EXCEPT ![r] = "by_login"]
  /\ known' = [known EXCEPT ![r] = \E u \in users : Matches(r, u)]
  /\ UNCHANGED <<dbVars, call, bearer, reply, tokens, now, outage>>

\* Fault: the login is looked up as it was typed.
UntrimmedRow(r) == {u \in users : ~call[r].login.spaces /\ u.login = call[r].login.word}

LoginRow(r) == {u \in users : u.login = TrimSpace(call[r].login).word}

GetByLogin(r) ==
  /\ phase[r] = "by_login"
  /\ \/ /\ \E u \in LoginRow(r) :
             /\ u.password = call[r].password
             /\ tokens' = tokens \cup {Generate(u)}
             /\ Reply(r, Answered(200, {}, {Generate(u)}))
     \/ /\ \A u \in LoginRow(r) : u.password # call[r].password
        /\ Fail(r, 401)
        /\ UNCHANGED tokens
  /\ UNCHANGED <<dbVars, call, bearer, now, historyVars>>

\* Every error of GetByLogin becomes "invalid credentials", a timeout too.
ReadFails(r) ==
  /\ phase[r] = "by_login"
  /\ Fail(r, 401)
  /\ outage' = [outage EXCEPT ![r] = TRUE]
  /\ UNCHANGED <<dbVars, call, bearer, tokens, now, known>>

-----------------------------------------------------------------------------
\* GET /api/auth/me, behind JWTMiddleware

\* The token is missing, malformed, expired or not signed with the secret.
RefuseMe(r) ==
  /\ phase[r] = "idle" /\ call[r].op = "me"
  /\ \/ call[r].header = "none"
     \/ call[r].header = "bearer" /\ \E t \in tokens \cup ForeignTokens : Verify(t) = {}
  /\ Fail(r, 401)
  /\ UNCHANGED <<dbVars, call, bearer, tokens, now, historyVars>>

StartMe(r) ==
  /\ phase[r] = "idle" /\ call[r].op = "me" /\ call[r].header = "bearer"
  /\ \E t \in tokens \cup ForeignTokens :
       /\ Verify(t) # {}
       /\ bearer' = [bearer EXCEPT ![r] = Verify(t)]
  /\ phase' = [phase EXCEPT ![r] = "by_id"]
  /\ UNCHANGED <<dbVars, call, reply, tokens, now, historyVars>>

GetByID(r) ==
  /\ phase[r] = "by_id"
  /\ LET row == {u \in users : \E c \in bearer[r] : c.user = u.id}
     IN  IF row = {} THEN Fail(r, StatusOf("not_found")) ELSE Reply(r, Answered(200, row, {}))
  /\ UNCHANGED <<dbVars, call, bearer, tokens, now, historyVars>>

GetByIDFails(r) ==
  /\ phase[r] = "by_id"
  /\ Fail(r, StatusOf("get user by id"))
  /\ outage' = [outage EXCEPT ![r] = TRUE]
  /\ UNCHANGED <<dbVars, call, bearer, tokens, now, known>>

-----------------------------------------------------------------------------

Tick ==
  /\ now < MaxTime
  /\ now' = now + 1
  /\ UNCHANGED <<dbVars, call, phase, bearer, reply, tokens, historyVars>>

Timeout(r) == WriteFails(r) \/ ReadFails(r) \/ GetByIDFails(r)

Handle(r) ==
  \/ RefuseRegister(r) \/ StartRegister(r) \/ Registered(r) \/ Exists(r)
  \/ RefuseLogin(r) \/ StartLogin(r) \/ GetByLogin(r)
  \/ RefuseMe(r) \/ StartMe(r) \/ GetByID(r)

Next == Tick \/ \E r \in Request : Backend(r) \/ Handle(r) \/ Timeout(r)

Spec == Init /\ [][Next]_vars

-----------------------------------------------------------------------------
(***************************************************************************)
(* Properties.                                                             *)
(***************************************************************************)

TypeOK ==
  /\ users \subseteq User /\ nextId \in Nat
  /\ pending \in [Request -> SUBSET User]
  /\ statement \in [Request -> {"none", "sent", "inserted", "committed", "duplicate", "aborted"}]
  /\ call \in [Request -> Calls]
  /\ phase \in [Request -> {"idle", "create", "by_login", "by_id", "done"}]
  /\ \A r \in Request : statement[r] # "none" => call[r].op = "register" /\ phase[r] # "idle"
  /\ \A r \in Request : reply[r].status # 0 <=> phase[r] = "done"
  /\ now \in 0 .. MaxTime
  /\ known \in [Request -> BOOLEAN] /\ outage \in [Request -> BOOLEAN]

\* However registrations of the same login race, one account comes of them: no
\* two rows, committed or about to be, share a login or an id.
OneAccountPerLogin ==
  \A u, v \in users \cup UNION {pending[r] : r \in Request} :
    u.login = v.login \/ u.id = v.id => u = v

\* The answers of PostAuthRegister are the truth: 200 shows a stored row, to one
\* request only; 409 is sent only when somebody else's row holds the login.
AnswersTruthful ==
  \A r \in Request : call[r].op = "register" =>
    /\ \A u \in reply[r].user :
         u \in users /\ \A q \in Request : call[q].op = "register" /\ u \in reply[q].user => q = r
    /\ reply[r].status = 409 =>
         statement[r] # "committed" /\ \E u \in users : u.login = NewUser(r, 0).login

\* A token in circulation names an account as it is stored now: neither the
\* login nor the role it carries for its lifetime has gone stale.
TokenTruthful ==
  \A t \in tokens : \E u \in users :
    Verify(t) \subseteq {[user |-> u.id, login |-> u.login, role |-> u.role]}

\* Who was told that the account exists, or found it there, is let in: a login
\* with stored credentials is refused only when the database has failed.
StoredCredentialsEnter ==
  \A r \in Request : known[r] /\ reply[r].status = 401 => outage[r]

\* The two services read the same identity from a token: booking recognises
\* every live token of auth, and nobody whom auth would not recognise as well.
ServicesAgree ==
  /\ \A t \in tokens : now < t.exp => Identity(t) # {} /\ Identity(t) = Verify(t)
  /\ \A t \in ForeignTokens : Identity(t) \subseteq Verify(t) /\ \A c \in Identity(t) : IsKnown(c.role)

\* The registration behaves as the repository of the tests, under its mutex.
Promise == INSTANCE Accounts WITH
  verdict <- [r \in Request |-> CASE statement[r] = "committed" -> "created"
                                  [] statement[r] = "duplicate" -> "exists"
                                  [] OTHER -> "none"]

\* Every step of a backend is a step of the map under the mutex, or none.
ImplementsAccounts == Promise!Spec

=============================================================================
