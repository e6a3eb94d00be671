-------------------------- MODULE AuthServiceProofs --------------------------
(***************************************************************************)
(* Proofs about AuthService, for any number of requests, calls, tokens and *)
(* ticks.                                                                  *)
(*                                                                         *)
(* DbInv is what the unique index and the sequence make of the table: rows *)
(* in progress are rows of one insertion each, and of two insertions under *)
(* one login one at most is written.  It carries the refinement of the     *)
(* repository of the tests (Accounts), whose Create is one step under a    *)
(* mutex: the step is the commit.                                          *)
(***************************************************************************)
EXTENDS AuthService, TLAPS

LoginOf(r) == TrimSpace(call[r].login).word

\* Rows, written and committed.
RowInv ==
  /\ users \subseteq User /\ pending \in [Request -> SUBSET User]
  /\ nextId \in Nat
  /\ \A u \in users : u.id < nextId
  /\ \A r \in Request : \A u \in pending[r] : u.id < nextId

\* Insertions are those of valid registrations.
CallInv ==
  /\ call \in [Request -> Calls]
  /\ statement \in [Request -> {"none", "sent", "inserted", "committed", "duplicate", "aborted"}]
  /\ phase \in [Request -> {"idle", "create", "by_login", "by_id", "done"}]
  /\ \A r \in Request : statement[r] # "none" =>
       call[r].op = "register" /\ IsValidRole(call[r].role) /\ phase[r] # "idle"

\* A row in progress is the one of its request, and not yet in the table.
PendingInv ==
  /\ \A r \in Request : statement[r] = "inserted" => \E k \in Nat : pending[r] = {NewUser(r, k)}
  /\ \A r \in Request : statement[r] # "inserted" => pending[r] = {}
  /\ \A r \in Request : pending[r] \cap users = {}

\* What a statement has ended with is shown by the table, and one insertion
\* under a login at most has gone further than the index.
HeldInv ==
  /\ \A r \in Request : statement[r] \in {"committed", "duplicate"} =>
       \E u \in users : u.login = LoginOf(r)
  /\ \A q, r \in Request :
       /\ statement[q] \in {"inserted", "committed"} /\ statement[r] \in {"inserted", "committed"}
       /\ LoginOf(q) = LoginOf(r)
       => q = r

InsertInv == CallInv /\ PendingInv /\ HeldInv

DbInv == RowInv /\ InsertInv /\ OneAccountPerLogin

\* All that a step may do to the table and its insertions.
DbStep ==
  /\ UNCHANGED call
  /\ phase' \in [Request -> {"idle", "create", "by_login", "by_id", "done"}]
  /\ \A r \in Request : phase[r] # "idle" => phase'[r] # "idle"
  /\ \/ UNCHANGED dbVars
     \/ \E r \in Request : \/ Backend(r)
                           \/ StartRegister(r)

-----------------------------------------------------------------------------

LEMMA NewUserFields ==
  ASSUME NEW r \in Request, NEW k
  PROVE  NewUser(r, k).id = k /\ NewUser(r, k).login = LoginOf(r)
BY DEF NewUser, LoginOf

LEMMA NewUserTyped ==
  ASSUME call \in [Request -> Calls], NEW r \in Request, NEW k \in Nat,
         call[r].op = "register", IsValidRole(call[r].role)
  PROVE  NewUser(r, k) \in User
BY DEF NewUser, User, IsValidRole, TrimSpace

LEMMA SameCallSameUser ==
  ASSUME UNCHANGED call
  PROVE  /\ \A r \in Request : LoginOf(r)' = LoginOf(r)
         /\ \A r \in Request, k \in Nat : NewUser(r, k)' = NewUser(r, k)
BY DEF LoginOf, NewUser, TrimSpace

\* Every step of the service is one of these to the table.
LEMMA StepIsDbStep ==
  ASSUME CallInv, [Next]_vars
  PROVE  DbStep
<1>. USE DEF CallInv
<1>1. CASE UNCHANGED vars
  BY <1>1 DEF vars, DbStep
<1>2. CASE Tick
  BY <1>2 DEF Tick, DbStep
<1>3. ASSUME NEW r \in Request, Backend(r)
      PROVE  DbStep
  BY <1>3 DEF DbStep, Backend, Insert, Duplicate, CommitRow, AbortRow
<1>4. ASSUME NEW r \in Request, Handle(r)
      PROVE  DbStep
  BY <1>4 DEF DbStep, Handle, RefuseRegister, StartRegister, Registered, Exists, RefuseLogin, StartLogin,
              GetByLogin, RefuseMe, StartMe, GetByID, Fail, Reply
<1>5. ASSUME NEW r \in Request, Timeout(r)
      PROVE  DbStep
  BY <1>5 DEF DbStep, Timeout, WriteFails, ReadFails, GetByIDFails, Fail, Reply
<1>. QED  BY <1>1, <1>2, <1>3, <1>4, <1>5 DEF Next

\* Nothing changes for the table if neither it nor the calls change.
LEMMA DbUnchanged ==
  ASSUME DbInv, UNCHANGED dbVars, DbStep
  PROVE  DbInv'
<1>1. /\ users' = users /\ nextId' = nextId /\ pending' = pending /\ statement' = statement
      /\ call' = call
  BY DEF dbVars, DbStep
<1>2. RowInv' /\ OneAccountPerLogin'
  BY <1>1 DEF DbInv, RowInv, OneAccountPerLogin, User
<1>3. CallInv' /\ PendingInv' /\ HeldInv'
  BY <1>1, SameCallSameUser DEF DbInv, InsertInv, CallInv, PendingInv, HeldInv, IsValidRole, DbStep
<1>. QED  BY <1>2, <1>3 DEF DbInv, InsertInv

\* An insertion is sent.
LEMMA SendKeeps ==
  ASSUME DbInv, NEW r \in Request, StartRegister(r)
  PROVE  DbInv'
<1>1. /\ users' = users /\ nextId' = nextId /\ pending' = pending /\ call' = call
      /\ statement' = [statement EXCEPT ![r] = "sent"]
      /\ call[r].op = "register" /\ IsValidRole(call[r].role)
      /\ phase[r] = "idle" /\ phase' = [phase EXCEPT ![r] = "create"]
  BY DEF StartRegister
<1>2. RowInv' /\ OneAccountPerLogin'
  BY <1>1 DEF DbInv, RowInv, OneAccountPerLogin, User
<1>3. CallInv' /\ PendingInv' /\ HeldInv'
  BY <1>1, SameCallSameUser DEF DbInv, InsertInv, CallInv, PendingInv, HeldInv, IsValidRole
<1>. QED  BY <1>2, <1>3 DEF DbInv, InsertInv

\* The row is written: no row has its login, and none its id.
LEMMA InsertKeeps ==
  ASSUME DbInv, NEW r \in Request, Insert(r)
  PROVE  DbInv'
<1>. DEFINE new == NewUser(r, nextId)
<1>1. /\ users' = users /\ nextId' = nextId + 1 /\ call' = call /\ phase' = phase
      /\ pending' = [pending EXCEPT ![r] = {new}]
      /\ statement[r] = "sent" /\ statement' = [statement EXCEPT ![r] = "inserted"]
      /\ ~Taken(new.login)
  BY DEF Insert
<1>2. new \in User /\ new.id = nextId /\ new.login = LoginOf(r) /\ nextId \in Nat
  BY <1>1, NewUserTyped, NewUserFields DEF DbInv, RowInv, InsertInv, CallInv
<1>3. RowInv'
  <2>1. \A u \in User : u.id \in Nat
    BY DEF User
  <2>2. pending' \in [Request -> SUBSET User] /\ users' \subseteq User /\ nextId' \in Nat
    BY <1>1, <1>2 DEF DbInv, RowInv
  <2>3. \A u \in users' : u.id < nextId'
    BY <1>1, <1>2, <2>1 DEF DbInv, RowInv
  <2>4. \A q \in Request : \A u \in pending'[q] : u.id < nextId'
    BY <1>1, <1>2, <2>1 DEF DbInv, RowInv
  <2>5. User' = User
    BY DEF User
  <2>. QED  BY <2>2, <2>3, <2>4, <2>5 DEF RowInv
<1>4. OneAccountPerLogin'
  <2>1. \A u \in users \cup UNION {pending[q] : q \in Request} : u.id # new.id /\ u.login # new.login
    BY <1>1, <1>2 DEF DbInv, RowInv, Taken, User
  <2>2. users' \cup UNION {pending'[q] : q \in Request}
          \subseteq users \cup {new} \cup UNION {pending[q] : q \in Request}
    BY <1>1 DEF DbInv, RowInv
  <2>. HIDE DEF new
  <2>. QED  BY <2>1, <2>2 DEF DbInv, OneAccountPerLogin
<1>5. CallInv'
  BY <1>1 DEF DbInv, InsertInv, CallInv, IsValidRole
<1>6. PendingInv'
  <2>1. new \notin users
    BY <1>2 DEF DbInv, RowInv, User
  <2>2. NewUser(r, nextId)' = NewUser(r, nextId + 1)
    BY <1>1 DEF NewUser, TrimSpace
  <2>3. \E k \in Nat : pending'[r] = {NewUser(r, k)'}
    BY <1>1, <1>2, SameCallSameUser DEF DbInv, RowInv
  <2>. QED  BY <1>1, <2>1, <2>3, SameCallSameUser DEF DbInv, RowInv, InsertInv, CallInv, PendingInv
<1>7. HeldInv'
  <2>1. ASSUME NEW q \in Request, statement[q] \in {"inserted", "committed"}
        PROVE  LoginOf(q) # LoginOf(r)
    <3>1. CASE statement[q] = "committed"
      BY <1>1, <1>2, <3>1 DEF DbInv, InsertInv, HeldInv, Taken
    <3>2. CASE statement[q] = "inserted"
      <4>1. PICK k \in Nat : pending[q] = {NewUser(q, k)}
        BY <3>2 DEF DbInv, InsertInv, PendingInv
      <4>2. NewUser(q, k) \in UNION {pending[p] : p \in Request}
        BY <4>1
      <4>. QED  BY <1>1, <1>2, <4>2, NewUserFields DEF Taken
    <3>. QED  BY <2>1, <3>1, <3>2
  <2>. QED  BY <1>1, <2>1, SameCallSameUser DEF DbInv, InsertInv, CallInv, HeldInv
<1>. QED  BY <1>3, <1>4, <1>5, <1>6, <1>7 DEF DbInv, InsertInv

\* An entry of the index has been met: a number is gone, and no row.
LEMMA DuplicateKeeps ==
  ASSUME DbInv, NEW r \in Request, Duplicate(r)
  PROVE  DbInv'
<1>1. /\ users' = users /\ nextId' = nextId + 1 /\ call' = call /\ pending' = pending
      /\ phase' = phase /\ statement[r] = "sent" /\ statement' = [statement EXCEPT ![r] = "duplicate"]
      /\ \E u \in users : u.login = LoginOf(r)
  BY NewUserFields DEF Duplicate
<1>2. RowInv' /\ OneAccountPerLogin'
  BY <1>1 DEF DbInv, RowInv, OneAccountPerLogin, User
<1>3. CallInv' /\ PendingInv' /\ HeldInv'
  BY <1>1, SameCallSameUser DEF DbInv, InsertInv, CallInv, PendingInv, HeldInv, IsValidRole
<1>. QED  BY <1>2, <1>3 DEF DbInv, InsertInv

\* The row moves from its transaction into the table.
LEMMA CommitKeeps ==
  ASSUME DbInv, NEW r \in Request, CommitRow(r)
  PROVE  DbInv'
<1>1. /\ users' = users \cup pending[r] /\ nextId' = nextId /\ call' = call /\ phase' = phase
      /\ pending' = [pending EXCEPT ![r] = {}]
      /\ statement[r] = "inserted" /\ statement' = [statement EXCEPT ![r] = "committed"]
  BY DEF CommitRow
<1>2. PICK k \in Nat : pending[r] = {NewUser(r, k)}
  BY <1>1 DEF DbInv, InsertInv, PendingInv
<1>3. RowInv'
  BY <1>1 DEF DbInv, RowInv, User
<1>4. OneAccountPerLogin'
  <2>1. users' \cup UNION {pending'[q] : q \in Request}
          \subseteq users \cup UNION {pending[q] : q \in Request}
    BY <1>1 DEF DbInv, RowInv
  <2>. QED  BY <2>1 DEF DbInv, OneAccountPerLogin
<1>5. CallInv'
  BY <1>1 DEF DbInv, InsertInv, CallInv, IsValidRole
<1>6. PendingInv'
  <2>1. ASSUME NEW q \in Request \ {r}
        PROVE  pending[q] \cap pending[r] = {}
    <3>1. CASE statement[q] = "inserted"
      <4>1. PICK j \in Nat : pending[q] = {NewUser(q, j)}
        BY <3>1 DEF DbInv, InsertInv, PendingInv
      <4>2. LoginOf(q) # LoginOf(r)
        BY <1>1, <3>1 DEF DbInv, InsertInv, HeldInv
      <4>. QED  BY <1>2, <4>1, <4>2, NewUserFields
    <3>2. CASE statement[q] # "inserted"
      BY <3>2 DEF DbInv, InsertInv, PendingInv
    <3>. QED  BY <3>1, <3>2
  <2>. QED  BY <1>1, <2>1, SameCallSameUser DEF DbInv, RowInv, InsertInv, CallInv, PendingInv
<1>7. HeldInv'
  <2>1. \E u \in users' : u.login = LoginOf(r)
    BY <1>1, <1>2, NewUserFields
  <2>. QED  BY <1>1, <2>1, SameCallSameUser DEF DbInv, InsertInv, CallInv, HeldInv
<1>. QED  BY <1>3, <1>4, <1>5, <1>6, <1>7 DEF DbInv, InsertInv

\* The row goes with its transaction.
LEMMA AbortKeeps ==
  ASSUME DbInv, NEW r \in Request, AbortRow(r)
  PROVE  DbInv'
<1>1. /\ users' = users /\ nextId' = nextId /\ call' = call /\ phase' = phase
      /\ pending' = [pending EXCEPT ![r] = {}]
      /\ statement[r] # "none" /\ statement' = [statement EXCEPT ![r] = "aborted"]
  BY DEF AbortRow
<1>2. RowInv'
  BY <1>1 DEF DbInv, RowInv, User
<1>3. OneAccountPerLogin'
  <2>1. users' \cup UNION {pending'[q] : q \in Request}
          \subseteq users \cup UNION {pending[q] : q \in Request}
    BY <1>1 DEF DbInv, RowInv
  <2>. QED  BY <2>1 DEF DbInv, OneAccountPerLogin
<1>4. CallInv' /\ PendingInv' /\ HeldInv'
  BY <1>1, SameCallSameUser DEF DbInv, RowInv, InsertInv, CallInv, PendingInv, HeldInv, IsValidRole
<1>. QED  BY <1>2, <1>3, <1>4 DEF DbInv, InsertInv

LEMMA DbInit == Init => DbInv
BY DEF Init, DbInv, RowInv, InsertInv, CallInv, PendingInv, HeldInv, OneAccountPerLogin

LEMMA DbStepKeeps ==
  ASSUME DbInv, DbStep
  PROVE  DbInv'
<1>1. CASE UNCHANGED dbVars
  BY <1>1, DbUnchanged
<1>2. ASSUME NEW r \in Request, Backend(r) \/ StartRegister(r)
      PROVE  DbInv'
  BY <1>2, SendKeeps, InsertKeeps, DuplicateKeeps, CommitKeeps, AbortKeeps DEF Backend
<1>. QED  BY <1>1, <1>2 DEF DbStep

LEMMA DbInvariant == Spec => []DbInv
<1>1. DbInv /\ [Next]_vars => DbInv'
  BY StepIsDbStep, DbStepKeeps DEF DbInv, InsertInv
<1>. QED  BY DbInit, <1>1, PTL DEF Spec

-----------------------------------------------------------------------------
(***************************************************************************)
(* The registrations implement the repository of the tests.                *)
(***************************************************************************)

Verdict(s) == CASE s = "committed" -> "created" [] s = "duplicate" -> "exists" [] OTHER -> "none"

verdicts == [r \in Request |-> Verdict(statement[r])]

\* A statement that does not end this way is no step of the promise.
LEMMA VerdictsKept ==
  ASSUME statement' = statement
  PROVE  verdicts' = verdicts
BY DEF verdicts

LEMMA VerdictsMove ==
  ASSUME CallInv, NEW r \in Request, NEW s, statement' = [statement EXCEPT ![r] = s]
  PROVE  verdicts' = [verdicts EXCEPT ![r] = Verdict(s)]
<1>1. \A q \in Request : verdicts'[q] = [verdicts EXCEPT ![r] = Verdict(s)][q]
  BY DEF verdicts, CallInv
<1>. QED  BY <1>1 DEF verdicts

\* The commit of a row is Create; a duplicate found is Refuse.
LEMMA StepOfPromise ==
  ASSUME DbInv, DbInv', DbStep
  PROVE  \/ users' = users /\ verdicts' = verdicts
         \/ \E r \in Request : Promise!Create(r)
         \/ \E r \in Request : Promise!Refuse(r)
<1>1. CASE UNCHANGED dbVars
  BY <1>1, VerdictsKept DEF dbVars
<1>2. ASSUME NEW r \in Request, StartRegister(r) \/ Insert(r) \/ AbortRow(r)
      PROVE  users' = users /\ verdicts' = verdicts
  <2>1. users' = users /\ \E s \in {"sent", "inserted", "aborted"} :
          statement' = [statement EXCEPT ![r] = s]
    BY <1>2 DEF StartRegister, Insert, AbortRow
  <2>2. Verdict(statement[r]) = "none"
    <3>1. CASE StartRegister(r)
      BY <3>1 DEF StartRegister, DbInv, InsertInv, CallInv, Verdict
    <3>2. CASE Insert(r) \/ AbortRow(r)
      BY <3>2 DEF Insert, AbortRow, Verdict
    <3>. QED  BY <1>2, <3>1, <3>2
  <2>3. \A s \in {"sent", "inserted", "aborted"} : Verdict(s) = "none"
    BY DEF Verdict
  <2>4. verdicts' = [verdicts EXCEPT ![r] = "none"]
    <3>1. PICK s \in {"sent", "inserted", "aborted"} : statement' = [statement EXCEPT ![r] = s]
      BY <2>1
    <3>2. verdicts' = [verdicts EXCEPT ![r] = Verdict(s)]
      BY <3>1, VerdictsMove DEF DbInv, InsertInv
    <3>. QED  BY <2>3, <3>2
  <2>. QED  BY <2>1, <2>2, <2>4 DEF verdicts
<1>3. ASSUME NEW r \in Request, Duplicate(r)
      PROVE  Promise!Refuse(r)
  <2>1. /\ users' = users /\ call' = call /\ call[r].op = "register"
        /\ statement[r] = "sent" /\ statement' = [statement EXCEPT ![r] = "duplicate"]
        /\ \E u \in users : u.login = LoginOf(r)
    BY <1>3, NewUserFields DEF Duplicate, DbInv, InsertInv, CallInv
  <2>2. verdicts' = [verdicts EXCEPT ![r] = "exists"] /\ verdicts[r] = "none"
    BY <2>1, VerdictsMove DEF DbInv, InsertInv, Verdict, verdicts
  <2>3. Promise!Decide(r, "exists")
    BY <2>1, <2>2 DEF Promise!Decide, verdicts, Verdict
  <2>. QED  BY <2>1, <2>3 DEF Promise!Refuse, Promise!Named, LoginOf, TrimSpace
<1>4. ASSUME NEW r \in Request, CommitRow(r)
      PROVE  Promise!Create(r)
  <2>1. /\ users' = users \cup pending[r] /\ call' = call
        /\ statement[r] = "inserted" /\ statement' = [statement EXCEPT ![r] = "committed"]
    BY <1>4 DEF CommitRow, DbInv, InsertInv, CallInv
  <2>2. call[r].op = "register"
    BY <2>1 DEF DbInv, InsertInv, CallInv
  <2>3. PICK k \in Nat : pending[r] = {NewUser(r, k)}
    BY <2>1 DEF DbInv, InsertInv, PendingInv
  <2>. DEFINE u == NewUser(r, k)
  <2>4. /\ u.login = call[r].login.word /\ u.password = call[r].password /\ u.role = call[r].role
    BY DEF NewUser, TrimSpace
  <2>5. u \in pending[r] /\ u \notin users /\ u \in UNION {pending[q] : q \in Request}
    BY <2>3 DEF DbInv, InsertInv, PendingInv
  <2>6. \A v \in users : v.id # u.id /\ v.login # u.login
    BY <2>5 DEF DbInv, OneAccountPerLogin
  <2>7. verdicts' = [verdicts EXCEPT ![r] = "created"] /\ verdicts[r] = "none"
    BY <2>1, VerdictsMove DEF DbInv, InsertInv, Verdict, verdicts
  <2>8. Promise!Decide(r, "created")
    BY <2>1, <2>2, <2>7 DEF Promise!Decide, verdicts, Verdict
  <2>9. users' = users \cup {u} /\ u \in users' \ users
    BY <2>1, <2>3, <2>5
  <2>. HIDE DEF u
  <2>. QED  BY <2>4, <2>6, <2>8, <2>9 DEF Promise!Create, Promise!Named
<1>. QED  BY <1>1, <1>2, <1>3, <1>4 DEF DbStep, Backend

\* in_memory_user_repo.go, the repository of the tests: registrations against
\* PostgreSQL look like calls of its Create, one at a time.
THEOREM RegistrationsImplement == Spec => ImplementsAccounts
<1>1. Init => Promise!Init
  BY DEF Init, Promise!Init
<1>2. DbInv /\ DbInv' /\ [Next]_vars => [Promise!Next]_Promise!accountVars
  <2>. SUFFICES ASSUME DbInv, DbInv', [Next]_vars
                PROVE  [Promise!Next]_Promise!accountVars
    OBVIOUS
  <2>1. DbStep
    BY StepIsDbStep DEF DbInv, InsertInv
  <2>2. call' = call
    BY <2>1 DEF DbStep
  <2>3. ASSUME users' = users, verdicts' = verdicts
        PROVE  UNCHANGED Promise!accountVars
    BY <2>2, <2>3 DEF Promise!accountVars, verdicts, Verdict
  <2>. QED  BY <2>1, <2>3, StepOfPromise DEF Promise!Next
<1>. QED  BY DbInvariant, <1>1, <1>2, PTL DEF Spec, ImplementsAccounts, Promise!Spec

-----------------------------------------------------------------------------
\* What requests are told.

Token ==
  [alg : {"HS256"}, sub : SUBSET Nat, user_id : SUBSET Nat,
   login : {u.login : u \in User}, role : KnownRole, exp : Nat]

\* A token has been made from a row, which is there for good.
TokenInv ==
  /\ now \in 0 .. MaxTime
  /\ tokens \subseteq Token
  /\ \A t \in tokens : \E u \in users : t.sub = {u.id} /\ t.login = u.login /\ t.role = u.role

\* An answer shows what the statement of its own request has done.
ReplyInv ==
  /\ reply \in [Request -> [status : Nat, user : SUBSET User, token : SUBSET Token]]
  /\ \A r \in Request : phase[r] # "done" => reply[r].status = 0 /\ reply[r].user = {}
  /\ \A r \in Request : phase[r] = "done" => reply[r].status # 0
  /\ \A r \in Request : phase[r] \in {"by_login", "by_id"} => call[r].op # "register"
  /\ \A r \in Request : call[r].op = "register" =>
       /\ \A u \in reply[r].user : u \in users /\ u.login = LoginOf(r) /\ statement[r] = "committed"
       /\ reply[r].status = 409 => statement[r] = "duplicate"

\* Credentials that were there when the login began are there still.
KnownInv ==
  /\ known \in [Request -> BOOLEAN] /\ outage \in [Request -> BOOLEAN]
  /\ \A r \in Request : known[r] =>
       /\ call[r].op = "login" /\ phase[r] \in {"by_login", "done"}
       /\ \E u \in users : Matches(r, u)
       /\ reply[r].status = 401 => outage[r]

AuthInv == DbInv /\ TokenInv /\ ReplyInv /\ KnownInv

LEMMA AuthInit == Init => AuthInv
<1>1. Init => TokenInv /\ ReplyInv
  BY AuthAssumption DEF Init, TokenInv, ReplyInv, NoReply, Answered
<1>2. Init => KnownInv
  BY DEF Init, KnownInv
<1>. QED  BY <1>1, <1>2, DbInit DEF AuthInv

\* Rows stay: the table only grows.
LEMMA UsersGrow ==
  ASSUME [Next]_vars
  PROVE  users \subseteq users'
<1>1. CASE UNCHANGED vars
  BY <1>1 DEF vars, dbVars
<1>2. ASSUME NEW r \in Request, Backend(r) \/ Handle(r) \/ Timeout(r)
      PROVE  users \subseteq users'
  BY <1>2 DEF Backend, Insert, Duplicate, CommitRow, AbortRow, dbVars, Handle, Timeout, RefuseRegister,
              StartRegister, Registered, Exists, RefuseLogin, StartLogin, GetByLogin, RefuseMe, StartMe,
              GetByID, WriteFails, ReadFails, GetByIDFails
<1>3. CASE Tick
  BY <1>3 DEF Tick, dbVars
<1>. QED  BY <1>1, <1>2, <1>3 DEF Next

\* Tokens are made of rows, by logins only.
LEMMA TokensKept ==
  ASSUME DbInv, TokenInv, [Next]_vars
  PROVE  TokenInv'
<1>1. Token' = Token
  BY DEF Token, User
<1>2. CASE UNCHANGED <<tokens, now>>
  BY <1>1, <1>2, UsersGrow DEF TokenInv
<1>3. CASE Tick
  <2>1. now' \in 0 .. MaxTime
    BY <1>3, AuthAssumption DEF Tick, TokenInv
  <2>2. tokens' = tokens
    BY <1>3 DEF Tick
  <2>. QED  BY <1>1, <2>1, <2>2, UsersGrow DEF TokenInv
<1>4. ASSUME NEW r \in Request, NEW u \in users,
             tokens' = tokens \cup {Generate(u)}, now' = now
      PROVE  TokenInv'
  <2>1. Generate(u) \in Token
    <3>1. now + TokenLife \in Nat
      BY AuthAssumption DEF TokenInv
    <3>2. u \in User
      BY DEF DbInv, RowInv
    <3>3. u.id \in Nat /\ u.role \in KnownRole
      BY <3>2 DEF User
    <3>. QED  BY <3>1, <3>2, <3>3 DEF Generate, Token
  <2>2. /\ Generate(u).sub = {u.id} /\ Generate(u).login = u.login
        /\ Generate(u).role = u.role
    BY DEF Generate
  <2>. HIDE DEF Generate
  <2>. QED  BY <1>1, <1>4, <2>1, <2>2, UsersGrow DEF TokenInv
<1>5. CASE UNCHANGED vars
  BY <1>2, <1>5 DEF vars
<1>6. ASSUME NEW r \in Request, Backend(r) \/ Handle(r) \/ Timeout(r)
      PROVE  TokenInv'
  <2>1. CASE GetByLogin(r)
    BY <1>2, <1>4, <2>1 DEF GetByLogin, LoginRow
  <2>2. CASE ~GetByLogin(r)
    BY <1>2, <1>6, <2>2 DEF Backend, Insert, Duplicate, CommitRow, AbortRow, Handle, Timeout, RefuseRegister,
              StartRegister, Registered, Exists, RefuseLogin, StartLogin, RefuseMe, StartMe,
              GetByID, WriteFails, ReadFails, GetByIDFails
  <2>. QED  BY <2>1, <2>2
<1>. QED  BY <1>3, <1>5, <1>6 DEF Next

\* What an answer rests on stays: rows, finished statements, the call.
LEMMA AnswersStay ==
  ASSUME DbInv, ReplyInv, UNCHANGED call, users \subseteq users', reply' = reply, phase' = phase,
         \A r \in Request : statement[r] \in {"committed", "duplicate"} => statement'[r] = statement[r]
  PROVE  ReplyInv'
BY SameCallSameUser DEF DbInv, ReplyInv, InsertInv, CallInv, User, Token

\* A request is answered once; nobody else's answer changes.
LEMMA AnswerGiven ==
  ASSUME DbInv, ReplyInv, NEW r \in Request, NEW status \in Nat \ {0}, NEW user \in SUBSET users,
         NEW token \in SUBSET Token, Reply(r, Answered(status, user, token)),
         UNCHANGED dbVars, UNCHANGED call,
         call[r].op = "register" =>
           /\ status = 409 => statement[r] = "duplicate"
           /\ \A u \in user : u.login = LoginOf(r) /\ statement[r] = "committed"
  PROVE  ReplyInv'
<1>1. /\ users' = users /\ statement' = statement /\ call' = call
      /\ phase' = [phase EXCEPT ![r] = "done"]
      /\ reply' = [reply EXCEPT ![r] = Answered(status, user, token)]
  BY DEF dbVars, Reply
<1>2. Answered(status, user, token) \in [status : Nat, user : SUBSET User, token : SUBSET Token]
  BY DEF Answered, DbInv, RowInv
<1>3. Answered(status, user, token).status = status /\ Answered(status, user, token).user = user
  BY DEF Answered
<1>. HIDE DEF Answered
<1>4. reply' \in [Request -> [status : Nat, user : SUBSET User, token : SUBSET Token]]
  BY <1>1, <1>2 DEF ReplyInv
<1>5. User' = User /\ Token' = Token
  BY DEF User, Token
<1>. QED  BY <1>1, <1>3, <1>4, <1>5, SameCallSameUser DEF DbInv, InsertInv, CallInv, ReplyInv

\* 200 and 409 are given for what the statement has done.
LEMMA RepliesKept ==
  ASSUME DbInv, TokenInv, ReplyInv, [Next]_vars
  PROVE  ReplyInv'
<1>1. CASE UNCHANGED vars \/ Tick
  BY <1>1, AnswersStay DEF vars, dbVars, Tick
<1>2. ASSUME NEW r \in Request, Backend(r)
      PROVE  ReplyInv'
  <2>1. \A q \in Request : statement[q] \in {"committed", "duplicate"} => statement'[q] = statement[q]
    BY <1>2 DEF Backend, Insert, Duplicate, CommitRow, AbortRow, DbInv, InsertInv, CallInv
  <2>. QED  BY <1>2, <2>1, UsersGrow, AnswersStay
         DEF Backend, Insert, Duplicate, CommitRow, AbortRow, Next
<1>3. ASSUME NEW r \in Request, StartRegister(r) \/ StartLogin(r) \/ StartMe(r)
      PROVE  ReplyInv'
  <2>1. /\ users' = users /\ call' = call /\ reply' = reply /\ phase[r] = "idle"
        /\ phase' \in [Request -> {"idle", "create", "by_login", "by_id", "done"}]
        /\ \A q \in Request : phase'[q] = "done" <=> phase[q] = "done"
        /\ \A q \in Request : phase'[q] \in {"by_login", "by_id"} =>
             phase[q] \in {"by_login", "by_id"} \/ call[q].op # "register"
        /\ \A q \in Request \ {r} : statement'[q] = statement[q]
    BY <1>3 DEF StartRegister, StartLogin, StartMe, dbVars, DbInv, InsertInv, CallInv
  <2>2. reply[r].status = 0 /\ reply[r].user = {}
    BY <2>1 DEF ReplyInv
  <2>3. User' = User /\ Token' = Token
    BY DEF User, Token
  <2>. QED  BY <2>1, <2>2, <2>3, SameCallSameUser DEF ReplyInv
<1>4. ASSUME NEW r \in Request, RefuseRegister(r) \/ WriteFails(r) \/ RefuseLogin(r) \/ ReadFails(r)
                                \/ RefuseMe(r) \/ GetByIDFails(r)
      PROVE  ReplyInv'
  <2>1. PICK status \in {400, 401, 500} : Fail(r, status)
    BY <1>4 DEF RefuseRegister, WriteFails, RefuseLogin, ReadFails, RefuseMe, GetByIDFails, StatusOf
  <2>2. UNCHANGED dbVars /\ UNCHANGED call
    BY <1>4 DEF RefuseRegister, WriteFails, RefuseLogin, ReadFails, RefuseMe, GetByIDFails
  <2>. QED  BY <2>1, <2>2, AnswerGiven DEF Fail
<1>5. ASSUME NEW r \in Request, Registered(r)
      PROVE  ReplyInv'
  <2>1. PICK u \in users : u.login = NewUser(r, 0).login /\ Reply(r, Answered(200, {u}, {}))
    BY <1>5 DEF Registered
  <2>. QED  BY <1>5, <2>1, NewUserFields, AnswerGiven DEF Registered
<1>6. ASSUME NEW r \in Request, Exists(r)
      PROVE  ReplyInv'
  <2>1. Reply(r, Answered(409, {}, {})) /\ statement[r] = "duplicate"
    BY <1>6 DEF Exists, Fail, StatusOf
  <2>. QED  BY <1>6, <2>1, AnswerGiven DEF Exists
<1>7. ASSUME NEW r \in Request, GetByLogin(r)
      PROVE  ReplyInv'
  <2>1. call[r].op # "register" /\ UNCHANGED dbVars /\ UNCHANGED call
    BY <1>7 DEF GetByLogin, ReplyInv
  <2>2. CASE Fail(r, 401)
    BY <2>1, <2>2, AnswerGiven DEF Fail
  <2>3. ASSUME NEW u \in LoginRow(r), Reply(r, Answered(200, {}, {Generate(u)})),
               tokens' = tokens \cup {Generate(u)}
        PROVE  ReplyInv'
    <3>1. Generate(u) \in Token
      <4>1. Generate(u) \in tokens' /\ tokens' \subseteq Token'
        BY <2>3, TokensKept DEF TokenInv
      <4>. QED  BY <4>1 DEF Token, User
    <3>. QED  BY <2>1, <2>3, <3>1, AnswerGiven
  <2>. QED  BY <1>7, <2>2, <2>3 DEF GetByLogin
<1>8. ASSUME NEW r \in Request, GetByID(r)
      PROVE  ReplyInv'
  <2>. DEFINE row == {u \in users : \E c \in bearer[r] : c.user = u.id}
  <2>1. call[r].op # "register" /\ UNCHANGED dbVars /\ UNCHANGED call
    BY <1>8 DEF GetByID, ReplyInv
  <2>2. Reply(r, Answered(400, {}, {})) \/ Reply(r, Answered(200, row, {}))
    BY <1>8 DEF GetByID, Fail, StatusOf
  <2>3. row \in SUBSET users
    OBVIOUS
  <2>. HIDE DEF row
  <2>. QED  BY <2>1, <2>2, <2>3, AnswerGiven
<1>. QED  BY <1>1, <1>2, <1>3, <1>4, <1>5, <1>6, <1>7, <1>8 DEF Next, Handle, Timeout

LEMMA ReplyOnly ==
  ASSUME DbInv, ReplyInv, NEW r \in Request, NEW answer, Reply(r, answer)
  PROVE  /\ phase'[r] = "done" /\ reply'[r] = answer
         /\ \A q \in Request \ {r} : phase'[q] = phase[q] /\ reply'[q] = reply[q]
BY DEF Reply, ReplyInv, DbInv, InsertInv, CallInv

\* Nobody's credentials go away, and only a failed read refuses stored ones.
LEMMA KnownKept ==
  ASSUME DbInv, ReplyInv, KnownInv, [Next]_vars
  PROVE  KnownInv'
<1>1. ASSUME UNCHANGED call
      PROVE  \A r \in Request : \A u : Matches(r, u)' = Matches(r, u)
  BY <1>1 DEF Matches, TrimSpace
<1>2. call' = call /\ users \subseteq users'
  BY UsersGrow, StepIsDbStep DEF DbStep, DbInv, InsertInv
<1>3. ASSUME known' = known, outage' = outage, phase' = phase, reply' = reply
      PROVE  KnownInv'
  BY <1>1, <1>2, <1>3 DEF KnownInv
<1>4. CASE UNCHANGED vars \/ Tick \/ \E r \in Request : Backend(r)
  BY <1>3, <1>4 DEF vars, dbVars, historyVars, Tick, Backend, Insert, Duplicate, CommitRow, AbortRow
<1>5. ASSUME NEW r \in Request, known' = known, outage' \in [Request -> BOOLEAN], ~known[r],
             \A q \in Request \ {r} : phase'[q] = phase[q] /\ reply'[q] = reply[q] /\ outage'[q] = outage[q]
      PROVE  KnownInv'
  BY <1>1, <1>2, <1>5 DEF KnownInv
<1>7. ASSUME NEW r \in Request,
             \/ RefuseRegister(r) \/ StartRegister(r) \/ Registered(r) \/ Exists(r) \/ WriteFails(r)
             \/ RefuseLogin(r) \/ RefuseMe(r) \/ StartMe(r) \/ GetByID(r) \/ GetByIDFails(r)
      PROVE  KnownInv'
  <2>1. phase[r] \in {"idle", "create", "by_id"}
    BY <1>7 DEF RefuseRegister, StartRegister, Registered, Exists, WriteFails, RefuseLogin, RefuseMe,
                StartMe, GetByID, GetByIDFails
  <2>2. ~known[r]
    BY <2>1 DEF KnownInv
  <2>3. known' = known /\ (outage' = outage \/ outage' = [outage EXCEPT ![r] = TRUE])
    BY <1>7 DEF RefuseRegister, StartRegister, Registered, Exists, WriteFails, RefuseLogin, RefuseMe,
                StartMe, GetByID, GetByIDFails, historyVars
  <2>4. outage' \in [Request -> BOOLEAN] /\ \A q \in Request \ {r} : outage'[q] = outage[q]
    <3>1. CASE outage' = outage
      BY <3>1 DEF KnownInv
    <3>2. CASE outage' = [outage EXCEPT ![r] = TRUE]
      BY <3>2 DEF KnownInv
    <3>. QED  BY <2>3, <3>1, <3>2
  <2>5. \A q \in Request \ {r} : phase'[q] = phase[q] /\ reply'[q] = reply[q]
    <3>1. CASE StartRegister(r) \/ StartMe(r)
      BY <3>1 DEF StartRegister, StartMe, DbInv, InsertInv, CallInv
    <3>2. CASE ~(StartRegister(r) \/ StartMe(r))
      <4>1. \E answer : Reply(r, answer)
        BY <1>7, <3>2 DEF RefuseRegister, Registered, Exists, WriteFails, RefuseLogin, RefuseMe, GetByID,
                          GetByIDFails, Fail
      <4>. QED  BY <4>1, ReplyOnly
    <3>. QED  BY <3>1, <3>2
  <2>. QED  BY <1>5, <2>2, <2>3, <2>4, <2>5
<1>8. ASSUME NEW r \in Request, StartLogin(r)
      PROVE  KnownInv'
  <2>1. /\ known' = [known EXCEPT ![r] = \E u \in users : Matches(r, u)]
        /\ outage' = outage /\ reply' = reply /\ users' = users /\ call[r].op = "login"
        /\ phase[r] = "idle" /\ phase' = [phase EXCEPT ![r] = "by_login"]
    BY <1>8 DEF StartLogin, dbVars
  <2>2. reply[r].status = 0
    BY <2>1 DEF ReplyInv
  <2>3. known' \in [Request -> BOOLEAN] /\ (known'[r] <=> \E u \in users : Matches(r, u))
        /\ \A q \in Request \ {r} : known'[q] = known[q]
    BY <2>1, Zenon DEF KnownInv
  <2>4. phase'[r] = "by_login" /\ \A q \in Request \ {r} : phase'[q] = phase[q]
    BY <2>1 DEF DbInv, InsertInv, CallInv
  <2>. QED  BY <1>1, <1>2, <2>1, <2>2, <2>3, <2>4 DEF KnownInv
<1>9. ASSUME NEW r \in Request, ReadFails(r)
      PROVE  KnownInv'
  <2>1. /\ known' = known /\ outage' = [outage EXCEPT ![r] = TRUE]
        /\ phase[r] = "by_login" /\ phase' = [phase EXCEPT ![r] = "done"]
        /\ reply' = [reply EXCEPT ![r] = Answered(401, {}, {})]
    BY <1>9 DEF ReadFails, Fail, Reply
  <2>2. /\ outage' \in [Request -> BOOLEAN] /\ outage'[r]
        /\ \A q \in Request \ {r} : outage'[q] = outage[q]
    BY <2>1 DEF KnownInv
  <2>3. /\ phase'[r] = "done"
        /\ \A q \in Request \ {r} : phase'[q] = phase[q] /\ reply'[q] = reply[q]
    BY <2>1 DEF ReplyInv, DbInv, InsertInv, CallInv
  <2>. QED  BY <1>1, <1>2, <2>1, <2>2, <2>3 DEF KnownInv
<1>10. ASSUME NEW r \in Request, GetByLogin(r)
       PROVE  KnownInv'
  <2>1. /\ known' = known /\ outage' = outage
        /\ phase[r] = "by_login" /\ phase'[r] = "done"
        /\ \A q \in Request \ {r} : phase'[q] = phase[q] /\ reply'[q] = reply[q]
    <3>1. known' = known /\ outage' = outage /\ phase[r] = "by_login"
      BY <1>10 DEF GetByLogin, historyVars
    <3>2. \E answer : Reply(r, answer)
      BY <1>10 DEF GetByLogin, Fail
    <3>. QED  BY <3>1, <3>2, ReplyOnly
  <2>2. ASSUME known[r]
        PROVE  reply'[r].status = 200
    <3>1. PICK u \in users : Matches(r, u)
      BY <2>2 DEF KnownInv
    <3>2. u \in LoginRow(r) /\ u.password = call[r].password
      BY <3>1 DEF Matches, LoginRow
    <3>3. \E v \in LoginRow(r) : Reply(r, Answered(200, {}, {Generate(v)}))
      BY <1>10, <3>2 DEF GetByLogin
    <3>. QED  BY <3>3 DEF Reply, Answered, ReplyInv
  <2>. QED  BY <1>1, <1>2, <2>1, <2>2 DEF KnownInv
<1>. QED  BY <1>4, <1>7, <1>8, <1>9, <1>10 DEF Next, Handle, Timeout

LEMMA AuthInvariant == Spec => []AuthInv
<1>1. AuthInv /\ [Next]_vars => AuthInv'
  BY StepIsDbStep, DbStepKeeps, TokensKept, RepliesKept, KnownKept DEF AuthInv, DbInv, InsertInv
<1>. QED  BY AuthInit, <1>1, PTL DEF Spec

-----------------------------------------------------------------------------
(***************************************************************************)
(* The theorems.                                                           *)
(***************************************************************************)

\* Types: a statement is one of a registration that has begun, and a request
\* has an answer exactly when it is done.
THEOREM AuthTypeCorrect == Spec => []TypeOK
<1>1. AuthInv => TypeOK
  BY DEF AuthInv, DbInv, RowInv, InsertInv, CallInv, TokenInv, ReplyInv, KnownInv, TypeOK
<1>. QED  BY AuthInvariant, <1>1, PTL

\* user_repository.go: however many registrations race, no two rows, committed
\* or in progress, share a login or an id.
THEOREM AccountsUnique == Spec => []OneAccountPerLogin
BY DbInvariant, PTL DEF DbInv

\* auth_handler.go: whoever is told 200 has the account alone; whoever is told
\* 409 has none, and somebody holds the login.
THEOREM RegistrationsTruthful == Spec => []AnswersTruthful
<1>1. ASSUME AuthInv
      PROVE  AnswersTruthful
  <2>1. ASSUME NEW q \in Request, NEW r \in Request, NEW u \in reply[r].user, u \in reply[q].user,
               call[q].op = "register", call[r].op = "register"
        PROVE  u \in users /\ q = r
    BY <1>1, <2>1 DEF AuthInv, ReplyInv, DbInv, InsertInv, HeldInv
  <2>2. ASSUME NEW r \in Request, call[r].op = "register", reply[r].status = 409
        PROVE  statement[r] # "committed" /\ \E u \in users : u.login = NewUser(r, 0).login
    BY <1>1, <2>2, NewUserFields DEF AuthInv, ReplyInv, DbInv, InsertInv, HeldInv
  <2>. QED  BY <2>1, <2>2 DEF AnswersTruthful
<1>. QED  BY AuthInvariant, <1>1, PTL

\* jwt_manager.go: what a token says of its user is in the table, however long
\* the token has been in circulation.
THEOREM TokensTruthful == Spec => []TokenTruthful
<1>1. ASSUME TokenInv
      PROVE  TokenTruthful
  BY <1>1 DEF TokenInv, TokenTruthful, Verify, UserIDFromClaims
<1>. QED  BY AuthInvariant, <1>1, PTL DEF AuthInv

\* auth_service.go: stored credentials are refused only by a failed read.
THEOREM StoredEnter == Spec => []StoredCredentialsEnter
<1>1. KnownInv => StoredCredentialsEnter
  BY DEF KnownInv, StoredCredentialsEnter
<1>. QED  BY AuthInvariant, <1>1, PTL DEF AuthInv

\* jwt.go beside jwt_manager.go: the two services read the same identity from
\* every live token, and booking none that auth would not.
THEOREM TokensAgreed == Spec => []ServicesAgree
<1>1. ASSUME NEW role \in KnownRole
      PROVE  IsKnown(role)
  BY DEF IsKnown, Rank, KnownRole
<1>2. ASSUME TokenInv, NEW t \in tokens, now < t.exp
      PROVE  Identity(t) # {} /\ Identity(t) = Verify(t)
  <2>1. PICK u \in users : t.sub = {u.id}
    BY <1>2 DEF TokenInv
  <2>2. t.alg = "HS256" /\ t.role \in KnownRole
    BY <1>2 DEF TokenInv, Token
  <2>3. Identity(t) = {[user |-> i, login |-> t.login, role |-> t.role] : i \in t.sub}
    BY <1>1, <1>2, <2>2 DEF Identity
  <2>4. Verify(t) = {[user |-> i, login |-> t.login, role |-> t.role] : i \in t.sub}
    BY <1>2, <2>1, <2>2 DEF Verify, UserIDFromClaims
  <2>. QED  BY <2>1, <2>3, <2>4
<1>3. ASSUME NEW t
      PROVE  Identity(t) \subseteq Verify(t) /\ \A c \in Identity(t) : IsKnown(c.role)
  BY DEF Identity, Verify, UserIDFromClaims
<1>4. TokenInv => ServicesAgree
  BY <1>2, <1>3 DEF ServicesAgree
<1>. QED  BY AuthInvariant, <1>4, PTL DEF AuthInv

=============================================================================
