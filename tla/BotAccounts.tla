----------------------------- MODULE BotAccounts -----------------------------
(***************************************************************************)
(* Who is who in the bot (user_repository.go): a chat logs in to a         *)
(* student's or a teacher's account by writing itself into the account's   *)
(* row, in a transaction under READ COMMITTED.                             *)
(*                                                                         *)
(* An UPDATE chooses its rows from a snapshot and then takes them one at a *)
(* time, waiting for whoever has written them and looking at what that     *)
(* writer left.  The new value goes into the unique index of user_id last. *)
(* Nobody is whatever number an account without a chat carries.  The one   *)
(* that an account is given when its chat leaves it must be in users: the  *)
(* account itself stands for that row there.                               *)
(***************************************************************************)
EXTENDS Integers, Sequences, FiniteSets

CONSTANTS
  Request,   \* calls of the repository
  Chat,      \* Telegram chats
  Student, Teacher,  \* rows of the two tables; each has a login and a password
  Nobody,    \* the placeholder in place of a chat
  Calls      \* what a request may ask

Account == Student \cup Teacher

ASSUME AccountAssumption ==
  /\ Student \cap Teacher = {} /\ Nobody \notin Chat /\ Chat \cap Account = {}
  /\ \A c \in Calls : c.op \in {"login", "leave", "role"} /\ c.chat \in Chat
                      /\ c.account \in {{}} \cup {{a} : a \in Account}

ASSUME RequestAssumption == IsFiniteSet(Request)

VARIABLES
  holder,   \* user_id of every account, committed
  users,    \* chats, and placeholders of accounts, in table users, committed
  draft,    \* request -> {[account, chat]}: rows its transaction has written
  joining,  \* request -> what it has inserted into users
  indexed,  \* requests whose new user_id is in the index of its table
  keeping,  \* request -> placeholders the INSERT under way has chosen
  target,   \* request -> rows the UPDATE under way has still to take
  call, pc, \* request -> what it asks, and the statement it is at
  outcome,  \* request -> what it returned
  seen,     \* history: the roles its chat has had since the request began
  moved,    \* history: its chat became a student without being a guest
  overlapped  \* history: chats two of whose transactions were open at once

rowVars == <<holder, users, draft, joining, indexed, keeping, target>>
vars == <<rowVars, call, pc, outcome, seen, moved, overlapped>>

-----------------------------------------------------------------------------
\* The statements of a call, in order.

\* Fault: only the table of the account is cleared of the chat.
StepsOfOneTable(c) ==
  CASE c.op = "login" /\ c.account \subseteq Student ->
         <<"account", "user", "keep_student", "unbind_student", "bind", "index", "commit">>
    [] c.op = "login" /\ ~(c.account \subseteq Student) ->
         <<"account", "user", "keep_teacher", "unbind_teacher", "bind", "index", "commit">>
    [] c.op = "leave" -> <<"keep_student", "unbind_student", "keep_teacher", "unbind_teacher",
                           "commit">>
    [] OTHER          -> <<"students", "teachers">>

\* Fault: the role is looked for among the teachers first.
StepsTeachersFirst(c) ==
  CASE c.op = "login" -> <<"account", "user", "keep_teacher", "unbind_teacher", "keep_student",
                           "unbind_student", "bind", "index", "commit">>
    [] c.op = "leave" -> <<"keep_student", "unbind_student", "keep_teacher", "unbind_teacher",
                           "commit">>
    [] OTHER          -> <<"teachers", "students">>

\* Before an UPDATE that unbinds rows comes the INSERT of their placeholders.
Steps(c) ==
  CASE c.op = "login" -> <<"account", "user", "keep_teacher", "unbind_teacher", "keep_student",
                           "unbind_student", "bind", "index", "commit">>
    [] c.op = "leave" -> <<"keep_student", "unbind_student", "keep_teacher", "unbind_teacher",
                           "commit">>
    [] OTHER          -> <<"students", "teachers">>

At(r, step) == pc[r] \in DOMAIN Steps(call[r]) /\ Steps(call[r])[pc[r]] = step
Writing(r) == call[r].op # "role" /\ pc[r] \in DOMAIN Steps(call[r])
Table(step) == IF step \in {"keep_student", "unbind_student"} THEN Student ELSE Teacher

Advance(r) == pc' = [pc EXCEPT ![r] = @ + 1]
Return(r, result) ==
  /\ pc' = [pc EXCEPT ![r] = Len(Steps(call[r])) + 1]
  /\ outcome' = [outcome EXCEPT ![r] = result]

Init ==
  /\ holder \in [Account -> Chat \cup {Nobody}]
  /\ users \in SUBSET (Chat \cup Account) /\ Student \subseteq users
  /\ \A a, b \in Account : holder[a] \in Chat =>
       holder[a] \in users /\ (holder[a] = holder[b] => a = b)
  /\ draft = [r \in Request |-> {}] /\ joining = [r \in Request |-> {}]
  /\ keeping = [r \in Request |-> {}] /\ target = [r \in Request |-> {}] /\ indexed = {}
  /\ call \in [Request -> Calls] /\ pc = [r \in Request |-> 0]
  /\ outcome = [r \in Request |-> "none"]
  /\ seen = [r \in Request |-> {}] /\ moved = [r \in Request |-> FALSE] /\ overlapped = {}

-----------------------------------------------------------------------------
\* Rows as a transaction finds them.

Wrote(r, a) == \E d \in draft[r] : d.account = a
Written(r) == {a \in Account : Wrote(r, a)}
Seen(r, a) == IF Wrote(r, a) THEN (CHOOSE d \in draft[r] : d.account = a).chat ELSE holder[a]
WriteRow(r, a, chat) ==
  draft' = [draft EXCEPT ![r] = {d \in @ : d.account # a} \cup {[account |-> a, chat |-> chat]}]

\* Requests whose uncommitted work keeps r waiting.
RowTaken(r, a) == {q \in Request \ {r} : Wrote(q, a)}
Joining(r, id) == {q \in Request \ {r} : id \in joining[q]}

\* Entries for the chat in the unique index of the account's table: live rows
\* of others, and those a transaction in progress is adding or removing.
SameTable(a) == IF a \in Student THEN Student ELSE Teacher
Duplicates(r, a) == {b \in SameTable(a) \ ({a} \cup Written(r)) : holder[b] = call[r].chat}
Disputed(r, a) ==
  {q \in Request \ {r} : \E b \in SameTable(a) \ {a} :
     /\ Wrote(q, b)
     /\ holder[b] = call[r].chat \/ (q \in indexed /\ Seen(q, b) = call[r].chat)}

WaitsFor(r) ==
  CASE At(r, "user")   -> Joining(r, call[r].chat)
    [] keeping[r] # {} -> UNION {Joining(r, a) : a \in keeping[r]}
    [] target[r] # {}  -> UNION {RowTaken(r, a) : a \in target[r]}
    [] At(r, "bind")   -> UNION {RowTaken(r, a) : a \in call[r].account}
    [] At(r, "index")  -> UNION {Disputed(r, a) : a \in call[r].account}
    [] OTHER           -> {}

InDeadlock(r) ==
  /\ WaitsFor(r) # {}
  /\ \A R \in SUBSET Request :
       (WaitsFor(r) \subseteq R /\ \A q \in R : WaitsFor(q) \subseteq R) => r \in R

Clear(r) ==
  /\ draft' = [draft EXCEPT ![r] = {}] /\ joining' = [joining EXCEPT ![r] = {}]
  /\ keeping' = [keeping EXCEPT ![r] = {}] /\ target' = [target EXCEPT ![r] = {}]
  /\ indexed' = indexed \ {r}

\* Fault: an early return leaves the transaction open.
LeaveOpen(r) == Return(r, "error") /\ UNCHANGED rowVars

\* return fmt.Errorf(...), whatever the cause, with the deferred tx.Rollback.
Fail(r) == Return(r, "error") /\ Clear(r) /\ UNCHANGED <<holder, users>>

-----------------------------------------------------------------------------
\* The statements of LoginStudent, LoginTeacher and Leave.

Begin(r) ==
  /\ pc[r] = 0
  /\ Advance(r)
  /\ UNCHANGED <<rowVars, call, outcome>>

\* SELECT id ... WHERE login AND password: no account for wrong ones.
FindAccount(r) ==
  /\ At(r, "account")
  /\ \/ call[r].account # {} /\ Advance(r) /\ UNCHANGED <<rowVars, outcome>>
     \/ call[r].account = {} /\ Fail(r)
  /\ UNCHANGED call

\* INSERT INTO users ... ON CONFLICT DO NOTHING: also waits for a rival.
InsertUser(r) ==
  /\ At(r, "user") /\ WaitsFor(r) = {}
  /\ joining' = [joining EXCEPT ![r] = @ \cup ({call[r].chat} \ users)]
  /\ Advance(r)
  /\ UNCHANGED <<holder, users, draft, indexed, keeping, target, call, outcome>>

RowsOfChat(r) == {a \in Table(Steps(call[r])[pc[r]]) : Seen(r, a) = call[r].chat}

\* INSERT INTO users SELECT ... - id WHERE user_id = chat: the rows it saw.
FindPlaceholders(r) ==
  /\ At(r, "keep_student") \/ At(r, "keep_teacher")
  /\ keeping[r] = {}
  /\ keeping' = [keeping EXCEPT ![r] = RowsOfChat(r)]
  /\ IF RowsOfChat(r) = {} THEN Advance(r) ELSE UNCHANGED pc
  /\ UNCHANGED <<holder, users, draft, joining, indexed, target, call, outcome>>

\* ... ON CONFLICT DO NOTHING.
InsertPlaceholders(r) ==
  /\ keeping[r] # {} /\ WaitsFor(r) = {}
  /\ joining' = [joining EXCEPT ![r] = @ \cup (keeping[r] \ users)]
  /\ keeping' = [keeping EXCEPT ![r] = {}]
  /\ Advance(r)
  /\ UNCHANGED <<holder, users, draft, indexed, target, call, outcome>>

\* UPDATE ... SET user_id = placeholder WHERE user_id = chat: the rows it saw.
Scan(r) ==
  /\ At(r, "unbind_student") \/ At(r, "unbind_teacher")
  /\ target[r] = {}
  /\ target' = [target EXCEPT ![r] = RowsOfChat(r)]
  /\ IF RowsOfChat(r) = {} THEN Advance(r) ELSE UNCHANGED pc
  /\ UNCHANGED <<holder, users, draft, joining, indexed, keeping, call, outcome>>

\* Fault: the rows that were seen are cleared by their ids.
UnbindUnchecked(r) ==
  /\ \E a \in target[r] :
       /\ RowTaken(r, a) = {}
       /\ WriteRow(r, a, Nobody)
       /\ target' = [target EXCEPT ![r] = @ \ {a}]
       /\ IF target[r] = {a} THEN Advance(r) ELSE UNCHANGED pc
  /\ UNCHANGED <<holder, users, joining, indexed, keeping, call, outcome>>

HasPlaceholder(r, a) == a \in users \cup joining[r]

\* A row that another chat has taken meanwhile no longer meets the condition.
Unbind(r) ==
  /\ \E a \in target[r] :
       /\ RowTaken(r, a) = {}
       /\ IF Seen(r, a) = call[r].chat THEN HasPlaceholder(r, a) /\ WriteRow(r, a, Nobody)
          ELSE UNCHANGED draft
       /\ target' = [target EXCEPT ![r] = @ \ {a}]
       /\ IF target[r] = {a} THEN Advance(r) ELSE UNCHANGED pc
  /\ UNCHANGED <<holder, users, joining, indexed, keeping, call, outcome>>

\* 23503: the UPDATE saw a row that the INSERT before it had not seen.
RejectUnbind(r) ==
  /\ \E a \in target[r] :
       RowTaken(r, a) = {} /\ Seen(r, a) = call[r].chat /\ ~HasPlaceholder(r, a)
  /\ Fail(r)
  /\ UNCHANGED call

\* UPDATE ... SET user_id = chat WHERE id = account, whoever holds it.
Bind(r) ==
  /\ At(r, "bind") /\ WaitsFor(r) = {}
  /\ \E a \in call[r].account : WriteRow(r, a, call[r].chat)
  /\ Advance(r)
  /\ UNCHANGED <<holder, users, joining, indexed, keeping, target, call, outcome>>

EnterIndex(r) ==
  /\ At(r, "index") /\ WaitsFor(r) = {}
  /\ \A a \in call[r].account : Duplicates(r, a) = {}
  /\ indexed' = indexed \cup {r}
  /\ Advance(r)
  /\ UNCHANGED <<holder, users, draft, joining, keeping, target, call, outcome>>

\* 23505: the chat was given another account of the table in between.
RejectBind(r) ==
  /\ At(r, "index") /\ WaitsFor(r) = {}
  /\ \E a \in call[r].account : Duplicates(r, a) # {}
  /\ Fail(r)
  /\ UNCHANGED call

\* return tx.Commit(): its answer may be lost when the work is done.
Commit(r) ==
  /\ At(r, "commit")
  /\ holder' = [a \in Account |-> Seen(r, a)]
  /\ users' = users \cup joining[r]
  /\ Clear(r)
  /\ \E result \in {"ok", "error"} : Return(r, result)
  /\ UNCHANGED call

\* The deadlock detector aborts one of a circle; the error is returned.
AbortDeadlocked(r) ==
  /\ InDeadlock(r)
  /\ Fail(r)
  /\ UNCHANGED call

\* Any statement, the first and the COMMIT too, or a query of GetRole, may fail
\* with the connection or the context.
StatementFails(r) ==
  /\ pc[r] \in 0 .. Len(Steps(call[r]))
  /\ Fail(r)
  /\ UNCHANGED call

-----------------------------------------------------------------------------
\* GetRole: two queries, each with a snapshot of its own.

IsRole(r, table) == \E a \in table : holder[a] = call[r].chat

AskTable(r, step, table, role) ==
  /\ At(r, step)
  /\ \/ IsRole(r, table) /\ Return(r, role)
     \/ /\ ~IsRole(r, table)
        /\ IF pc[r] = Len(Steps(call[r])) THEN Return(r, "guest") ELSE Advance(r) /\ UNCHANGED outcome
  /\ UNCHANGED <<rowVars, call>>

GetRole(r) ==
  \/ AskTable(r, "students", Student, "student") \/ AskTable(r, "teachers", Teacher, "teacher")

-----------------------------------------------------------------------------

Work(r) ==
  \/ FindAccount(r) \/ InsertUser(r) \/ FindPlaceholders(r) \/ InsertPlaceholders(r)
  \/ Scan(r) \/ Unbind(r) \/ RejectUnbind(r) \/ Bind(r) \/ EnterIndex(r) \/ RejectBind(r)
  \/ Commit(r) \/ AbortDeadlocked(r) \/ StatementFails(r) \/ GetRole(r)

\* The roles a chat has by the committed rows.
RolesOf(chat, h) ==
  LET held == {a \in Account : h[a] = chat}
  IN  (IF held = {} THEN {"guest"} ELSE {})
      \cup (IF held \cap Student # {} THEN {"student"} ELSE {})
      \cup (IF held \cap Teacher # {} THEN {"teacher"} ELSE {})

\* History, kept up in every step.
Witness ==
  /\ seen' = [r \in Request |->
       IF pc'[r] = 0 \/ pc[r] > Len(Steps(call[r])) \/ call[r].op # "role" THEN seen[r]
       ELSE seen[r] \cup RolesOf(call[r].chat, holder) \cup RolesOf(call[r].chat, holder')]
  /\ moved' = [r \in Request |->
       \/ moved[r]
       \/ /\ pc[r] \in DOMAIN Steps(call[r]) /\ call[r].op = "role"
          /\ RolesOf(call[r].chat, holder) = {"teacher"}
          /\ "student" \in RolesOf(call[r].chat, holder')]
  /\ overlapped' = overlapped \cup
       {call[r].chat : r \in {q \in Request : \E p \in Request \ {q} :
                                call[p].chat = call[q].chat /\ Writing(q) /\ Writing(p)}}

Next == (\E r \in Request : Begin(r) \/ Work(r)) /\ Witness

Spec == Init /\ [][Next]_vars

-----------------------------------------------------------------------------
(***************************************************************************)
(* Properties.                                                             *)
(***************************************************************************)

\* Every login first gives up what its chat held.  So a chat has one account,
\* unless two of its own logins were open at once: then a student's and a
\* teacher's row may both name it, which no constraint of the schema forbids.
OneAccountPerChat ==
  \A c \in Chat : LET held == {a \in Account : holder[a] = c}
                  IN  /\ \A a, b \in held : SameTable(a) = SameTable(b) => a = b
                      /\ Cardinality(held) > 1 => c \in overlapped

\* An account changes hands only in the committing step of a call that names
\* it with its password, or of a call of the chat that held it.
NobodyThrownOut ==
  [][\A a \in Account : holder'[a] # holder[a] =>
       \E r \in Request :
         /\ At(r, "commit") /\ pc'[r] # pc[r]
         /\ IF holder'[a] = Nobody THEN call[r].chat = holder[a]
            ELSE call[r].account = {a} /\ call[r].chat = holder'[a]]_vars

\* GetRole tells a role the chat had during the call.  Only "guest" may be an
\* artefact of its two queries: of a teacher who becomes a student between them.
RoleWasHeld ==
  \A r \in Request :
    outcome[r] \in {"student", "teacher", "guest"} =>
      outcome[r] \in seen[r] \/ (outcome[r] = "guest" /\ moved[r])

\* The guards of Work(r) but StatementFails: the next statement can be run to its
\* end, or one row further, or the detector steps in.
CanGoOn(r) ==
  \/ At(r, "account") \/ At(r, "commit") \/ At(r, "students") \/ At(r, "teachers")
  \/ (At(r, "user") \/ keeping[r] # {}) /\ WaitsFor(r) = {}
  \/ (At(r, "keep_student") \/ At(r, "keep_teacher")) /\ keeping[r] = {}
  \/ (At(r, "unbind_student") \/ At(r, "unbind_teacher")) /\ target[r] = {}
  \/ \E a \in target[r] : RowTaken(r, a) = {}
  \/ (At(r, "bind") \/ At(r, "index")) /\ WaitsFor(r) = {} /\ call[r].account # {}
  \/ InDeadlock(r)

\* Two chats that exchange accounts, or a chat that is logged in twice, wait
\* for each other's rows and index entries: one of them can always go on.
NoStandstill ==
  LET open == {r \in Request : pc[r] # 0 /\ outcome[r] = "none"}
  IN  open # {} => \E r \in open : CanGoOn(r)

=============================================================================
