------------------------------ MODULE BotProofs ------------------------------
(***************************************************************************)
(* Proofs about the bot's repositories, for any chats, accounts, homework  *)
(* and calls.                                                              *)
(*                                                                         *)
(* Accounts.  A row that a transaction has written is one its chat holds   *)
(* and gives up, or the one it asks for, and no other transaction can      *)
(* write it: so whoever commits takes nothing that is not his (DraftInv).  *)
(* What the unique index admits is one account of a table for a chat       *)
(* (TableInv); that a login gives up the other table's account too is true *)
(* only of a chat whose transactions never overlap (SoloInv).              *)
(*                                                                         *)
(* Homework.  An id is drawn once (IdInv), so what a statement has chosen  *)
(* from its snapshot is still so when it writes, or the homework is gone   *)
(* for ever (PointInv) and the foreign keys notice; no row is then without *)
(* what it refers to (RowInv).                                             *)
(***************************************************************************)
EXTENDS Bot, FiniteSetTheorems, WellFoundedInduction, TLAPS

Row == [account : Account, chat : Chat \cup {Nobody}]

BotTypeOK ==
  /\ holder \in [Account -> Chat \cup {Nobody}]
  /\ draft \in [Request -> SUBSET Row]
  /\ keeping \in [Request -> SUBSET Account] /\ target \in [Request -> SUBSET Account]
  /\ indexed \subseteq Request
  /\ call \in [Request -> Calls]
  /\ pc \in [Request -> 0 .. 10]
  /\ DOMAIN joining = Request /\ DOMAIN outcome = Request
  /\ DOMAIN seen = Request /\ DOMAIN moved = Request

\* Request r is in its n-th statement of a login.
LoginAt(r, n) == call[r].op = "login" /\ pc[r] = n

\* The row that binds the account of r to its chat.
Bound(r, a) == [account |-> a, chat |-> call[r].chat]

\* What a transaction has written: rows of its chat that it gives up, which no
\* other transaction can write meanwhile, and the account it asks for.
DraftPoint(r) ==
  /\ \A d, e \in draft[r] : d.account = e.account => d = e
  /\ \A d \in draft[r] :
       \/ d.chat = Nobody /\ holder[d.account] = call[r].chat
       \/ d = Bound(r, d.account) /\ call[r].account = {d.account}
          /\ (LoginAt(r, 8) \/ LoginAt(r, 9))
  /\ target[r] # {} => At(r, "unbind_student") \/ At(r, "unbind_teacher")
  /\ keeping[r] # {} => At(r, "keep_student") \/ At(r, "keep_teacher")
  /\ LoginAt(r, 8) \/ LoginAt(r, 9) =>
       \E a \in Account : call[r].account = {a} /\ Bound(r, a) \in draft[r]
  /\ r \in indexed <=> LoginAt(r, 9)
  /\ draft[r] # {} => Writing(r)

Exclusive == \A r, q \in Request, a \in Account : Wrote(r, a) /\ Wrote(q, a) => r = q

DraftInv == Exclusive /\ \A r \in Request : DraftPoint(r)

\* What the unique index of a table says: of two rows for a chat one is given up
\* by the transaction that has entered the other.
TableInv ==
  /\ \A a, b \in Account :
       holder[a] \in Chat /\ holder[a] = holder[b] /\ SameTable(a) = SameTable(b) => a = b
  /\ \A r \in indexed : \A a \in call[r].account :
       \A b \in SameTable(a) \ {a} : holder[b] = call[r].chat => Wrote(r, b)
  /\ \A r, q \in indexed : \A a \in call[r].account, b \in call[q].account :
       call[r].chat = call[q].chat /\ SameTable(a) = SameTable(b) => r = q

\* The chat has never had two transactions open at once, now included.
Solo(c) ==
  /\ c \notin overlapped
  /\ \A r, q \in Request : call[r].chat = c /\ call[q].chat = c /\ Writing(r) /\ Writing(q) => r = q

\* A login has given up what the chat held in the tables it has gone through.
GivenUp(r, table) ==
  \A a \in table : Seen(r, a) = call[r].chat => call[r].account = {a} /\ pc[r] \in {8, 9}

Cleared(r) ==
  /\ pc[r] = 4 /\ target[r] # {} => \A a \in Teacher : Seen(r, a) = call[r].chat => a \in target[r]
  /\ pc[r] = 6 /\ target[r] # {} => \A a \in Student : Seen(r, a) = call[r].chat => a \in target[r]
  /\ pc[r] > 4 => GivenUp(r, Teacher)
  /\ pc[r] > 6 => GivenUp(r, Student)

SoloInv ==
  /\ \A c \in Chat \ overlapped : \A a, b \in Account : holder[a] = c /\ holder[b] = c => a = b
  /\ \A r \in Request :
       Solo(call[r].chat) /\ call[r].op = "login" /\ pc[r] \in 3 .. 9 => Cleared(r)

\* What GetRole knows after its first query.
RoleInv ==
  /\ RoleWasHeld
  /\ \A r \in Request : call[r].op = "role" /\ pc[r] = 2 =>
       "guest" \in seen[r] \/ moved[r] \/ RolesOf(call[r].chat, holder) = {"teacher"}

-----------------------------------------------------------------------------
\* Statements by number.

LEMMA CallTyped ==
  ASSUME NEW c \in Calls
  PROVE  /\ c.op \in {"login", "leave", "role"} /\ c.chat \in Chat /\ c.chat # Nobody
         /\ c.account = {} \/ \E a \in Account : c.account = {a}
BY AccountAssumption

Last(r) == IF call[r].op = "login" THEN 9 ELSE IF call[r].op = "leave" THEN 5 ELSE 2

LEMMA StepsOfLogin ==
  ASSUME NEW c, c.op = "login"
  PROVE  /\ DOMAIN Steps(c) = 1 .. 9 /\ Len(Steps(c)) = 9
         /\ Steps(c)[1] = "account" /\ Steps(c)[2] = "user"
         /\ Steps(c)[3] = "keep_teacher" /\ Steps(c)[4] = "unbind_teacher"
         /\ Steps(c)[5] = "keep_student" /\ Steps(c)[6] = "unbind_student"
         /\ Steps(c)[7] = "bind" /\ Steps(c)[8] = "index" /\ Steps(c)[9] = "commit"
BY DEF Steps

LEMMA StepsOfLeave ==
  ASSUME NEW c, c.op = "leave"
  PROVE  /\ DOMAIN Steps(c) = 1 .. 5 /\ Len(Steps(c)) = 5
         /\ Steps(c)[1] = "keep_student" /\ Steps(c)[2] = "unbind_student"
         /\ Steps(c)[3] = "keep_teacher" /\ Steps(c)[4] = "unbind_teacher"
         /\ Steps(c)[5] = "commit"
BY DEF Steps

LEMMA StepsOfRole ==
  ASSUME NEW c, c.op = "role"
  PROVE  /\ DOMAIN Steps(c) = 1 .. 2 /\ Len(Steps(c)) = 2
         /\ Steps(c)[1] = "students" /\ Steps(c)[2] = "teachers"
BY DEF Steps

LEMMA WhereAt ==
  ASSUME BotTypeOK, NEW r \in Request
  PROVE  /\ Len(Steps(call[r])) = Last(r) /\ Last(r) \in {2, 5, 9}
         /\ Writing(r) <=> call[r].op # "role" /\ pc[r] \in 1 .. Last(r)
         /\ At(r, "account") <=> LoginAt(r, 1)
         /\ At(r, "user") <=> LoginAt(r, 2)
         /\ At(r, "keep_teacher") <=> LoginAt(r, 3) \/ (call[r].op = "leave" /\ pc[r] = 3)
         /\ At(r, "keep_student") <=> LoginAt(r, 5) \/ (call[r].op = "leave" /\ pc[r] = 1)
         /\ At(r, "unbind_teacher") <=> LoginAt(r, 4) \/ (call[r].op = "leave" /\ pc[r] = 4)
         /\ At(r, "unbind_student") <=> LoginAt(r, 6) \/ (call[r].op = "leave" /\ pc[r] = 2)
         /\ At(r, "bind") <=> LoginAt(r, 7)
         /\ At(r, "index") <=> LoginAt(r, 8)
         /\ At(r, "commit") <=> LoginAt(r, 9) \/ (call[r].op = "leave" /\ pc[r] = 5)
         /\ At(r, "students") <=> call[r].op = "role" /\ pc[r] = 1
         /\ At(r, "teachers") <=> call[r].op = "role" /\ pc[r] = 2
<1>1. call[r] \in Calls /\ pc[r] \in 0 .. 10
  BY DEF BotTypeOK
<1>2. CASE call[r].op = "login"
  <2>1. pc[r] \in 1 .. 9 <=> pc[r] \in {1, 2, 3, 4, 5, 6, 7, 8, 9}
    BY <1>1
  <2>. QED  BY <1>2, <2>1, StepsOfLogin DEF At, Writing, Last, LoginAt
<1>3. CASE call[r].op = "leave"
  <2>1. pc[r] \in 1 .. 5 <=> pc[r] \in {1, 2, 3, 4, 5}
    BY <1>1
  <2>. QED  BY <1>3, <2>1, StepsOfLeave DEF At, Writing, Last, LoginAt
<1>4. CASE call[r].op = "role"
  <2>1. pc[r] \in 1 .. 2 <=> pc[r] \in {1, 2}
    BY <1>1
  <2>. QED  BY <1>4, <2>1, StepsOfRole DEF At, Writing, Last, LoginAt
<1>. QED  BY <1>1, <1>2, <1>3, <1>4, CallTyped

\* A row as its writer sees it.
LEMMA SeenIs ==
  ASSUME NEW r, NEW a, \A d, e \in draft[r] : d.account = e.account => d = e
  PROVE  /\ \A d \in draft[r] : d.account = a => Wrote(r, a) /\ Seen(r, a) = d.chat
         /\ ~Wrote(r, a) => Seen(r, a) = holder[a]
BY DEF Seen, Wrote

\* A step is one of one request.
LEMMA OneMoves ==
  ASSUME BotTypeOK, NEW r \in Request, Begin(r) \/ Work(r)
  PROVE  /\ call' = call
         /\ \A q \in Request \ {r} :
              /\ pc'[q] = pc[q] /\ draft'[q] = draft[q] /\ target'[q] = target[q]
              /\ keeping'[q] = keeping[q] /\ outcome'[q] = outcome[q]
              /\ (q \in indexed' <=> q \in indexed)
<1>. USE DEF BotTypeOK, Advance, Return, Clear, Fail, rowVars, WriteRow
<1>1. CASE Begin(r) \/ FindAccount(r) \/ InsertUser(r) \/ Scan(r) \/ EnterIndex(r)
  BY <1>1 DEF Begin, FindAccount, InsertUser, Scan, EnterIndex
<1>2. CASE Unbind(r) \/ Bind(r) \/ FindPlaceholders(r) \/ InsertPlaceholders(r)
  BY <1>2 DEF Unbind, Bind, FindPlaceholders, InsertPlaceholders
<1>3. CASE RejectUnbind(r) \/ RejectBind(r) \/ Commit(r) \/ AbortDeadlocked(r) \/ StatementFails(r)
  BY <1>3 DEF RejectUnbind, RejectBind, Commit, AbortDeadlocked, StatementFails
<1>4. CASE GetRole(r)
  BY <1>4 DEF GetRole, AskTable
<1>. QED  BY <1>1, <1>2, <1>3, <1>4 DEF Work

\* An UPDATE is under way only at its own statement.
LEMMA AtUnbind ==
  ASSUME BotTypeOK, DraftInv, NEW r \in Request, target[r] # {}
  PROVE  LoginAt(r, 4) \/ LoginAt(r, 6) \/ (call[r].op = "leave" /\ pc[r] \in {2, 4})
BY WhereAt DEF DraftInv, DraftPoint

\* ... and so is an INSERT of placeholders.
LEMMA AtKeep ==
  ASSUME BotTypeOK, DraftInv, NEW r \in Request, keeping[r] # {}
  PROVE  LoginAt(r, 3) \/ LoginAt(r, 5) \/ (call[r].op = "leave" /\ pc[r] \in {1, 3})
BY WhereAt DEF DraftInv, DraftPoint

\* Who need not wait finds the rows and the index entries free.
LEMMA NoneInTheWay ==
  ASSUME BotTypeOK, DraftInv, NEW r \in Request, WaitsFor(r) = {}, NEW a \in call[r].account
  PROVE  /\ LoginAt(r, 7) => RowTaken(r, a) = {}
         /\ LoginAt(r, 8) => Disputed(r, a) = {}
<1>1. target[r] # {} \/ keeping[r] # {} => ~LoginAt(r, 7) /\ ~LoginAt(r, 8)
  BY AtUnbind, AtKeep DEF LoginAt
<1>2. CASE LoginAt(r, 7)
  <2>1. At(r, "bind") /\ ~At(r, "user") /\ keeping[r] = {} /\ target[r] = {} /\ ~LoginAt(r, 8)
    BY <1>1, <1>2, WhereAt DEF LoginAt
  <2>2. WaitsFor(r) = UNION {RowTaken(r, b) : b \in call[r].account}
    BY <1>2, <2>1, WhereAt DEF WaitsFor
  <2>. QED  BY <2>1, <2>2
<1>3. CASE LoginAt(r, 8)
  <2>1. /\ At(r, "index") /\ ~At(r, "user") /\ ~At(r, "bind") /\ keeping[r] = {} /\ target[r] = {}
        /\ ~LoginAt(r, 7)
    BY <1>1, <1>3, WhereAt DEF LoginAt
  <2>2. WaitsFor(r) = UNION {Disputed(r, b) : b \in call[r].account}
    BY <1>3, <2>1, WhereAt DEF WaitsFor
  <2>. QED  BY <2>1, <2>2
<1>. QED  BY <1>2, <1>3

-----------------------------------------------------------------------------
\* Types.

LEMMA SeenTyped ==
  ASSUME BotTypeOK, NEW r \in Request, NEW a \in Account
  PROVE  Seen(r, a) \in Chat \cup {Nobody}
<1>1. CASE Wrote(r, a)
  BY <1>1 DEF Seen, Wrote, BotTypeOK, Row
<1>2. CASE ~Wrote(r, a)
  BY <1>2 DEF Seen, BotTypeOK
<1>. QED  BY <1>1, <1>2

\* Where the mover stands after a step.
LEMMA Moves ==
  ASSUME BotTypeOK, DraftInv, NEW r \in Request, Begin(r) \/ Work(r)
  PROVE  /\ DOMAIN pc' = Request /\ DOMAIN outcome' = Request
         /\ Begin(r) => pc[r] = 0 /\ pc'[r] = 1
         /\ ~Begin(r) => pc'[r] = Last(r) + 1 \/ (pc[r] \in 1 .. Last(r) - 1 /\ pc'[r] = pc[r] + 1)
                         \/ (pc[r] \in 1 .. Last(r) - 1 /\ pc'[r] = pc[r])
         /\ pc'[r] \in 0 .. 10
<1>. DEFINE B == Begin(r)
            l == Last(r)
<1>0. /\ pc \in [Request -> 0 .. 10] /\ pc[r] \in 0 .. 10 /\ l \in {2, 5, 9}
      /\ DOMAIN outcome = Request /\ DOMAIN pc = Request /\ Len(Steps(call[r])) = l
  BY WhereAt DEF BotTypeOK
<1>1. B => pc' = [pc EXCEPT ![r] = 1] /\ pc[r] = 0 /\ outcome' = outcome
  BY <1>0 DEF Begin, Advance
<1>2. ASSUME Work(r)
      PROVE  /\ DOMAIN outcome' = Request
             /\ \/ pc' = [pc EXCEPT ![r] = l + 1]
                \/ pc[r] \in 1 .. l - 1 /\ pc' = [pc EXCEPT ![r] = @ + 1]
                \/ pc[r] \in 1 .. l - 1 /\ pc' = pc
  <2>1. CASE FindAccount(r)
    <3>1. pc[r] \in 1 .. l - 1
      BY <2>1, WhereAt DEF FindAccount, LoginAt, Last
    <3>. HIDE DEF l
    <3>. QED  BY <1>0, <2>1, <3>1 DEF FindAccount, Advance, Fail, Return
  <2>2. CASE InsertUser(r) \/ Bind(r) \/ EnterIndex(r) \/ FindPlaceholders(r) \/ InsertPlaceholders(r)
    <3>1. pc[r] \in 1 .. l - 1
      BY <2>2, WhereAt, AtKeep DEF InsertUser, Bind, EnterIndex, FindPlaceholders, InsertPlaceholders,
                                   LoginAt, Last
    <3>. HIDE DEF l
    <3>. QED  BY <1>0, <2>2, <3>1 DEF InsertUser, Bind, EnterIndex, FindPlaceholders,
                                      InsertPlaceholders, Advance
  <2>3. CASE Scan(r) \/ Unbind(r)
    <3>1. CASE Scan(r)
      <4>1. pc[r] \in 1 .. l - 1
        BY <3>1, WhereAt DEF Scan, LoginAt, Last
      <4>. HIDE DEF l
      <4>. QED  BY <1>0, <3>1, <4>1 DEF Scan, Advance
    <3>2. CASE Unbind(r)
      <4>1. target[r] # {}
        BY <3>2 DEF Unbind
      <4>2. pc[r] \in 1 .. l - 1
        BY <4>1, AtUnbind DEF LoginAt, Last
      <4>. HIDE DEF l
      <4>. QED  BY <1>0, <3>2, <4>2 DEF Unbind, Advance
    <3>. QED  BY <2>3, <3>1, <3>2
  <2>4. CASE RejectUnbind(r) \/ RejectBind(r) \/ Commit(r) \/ AbortDeadlocked(r) \/ StatementFails(r)
    <3>. HIDE DEF l
    <3>. QED  BY <1>0, <2>4 DEF RejectUnbind, RejectBind, Commit, AbortDeadlocked, StatementFails,
                                Fail, Return
  <2>5. CASE GetRole(r)
    <3>1. pc[r] # l => pc[r] \in 1 .. l - 1
      BY <1>0, <2>5, WhereAt DEF GetRole, AskTable, Last
    <3>. HIDE DEF l
    <3>. QED  BY <1>0, <2>5, <3>1 DEF GetRole, AskTable, Return, Advance
  <2>. QED  BY <1>2, <2>1, <2>2, <2>3, <2>4, <2>5 DEF Work
<1>3. B \/ Work(r)
  OBVIOUS
<1>. HIDE DEF l, B
<1>4. CASE B
  BY <1>0, <1>1, <1>4 DEF B, l
<1>5. CASE ~B
  BY <1>0, <1>2, <1>3, <1>5 DEF B, l
<1>. QED  BY <1>4, <1>5 DEF B, l

\* An account changes hands only when a transaction that has written it commits.
LEMMA HolderMoves ==
  ASSUME BotTypeOK, DraftInv, NEW r \in Request, Begin(r) \/ Work(r),
         NEW a \in Account, holder'[a] # holder[a]
  PROVE  /\ Commit(r) /\ Wrote(r, a) /\ Writing(r) /\ pc'[r] # pc[r]
         /\ \/ holder'[a] = Nobody /\ holder[a] = call[r].chat
            \/ holder'[a] = call[r].chat /\ call[r].account = {a} /\ LoginAt(r, 9) /\ r \in indexed
<1>1. Commit(r)
  <2>1. CASE Begin(r) \/ FindAccount(r) \/ InsertUser(r) \/ Scan(r) \/ EnterIndex(r)
    BY <2>1 DEF Begin, FindAccount, InsertUser, Scan, EnterIndex, rowVars, Fail
  <2>2. CASE \/ Unbind(r) \/ Bind(r) \/ RejectUnbind(r) \/ RejectBind(r) \/ AbortDeadlocked(r)
             \/ FindPlaceholders(r) \/ InsertPlaceholders(r) \/ StatementFails(r)
    BY <2>2 DEF Unbind, Bind, RejectUnbind, RejectBind, AbortDeadlocked, FindPlaceholders,
                InsertPlaceholders, StatementFails, Fail
  <2>3. CASE GetRole(r)
    BY <2>3 DEF GetRole, AskTable, rowVars
  <2>. QED  BY <2>1, <2>2, <2>3 DEF Work
<1>2. holder'[a] = Seen(r, a)
  BY <1>1 DEF Commit
<1>3. /\ DraftPoint(r) /\ call[r] \in Calls
      /\ LoginAt(r, 9) \/ (call[r].op = "leave" /\ pc[r] = 5)
  BY <1>1, WhereAt DEF DraftInv, Commit, BotTypeOK
<1>4. Wrote(r, a)
  BY <1>2, <1>3, SeenIs DEF DraftPoint
<1>5. PICK d \in draft[r] : d.account = a
  BY <1>4 DEF Wrote
<1>6. holder'[a] = d.chat
  BY <1>2, <1>3, <1>5, SeenIs DEF DraftPoint
<1>7. Writing(r) /\ pc'[r] # pc[r]
  BY <1>1, <1>3, WhereAt DEF Commit, Return, Last, LoginAt, BotTypeOK
<1>8. \/ d.chat = Nobody /\ holder[a] = call[r].chat
      \/ d.chat = call[r].chat /\ call[r].account = {a} /\ LoginAt(r, 9)
  BY <1>3, <1>5 DEF DraftPoint, Bound, LoginAt
<1>9. LoginAt(r, 9) => r \in indexed
  BY <1>3 DEF DraftPoint
<1>. QED  BY <1>1, <1>4, <1>6, <1>7, <1>8, <1>9

LEMMA OthersKeepDrafts ==
  ASSUME BotTypeOK, DraftInv, NEW r \in Request, Begin(r) \/ Work(r), NEW q \in Request \ {r}
  PROVE  DraftPoint(q)'
<1>1. /\ DraftPoint(q) /\ call' = call /\ pc'[q] = pc[q] /\ draft'[q] = draft[q]
      /\ target'[q] = target[q] /\ keeping'[q] = keeping[q] /\ (q \in indexed' <=> q \in indexed)
  BY OneMoves DEF DraftInv
<1>2. \A d \in draft[q] : holder'[d.account] = holder[d.account]
  <2>1. SUFFICES ASSUME NEW d \in draft[q], holder'[d.account] # holder[d.account]
                 PROVE  FALSE
    OBVIOUS
  <2>2. d.account \in Account /\ Wrote(q, d.account)
    BY DEF BotTypeOK, Row, Wrote
  <2>3. Wrote(r, d.account)
    BY <2>1, <2>2, HolderMoves
  <2>. QED  BY <2>2, <2>3 DEF DraftInv, Exclusive
<1>3. /\ (LoginAt(q, 8) <=> LoginAt(q, 8)') /\ (LoginAt(q, 9) <=> LoginAt(q, 9)')
      /\ (At(q, "unbind_student") <=> At(q, "unbind_student")')
      /\ (At(q, "unbind_teacher") <=> At(q, "unbind_teacher")')
      /\ (At(q, "keep_student") <=> At(q, "keep_student")')
      /\ (At(q, "keep_teacher") <=> At(q, "keep_teacher")') /\ (Writing(q) <=> Writing(q)')
      /\ \A a : Bound(q, a)' = Bound(q, a)
  BY <1>1 DEF LoginAt, At, Writing, Bound
<1>. QED  BY <1>1, <1>2, <1>3 DEF DraftPoint

\* The two ways to write a row.
GivesUp(r, a) ==
  /\ Unbind(r) /\ a \in target[r] /\ Seen(r, a) = call[r].chat /\ RowTaken(r, a) = {}
  /\ WriteRow(r, a, Nobody)
Takes(r, a) ==
  /\ Bind(r) /\ call[r].account = {a} /\ RowTaken(r, a) = {} /\ WriteRow(r, a, call[r].chat)

LEMMA Writes ==
  ASSUME BotTypeOK, DraftInv, NEW r \in Request, Begin(r) \/ Work(r)
  PROVE  \/ draft' = draft
         \/ draft' = [draft EXCEPT ![r] = {}]
         \/ \E a \in Account : GivesUp(r, a) \/ Takes(r, a)
<1>1. CASE Begin(r) \/ FindAccount(r) \/ InsertUser(r) \/ Scan(r) \/ EnterIndex(r)
  BY <1>1 DEF Begin, FindAccount, InsertUser, Scan, EnterIndex, rowVars, Fail, Clear
<1>2. CASE Unbind(r)
  <2>1. PICK a \in target[r] : /\ RowTaken(r, a) = {}
                               /\ IF Seen(r, a) = call[r].chat
                                  THEN HasPlaceholder(r, a) /\ WriteRow(r, a, Nobody)
                                  ELSE UNCHANGED draft
    BY <1>2 DEF Unbind
  <2>2. a \in Account
    BY DEF BotTypeOK
  <2>. QED  BY <1>2, <2>1, <2>2 DEF GivesUp
<1>3. CASE Bind(r)
  <2>1. LoginAt(r, 7) /\ WaitsFor(r) = {} /\ call[r] \in Calls
    BY <1>3, WhereAt DEF Bind, BotTypeOK
  <2>2. PICK a \in call[r].account : WriteRow(r, a, call[r].chat)
    BY <1>3 DEF Bind
  <2>3. a \in Account /\ call[r].account = {a}
    BY <2>1, <2>2, CallTyped
  <2>4. RowTaken(r, a) = {}
    BY <2>1, <2>2, NoneInTheWay
  <2>. QED  BY <1>3, <2>2, <2>3, <2>4 DEF Takes
<1>4. CASE RejectUnbind(r) \/ RejectBind(r) \/ Commit(r) \/ AbortDeadlocked(r) \/ StatementFails(r)
  BY <1>4 DEF RejectUnbind, RejectBind, Commit, AbortDeadlocked, StatementFails, Fail, Clear
<1>5. CASE GetRole(r) \/ FindPlaceholders(r) \/ InsertPlaceholders(r)
  BY <1>5 DEF GetRole, AskTable, FindPlaceholders, InsertPlaceholders, rowVars
<1>. QED  BY <1>1, <1>2, <1>3, <1>4, <1>5 DEF Work

\* What a written row does to the rows that its transaction sees.
LEMMA RowWritten ==
  ASSUME BotTypeOK, NEW r \in Request, NEW a \in Account, NEW c, WriteRow(r, a, c)
  PROVE  /\ draft' = [draft EXCEPT ![r] = {d \in draft[r] : d.account # a}
                                           \cup {[account |-> a, chat |-> c]}]
         /\ \A b : Wrote(r, b)' <=> b = a \/ Wrote(r, b)
         /\ \A q \in Request \ {r}, b \in Account : Wrote(q, b)' <=> Wrote(q, b)
<1>1. draft' = [draft EXCEPT ![r] = {d \in draft[r] : d.account # a} \cup {[account |-> a, chat |-> c]}]
  BY DEF WriteRow, BotTypeOK
<1>2. draft'[r] = {d \in draft[r] : d.account # a} \cup {[account |-> a, chat |-> c]}
  BY <1>1 DEF BotTypeOK
<1>3. \A b : Wrote(r, b)' <=> b = a \/ Wrote(r, b)
  <2>. DEFINE e == [account |-> a, chat |-> c]
  <2>1. e.account = a /\ draft'[r] = {d \in draft[r] : d.account # a} \cup {e}
    BY <1>2
  <2>. HIDE DEF e
  <2>2. TAKE b
  <2>3. (\E d \in draft'[r] : d.account = b) <=> b = a \/ \E d \in draft[r] : d.account = b
    BY <2>1
  <2>. QED  BY <2>3 DEF Wrote
<1>4. \A q \in Request \ {r}, b \in Account : Wrote(q, b)' <=> Wrote(q, b)
  <2>1. \A q \in Request \ {r} : draft'[q] = draft[q]
    BY <1>1 DEF BotTypeOK
  <2>. QED  BY <2>1 DEF Wrote
<1>. QED  BY <1>1, <1>3, <1>4

\* What a transaction sees of row x after it has written c into row a.
SeenWritten(r, x, a, c) == Seen(r, x)' = IF x = a THEN c ELSE Seen(r, x)

LEMMA RowSeen ==
  ASSUME BotTypeOK, NEW r \in Request, DraftPoint(r), NEW a \in Account, NEW x \in Account, NEW c,
         WriteRow(r, a, c), holder' = holder
  PROVE  SeenWritten(r, x, a, c)
<1>. DEFINE e == [account |-> a, chat |-> c]
<1>1. /\ draft'[r] = {d \in draft[r] : d.account # a} \cup {e} /\ e.account = a /\ e.chat = c
      /\ \A b : Wrote(r, b)' <=> b = a \/ Wrote(r, b)
  BY RowWritten DEF BotTypeOK
<1>. HIDE DEF e
<1>2. CASE x = a
  BY <1>1, <1>2 DEF SeenWritten, Seen
<1>3. CASE x # a /\ Wrote(r, x)
  <2>1. PICK d \in draft[r] : d.account = x
    BY <1>3 DEF Wrote
  <2>2. Seen(r, x) = d.chat
    BY <2>1, SeenIs DEF DraftPoint
  <2>3. d \in draft'[r] /\ \A f \in draft'[r] : f.account = x => f = d
    BY <1>1, <1>3, <2>1 DEF DraftPoint
  <2>4. (CHOOSE f \in draft'[r] : f.account = x) = d
    BY <2>1, <2>3
  <2>. QED  BY <1>1, <1>3, <2>2, <2>4 DEF SeenWritten, Seen
<1>4. CASE x # a /\ ~Wrote(r, x)
  BY <1>1, <1>4 DEF SeenWritten, Seen
<1>. QED  BY <1>2, <1>3, <1>4

LEMMA TypeKept ==
  ASSUME BotTypeOK, DraftInv, NEW r \in Request, Begin(r) \/ Work(r), Witness
  PROVE  BotTypeOK'
<1>1. call' = call /\ pc' \in [Request -> 0 .. 10] /\ DOMAIN outcome' = Request
  <2>1. pc'[r] \in 0 .. 10 /\ DOMAIN pc' = Request /\ DOMAIN outcome' = Request
    BY Moves
  <2>2. \A q \in Request \ {r} : pc'[q] = pc[q]
    BY OneMoves
  <2>3. \A q \in Request : pc'[q] \in 0 .. 10
    BY <2>1, <2>2 DEF BotTypeOK
  <2>4. pc' = [q \in Request |-> pc'[q]]
    <3>1. \/ \E n : pc' = [pc EXCEPT ![r] = n]
          \/ pc' = pc
      <4>1. CASE Begin(r)
        BY <4>1 DEF Begin, Advance
      <4>2. CASE \/ FindAccount(r) \/ InsertUser(r) \/ Scan(r) \/ Unbind(r) \/ Bind(r) \/ EnterIndex(r)
                 \/ FindPlaceholders(r) \/ InsertPlaceholders(r)
        BY <4>2 DEF FindAccount, InsertUser, Scan, Unbind, Bind, EnterIndex, FindPlaceholders,
                    InsertPlaceholders, Advance, Fail, Return
      <4>3. CASE \/ RejectUnbind(r) \/ RejectBind(r) \/ Commit(r) \/ AbortDeadlocked(r)
                 \/ StatementFails(r) \/ GetRole(r)
        BY <4>3 DEF RejectUnbind, RejectBind, Commit, AbortDeadlocked, StatementFails, GetRole,
                    AskTable, Advance, Fail, Return
      <4>. QED  BY <4>1, <4>2, <4>3 DEF Work
    <3>. QED  BY <3>1 DEF BotTypeOK
  <2>. QED  BY <2>1, <2>3, <2>4, OneMoves
<1>2. draft' \in [Request -> SUBSET Row]
  <2>1. ASSUME NEW a \in Account, GivesUp(r, a) \/ Takes(r, a)
        PROVE  draft' \in [Request -> SUBSET Row]
    <3>1. PICK c \in Chat \cup {Nobody} : WriteRow(r, a, c)
      BY <2>1, CallTyped DEF GivesUp, Takes, BotTypeOK
    <3>2. draft' = [draft EXCEPT ![r] = {d \in draft[r] : d.account # a} \cup {[account |-> a, chat |-> c]}]
      BY <3>1, RowWritten
    <3>3. [account |-> a, chat |-> c] \in Row
      BY DEF Row
    <3>. QED  BY <3>2, <3>3 DEF BotTypeOK
  <2>. QED  BY <2>1, Writes DEF BotTypeOK
<1>3. holder' \in [Account -> Chat \cup {Nobody}]
  <2>1. CASE Commit(r)
    BY <2>1, SeenTyped DEF Commit
  <2>2. CASE ~Commit(r)
    <3>1. holder' = holder
      <4>1. CASE Begin(r) \/ FindAccount(r) \/ InsertUser(r) \/ Scan(r) \/ EnterIndex(r)
        BY <4>1 DEF Begin, FindAccount, InsertUser, Scan, EnterIndex, rowVars, Fail
      <4>2. CASE \/ Unbind(r) \/ Bind(r) \/ RejectUnbind(r) \/ RejectBind(r) \/ AbortDeadlocked(r)
                 \/ FindPlaceholders(r) \/ InsertPlaceholders(r) \/ StatementFails(r)
        BY <4>2 DEF Unbind, Bind, RejectUnbind, RejectBind, AbortDeadlocked, FindPlaceholders,
                    InsertPlaceholders, StatementFails, Fail
      <4>3. CASE GetRole(r)
        BY <4>3 DEF GetRole, AskTable, rowVars
      <4>. QED  BY <2>2, <4>1, <4>2, <4>3 DEF Work
    <3>. QED  BY <3>1 DEF BotTypeOK
  <2>. QED  BY <2>1, <2>2
<1>4. /\ target' \in [Request -> SUBSET Account] /\ keeping' \in [Request -> SUBSET Account]
      /\ indexed' \subseteq Request /\ DOMAIN joining' = Request
  <2>1. CASE Begin(r) \/ FindAccount(r) \/ InsertUser(r) \/ EnterIndex(r)
    BY <2>1 DEF Begin, FindAccount, InsertUser, EnterIndex, rowVars, Fail, Clear, BotTypeOK
  <2>2. CASE Scan(r) \/ FindPlaceholders(r)
    <3>1. RowsOfChat(r) \subseteq Account
      BY DEF RowsOfChat, Table, Account
    <3>. QED  BY <2>2, <3>1 DEF Scan, FindPlaceholders, BotTypeOK
  <2>3. CASE Unbind(r) \/ Bind(r) \/ InsertPlaceholders(r)
    BY <2>3 DEF Unbind, Bind, InsertPlaceholders, BotTypeOK
  <2>4. CASE RejectUnbind(r) \/ RejectBind(r) \/ Commit(r) \/ AbortDeadlocked(r) \/ StatementFails(r)
    BY <2>4 DEF RejectUnbind, RejectBind, Commit, AbortDeadlocked, StatementFails, Fail, Clear,
                BotTypeOK
  <2>5. CASE GetRole(r)
    BY <2>5 DEF GetRole, AskTable, rowVars, BotTypeOK
  <2>. QED  BY <2>1, <2>2, <2>3, <2>4, <2>5 DEF Work
<1>. QED  BY <1>1, <1>2, <1>3, <1>4 DEF BotTypeOK, Witness

-----------------------------------------------------------------------------
\* No row has two writers, and a transaction writes only what its chat may.

LEMMA ExclusiveKept ==
  ASSUME BotTypeOK, DraftInv, NEW r \in Request, Begin(r) \/ Work(r)
  PROVE  Exclusive'
<1>1. CASE draft' = draft \/ draft' = [draft EXCEPT ![r] = {}]
  <2>1. \A q \in Request, a \in Account : Wrote(q, a)' => Wrote(q, a)
    BY <1>1 DEF Wrote, BotTypeOK
  <2>. QED  BY <2>1 DEF DraftInv, Exclusive
<1>2. ASSUME NEW a \in Account, GivesUp(r, a) \/ Takes(r, a)
      PROVE  Exclusive'
  <2>1. RowTaken(r, a) = {}
    BY <1>2 DEF GivesUp, Takes
  <2>2. \A q \in Request \ {r} : ~Wrote(q, a)
    BY <2>1 DEF RowTaken
  <2>3. PICK c : WriteRow(r, a, c)
    BY <1>2 DEF GivesUp, Takes
  <2>4. /\ \A b : Wrote(r, b)' <=> b = a \/ Wrote(r, b)
        /\ \A q \in Request \ {r}, b \in Account : Wrote(q, b)' <=> Wrote(q, b)
    BY <2>3, RowWritten
  <2>. QED  BY <2>2, <2>4 DEF DraftInv, Exclusive
<1>. QED  BY <1>1, <1>2, Writes

\* Where the mover stands after its step.
LEMMA WhereNext ==
  ASSUME BotTypeOK, NEW r \in Request, call' = call, pc'[r] \in 0 .. 10
  PROVE  /\ Writing(r)' <=> call[r].op # "role" /\ pc'[r] \in 1 .. Last(r)
         /\ At(r, "keep_teacher")' <=> \/ call[r].op = "login" /\ pc'[r] = 3
                                       \/ call[r].op = "leave" /\ pc'[r] = 3
         /\ At(r, "keep_student")' <=> \/ call[r].op = "login" /\ pc'[r] = 5
                                       \/ call[r].op = "leave" /\ pc'[r] = 1
         /\ At(r, "unbind_teacher")' <=> \/ call[r].op = "login" /\ pc'[r] = 4
                                         \/ call[r].op = "leave" /\ pc'[r] = 4
         /\ At(r, "unbind_student")' <=> \/ call[r].op = "login" /\ pc'[r] = 6
                                         \/ call[r].op = "leave" /\ pc'[r] = 2
         /\ \A n : LoginAt(r, n)' <=> call[r].op = "login" /\ pc'[r] = n
         /\ \A a : Bound(r, a)' = Bound(r, a)
<1>1. call[r] \in Calls /\ call[r].op \in {"login", "leave", "role"}
  BY CallTyped DEF BotTypeOK
<1>2. /\ \A n : LoginAt(r, n)' <=> call[r].op = "login" /\ pc'[r] = n
      /\ \A a : Bound(r, a)' = Bound(r, a)
  BY DEF LoginAt, Bound
<1>3. CASE call[r].op = "login"
  <2>1. pc'[r] \in 1 .. 9 <=> pc'[r] \in {1, 2, 3, 4, 5, 6, 7, 8, 9}
    OBVIOUS
  <2>. QED  BY <1>2, <1>3, <2>1, StepsOfLogin DEF At, Writing, Last
<1>4. CASE call[r].op = "leave"
  <2>1. pc'[r] \in 1 .. 5 <=> pc'[r] \in {1, 2, 3, 4, 5}
    OBVIOUS
  <2>. QED  BY <1>2, <1>4, <2>1, StepsOfLeave DEF At, Writing, Last
<1>5. CASE call[r].op = "role"
  <2>1. pc'[r] \in 1 .. 2 <=> pc'[r] \in {1, 2}
    OBVIOUS
  <2>. QED  BY <1>2, <1>5, <2>1, StepsOfRole DEF At, Writing, Last
<1>. QED  BY <1>1, <1>3, <1>4, <1>5

LEMMA MoverKeepsDraft ==
  ASSUME BotTypeOK, DraftInv, NEW r \in Request, Begin(r) \/ Work(r)
  PROVE  DraftPoint(r)'
<1>0. /\ call' = call /\ DraftPoint(r) /\ call[r] \in Calls /\ pc'[r] \in 0 .. 10
      /\ pc[r] \in 0 .. 10 /\ Last(r) \in {2, 5, 9} /\ Len(Steps(call[r])) = Last(r)
      /\ pc \in [Request -> 0 .. 10] /\ draft \in [Request -> SUBSET Row]
      /\ target \in [Request -> SUBSET Account] /\ keeping \in [Request -> SUBSET Account]
  BY OneMoves, Moves, WhereAt DEF DraftInv, BotTypeOK
<1>1. CASE draft'[r] = {} /\ target'[r] = {} /\ keeping'[r] = {} /\ r \notin indexed' /\ pc'[r] \notin {8, 9}
  BY <1>0, <1>1, WhereNext DEF DraftPoint
<1>2. ASSUME \/ FindAccount(r) /\ call[r].account = {}
             \/ RejectUnbind(r) \/ RejectBind(r) \/ Commit(r) \/ AbortDeadlocked(r) \/ StatementFails(r)
      PROVE  DraftPoint(r)'
  <2>1. /\ draft'[r] = {} /\ target'[r] = {} /\ keeping'[r] = {} /\ r \notin indexed'
        /\ pc'[r] = Last(r) + 1
    BY <1>0, <1>2 DEF FindAccount, RejectUnbind, RejectBind, Commit, AbortDeadlocked, StatementFails,
                      Fail, Clear, Return, BotTypeOK
  <2>. QED  BY <1>0, <1>1, <2>1
\* Statements that write no row.
<1>3. ASSUME draft'[r] = draft[r], target'[r] = target[r], r \in indexed' <=> r \in indexed,
             keeping'[r] = {}, holder' = holder, pc'[r] = pc[r] + 1, pc[r] \in 0 .. Last(r) - 1,
             target[r] = {}, pc[r] \notin {7, 8, 9}, draft[r] # {} => pc[r] # 0
      PROVE  DraftPoint(r)'
  <2>1. ~LoginAt(r, 8) /\ ~LoginAt(r, 9) /\ pc'[r] \notin {8, 9}
    BY <1>0, <1>3 DEF LoginAt
  <2>2. draft[r] # {} => Writing(r)'
    BY <1>0, <1>3, WhereAt, WhereNext DEF DraftPoint
  <2>3. \A d \in draft'[r] : d.chat = Nobody /\ holder'[d.account] = call[r].chat
    BY <1>0, <1>3, <2>1 DEF DraftPoint
  <2>. QED  BY <1>0, <1>3, <2>1, <2>2, <2>3, WhereNext DEF DraftPoint, LoginAt
<1>4. CASE Begin(r)
  <2>1. /\ pc[r] = 0 /\ draft' = draft /\ target' = target /\ keeping' = keeping
        /\ indexed' = indexed /\ holder' = holder /\ pc'[r] = 1
    BY <1>0, <1>4 DEF Begin, Advance, rowVars
  <2>2. draft[r] = {} /\ target[r] = {} /\ keeping[r] = {}
    BY <1>0, <2>1, WhereAt, AtUnbind, AtKeep DEF DraftPoint, LoginAt
  <2>. QED  BY <1>0, <1>3, <2>1, <2>2
<1>5. CASE (FindAccount(r) /\ call[r].account # {}) \/ InsertUser(r)
  <2>1. LoginAt(r, 1) \/ LoginAt(r, 2)
    BY <1>5, WhereAt DEF FindAccount, InsertUser
  <2>2. /\ draft' = draft /\ target' = target /\ keeping' = keeping
        /\ indexed' = indexed /\ holder' = holder /\ pc'[r] = pc[r] + 1
    BY <1>0, <1>5 DEF FindAccount, InsertUser, Advance, rowVars
  <2>3. target[r] = {} /\ keeping[r] = {}
    BY <2>1, AtUnbind, AtKeep DEF LoginAt
  <2>. QED  BY <1>0, <1>3, <2>1, <2>2, <2>3 DEF LoginAt, Last
<1>6. CASE GetRole(r)
  <2>1. call[r].op = "role"
    BY <1>6, WhereAt DEF GetRole, AskTable
  <2>2. draft[r] = {} /\ target[r] = {} /\ keeping[r] = {} /\ r \notin indexed
    BY <1>0, <2>1, WhereAt, AtUnbind, AtKeep DEF DraftPoint, LoginAt
  <2>3. draft' = draft /\ target' = target /\ keeping' = keeping /\ indexed' = indexed
    BY <1>6 DEF GetRole, AskTable, rowVars
  <2>. QED  BY <1>0, <2>1, <2>2, <2>3, WhereNext DEF DraftPoint
<1>7. CASE EnterIndex(r)
  <2>1. /\ LoginAt(r, 8) /\ draft' = draft /\ target' = target /\ keeping' = keeping
        /\ indexed' = indexed \cup {r} /\ holder' = holder /\ pc'[r] = 9
    BY <1>0, <1>7, WhereAt DEF EnterIndex, Advance, LoginAt
  <2>2. target[r] = {} /\ keeping[r] = {}
    BY <2>1, AtUnbind, AtKeep DEF LoginAt
  <2>3. Writing(r)'
    BY <1>0, <2>1, WhereNext DEF Last, LoginAt
  <2>. QED  BY <1>0, <2>1, <2>2, <2>3, WhereNext DEF DraftPoint, LoginAt
\* The statements that write rows.
<1>8. ASSUME LoginAt(r, 4) \/ LoginAt(r, 6) \/ (call[r].op = "leave" /\ pc[r] \in {2, 4})
      PROVE  /\ ~LoginAt(r, 8) /\ ~LoginAt(r, 9) /\ keeping[r] = {}
             /\ pc'[r] \in {pc[r], pc[r] + 1} =>
                  Writing(r)' /\ ~LoginAt(r, 8)' /\ ~LoginAt(r, 9)'
             /\ pc'[r] = pc[r] => At(r, "unbind_student")' \/ At(r, "unbind_teacher")'
             /\ \A d \in draft[r] : d.chat = Nobody /\ holder[d.account] = call[r].chat
  BY <1>0, <1>8, AtKeep, WhereNext DEF LoginAt, Last, DraftPoint
<1>9. CASE Scan(r)
  <2>1. LoginAt(r, 4) \/ LoginAt(r, 6) \/ (call[r].op = "leave" /\ pc[r] \in {2, 4})
    BY <1>9, WhereAt DEF Scan
  <2>2. draft' = draft /\ indexed' = indexed /\ holder' = holder /\ keeping' = keeping
    BY <1>9 DEF Scan
  <2>3. (target'[r] = {} /\ pc'[r] = pc[r] + 1) \/ pc'[r] = pc[r]
    BY <1>0, <1>9 DEF Scan, Advance
  <2>4. ~LoginAt(r, 9)' /\ ~LoginAt(r, 8)' /\ Writing(r)'
    BY <1>8, <2>1, <2>3
  <2>5. target'[r] # {} => At(r, "unbind_student")' \/ At(r, "unbind_teacher")'
    BY <1>8, <2>1, <2>3
  <2>. QED  BY <1>0, <1>8, <2>1, <2>2, <2>4, <2>5 DEF DraftPoint
<1>12. CASE FindPlaceholders(r) \/ InsertPlaceholders(r)
  <2>1. LoginAt(r, 3) \/ LoginAt(r, 5) \/ (call[r].op = "leave" /\ pc[r] \in {1, 3})
    BY <1>12, WhereAt, AtKeep DEF FindPlaceholders, InsertPlaceholders
  <2>2. draft' = draft /\ indexed' = indexed /\ holder' = holder /\ target' = target
    BY <1>12 DEF FindPlaceholders, InsertPlaceholders
  <2>3. (keeping'[r] = {} /\ pc'[r] = pc[r] + 1) \/ pc'[r] = pc[r]
    BY <1>0, <1>12 DEF FindPlaceholders, InsertPlaceholders, Advance
  <2>4. target[r] = {}
    BY <2>1, AtUnbind DEF LoginAt
  <2>5. /\ ~LoginAt(r, 8) /\ ~LoginAt(r, 9) /\ ~LoginAt(r, 8)' /\ ~LoginAt(r, 9)' /\ Writing(r)'
        /\ keeping'[r] # {} => At(r, "keep_student")' \/ At(r, "keep_teacher")'
    BY <1>0, <2>1, <2>3, WhereNext DEF LoginAt, Last
  <2>. QED  BY <1>0, <2>2, <2>4, <2>5 DEF DraftPoint
<1>10. CASE Unbind(r)
  <2>1. LoginAt(r, 4) \/ LoginAt(r, 6) \/ (call[r].op = "leave" /\ pc[r] \in {2, 4})
    BY <1>10, AtUnbind DEF Unbind
  <2>2. indexed' = indexed /\ holder' = holder /\ keeping' = keeping
    BY <1>10 DEF Unbind
  <2>3. (target'[r] = {} /\ pc'[r] = pc[r] + 1) \/ pc'[r] = pc[r]
    BY <1>0, <1>10 DEF Unbind, Advance
  <2>4. ~LoginAt(r, 9)' /\ ~LoginAt(r, 8)' /\ Writing(r)'
    BY <1>8, <2>1, <2>3
  <2>5. target'[r] # {} => At(r, "unbind_student")' \/ At(r, "unbind_teacher")'
    BY <1>8, <2>1, <2>3
  <2>6. draft' = draft \/ \E a \in Account : GivesUp(r, a)
    BY <1>0, <1>10 DEF Unbind, GivesUp
  <2>7. CASE draft' = draft
    BY <1>0, <1>8, <2>1, <2>2, <2>4, <2>5, <2>7 DEF DraftPoint
  <2>8. ASSUME NEW a \in Account, GivesUp(r, a)
        PROVE  DraftPoint(r)'
    <3>. DEFINE e == [account |-> a, chat |-> Nobody]
    <3>1. draft'[r] = {d \in draft[r] : d.account # a} \cup {e} /\ e.account = a /\ e.chat = Nobody
      BY <1>0, <2>8, RowWritten DEF GivesUp
    <3>2. holder[a] = call[r].chat
      <4>1. ~Wrote(r, a)
        BY <1>0, <1>8, <2>1, <2>8, SeenIs, CallTyped DEF GivesUp, DraftPoint, Wrote
      <4>. QED  BY <1>0, <2>8, <4>1, SeenIs DEF GivesUp, DraftPoint
    <3>. HIDE DEF e
    <3>3. \A d \in draft'[r] : d.chat = Nobody /\ holder'[d.account] = call[r].chat
      BY <1>8, <2>1, <2>2, <3>1, <3>2
    <3>4. \A d, f \in draft'[r] : d.account = f.account => d = f
      BY <1>0, <3>1 DEF DraftPoint
    <3>5. r \notin indexed
      BY <1>0, <1>8, <2>1 DEF DraftPoint
    <3>. QED  BY <1>0, <1>8, <2>1, <2>2, <2>4, <2>5, <3>3, <3>4, <3>5 DEF DraftPoint
  <2>. QED  BY <2>6, <2>7, <2>8
<1>11. CASE Bind(r)
  <2>1. /\ LoginAt(r, 7) /\ indexed' = indexed /\ holder' = holder /\ target' = target
        /\ keeping' = keeping /\ pc'[r] = 8
    BY <1>0, <1>11, WhereAt DEF Bind, Advance, LoginAt
  <2>2. target'[r] = {} /\ keeping'[r] = {}
    BY <2>1, AtUnbind, AtKeep DEF LoginAt
  <2>3. LoginAt(r, 8)' /\ ~LoginAt(r, 9)' /\ Writing(r)' /\ ~LoginAt(r, 8) /\ ~LoginAt(r, 9)
    BY <1>0, <2>1, WhereNext DEF LoginAt, Last
  <2>4. PICK a \in Account : Takes(r, a)
    <3>1. LoginAt(r, 7) /\ WaitsFor(r) = {}
      BY <1>11, <2>1 DEF Bind
    <3>2. PICK a \in call[r].account : WriteRow(r, a, call[r].chat)
      BY <1>11 DEF Bind
    <3>. QED  BY <1>0, <1>11, <3>1, <3>2, CallTyped, NoneInTheWay DEF Takes
  <2>. DEFINE e == Bound(r, a)
  <2>5. /\ draft'[r] = {d \in draft[r] : d.account # a} \cup {e} /\ e.account = a
        /\ call[r].account = {a} /\ e = Bound(r, a)
    BY <1>0, <2>4, RowWritten DEF Takes, Bound
  <2>. HIDE DEF e
  <2>6. \A d, f \in draft'[r] : d.account = f.account => d = f
    BY <1>0, <2>5 DEF DraftPoint
  <2>7. \A d \in draft[r] : d.chat = Nobody /\ holder[d.account] = call[r].chat
    BY <1>0, <2>3 DEF DraftPoint
  <2>8. r \notin indexed
    BY <1>0, <2>3 DEF DraftPoint
  <2>9. /\ call' = call /\ \A b : Bound(r, b)' = Bound(r, b)
    BY <1>0, WhereNext
  <2>. QED  BY <2>1, <2>2, <2>3, <2>5, <2>6, <2>7, <2>8, <2>9 DEF DraftPoint
<1>. QED  BY <1>2, <1>4, <1>5, <1>6, <1>7, <1>9, <1>10, <1>11, <1>12
          DEF Work

LEMMA DraftKept ==
  ASSUME BotTypeOK, DraftInv, NEW r \in Request, Begin(r) \/ Work(r)
  PROVE  DraftInv'
BY ExclusiveKept, MoverKeepsDraft, OthersKeepDrafts DEF DraftInv

LEMMA InitDrafts ==
  ASSUME Init
  PROVE  BotTypeOK /\ DraftInv
<1>1. BotTypeOK
  BY DEF Init, BotTypeOK
<1>2. \A r \in Request : draft[r] = {} /\ keeping[r] = {} /\ target[r] = {} /\ r \notin indexed /\ pc[r] = 0
  BY DEF Init
<1>3. DraftInv
  BY <1>2 DEF DraftInv, Exclusive, DraftPoint, Wrote, LoginAt
<1>. QED  BY <1>1, <1>3

BotInv == BotTypeOK /\ DraftInv

LEMMA BotInvKept == BotInv /\ [Next]_vars => BotInv'
<1>. SUFFICES ASSUME BotInv, [Next]_vars
              PROVE  BotInv'
  OBVIOUS
<1>1. CASE Next
  BY <1>1, TypeKept, DraftKept DEF BotInv, Next
<1>2. CASE UNCHANGED vars
  <2>1. BotTypeOK'
    BY <1>2 DEF vars, rowVars, BotInv, BotTypeOK
  <2>2. DraftInv'
    <3>1. Exclusive'
      BY <1>2 DEF vars, rowVars, BotInv, DraftInv, Exclusive, Wrote
    <3>2. ASSUME NEW r \in Request
          PROVE  DraftPoint(r)'
      <4>1. DraftPoint(r)
        BY DEF BotInv, DraftInv
      <4>2. /\ \A step : At(r, step)' <=> At(r, step)
            /\ \A n : LoginAt(r, n)' <=> LoginAt(r, n)
            /\ \A a : Bound(r, a)' = Bound(r, a)
            /\ Writing(r)' <=> Writing(r)
        BY <1>2 DEF vars, At, LoginAt, Bound, Writing
      <4>. QED  BY <1>2, <4>1, <4>2 DEF vars, rowVars, DraftPoint
    <3>. QED  BY <3>1, <3>2 DEF DraftInv
  <2>. QED  BY <2>1, <2>2 DEF BotInv
<1>. QED  BY <1>1, <1>2

LEMMA BotInvHolds == Spec => []BotInv
<1>1. Init => BotInv
  BY InitDrafts DEF BotInv
<1>. QED  BY <1>1, BotInvKept, PTL DEF Spec

\* Nobody loses an account to a call that neither comes from the chat nor names
\* the account with its password.
THEOREM NobodyIsThrownOut == Spec => NobodyThrownOut
<1>. DEFINE Fair == \A a \in Account : holder'[a] # holder[a] =>
                      \E r \in Request :
                        /\ At(r, "commit") /\ pc'[r] # pc[r]
                        /\ IF holder'[a] = Nobody THEN call[r].chat = holder[a]
                           ELSE call[r].account = {a} /\ call[r].chat = holder'[a]
<1>1. BotInv /\ [Next]_vars => [Fair]_vars
  <2>. SUFFICES ASSUME BotInv, Next
                PROVE  Fair
    OBVIOUS
  <2>1. PICK r \in Request : Begin(r) \/ Work(r)
    BY DEF Next
  <2>2. SUFFICES ASSUME NEW a \in Account, holder'[a] # holder[a]
                 PROVE  /\ At(r, "commit") /\ pc'[r] # pc[r]
                        /\ IF holder'[a] = Nobody THEN call[r].chat = holder[a]
                           ELSE call[r].account = {a} /\ call[r].chat = holder'[a]
    BY <2>1
  <2>3. call[r].chat # Nobody
    BY CallTyped DEF BotInv, BotTypeOK
  <2>. QED  BY <2>1, <2>2, <2>3, HolderMoves DEF BotInv, Commit
<1>. QED  BY <1>1, BotInvHolds, PTL DEF Spec, NobodyThrownOut

-----------------------------------------------------------------------------
\* The unique index.

\* Who stands in the index has nothing left to write, and only EnterIndex adds to it.
LEMMA IndexMoves ==
  ASSUME BotInv, NEW r \in Request, Begin(r) \/ Work(r)
  PROVE  /\ r \in indexed => draft'[r] = draft[r] \/ r \notin indexed'
         /\ r \in indexed' => r \in indexed \/ EnterIndex(r)
         /\ indexed' \subseteq Request
<1>. USE DEF BotInv
<1>0. indexed \subseteq Request
  BY DEF BotTypeOK
<1>1. CASE Begin(r) \/ FindAccount(r) \/ InsertUser(r) \/ Scan(r)
  BY <1>0, <1>1 DEF Begin, FindAccount, InsertUser, Scan, rowVars, Fail, Clear
<1>2. CASE Unbind(r) \/ Bind(r) \/ FindPlaceholders(r) \/ InsertPlaceholders(r)
  <2>1. ~LoginAt(r, 9)
    BY <1>2, AtUnbind, AtKeep, WhereAt DEF Unbind, Bind, FindPlaceholders, InsertPlaceholders, LoginAt
  <2>2. r \notin indexed
    BY <2>1 DEF DraftInv, DraftPoint
  <2>. QED  BY <1>0, <1>2, <2>2 DEF Unbind, Bind, FindPlaceholders, InsertPlaceholders
<1>3. CASE EnterIndex(r)
  BY <1>0, <1>3 DEF EnterIndex
<1>4. CASE RejectUnbind(r) \/ RejectBind(r) \/ Commit(r) \/ AbortDeadlocked(r) \/ StatementFails(r)
  BY <1>0, <1>4 DEF RejectUnbind, RejectBind, Commit, AbortDeadlocked, StatementFails, Fail, Clear
<1>5. CASE GetRole(r)
  BY <1>0, <1>5 DEF GetRole, AskTable, rowVars
<1>. QED  BY <1>1, <1>2, <1>3, <1>4, <1>5 DEF Work

\* The account of a request that stands in the index.
LEMMA IndexedIs ==
  ASSUME BotInv, NEW q \in indexed
  PROVE  /\ q \in Request /\ Writing(q) /\ LoginAt(q, 9) /\ call[q].chat \in Chat
         /\ \A b \in call[q].account : /\ b \in Account /\ call[q].account = {b}
                                       /\ Wrote(q, b) /\ Seen(q, b) = call[q].chat
<1>1. q \in Request /\ DraftPoint(q) /\ call[q] \in Calls /\ LoginAt(q, 9)
  BY DEF BotInv, DraftInv, BotTypeOK, DraftPoint
<1>2. PICK a \in Account : call[q].account = {a} /\ Bound(q, a) \in draft[q]
  BY <1>1 DEF DraftPoint
<1>3. Bound(q, a).account = a /\ Bound(q, a).chat = call[q].chat
  BY DEF Bound
<1>4. Wrote(q, a) /\ Seen(q, a) = call[q].chat
  BY <1>1, <1>2, <1>3, SeenIs DEF DraftPoint
<1>5. Writing(q) /\ call[q].chat \in Chat
  BY <1>1, <1>2, CallTyped DEF DraftPoint
<1>. QED  BY <1>1, <1>2, <1>4, <1>5

LEMMA TableKept ==
  ASSUME BotInv, TableInv, NEW r \in Request, Begin(r) \/ Work(r)
  PROVE  TableInv'
<1>. USE DEF BotInv
<1>0. call' = call /\ call \in [Request -> Calls] /\ holder \in [Account -> Chat \cup {Nobody}]
  BY OneMoves DEF BotTypeOK
<1>1. ASSUME NEW a \in Account, NEW b \in Account, holder'[a] \in Chat, holder'[a] = holder'[b],
             SameTable(a) = SameTable(b)
      PROVE  a = b
  <2>1. ASSUME NEW x \in Account, NEW y \in Account, holder'[x] # holder[x], holder'[y] = holder[y],
               holder'[x] \in Chat, holder'[x] = holder'[y], SameTable(x) = SameTable(y)
        PROVE  x = y
    <3>1. /\ holder'[x] = call[r].chat /\ call[r].account = {x} /\ r \in indexed /\ Commit(r)
      BY <2>1, HolderMoves, AccountAssumption
    <3>2. SUFFICES ASSUME x # y
                   PROVE  FALSE
      OBVIOUS
    <3>3. y \in SameTable(x) /\ y # x
      BY <2>1, <3>2 DEF SameTable, Account
    <3>4. Wrote(r, y)
      BY <2>1, <3>1, <3>3 DEF TableInv
    <3>5. holder'[y] = Seen(r, y)
      BY <3>1 DEF Commit
    <3>6. PICK d \in draft[r] : d.account = y
      BY <3>4 DEF Wrote
    <3>7. d.chat = Nobody
      BY <3>1, <3>3, <3>6 DEF DraftInv, DraftPoint
    <3>8. Seen(r, y) = Nobody
      BY <3>6, <3>7, SeenIs DEF DraftInv, DraftPoint
    <3>. QED  BY <2>1, <3>5, <3>8, AccountAssumption
  <2>2. CASE holder'[a] = holder[a] /\ holder'[b] = holder[b]
    BY <1>1, <2>2 DEF TableInv
  <2>3. CASE holder'[a] # holder[a] /\ holder'[b] # holder[b]
    BY <1>1, <2>3, HolderMoves, AccountAssumption
  <2>. QED  BY <1>1, <2>1, <2>2, <2>3
<1>2. ASSUME NEW q \in indexed', NEW a \in call[q].account, NEW b \in SameTable(a) \ {a},
             holder'[b] = call[q].chat
      PROVE  Wrote(q, b)'
  <2>0. q \in Request /\ b \in Account /\ call[q] \in Calls /\ call[q].chat # Nobody /\ a \in Account
        /\ SameTable(a) = SameTable(b) /\ a # b
    <3>1. q \in Request
      BY <1>2, IndexMoves
    <3>2. call[q] \in Calls /\ call[q].chat # Nobody /\ a \in Account
      BY <1>0, <3>1, CallTyped
    <3>. QED  BY <3>1, <3>2, AccountAssumption DEF SameTable, Account
  <2>1. CASE q = r /\ EnterIndex(r)
    <3>1. Duplicates(r, a) = {} /\ holder' = holder /\ draft' = draft
      BY <2>1 DEF EnterIndex
    <3>2. b \in Written(r)
      BY <1>2, <2>1, <3>1 DEF Duplicates
    <3>. QED  BY <2>1, <3>1, <3>2 DEF Written, Wrote
  <2>2. CASE ~(q = r /\ EnterIndex(r))
    <3>1. q \in indexed /\ draft'[q] = draft[q]
      BY <2>0, <2>2, OneMoves, IndexMoves
    <3>2. holder[b] = call[q].chat
      <4>1. SUFFICES ASSUME holder'[b] # holder[b]
                     PROVE  FALSE
        BY <1>2
      <4>2. /\ call[r].chat = call[q].chat /\ call[r].account = {b} /\ r \in indexed /\ Commit(r)
        BY <1>2, <2>0, <4>1, HolderMoves
      <4>3. r # q
        BY <4>2, <2>0, <1>2, IndexMoves DEF Commit, Clear
      <4>. QED  BY <2>0, <3>1, <4>2, <4>3 DEF TableInv
    <3>3. Wrote(q, b)
      BY <3>1, <3>2 DEF TableInv
    <3>. QED  BY <3>1, <3>3 DEF Wrote
  <2>. QED  BY <2>1, <2>2
<1>3. ASSUME NEW p \in indexed', NEW q \in indexed', NEW a \in call[p].account,
             NEW b \in call[q].account, call[p].chat = call[q].chat, SameTable(a) = SameTable(b)
      PROVE  p = q
  <2>0. p \in Request /\ q \in Request
    BY IndexMoves
  <2>1. CASE p \in indexed /\ q \in indexed
    BY <1>3, <2>1 DEF TableInv
  <2>2. ASSUME EnterIndex(r), NEW x \in call[r].account, NEW k \in indexed, k # r,
               NEW y \in call[k].account, call[k].chat = call[r].chat, SameTable(x) = SameTable(y)
        PROVE  FALSE
    <3>1. LoginAt(r, 8) /\ WaitsFor(r) = {}
      BY <2>2, WhereAt DEF EnterIndex
    <3>2. Disputed(r, x) = {}
      BY <3>1, NoneInTheWay
    <3>3. k \in Request \ {r} /\ y \in Account /\ Wrote(k, y) /\ Seen(k, y) = call[r].chat
      BY <2>2, IndexedIs
    <3>4. y = x
      <4>1. y \in SameTable(x)
        BY <2>2, <3>3 DEF SameTable, Account
      <4>. QED  BY <2>2, <3>2, <3>3, <4>1 DEF Disputed
    <3>5. Wrote(r, x)
      <4>1. PICK z \in Account : call[r].account = {z} /\ Bound(r, z) \in draft[r]
        BY <3>1 DEF DraftInv, DraftPoint
      <4>. QED  BY <4>1 DEF Bound, Wrote
    <3>. QED  BY <3>3, <3>4, <3>5 DEF DraftInv, Exclusive
  <2>3. p \notin indexed => p = r /\ EnterIndex(r)
    BY <2>0, OneMoves, IndexMoves
  <2>4. q \notin indexed => q = r /\ EnterIndex(r)
    BY <2>0, OneMoves, IndexMoves
  <2>. QED  BY <1>3, <2>1, <2>2, <2>3, <2>4
<1>. QED  BY <1>0, <1>1, <1>2, <1>3 DEF TableInv, SameTable

-----------------------------------------------------------------------------
\* One login at a time gives up all that the chat held.

\* Of a chat never seen with two transactions at once no one was in this state.
LEMMA SoloBefore ==
  ASSUME Witness, NEW c \in Chat, c \notin overlapped'
  PROVE  Solo(c)
<1>1. c \notin overlapped
  BY DEF Witness
<1>2. ASSUME NEW r \in Request, NEW q \in Request, call[r].chat = c, call[q].chat = c,
             Writing(r), Writing(q), r # q
      PROVE  FALSE
  BY <1>2 DEF Witness
<1>. QED  BY <1>1, <1>2 DEF Solo

LEMMA SoloHoldersKept ==
  ASSUME BotInv, SoloInv, NEW r \in Request, Begin(r) \/ Work(r), Witness
  PROVE  \A c \in Chat \ overlapped' : \A a, b \in Account : holder'[a] = c /\ holder'[b] = c => a = b
<1>. USE DEF BotInv
<1>. SUFFICES ASSUME NEW c \in Chat, c \notin overlapped', NEW a \in Account, NEW b \in Account,
                     holder'[a] = c, holder'[b] = c
              PROVE  a = b
  OBVIOUS
<1>1. Solo(c)
  BY SoloBefore
<1>2. ASSUME NEW x \in Account, NEW y \in Account, holder'[x] # holder[x], holder'[x] = c,
             holder'[y] = c
      PROVE  x = y
  <2>1. call[r].chat = c /\ call[r].account = {x} /\ LoginAt(r, 9) /\ Commit(r)
    BY <1>2, HolderMoves, AccountAssumption
  <2>2. GivenUp(r, Teacher) /\ GivenUp(r, Student)
    BY <1>1, <2>1 DEF SoloInv, Cleared, LoginAt
  <2>3. Seen(r, y) = c
    BY <1>2, <2>1 DEF Commit
  <2>4. call[r].account = {y}
    BY <2>1, <2>2, <2>3 DEF GivenUp, Account
  <2>. QED  BY <2>1, <2>4
<1>3. CASE holder'[a] = holder[a] /\ holder'[b] = holder[b]
  BY <1>1, <1>3 DEF SoloInv, Solo
<1>. QED  BY <1>2, <1>3

LEMMA OthersKeepClear ==
  ASSUME BotInv, NEW r \in Request, Begin(r) \/ Work(r), NEW q \in Request \ {r},
         Solo(call[q].chat), Cleared(q), call[q].op = "login", pc[q] \in 3 .. 9
  PROVE  Cleared(q)'
<1>. USE DEF BotInv
<1>1. /\ call' = call /\ pc'[q] = pc[q] /\ draft'[q] = draft[q] /\ target'[q] = target[q]
      /\ call[q] \in Calls /\ call[q].chat # Nobody
  BY OneMoves, CallTyped DEF BotTypeOK
<1>2. ASSUME NEW a \in Account, Seen(q, a)' = call[q].chat
      PROVE  Seen(q, a) = call[q].chat
  <2>1. Wrote(q, a)' <=> Wrote(q, a)
    BY <1>1 DEF Wrote
  <2>2. CASE Wrote(q, a)
    BY <1>1, <1>2, <2>1, <2>2 DEF Seen
  <2>3. CASE ~Wrote(q, a)
    <3>1. Seen(q, a) = holder[a] /\ Seen(q, a)' = holder'[a]
      BY <2>1, <2>3 DEF Seen
    <3>2. SUFFICES ASSUME holder'[a] # holder[a]
                   PROVE  FALSE
      BY <1>2, <3>1
    <3>3. Writing(r) /\ call[r].chat = call[q].chat
      BY <1>1, <1>2, <3>1, <3>2, HolderMoves
    <3>4. Writing(q)
      BY <1>1, WhereAt DEF Last
    <3>. QED  BY <3>3, <3>4 DEF Solo
  <2>. QED  BY <2>2, <2>3
<1>3. Teacher \subseteq Account /\ Student \subseteq Account
  BY DEF Account
<1>. QED  BY <1>1, <1>2, <1>3 DEF Cleared, GivenUp

LEMMA MoverClears ==
  ASSUME BotInv, NEW r \in Request, Begin(r) \/ Work(r), call[r].op = "login",
         pc[r] \in 3 .. 9 => Cleared(r), pc'[r] \in 3 .. 9
  PROVE  Cleared(r)'
<1>. USE DEF BotInv
<1>0. /\ call' = call /\ call[r] \in Calls /\ call[r].chat # Nobody /\ DraftPoint(r)
      /\ pc[r] \in 0 .. 10 /\ pc \in [Request -> 0 .. 10] /\ draft \in [Request -> SUBSET Row]
      /\ target \in [Request -> SUBSET Account] /\ Len(Steps(call[r])) = 9
      /\ Teacher \subseteq Account /\ Student \subseteq Account
  BY OneMoves, CallTyped, WhereAt DEF BotTypeOK, DraftInv, Account, Last
<1>1. CASE InsertUser(r)
  <2>1. LoginAt(r, 2) /\ target' = target /\ pc'[r] = pc[r] + 1
    BY <1>0, <1>1, WhereAt DEF InsertUser, Advance
  <2>2. target'[r] = {} /\ pc'[r] = 3
    BY <2>1, AtUnbind DEF LoginAt
  <2>. QED  BY <2>2 DEF Cleared
<1>2. CASE Scan(r)
  <2>1. LoginAt(r, 4) \/ LoginAt(r, 6)
    BY <1>0, <1>2, WhereAt DEF Scan
  <2>2. draft' = draft /\ holder' = holder
    BY <1>2 DEF Scan
  <2>3. \A a : Seen(r, a)' = Seen(r, a)
    BY <1>0, <2>2 DEF Seen, Wrote
  <2>. DEFINE table == IF pc[r] = 4 THEN Teacher ELSE Student
              rows == {a \in table : Seen(r, a) = call[r].chat}
  <2>4. /\ target'[r] = rows
        /\ pc'[r] = (IF rows = {} THEN pc[r] + 1 ELSE pc[r])
    <3>1. RowsOfChat(r) = rows
      BY <2>1, StepsOfLogin DEF RowsOfChat, Table, LoginAt
    <3>. QED  BY <1>0, <1>2, <3>1 DEF Scan, Advance
  <2>5. CASE pc[r] = 4
    <3>1. CASE rows = {}
      BY <1>0, <2>3, <2>4, <2>5, <3>1 DEF Cleared, GivenUp
    <3>2. CASE rows # {}
      BY <1>0, <2>3, <2>4, <2>5, <3>2 DEF Cleared
    <3>. QED  BY <3>1, <3>2
  <2>6. CASE pc[r] = 6
    <3>0. \A a \in Teacher : Seen(r, a) # call[r].chat
      BY <2>6 DEF Cleared, GivenUp
    <3>1. CASE rows = {}
      BY <1>0, <2>3, <2>4, <2>6, <3>0, <3>1 DEF Cleared, GivenUp
    <3>2. CASE rows # {}
      BY <1>0, <2>3, <2>4, <2>6, <3>0, <3>2 DEF Cleared, GivenUp
    <3>. QED  BY <3>1, <3>2
  <2>. QED  BY <2>1, <2>5, <2>6 DEF LoginAt
<1>3. CASE Unbind(r)
  <2>1. LoginAt(r, 4) \/ LoginAt(r, 6)
    BY <1>0, <1>3, AtUnbind DEF Unbind
  <2>2. PICK a \in target[r] :
          /\ IF Seen(r, a) = call[r].chat THEN HasPlaceholder(r, a) /\ WriteRow(r, a, Nobody)
             ELSE UNCHANGED draft
          /\ target' = [target EXCEPT ![r] = @ \ {a}]
          /\ IF target[r] = {a} THEN Advance(r) ELSE UNCHANGED pc
    BY <1>3 DEF Unbind
  <2>3. /\ a \in Account /\ target[r] # {} /\ target'[r] = target[r] \ {a}
        /\ pc'[r] = (IF target[r] = {a} THEN pc[r] + 1 ELSE pc[r])
    BY <1>0, <2>2 DEF Advance
  \* What the transaction still sees of its chat it saw before, and not in this row.
  <2>4. ASSUME NEW x \in Account, Seen(r, x)' = call[r].chat
        PROVE  x # a /\ Seen(r, x) = call[r].chat
    <3>1. CASE Seen(r, a) = call[r].chat
      <4>1. WriteRow(r, a, Nobody) /\ holder' = holder
        BY <1>3, <2>2, <3>1 DEF Unbind
      <4>2. SeenWritten(r, x, a, Nobody)
        BY <1>0, <2>3, <4>1, RowSeen
      <4>. QED  BY <1>0, <2>4, <4>2 DEF SeenWritten
    <3>2. CASE Seen(r, a) # call[r].chat
      <4>1. draft' = draft /\ holder' = holder
        BY <1>3, <2>2, <3>2 DEF Unbind
      <4>2. \A y : Seen(r, y)' = Seen(r, y)
        BY <4>1 DEF Seen, Wrote
      <4>. QED  BY <2>4, <3>2, <4>2
    <3>. QED  BY <3>1, <3>2
  <2>5. CASE pc[r] = 4
    <3>1. \A x \in Teacher : Seen(r, x)' = call[r].chat => x \in target'[r]
      BY <1>0, <2>3, <2>4, <2>5 DEF Cleared
    <3>. QED  BY <1>0, <2>3, <2>5, <3>1 DEF Cleared, GivenUp
  <2>6. CASE pc[r] = 6
    <3>1. \A x \in Student : Seen(r, x)' = call[r].chat => x \in target'[r]
      BY <1>0, <2>3, <2>4, <2>6 DEF Cleared
    <3>2. \A x \in Teacher : Seen(r, x)' # call[r].chat
      BY <1>0, <2>4, <2>6 DEF Cleared, GivenUp
    <3>. QED  BY <1>0, <2>3, <2>6, <3>1, <3>2 DEF Cleared, GivenUp
  <2>. QED  BY <2>1, <2>5, <2>6 DEF LoginAt
<1>4. CASE Bind(r)
  <2>1. LoginAt(r, 7) /\ pc[r] = 7 /\ pc'[r] = 8 /\ holder' = holder
    BY <1>0, <1>4, WhereAt DEF Bind, Advance, LoginAt
  <2>2. PICK a \in Account : call[r].account = {a} /\ WriteRow(r, a, call[r].chat)
    BY <1>0, <1>4, CallTyped DEF Bind
  <2>3. \A x \in Account : SeenWritten(r, x, a, call[r].chat)
    BY <1>0, <2>1, <2>2, RowSeen
  <2>4. \A x \in Account : Seen(r, x) # call[r].chat
    BY <2>1 DEF Cleared, GivenUp, Account
  <2>5. \A x \in Account : Seen(r, x)' = call[r].chat => call[r].account = {x}
    BY <2>2, <2>3, <2>4 DEF SeenWritten
  <2>. QED  BY <1>0, <2>1, <2>5 DEF Cleared, GivenUp
<1>5. CASE EnterIndex(r)
  <2>1. pc[r] = 8 /\ pc'[r] = 9 /\ draft' = draft /\ holder' = holder
    BY <1>0, <1>5, WhereAt DEF EnterIndex, Advance, LoginAt
  <2>2. \A a : Seen(r, a)' = Seen(r, a)
    BY <1>0, <2>1 DEF Seen, Wrote
  <2>. QED  BY <1>0, <2>1, <2>2 DEF Cleared, GivenUp
<1>6. CASE \/ Begin(r) \/ FindAccount(r) \/ RejectUnbind(r) \/ RejectBind(r) \/ Commit(r)
           \/ AbortDeadlocked(r) \/ StatementFails(r) \/ GetRole(r)
  <2>1. pc'[r] \in {1, 2, 10}
    BY <1>0, <1>6, WhereAt DEF Begin, FindAccount, RejectUnbind, RejectBind, Commit, AbortDeadlocked,
                         StatementFails, GetRole, AskTable, Fail, Return, Advance, LoginAt
  <2>. QED  BY <2>1
<1>7. CASE FindPlaceholders(r) \/ InsertPlaceholders(r)
  <2>1. LoginAt(r, 3) \/ LoginAt(r, 5)
    BY <1>0, <1>7, WhereAt, AtKeep DEF FindPlaceholders, InsertPlaceholders
  <2>2. draft' = draft /\ holder' = holder /\ target' = target
    BY <1>7 DEF FindPlaceholders, InsertPlaceholders
  <2>3. \A a : Seen(r, a)' = Seen(r, a)
    BY <2>2 DEF Seen, Wrote
  <2>4. target'[r] = {} /\ (pc'[r] = pc[r] \/ pc'[r] = pc[r] + 1)
    BY <1>0, <1>7, <2>1, <2>2, AtUnbind DEF FindPlaceholders, InsertPlaceholders, Advance, LoginAt
  <2>5. pc[r] = 5 => \A a \in Teacher : Seen(r, a) # call[r].chat
    BY <1>0 DEF Cleared, GivenUp
  <2>. QED  BY <1>0, <2>1, <2>3, <2>4, <2>5 DEF Cleared, GivenUp, LoginAt
<1>. QED  BY <1>1, <1>2, <1>3, <1>4, <1>5, <1>6, <1>7 DEF Work

LEMMA SoloKept ==
  ASSUME BotInv, SoloInv, NEW r \in Request, Begin(r) \/ Work(r), Witness
  PROVE  SoloInv'
<1>. USE DEF BotInv
<1>1. call' = call
  BY OneMoves
<1>2. ASSUME NEW q \in Request, Solo(call[q].chat)', call[q].op = "login", pc'[q] \in 3 .. 9
      PROVE  Cleared(q)'
  <2>1. call[q].chat \in Chat
    BY CallTyped DEF BotTypeOK
  <2>2. call[q].chat \notin overlapped'
    BY <1>1, <1>2 DEF Solo
  <2>3. Solo(call[q].chat)
    BY <2>1, <2>2, SoloBefore
  <2>4. pc[q] \in 3 .. 9 => Cleared(q)
    BY <1>2, <2>3 DEF SoloInv
  <2>5. CASE q = r
    BY <1>2, <2>4, <2>5, MoverClears
  <2>6. CASE q # r
    <3>1. pc'[q] = pc[q]
      BY <2>6, OneMoves
    <3>. QED  BY <1>2, <2>3, <2>4, <2>6, <3>1, OthersKeepClear
  <2>. QED  BY <2>5, <2>6
<1>3. \A c \in Chat \ overlapped' : \A a, b \in Account : holder'[a] = c /\ holder'[b] = c => a = b
  BY SoloHoldersKept
<1>. QED  BY <1>1, <1>2, <1>3 DEF SoloInv

\* An account in a table is the chat's only one there; beyond that it has one
\* unless two of its own transactions overlapped.
THEOREM OneAccountEach == Spec => []OneAccountPerChat
<1>. DEFINE I == BotInv /\ TableInv /\ SoloInv
<1>1. Init => I
  <2>. SUFFICES ASSUME Init
                PROVE  I
    OBVIOUS
  <2>1. TableInv
    BY DEF Init, TableInv
  <2>2. SoloInv
    BY DEF Init, SoloInv
  <2>. QED  BY <2>1, <2>2, InitDrafts DEF BotInv
<1>2. I /\ [Next]_vars => I'
  <2>. SUFFICES ASSUME I, [Next]_vars
                PROVE  I'
    OBVIOUS
  <2>0. BotInv'
    BY BotInvKept
  <2>1. CASE Next
    BY <2>0, <2>1, TableKept, SoloKept DEF Next
  <2>2. CASE UNCHANGED vars
    <3>. USE <2>2 DEF vars, rowVars
    <3>1. TableInv'
      BY DEF TableInv, Wrote, SameTable
    <3>2. SoloInv'
      BY DEF SoloInv, Solo, Cleared, GivenUp, Seen, Wrote, Writing
    <3>. QED  BY <2>0, <3>1, <3>2
  <2>. QED  BY <2>1, <2>2
<1>3. I => OneAccountPerChat
  <2>. SUFFICES ASSUME I, NEW c \in Chat
                PROVE  /\ \A a, b \in {x \in Account : holder[x] = c} : SameTable(a) = SameTable(b) => a = b
                       /\ Cardinality({x \in Account : holder[x] = c}) > 1 => c \in overlapped
    BY DEF OneAccountPerChat
  <2>. DEFINE held == {x \in Account : holder[x] = c}
  <2>1. \A a, b \in held : SameTable(a) = SameTable(b) => a = b
    BY DEF TableInv
  <2>2. ASSUME c \notin overlapped
        PROVE  ~(Cardinality(held) > 1)
    <3>1. \A a, b \in held : a = b
      BY <2>2 DEF SoloInv
    <3>. HIDE DEF held
    <3>2. CASE held = {}
      BY <3>2, FS_EmptySet
    <3>3. CASE held # {}
      <4>1. PICK a \in held : TRUE
        BY <3>3
      <4>2. held = {a}
        BY <3>1, <4>1
      <4>3. Cardinality({a}) = 1
        BY FS_Singleton
      <4>. QED  BY <4>2, <4>3
    <3>. QED  BY <3>2, <3>3
  <2>. QED  BY <2>1, <2>2
<1>. QED  BY <1>1, <1>2, <1>3, PTL DEF Spec

-----------------------------------------------------------------------------
\* GetRole.

\* What a chat can be, and when it is just a teacher.
LEMMA RolesAre ==
  ASSUME NEW c, NEW h
  PROVE  /\ RolesOf(c, h) \subseteq {"guest", "student", "teacher"}
         /\ "guest" \in RolesOf(c, h) <=> \A a \in Account : h[a] # c
         /\ "student" \in RolesOf(c, h) <=> \E a \in Student : h[a] = c
         /\ "teacher" \in RolesOf(c, h) <=> \E a \in Teacher : h[a] = c
         /\ "guest" \in RolesOf(c, h) \/ "student" \in RolesOf(c, h) \/ RolesOf(c, h) = {"teacher"}
<1>. DEFINE held == {a \in Account : h[a] = c}
            g == IF held = {} THEN {"guest"} ELSE {}
            s == IF held \cap Student # {} THEN {"student"} ELSE {}
            t == IF held \cap Teacher # {} THEN {"teacher"} ELSE {}
<1>1. RolesOf(c, h) = g \cup s \cup t
  BY DEF RolesOf
<1>2. g \subseteq {"guest"} /\ s \subseteq {"student"} /\ t \subseteq {"teacher"}
  OBVIOUS
<1>3. /\ g # {} <=> \A a \in Account : h[a] # c
      /\ s # {} <=> \E a \in Student : h[a] = c
      /\ t # {} <=> \E a \in Teacher : h[a] = c
  BY DEF Account
<1>4. g # {} \/ s # {} \/ t # {}
  BY <1>3 DEF Account
<1>. HIDE DEF g, s, t
<1>. QED  BY <1>1, <1>2, <1>3, <1>4

\* Histories only grow, and see the rows before and after every step of the query.
LEMMA SeenGrows ==
  ASSUME BotTypeOK, Witness, NEW q \in Request
  PROVE  /\ seen[q] \subseteq seen'[q] /\ (moved[q] => moved'[q])
         /\ pc'[q] # 0 /\ call[q].op = "role" /\ pc[q] \in 0 .. 2 =>
              RolesOf(call[q].chat, holder) \cup RolesOf(call[q].chat, holder') \subseteq seen'[q]
         /\ call[q].op = "role" /\ pc[q] = 2 /\ RolesOf(call[q].chat, holder) = {"teacher"} =>
              moved'[q] \/ "student" \notin RolesOf(call[q].chat, holder')
<1>1. call[q].op = "role" => Len(Steps(call[q])) = 2 /\ DOMAIN Steps(call[q]) = {1, 2}
  BY StepsOfRole
<1>2. seen[q] \subseteq seen'[q] /\ (moved[q] => moved'[q])
  BY DEF Witness
<1>3. pc'[q] # 0 /\ call[q].op = "role" /\ pc[q] \in 0 .. 2 =>
        RolesOf(call[q].chat, holder) \cup RolesOf(call[q].chat, holder') \subseteq seen'[q]
  BY <1>1 DEF Witness
<1>4. call[q].op = "role" /\ pc[q] = 2 /\ RolesOf(call[q].chat, holder) = {"teacher"} =>
        moved'[q] \/ "student" \notin RolesOf(call[q].chat, holder')
  BY <1>1 DEF Witness
<1>. QED  BY <1>2, <1>3, <1>4

RoleWords == {"student", "teacher", "guest"}

LEMMA RoleKept ==
  ASSUME BotInv, RoleInv, NEW r \in Request, Begin(r) \/ Work(r), Witness
  PROVE  RoleInv'
<1>. USE DEF BotInv
<1>0. call' = call /\ pc'[r] \in 0 .. 10
  BY OneMoves, Moves
\* The answer of the mover.
<1>1. ASSUME GetRole(r)
      PROVE  /\ call[r].op = "role" /\ pc[r] \in {1, 2} /\ holder' = holder
             /\ \/ pc[r] = 1 /\ pc'[r] = 2 /\ outcome'[r] = outcome[r] /\ ~IsRole(r, Student)
                \/ pc[r] = 1 /\ pc'[r] = 3 /\ outcome'[r] = "student" /\ IsRole(r, Student)
                \/ pc[r] = 2 /\ pc'[r] = 3 /\ outcome'[r] = "teacher" /\ IsRole(r, Teacher)
                \/ pc[r] = 2 /\ pc'[r] = 3 /\ outcome'[r] = "guest" /\ ~IsRole(r, Teacher)
  <2>1. call[r].op = "role" /\ Len(Steps(call[r])) = 2
    BY <1>1, WhereAt DEF GetRole, AskTable, Last
  <2>2. holder' = holder
    BY <1>1 DEF GetRole, AskTable, rowVars
  <2>3. CASE AskTable(r, "students", Student, "student")
    BY <2>1, <2>2, <2>3, WhereAt DEF AskTable, Return, Advance, BotTypeOK
  <2>4. CASE AskTable(r, "teachers", Teacher, "teacher")
    BY <2>1, <2>2, <2>4, WhereAt DEF AskTable, Return, Advance, BotTypeOK
  <2>. QED  BY <1>1, <2>3, <2>4 DEF GetRole
<1>2. ~GetRole(r) => outcome'[r] = outcome[r] \/ outcome'[r] \notin RoleWords
  <2>1. DOMAIN outcome = Request
    BY DEF BotTypeOK
  <2>2. CASE Begin(r) \/ FindAccount(r) \/ InsertUser(r) \/ Scan(r) \/ EnterIndex(r)
    BY <2>1, <2>2 DEF Begin, FindAccount, InsertUser, Scan, EnterIndex, Fail, Return, RoleWords
  <2>3. CASE Unbind(r) \/ Bind(r) \/ RejectBind(r) \/ Commit(r) \/ AbortDeadlocked(r)
    BY <2>1, <2>3 DEF Unbind, Bind, RejectBind, Commit, AbortDeadlocked, Fail, Return, RoleWords
  <2>4. CASE FindPlaceholders(r) \/ InsertPlaceholders(r) \/ RejectUnbind(r) \/ StatementFails(r)
    BY <2>1, <2>4 DEF FindPlaceholders, InsertPlaceholders, RejectUnbind, StatementFails, Fail, Return,
                      RoleWords
  <2>. QED  BY <2>2, <2>3, <2>4 DEF Work
<1>3. ASSUME NEW q \in Request, outcome'[q] \in RoleWords
      PROVE  outcome'[q] \in seen'[q] \/ (outcome'[q] = "guest" /\ moved'[q])
  <2>1. CASE outcome'[q] = outcome[q]
    BY <1>3, <2>1, SeenGrows DEF RoleInv, RoleWasHeld, RoleWords
  <2>2. CASE outcome'[q] # outcome[q]
    <3>1. q = r /\ GetRole(r)
      BY <1>2, <1>3, <2>2, OneMoves
    <3>2. pc'[r] # 0 /\ pc[r] \in 0 .. 2 /\ call[r].op = "role"
      BY <1>1, <3>1
    <3>3. RolesOf(call[r].chat, holder) \subseteq seen'[r]
      BY <3>2, SeenGrows
    <3>4. CASE outcome'[r] = "student" \/ outcome'[r] = "teacher"
      BY <1>1, <2>2, <3>1, <3>3, <3>4, RolesAre DEF IsRole
    <3>5. CASE pc[r] = 2 /\ outcome'[r] = "guest" /\ ~IsRole(r, Teacher)
      <4>1. RolesOf(call[r].chat, holder) # {"teacher"}
        BY <3>5, RolesAre DEF IsRole
      <4>2. "guest" \in seen[r] \/ moved[r]
        BY <3>2, <3>5, <4>1 DEF RoleInv
      <4>. QED  BY <3>1, <3>5, <4>2, SeenGrows
    <3>. QED  BY <1>1, <2>2, <3>1, <3>4, <3>5
  <2>. QED  BY <2>1, <2>2
<1>4. ASSUME NEW q \in Request, call[q].op = "role", pc'[q] = 2
      PROVE  "guest" \in seen'[q] \/ moved'[q] \/ RolesOf(call[q].chat, holder') = {"teacher"}
  <2>1. CASE pc[q] = 2
    <3>1. RolesOf(call[q].chat, holder') \subseteq seen'[q]
      BY <1>4, <2>1, SeenGrows
    <3>2. CASE "guest" \in seen[q] \/ moved[q]
      BY <3>2, SeenGrows
    <3>3. CASE RolesOf(call[q].chat, holder) = {"teacher"}
      BY <1>4, <2>1, <3>1, <3>3, SeenGrows, RolesAre
    <3>. QED  BY <1>4, <2>1, <3>2, <3>3 DEF RoleInv
  <2>2. CASE pc[q] # 2
    <3>1. q = r
      BY <1>4, <2>2, OneMoves
    <3>2. GetRole(r)
      <4>1. CASE Begin(r)
        BY <1>4, <3>1, <4>1 DEF Begin, Advance, BotTypeOK
      <4>2. CASE FindAccount(r) \/ InsertUser(r) \/ Scan(r) \/ Bind(r) \/ EnterIndex(r) \/ RejectBind(r)
        BY <1>4, <3>1, <4>2, WhereAt DEF FindAccount, InsertUser, Scan, Bind, EnterIndex, RejectBind,
                                         LoginAt
      <4>3. CASE Unbind(r) \/ RejectUnbind(r) \/ Commit(r) \/ FindPlaceholders(r) \/ InsertPlaceholders(r)
        BY <1>4, <3>1, <4>3, WhereAt, AtUnbind, AtKeep DEF Unbind, RejectUnbind, Commit,
           FindPlaceholders, InsertPlaceholders, LoginAt
      <4>4. CASE AbortDeadlocked(r) \/ StatementFails(r)
        <5>1. Len(Steps(call[r])) = 2
          BY <1>4, <3>1, StepsOfRole
        <5>. QED  BY <1>4, <3>1, <4>4, <5>1 DEF AbortDeadlocked, StatementFails, Fail, Return, BotTypeOK
      <4>. QED  BY <4>1, <4>2, <4>3, <4>4 DEF Work
    <3>3. pc[r] = 1 /\ ~IsRole(r, Student) /\ holder' = holder
      BY <1>1, <1>4, <2>2, <3>1, <3>2
    <3>4. RolesOf(call[q].chat, holder') \subseteq seen'[q]
      BY <1>4, <3>1, <3>3, SeenGrows
    <3>5. "student" \notin RolesOf(call[q].chat, holder')
      BY <3>1, <3>3, RolesAre DEF IsRole
    <3>. QED  BY <3>4, <3>5, RolesAre
  <2>. QED  BY <2>1, <2>2
<1>. QED  BY <1>0, <1>3, <1>4 DEF RoleInv, RoleWasHeld, RoleWords

\* What GetRole answers was so during the call, save a "guest" whose chat went
\* from a teacher's account to a student's between its two queries.
THEOREM RolesAreTrue == Spec => []RoleWasHeld
<1>1. Init => RoleInv
  BY DEF Init, RoleInv, RoleWasHeld
<1>2. BotInv /\ RoleInv /\ [Next]_vars => RoleInv'
  <2>. SUFFICES ASSUME BotInv, RoleInv, [Next]_vars
                PROVE  RoleInv'
    OBVIOUS
  <2>1. CASE Next
    BY <2>1, RoleKept DEF Next
  <2>2. CASE UNCHANGED vars
    BY <2>2 DEF vars, rowVars, RoleInv, RoleWasHeld
  <2>. QED  BY <2>1, <2>2
<1>3. RoleInv => RoleWasHeld
  BY DEF RoleInv
<1>. QED  BY <1>1, <1>2, <1>3, BotInvHolds, PTL DEF Spec

-----------------------------------------------------------------------------
(***************************************************************************)
(* Who is waited for is open, so those who wait end at one who need not,   *)
(* or in a circle, which the detector breaks.                              *)
(***************************************************************************)

OpenPoint(r) ==
  /\ outcome[r] = "none" <=> pc[r] \in 0 .. Last(r)
  /\ joining[r] # {} => call[r].op # "role" /\ pc[r] \in 1 .. Last(r)
  /\ call[r].op = "login" /\ pc[r] \in 2 .. 9 => call[r].account # {}

OpenInv == \A r \in Request : OpenPoint(r)

\* The statements with which a call goes on, and those with which it returns.
GoesOn(r) ==
  /\ pc[r] \in 0 .. Last(r) - 1
  /\ pc' = pc \/ pc' = [pc EXCEPT ![r] = pc[r] + 1]
  /\ outcome' = outcome
  /\ joining' = joining \/ (Writing(r) /\ \A q \in Request \ {r} : joining'[q] = joining[q])
  /\ call[r].op = "login" /\ pc[r] = 1 => call[r].account # {}

Returns(r) ==
  /\ pc' = [pc EXCEPT ![r] = Last(r) + 1]
  /\ \E result : result # "none" /\ outcome' = [outcome EXCEPT ![r] = result]
  /\ \/ joining' = [joining EXCEPT ![r] = {}]
     \/ call[r].op = "role" /\ joining' = joining

LEMMA GoesOnOrReturns ==
  ASSUME BotTypeOK, DraftInv, OpenInv, NEW r \in Request, Begin(r) \/ Work(r)
  PROVE  GoesOn(r) \/ Returns(r)
<1>. USE DEF GoesOn, Returns
<1>. DEFINE l == Last(r)
<1>0. /\ l \in {2, 5, 9} /\ Len(Steps(call[r])) = l
      /\ pc \in [Request -> 0 .. 10] /\ pc[r] \in 0 .. 10
      /\ call[r].op = "login" => l = 9
  BY WhereAt DEF BotTypeOK, Last
<1>1. CASE Begin(r)
  <2>1. pc[r] = 0 /\ pc' = [pc EXCEPT ![r] = pc[r] + 1] /\ outcome' = outcome /\ joining' = joining
    BY <1>1 DEF Begin, Advance, rowVars
  <2>. QED  BY <1>0, <2>1
<1>2. CASE FindAccount(r)
  <2>1. LoginAt(r, 1)
    BY <1>2, WhereAt DEF FindAccount
  <2>2. CASE call[r].account # {} /\ Advance(r) /\ UNCHANGED <<rowVars, outcome>>
    BY <1>0, <2>1, <2>2 DEF Advance, rowVars, LoginAt
  <2>3. CASE Fail(r)
    BY <1>0, <2>3 DEF Fail, Return, Clear
  <2>. QED  BY <1>2, <2>2, <2>3 DEF FindAccount
<1>3. CASE InsertUser(r) \/ FindPlaceholders(r) \/ InsertPlaceholders(r)
  <2>1. \/ LoginAt(r, 2) \/ LoginAt(r, 3) \/ LoginAt(r, 5)
        \/ call[r].op = "leave" /\ pc[r] \in {1, 3}
    BY <1>3, WhereAt, AtKeep DEF InsertUser, FindPlaceholders, InsertPlaceholders
  <2>2. /\ pc' = pc \/ pc' = [pc EXCEPT ![r] = pc[r] + 1]
        /\ outcome' = outcome
        /\ \A q \in Request \ {r} : joining'[q] = joining[q]
    BY <1>3 DEF InsertUser, FindPlaceholders, InsertPlaceholders, Advance, BotTypeOK
  <2>3. pc[r] \in 0 .. l - 1 /\ ~(call[r].op = "login" /\ pc[r] = 1) /\ Writing(r)
    BY <2>1, WhereAt DEF LoginAt, Last
  <2>. QED  BY <2>2, <2>3
<1>4. CASE Scan(r) \/ Unbind(r)
  <2>1. \/ LoginAt(r, 4) \/ LoginAt(r, 6)
        \/ call[r].op = "leave" /\ pc[r] \in {2, 4}
    BY <1>4, WhereAt, AtUnbind DEF Scan, Unbind
  <2>2. /\ pc' = pc \/ pc' = [pc EXCEPT ![r] = pc[r] + 1]
        /\ outcome' = outcome /\ joining' = joining
    BY <1>4 DEF Scan, Unbind, Advance
  <2>3. pc[r] \in 0 .. l - 1 /\ ~(call[r].op = "login" /\ pc[r] = 1)
    BY <2>1 DEF LoginAt, Last
  <2>. QED  BY <2>2, <2>3
<1>5. CASE Bind(r) \/ EnterIndex(r)
  <2>1. LoginAt(r, 7) \/ LoginAt(r, 8)
    BY <1>5, WhereAt DEF Bind, EnterIndex
  <2>2. pc' = [pc EXCEPT ![r] = pc[r] + 1] /\ outcome' = outcome /\ joining' = joining
    BY <1>5 DEF Bind, EnterIndex, Advance
  <2>. QED  BY <1>0, <2>1, <2>2 DEF LoginAt
<1>6. CASE RejectUnbind(r) \/ RejectBind(r) \/ Commit(r) \/ AbortDeadlocked(r) \/ StatementFails(r)
  BY <1>0, <1>6 DEF RejectUnbind, RejectBind, Commit, AbortDeadlocked, StatementFails, Fail, Return,
                    Clear
<1>7. CASE GetRole(r)
  <2>1. call[r].op = "role" /\ pc[r] \in {1, 2} /\ l = 2
    BY <1>7, WhereAt DEF GetRole, AskTable, Last
  <2>2. joining' = joining
    BY <1>7 DEF GetRole, AskTable, rowVars
  <2>3. \/ \E role \in {"student", "teacher", "guest"} : Return(r, role)
        \/ pc[r] # 2 /\ Advance(r) /\ outcome' = outcome
    BY <1>0, <1>7, <2>1 DEF GetRole, AskTable
  <2>4. CASE \E role \in {"student", "teacher", "guest"} : Return(r, role)
    BY <1>0, <2>1, <2>2, <2>4 DEF Return
  <2>5. CASE pc[r] # 2 /\ Advance(r) /\ outcome' = outcome
    BY <2>1, <2>2, <2>5 DEF Advance
  <2>. QED  BY <2>3, <2>4, <2>5
<1>. QED  BY <1>1, <1>2, <1>3, <1>4, <1>5, <1>6, <1>7 DEF Work

LEMMA OpenKept ==
  ASSUME BotTypeOK, DraftInv, OpenInv, NEW r \in Request, Begin(r) \/ Work(r)
  PROVE  OpenInv'
<1>0. /\ call' = call /\ \A q \in Request : Last(q)' = Last(q)
      /\ pc \in [Request -> 0 .. 10] /\ Last(r) \in {2, 5, 9}
      /\ call[r].op = "login" => Last(r) = 9
      /\ DOMAIN outcome = Request /\ DOMAIN joining = Request
  BY OneMoves, WhereAt DEF BotTypeOK, Last
<1>1. GoesOn(r) \/ Returns(r)
  BY GoesOnOrReturns
<1>2. ASSUME NEW q \in Request \ {r}
      PROVE  OpenPoint(q)'
  <2>1. pc'[q] = pc[q] /\ outcome'[q] = outcome[q] /\ joining'[q] = joining[q]
    BY <1>0, <1>1 DEF GoesOn, Returns
  <2>. QED  BY <1>0, <2>1 DEF OpenInv, OpenPoint
<1>3. CASE GoesOn(r)
  <2>1. /\ pc[r] \in Nat /\ pc[r] < Last(r) /\ (pc'[r] = pc[r] \/ pc'[r] = pc[r] + 1)
        /\ outcome'[r] = outcome[r] /\ outcome[r] = "none"
    BY <1>0, <1>3 DEF GoesOn, OpenInv, OpenPoint
  <2>2. pc'[r] \in 0 .. Last(r)
    BY <1>0, <1>3, <2>1 DEF GoesOn
  <2>3. joining'[r] # {} => call[r].op # "role" /\ pc'[r] \in 1 .. Last(r)
    <3>1. CASE joining' = joining
      BY <1>0, <2>1, <2>2, <3>1, <1>3 DEF OpenInv, OpenPoint, GoesOn
    <3>2. CASE Writing(r)
      BY <1>0, <2>1, <2>2, <3>2, WhereAt
    <3>. QED  BY <1>3, <3>1, <3>2 DEF GoesOn
  <2>4. call[r].op = "login" /\ pc'[r] \in 2 .. 9 => call[r].account # {}
    BY <1>0, <1>3, <2>1 DEF OpenInv, OpenPoint, GoesOn
  <2>. QED  BY <1>0, <1>2, <2>1, <2>2, <2>3, <2>4 DEF OpenInv, OpenPoint
<1>4. CASE Returns(r)
  <2>1. pc'[r] = Last(r) + 1 /\ outcome'[r] # "none"
    BY <1>0, <1>4 DEF Returns
  <2>2. joining'[r] = {}
    BY <1>0, <1>4 DEF Returns, OpenInv, OpenPoint
  <2>. QED  BY <1>0, <1>2, <2>1, <2>2 DEF OpenInv, OpenPoint
<1>. QED  BY <1>1, <1>3, <1>4

\* Whoever keeps another one waiting is in a statement of its own.
LEMMA WaitsForOpen ==
  ASSUME BotTypeOK, DraftInv, OpenInv, NEW r \in Request, NEW q \in WaitsFor(r)
  PROVE  q \in Request /\ pc[q] # 0 /\ outcome[q] = "none"
<1>1. q \in Request /\ (draft[q] # {} \/ joining[q] # {})
  <2>1. \E a : q \in Joining(r, a) \/ q \in RowTaken(r, a) \/ q \in Disputed(r, a)
    <3>1. At(r, "bind") => ~At(r, "user") /\ ~At(r, "index") /\ target[r] = {} /\ keeping[r] = {}
      BY WhereAt, AtUnbind, AtKeep DEF LoginAt
    <3>2. At(r, "index") => ~At(r, "user") /\ ~At(r, "bind") /\ target[r] = {} /\ keeping[r] = {}
      BY WhereAt, AtUnbind, AtKeep DEF LoginAt
    <3>3. target[r] # {} => ~At(r, "user") /\ ~At(r, "bind") /\ ~At(r, "index") /\ keeping[r] = {}
      BY WhereAt, AtUnbind, AtKeep DEF LoginAt
    <3>4. keeping[r] # {} => ~At(r, "user") /\ ~At(r, "bind") /\ ~At(r, "index") /\ target[r] = {}
      BY WhereAt, AtUnbind, AtKeep DEF LoginAt
    <3>5. CASE At(r, "user")
      BY <3>1, <3>2, <3>3, <3>4, <3>5 DEF WaitsFor
    <3>6. CASE target[r] # {}
      <4>1. WaitsFor(r) = UNION {RowTaken(r, a) : a \in target[r]}
        BY <3>3, <3>6 DEF WaitsFor
      <4>. QED  BY <4>1
    <3>7. CASE keeping[r] # {}
      <4>1. WaitsFor(r) = UNION {Joining(r, a) : a \in keeping[r]}
        BY <3>4, <3>7 DEF WaitsFor
      <4>. QED  BY <4>1
    <3>8. CASE At(r, "bind")
      <4>1. WaitsFor(r) = UNION {RowTaken(r, a) : a \in call[r].account}
        BY <3>1, <3>8 DEF WaitsFor
      <4>. QED  BY <4>1
    <3>9. CASE At(r, "index")
      <4>1. WaitsFor(r) = UNION {Disputed(r, a) : a \in call[r].account}
        BY <3>2, <3>9 DEF WaitsFor
      <4>. QED  BY <4>1
    <3>10. CASE /\ ~At(r, "user") /\ target[r] = {} /\ keeping[r] = {}
                /\ ~At(r, "bind") /\ ~At(r, "index")
      BY <3>10 DEF WaitsFor
    <3>. QED  BY <3>5, <3>6, <3>7, <3>8, <3>9, <3>10
  <2>2. \A a : q \in Joining(r, a) => q \in Request /\ joining[q] # {}
    BY DEF Joining
  <2>3. \A a : q \in RowTaken(r, a) \/ q \in Disputed(r, a) => q \in Request /\ draft[q] # {}
    BY DEF RowTaken, Disputed, Wrote
  <2>. QED  BY <2>1, <2>2, <2>3
<1>2. pc[q] \in 1 .. Last(q)
  <2>1. draft[q] # {} => pc[q] \in 1 .. Last(q)
    BY <1>1, WhereAt DEF DraftInv, DraftPoint
  <2>2. joining[q] # {} => pc[q] \in 1 .. Last(q)
    BY <1>1 DEF OpenInv, OpenPoint, Last
  <2>. QED  BY <1>1, <2>1, <2>2
<1>3. Last(q) \in {2, 5, 9}
  BY <1>1, WhereAt
<1>. QED  BY <1>1, <1>2, <1>3 DEF OpenInv, OpenPoint

\* In a set of requests that wait for each other only, some wait in a circle.
LEMMA CircleOfWaiting ==
  ASSUME NEW open \in SUBSET Request, open # {},
         \A r \in open : WaitsFor(r) # {} /\ WaitsFor(r) \subseteq open
  PROVE  \E r \in open : InDeadlock(r)
<1>. DEFINE Closed == {R \in SUBSET open : R # {} /\ \A q \in R : WaitsFor(q) \subseteq R}
<1>1. IsFiniteSet(open)
  BY RequestAssumption, FS_Subset
<1>2. IsWellFoundedOn(StrictSubsetOrdering(open), SUBSET open)
  BY <1>1, FS_StrictSubsetOrderingWellFounded, FS_FiniteSubsetsOfFinite
<1>3. open \in Closed
  OBVIOUS
<1>4. PICK least \in Closed : \A R \in Closed : ~(<<R, least>> \in StrictSubsetOrdering(open))
  <2>. HIDE DEF Closed
  <2>1. Closed \subseteq SUBSET open /\ Closed # {}
    BY <1>3 DEF Closed
  <2>. QED  BY <1>2, <2>1, WFMin
<1>5. PICK r \in least : TRUE
  OBVIOUS
<1>6. ASSUME NEW R \in SUBSET Request, WaitsFor(r) \subseteq R, \A q \in R : WaitsFor(q) \subseteq R
      PROVE  r \in R
  <2>1. R \cap least \in Closed
    BY <1>4, <1>5, <1>6
  <2>2. ~(<<R \cap least, least>> \in StrictSubsetOrdering(open))
    BY <1>4, <2>1
  <2>3. R \cap least = least
    BY <2>2 DEF StrictSubsetOrdering
  <2>. QED  BY <1>5, <2>3
<1>7. r \in open /\ InDeadlock(r)
  BY <1>4, <1>5, <1>6 DEF InDeadlock
<1>. QED  BY <1>7

\* Of the calls that are open one can always go on: one that waits for nobody,
\* or one in a circle of waits.
THEOREM NobodyStandsStill == Spec => []NoStandstill
<1>1. Init => OpenInv
  <2>. SUFFICES ASSUME Init, NEW r \in Request
                PROVE  OpenPoint(r)
    BY DEF OpenInv
  <2>1. Last(r) \in {2, 5, 9}
    BY DEF Last
  <2>. QED  BY <2>1 DEF Init, OpenPoint
<1>2. BotInv /\ OpenInv /\ [Next]_vars => OpenInv'
  <2>. SUFFICES ASSUME BotInv, OpenInv, [Next]_vars
                PROVE  OpenInv'
    OBVIOUS
  <2>1. CASE Next
    BY <2>1, OpenKept DEF Next, BotInv
  <2>2. CASE UNCHANGED vars
    BY <2>2 DEF vars, rowVars, OpenInv, OpenPoint, Last
  <2>. QED  BY <2>1, <2>2
<1>3. BotInv /\ OpenInv => NoStandstill
  <2>. DEFINE open == {r \in Request : pc[r] # 0 /\ outcome[r] = "none"}
  <2>. SUFFICES ASSUME BotInv, OpenInv, open # {}
                PROVE  \E r \in open : CanGoOn(r)
    BY DEF NoStandstill
  <2>0. BotTypeOK /\ DraftInv
    BY DEF BotInv
  <2>1. \A r \in open : WaitsFor(r) \subseteq open
    BY <2>0, WaitsForOpen
  <2>2. CASE \A r \in open : WaitsFor(r) # {}
    <3>1. \E r \in open : InDeadlock(r)
      <4>. HIDE DEF open
      <4>1. open \in SUBSET Request
        BY DEF open
      <4>. QED  BY <2>1, <2>2, <4>1, CircleOfWaiting
    <3>. QED  BY <3>1 DEF CanGoOn
  <2>3. ASSUME NEW r \in open, WaitsFor(r) = {}
        PROVE  CanGoOn(r)
    <3>1. r \in Request /\ pc[r] \in 1 .. Last(r) /\ Last(r) \in {2, 5, 9} /\ OpenPoint(r)
      <4>1. r \in Request /\ pc[r] # 0 /\ outcome[r] = "none"
        BY <2>3
      <4>2. Last(r) \in {2, 5, 9} /\ OpenPoint(r)
        BY <2>0, <4>1, WhereAt DEF OpenInv
      <4>3. pc[r] \in 0 .. Last(r)
        BY <4>1, <4>2 DEF OpenPoint
      <4>. QED  BY <4>1, <4>2, <4>3
    <3>2. call[r].op \in {"login", "leave", "role"}
      BY <2>0, CallTyped DEF BotTypeOK
    <3>3. CASE target[r] # {}
      <4>1. ~At(r, "user") /\ ~At(r, "bind") /\ ~At(r, "index") /\ keeping[r] = {}
        BY <2>0, <3>1, <3>3, AtUnbind, AtKeep, WhereAt DEF LoginAt
      <4>2. WaitsFor(r) = UNION {RowTaken(r, a) : a \in target[r]}
        BY <3>3, <4>1 DEF WaitsFor
      <4>3. \A a \in target[r] : RowTaken(r, a) = {}
        BY <2>3, <4>2
      <4>. QED  BY <3>3, <4>3 DEF CanGoOn
    <3>4. CASE target[r] = {} /\ keeping[r] = {} /\ call[r].op = "login"
      <4>1. pc[r] \in {1, 2, 3, 4, 5, 6, 7, 8, 9}
        BY <3>1, <3>4 DEF Last
      <4>2. LoginAt(r, 7) \/ LoginAt(r, 8) => call[r].account # {}
        BY <3>1 DEF OpenPoint, LoginAt
      <4>. QED  BY <2>0, <2>3, <3>1, <3>4, <4>1, <4>2, WhereAt DEF CanGoOn, LoginAt
    <3>5. CASE target[r] = {} /\ keeping[r] = {} /\ call[r].op = "leave"
      <4>1. pc[r] \in {1, 2, 3, 4, 5}
        BY <3>1, <3>5 DEF Last
      <4>. QED  BY <2>0, <3>1, <3>5, <4>1, WhereAt DEF CanGoOn
    <3>6. CASE target[r] = {} /\ keeping[r] = {} /\ call[r].op = "role"
      <4>1. pc[r] \in {1, 2}
        BY <3>1, <3>6 DEF Last
      <4>. QED  BY <2>0, <3>1, <3>6, <4>1, WhereAt DEF CanGoOn
    <3>7. CASE keeping[r] # {}
      BY <2>3, <3>7 DEF CanGoOn
    <3>. QED  BY <3>2, <3>3, <3>4, <3>5, <3>6, <3>7
  <2>. QED  BY <2>2, <2>3
<1>. QED  BY <1>1, <1>2, <1>3, BotInvHolds, PTL DEF Spec

-----------------------------------------------------------------------------
(***************************************************************************)
(* Homework (BotHomework)                                                  *)
(***************************************************************************)

\* Words, and the texts that have a colon.
Word == STRING \cup {":", "-"}
Headed(t) == t \in Seq(Word) /\ \E i \in 1 .. Len(t) : t[i] = ":"

Entry == [id : Nat, text : {t \in Seq(Word) : Headed(t)}, author : Teacher]
Link == [group : Group, id : Nat]
Saving == {"teacher", "group", "homework", "link", "commit"}

HomeworkTypeOK ==
  /\ hwCall \in [Editor -> HomeworkCalls]
  /\ hwPc \in [Editor -> Saving \cup {"scan", "write", "returned"}]
  /\ nextId \in Nat
  /\ homeworks \subseteq Entry /\ links \subseteq Link /\ statuses \subseteq [student : Pupil, id : Nat]
  /\ hwDraft \in [Editor -> [homeworks : SUBSET Entry, links : SUBSET Link]]
  /\ DOMAIN author = Editor /\ DOMAIN chosen = Editor
  /\ DOMAIN hwOutcome = Editor /\ DOMAIN allowed = Editor

\* What a call has done and knows, by the statement it is at.
SavePoint(r) ==
  /\ hwPc[r] \in Saving => hwCall[r].op = "save"
  /\ hwPc[r] \in {"scan", "write"} => hwCall[r].op # "save"
  /\ hwPc[r] \in {"group", "homework"} => author[r] \in Teacher
  /\ hwPc[r] \in {"homework", "link", "commit"} => hwCall[r].group \in Group
  /\ hwPc[r] \notin {"link", "commit"} => hwDraft[r] = Homework!NoDraft
  /\ hwPc[r] = "link" => hwDraft[r].links = {}
  /\ hwPc[r] = "commit" =>
       /\ \A h \in hwDraft[r].homeworks : \E l \in hwDraft[r].links : l.id = h.id
       /\ \A l \in hwDraft[r].links : \E h \in hwDraft[r].homeworks : l.id = h.id

\* An id is drawn once.
IdInv ==
  /\ \A h \in homeworks : h.id < nextId
  /\ \A h, g \in homeworks : h.id = g.id => h = g
  /\ \A r \in Editor : \A h, g \in hwDraft[r].homeworks : h = g
  /\ \A r \in Editor : \A h \in hwDraft[r].homeworks :
       /\ h.id < nextId /\ \A g \in homeworks : g.id # h.id
       /\ \A q \in Editor \ {r} : \A g \in hwDraft[q].homeworks : g.id # h.id

\* No row without its homework, no homework without its group, and no tick
\* without the group of the student.
RowInv ==
  /\ \A x \in links \cup statuses \cup reminders : \E h \in homeworks : h.id = x.id
  /\ \A h \in homeworks : \E l \in links : l.id = h.id
  /\ \A s \in statuses : [group |-> GroupOf[s.student], id |-> s.id] \in links

\* What a statement has chosen is still so, unless the homework is gone for ever.
ChosenPoint(r) ==
  hwPc[r] = "write" =>
    /\ hwCall[r].op \in {"update", "delete"} => chosen[r] \subseteq {hwCall[r].id}
    /\ hwCall[r].op = "done" /\ chosen[r] # {} =>
         /\ chosen[r] \subseteq Pupil
         /\ hwCall[r].id \in Nat /\ hwCall[r].id < nextId
         /\ \A q \in Editor : \A h \in hwDraft[q].homeworks : h.id # hwCall[r].id
         /\ (\E h \in homeworks : h.id = hwCall[r].id) =>
              \A s \in chosen[r] : [group |-> GroupOf[s], id |-> hwCall[r].id] \in links

PointInv == \A r \in Editor : SavePoint(r) /\ ChosenPoint(r)

HomeworkInv == HomeworkTypeOK /\ PointInv /\ IdInv /\ RowInv

-----------------------------------------------------------------------------
\* Texts.

\* The least of some numbers is one of them.
LEMMA LeastIsMember ==
  ASSUME NEW T, T \subseteq Nat, T # {}
  PROVE  Homework!Min(T) \in T
<1>. DEFINE R == OpToRel(<, Nat)
<1>1. R = {p \in Nat \X Nat : p[1] < p[2]}
  BY DEF OpToRel
<1>2. IsWellFoundedOn(R, Nat)
  BY NatLessThanWellFounded
<1>. HIDE DEF R
<1>3. PICK x \in T : \A y \in T : ~(<<y, x>> \in R)
  BY <1>2, WFMin
<1>4. ASSUME NEW y \in T
      PROVE  x <= y
  <2>1. <<y, x>> \in Nat \X Nat /\ ~(<<y, x>> \in R)
    BY <1>3
  <2>. QED  BY <2>1, <1>1
<1>. QED  BY <1>4 DEF Homework!Min

LEMMA OneWord ==
  ASSUME NEW S, NEW w \in S
  PROVE  <<w>> \in Seq(S) /\ Len(<<w>>) = 1 /\ <<w>>[1] = w
OBVIOUS

LEMMA SeqGrows ==
  ASSUME NEW S, NEW T, S \subseteq T, NEW s \in Seq(S)
  PROVE  s \in Seq(T)
OBVIOUS

\* What a call brings is made of words.
LEMMA CallWords ==
  ASSUME NEW c \in HomeworkCalls
  PROVE  /\ c.op \in {"save", "update", "delete", "done", "remind", "forget"}
         /\ c.subject \in Seq(Word) /\ c.text \in Seq(Word)
BY HomeworkAssumption, SeqGrows DEF Word

\* A new text has a colon after its subject.
LEMMA NewText ==
  ASSUME NEW s \in Seq(Word), NEW t \in Seq(Word)
  PROVE  Headed(s \o <<":">> \o t)
<1>. DEFINE b == s \o <<":">>
<1>1. <<":">> \in Seq(Word) /\ Len(<<":">>) = 1 /\ <<":">>[1] = ":"
  BY OneWord DEF Word
<1>2. b \in Seq(Word) /\ Len(b) = Len(s) + 1 /\ b[Len(s) + 1] = ":" /\ Len(s) \in Nat
  BY <1>1
<1>. HIDE DEF b
<1>3. /\ b \o t \in Seq(Word) /\ Len(b \o t) = Len(s) + 1 + Len(t) /\ Len(t) \in Nat
      /\ (b \o t)[Len(s) + 1] = ":"
  BY <1>2
<1>4. Len(s) + 1 \in 1 .. Len(b \o t)
  BY <1>2, <1>3
<1>. QED  BY <1>3, <1>4 DEF Headed, b

LEMMA NewRow ==
  ASSUME NEW n \in Nat, NEW c \in HomeworkCalls, NEW t \in Teacher
  PROVE  Homework!Row(n, c, t) \in Entry /\ Homework!Row(n, c, t).id = n
<1>. DEFINE text == c.subject \o <<":">> \o c.text
<1>1. text \in Seq(Word) /\ Headed(text)
  BY CallWords, NewText DEF Headed
<1>. HIDE DEF text
<1>2. Homework!Row(n, c, t) = [id |-> n, text |-> text, author |-> t]
  BY DEF Homework!Row, text
<1>. QED  BY <1>1, <1>2 DEF Entry

\* strings.Index and the slice before it: an edit keeps the text up to its first
\* colon.
LEMMA EditKeepsHead ==
  ASSUME NEW t, Headed(t), NEW new \in Seq(Word)
  PROVE  /\ Headed(Homework!Edited(t, new))
         /\ \E n \in DOMAIN t :
              t[n] = ":" /\ SubSeq(Homework!Edited(t, new), 1, n) = SubSeq(t, 1, n)
<1>. DEFINE I == {i \in 1 .. Len(t) : t[i] = ":"}
            n == Homework!Min(I)
            a == SubSeq(t, 1, n)
            e == a \o <<"-">> \o new
<1>1. n \in 1 .. Len(t) /\ t[n] = ":" /\ Len(t) \in Nat /\ DOMAIN t = 1 .. Len(t)
  <2>1. I \subseteq Nat /\ I # {}
    BY DEF Headed
  <2>. HIDE DEF I
  <2>2. n \in I
    BY <2>1, LeastIsMember
  <2>. QED  BY <2>2 DEF I, Headed
<1>2. Homework!Edited(t, new) = e
  BY DEF Headed, Homework!Edited, Homework!Contains, Homework!SelectInSeq
<1>. HIDE DEF n
<1>3. a \in Seq(Word) /\ Len(a) = n /\ \A i \in 1 .. n : a[i] = t[i]
  BY <1>1 DEF Headed
<1>. HIDE DEF a
<1>4. e \in Seq(Word) /\ Len(e) >= n /\ \A i \in 1 .. n : e[i] = a[i]
  <2>. DEFINE b == a \o <<"-">>
  <2>1. <<"-">> \in Seq(Word) /\ Len(<<"-">>) = 1
    BY OneWord DEF Word
  <2>2. b \in Seq(Word) /\ Len(b) = n + 1 /\ \A i \in 1 .. n : b[i] = a[i]
    BY <1>1, <1>3, <2>1
  <2>. HIDE DEF b
  <2>3. /\ b \o new \in Seq(Word) /\ Len(b \o new) = n + 1 + Len(new) /\ Len(new) \in Nat
        /\ \A i \in 1 .. n : (b \o new)[i] = b[i]
    BY <1>1, <2>2
  <2>. QED  BY <1>1, <2>2, <2>3 DEF b
<1>. HIDE DEF e
<1>5. Headed(e)
  BY <1>1, <1>3, <1>4 DEF Headed
<1>6. SubSeq(e, 1, n) = a
  <2>. DEFINE x == SubSeq(e, 1, n)
  <2>1. x \in Seq(Word) /\ Len(x) = n /\ \A i \in 1 .. n : x[i] = e[i]
    BY <1>1, <1>4
  <2>. HIDE DEF x
  <2>2. x \in Seq(Word) /\ Len(x) = Len(a) /\ \A i \in 1 .. Len(a) : x[i] = a[i]
    BY <1>3, <1>4, <2>1
  <2>3. x = a
    BY <1>3, <2>2
  <2>. QED  BY <2>3 DEF x
<1>. QED  BY <1>1, <1>2, <1>5, <1>6 DEF a

\* A bullet is not the last thing to be cut off.
LEMMA TrimmedWords ==
  ASSUME NEW t \in Seq(Word)
  PROVE  Homework!Trimmed(t) \in Seq(Word)
<1>1. t # <<>> => Tail(t) \in Seq(Word)
  OBVIOUS
<1>. QED  BY <1>1 DEF Homework!Trimmed

-----------------------------------------------------------------------------
\* Homework, links and ticks.

LEMMA HomeworkInit == Homework!Init => HomeworkInv
<1>. SUFFICES ASSUME Homework!Init PROVE HomeworkInv
  OBVIOUS
<1>1. PICK g \in Group : links = {[group |-> g, id |-> h.id] : h \in homeworks}
  BY DEF Homework!Init
<1>2. \/ homeworks = {} /\ nextId = 1
      \/ \E h \in Entry : homeworks = {h} /\ nextId = 2 /\ h.id = 1
  <2>1. CASE homeworks = {}
    <3>1. nextId = Cardinality(homeworks) + 1
      BY DEF Homework!Init, Homework!Cardinality, Cardinality
    <3>2. Cardinality(homeworks) = 0
      BY <2>1, FS_EmptySet
    <3>. QED  BY <2>1, <3>1, <3>2
  <2>2. CASE homeworks # {}
    <3>0. homeworks \in {{}} \cup {{Homework!Row(1, c, t)} :
                                 c \in {d \in HomeworkCalls : d.op = "save"}, t \in Teacher}
      BY DEF Homework!Init
    <3>1. PICK c \in HomeworkCalls, t \in Teacher : homeworks = {Homework!Row(1, c, t)}
      BY <2>2, <3>0
    <3>. DEFINE h == Homework!Row(1, c, t)
    <3>3. h \in Entry /\ h.id = 1
      BY NewRow
    <3>. HIDE DEF h
    <3>4. homeworks = {h}
      BY <3>1 DEF h
    <3>5. Cardinality(homeworks) = 1
      BY <3>4, FS_Singleton
    <3>6. nextId = Cardinality(homeworks) + 1
      BY DEF Homework!Init, Homework!Cardinality, Cardinality
    <3>. QED  BY <3>3, <3>4, <3>5, <3>6
  <2>. QED  BY <2>1, <2>2
<1>3. /\ statuses = {} /\ reminders = {} /\ hwDraft = [r \in Editor |-> Homework!NoDraft]
      /\ hwCall \in [Editor -> HomeworkCalls] /\ hwPc = [r \in Editor |-> Homework!First(hwCall[r])]
      /\ author \in [Editor -> {Nobody}] /\ chosen = [r \in Editor |-> {}]
      /\ hwOutcome = [r \in Editor |-> "none"] /\ allowed = [r \in Editor |-> {}]
  BY DEF Homework!Init
<1>4. \A r \in Editor : hwPc[r] = IF hwCall[r].op = "save" THEN "teacher" ELSE "scan"
  BY <1>3 DEF Homework!First
<1>5. HomeworkTypeOK
  <2>1. homeworks \subseteq Entry /\ nextId \in Nat
    <3>. HIDE DEF Entry
    <3>. QED  BY <1>2
  <2>2. links \subseteq Link
    BY <1>1, <2>1 DEF Link, Entry
  <2>3. hwPc \in [Editor -> Saving \cup {"scan", "write", "returned"}]
    BY <1>3, <1>4 DEF Saving
  <2>4. hwDraft \in [Editor -> [homeworks : SUBSET Entry, links : SUBSET Link]]
    BY <1>3 DEF Homework!NoDraft
  <2>. QED  BY <1>3, <2>1, <2>2, <2>3, <2>4 DEF HomeworkTypeOK
<1>6. PointInv
  <2>. SUFFICES ASSUME NEW r \in Editor PROVE SavePoint(r) /\ ChosenPoint(r)
    BY DEF PointInv
  <2>1. hwPc[r] = IF hwCall[r].op = "save" THEN "teacher" ELSE "scan"
    BY <1>4
  <2>2. hwDraft[r] = Homework!NoDraft
    BY <1>3
  <2>. QED  BY <2>1, <2>2 DEF SavePoint, ChosenPoint, Saving
<1>7. IdInv
  BY <1>2, <1>3 DEF IdInv, Homework!NoDraft
<1>8. RowInv
  <2>1. \A l \in links : \E h \in homeworks : h.id = l.id
    BY <1>1
  <2>2. ASSUME NEW h \in homeworks
        PROVE  \E l \in links : l.id = h.id
    <3>1. [group |-> g, id |-> h.id] \in links
      BY <1>1
    <3>. QED  BY <3>1
  <2>. QED  BY <1>3, <2>1, <2>2 DEF RowInv
<1>. QED  BY <1>5, <1>6, <1>7, <1>8 DEF HomeworkInv

\* The steps of a call move nobody else's.
LEMMA EditorAlone ==
  ASSUME HomeworkTypeOK, NEW r \in Editor, Homework!Save(r) \/ Homework!Single(r)
  PROVE  /\ UNCHANGED <<hwHolder, hwUsers, moves>>
         /\ DOMAIN hwOutcome' = Editor
         /\ \A q \in Editor \ {r} :
              /\ hwPc'[q] = hwPc[q] /\ hwDraft'[q] = hwDraft[q] /\ author'[q] = author[q]
              /\ chosen'[q] = chosen[q] /\ hwOutcome'[q] = hwOutcome[q]
<1>. USE DEF HomeworkTypeOK, Homework!accounts, Homework!Goto, Homework!Return
<1>1. CASE Homework!Save(r)
  <2>1. CASE Homework!FindTeacher(r)
    BY <2>1 DEF Homework!FindTeacher
  <2>2. CASE Homework!FindGroup(r)
    BY <2>2 DEF Homework!FindGroup
  <2>3. CASE Homework!InsertHomework(r)
    BY <2>3 DEF Homework!InsertHomework
  <2>4. CASE Homework!InsertLink(r)
    BY <2>4 DEF Homework!InsertLink
  <2>5. CASE Homework!Commit(r)
    BY <2>5 DEF Homework!Commit, Homework!CommitRows
  <2>6. CASE Homework!SaveFails(r)
    BY <2>6 DEF Homework!SaveFails
  <2>. QED  BY <1>1, <2>1, <2>2, <2>3, <2>4, <2>5, <2>6 DEF Homework!Save
<1>2. CASE Homework!Single(r)
  <2>. USE DEF Homework!Done, Homework!Nothing
  <2>1. CASE Homework!Scan(r)
    BY <2>1 DEF Homework!Scan
  <2>2. CASE Homework!Update(r)
    BY <2>2 DEF Homework!Update
  <2>3. CASE Homework!Delete(r)
    BY <2>3 DEF Homework!Delete
  <2>4. CASE Homework!TickOff(r)
    BY <2>4 DEF Homework!TickOff
  <2>5. CASE Homework!Remind(r)
    BY <2>5 DEF Homework!Remind
  <2>6. CASE Homework!Forget(r)
    BY <2>6 DEF Homework!Forget
  <2>7. CASE Homework!StatementFails(r)
    BY <2>7 DEF Homework!StatementFails
  <2>. QED  BY <1>2, <2>1, <2>2, <2>3, <2>4, <2>5, <2>6, <2>7 DEF Homework!Single
<1>. QED  BY <1>1, <1>2

\* A step that returns, or goes on, and touches no row.
LEMMA QuietStep ==
  ASSUME HomeworkInv, NEW r \in Editor, Homework!Save(r) \/ Homework!Single(r), hwCall' = hwCall,
         DOMAIN allowed' = Editor,
         UNCHANGED <<homeworks, links, statuses, nextId>>,
         reminders' \subseteq reminders,
         hwPc' \in [Editor -> Saving \cup {"scan", "write", "returned"}],
         hwDraft' = hwDraft \/ hwDraft' = [hwDraft EXCEPT ![r] = Homework!NoDraft],
         DOMAIN author' = Editor, DOMAIN chosen' = Editor,
         SavePoint(r)', ChosenPoint(r)'
  PROVE  HomeworkInv'
<1>1. HomeworkTypeOK'
  <2>1. hwDraft' \in [Editor -> [homeworks : SUBSET Entry, links : SUBSET Link]]
    BY DEF HomeworkInv, HomeworkTypeOK, Homework!NoDraft
  <2>. QED  BY <2>1, EditorAlone DEF HomeworkInv, HomeworkTypeOK
<1>2. \A q \in Editor : hwDraft'[q].homeworks \subseteq hwDraft[q].homeworks
  BY DEF HomeworkInv, HomeworkTypeOK, Homework!NoDraft
<1>3. PointInv'
  <2>1. ASSUME NEW q \in Editor \ {r}
        PROVE  SavePoint(q)' /\ ChosenPoint(q)'
    <3>1. /\ hwPc'[q] = hwPc[q] /\ hwDraft'[q] = hwDraft[q] /\ author'[q] = author[q]
          /\ chosen'[q] = chosen[q]
      BY EditorAlone DEF HomeworkInv
    <3>2. SavePoint(q) /\ ChosenPoint(q)
      BY DEF HomeworkInv, PointInv
    <3>3. SavePoint(q)'
      BY <3>1, <3>2 DEF SavePoint
    <3>4. ChosenPoint(q)'
      BY <1>2, <3>1, <3>2 DEF ChosenPoint
    <3>. QED  BY <3>3, <3>4
  <2>. QED  BY <2>1 DEF PointInv
<1>4. IdInv'
  BY <1>2 DEF HomeworkInv, IdInv
<1>5. RowInv'
  BY DEF HomeworkInv, RowInv
<1>. QED  BY <1>1, <1>3, <1>4, <1>5 DEF HomeworkInv

\* The statements of SaveForGroup that only look.
LEMMA LookStep ==
  ASSUME HomeworkInv, NEW r \in Editor, hwCall' = hwCall, DOMAIN allowed' = Editor,
         Homework!FindTeacher(r) \/ Homework!FindGroup(r) \/ Homework!SaveFails(r)
           \/ Homework!StatementFails(r)
  PROVE  HomeworkInv'
<1>. USE DEF HomeworkInv, HomeworkTypeOK, Homework!Goto, Homework!Return
<1>0. Homework!Save(r) \/ Homework!Single(r)
  BY DEF Homework!Save, Homework!Single
<1>1. SavePoint(r)
  BY DEF PointInv
<1>2. CASE Homework!FindTeacher(r)
  <2>1. /\ hwPc[r] = "teacher" /\ hwDraft' = hwDraft /\ chosen' = chosen
        /\ UNCHANGED <<homeworks, links, statuses, reminders, nextId>>
    BY <1>2 DEF Homework!FindTeacher, Homework!tables
  <2>2. \/ \E t \in Teacher : author' = [author EXCEPT ![r] = t] /\ hwPc' = [hwPc EXCEPT ![r] = "group"]
        \/ author' = author /\ hwPc' = [hwPc EXCEPT ![r] = "returned"]
    BY <1>2 DEF Homework!FindTeacher
  <2>3. SavePoint(r)' /\ ChosenPoint(r)'
    BY <1>1, <2>1, <2>2 DEF SavePoint, ChosenPoint, Saving
  <2>. QED  BY <1>0, <2>1, <2>2, <2>3, QuietStep DEF Saving
<1>3. CASE Homework!FindGroup(r)
  <2>1. /\ hwPc[r] = "group" /\ hwDraft' = hwDraft /\ chosen' = chosen /\ author' = author
        /\ UNCHANGED <<homeworks, links, statuses, reminders, nextId>>
        /\ \/ hwCall[r].group \in Group /\ hwPc' = [hwPc EXCEPT ![r] = "homework"]
           \/ hwPc' = [hwPc EXCEPT ![r] = "returned"]
    BY <1>3 DEF Homework!FindGroup, Homework!tables
  <2>3. SavePoint(r)' /\ ChosenPoint(r)'
    BY <1>1, <2>1 DEF SavePoint, ChosenPoint, Saving
  <2>. QED  BY <1>0, <2>1, <2>3, QuietStep DEF Saving
<1>4. CASE Homework!SaveFails(r)
  <2>1. /\ hwDraft' = [hwDraft EXCEPT ![r] = Homework!NoDraft] /\ chosen' = chosen /\ author' = author
        /\ UNCHANGED <<homeworks, links, statuses, reminders, nextId>>
        /\ hwPc' = [hwPc EXCEPT ![r] = "returned"]
    BY <1>4 DEF Homework!SaveFails, Homework!tables
  <2>3. SavePoint(r)' /\ ChosenPoint(r)'
    BY <2>1 DEF SavePoint, ChosenPoint, Saving
  <2>. QED  BY <1>0, <2>1, <2>3, QuietStep DEF Saving
<1>5. CASE Homework!StatementFails(r)
  <2>1. /\ hwPc[r] \in {"scan", "write"} /\ hwDraft' = hwDraft /\ chosen' = chosen /\ author' = author
        /\ UNCHANGED <<homeworks, links, statuses, reminders, nextId>>
        /\ hwPc' = [hwPc EXCEPT ![r] = "returned"]
    BY <1>5 DEF Homework!StatementFails, Homework!tables
  <2>3. SavePoint(r)' /\ ChosenPoint(r)'
    BY <1>1, <2>1 DEF SavePoint, ChosenPoint, Saving
  <2>. QED  BY <1>0, <2>1, <2>3, QuietStep DEF Saving
<1>. QED  BY <1>2, <1>3, <1>4, <1>5

\* What a statement chooses from its snapshot.
LEMMA ScanStep ==
  ASSUME HomeworkInv, NEW r \in Editor, hwCall' = hwCall, DOMAIN allowed' = Editor, Homework!Scan(r)
  PROVE  HomeworkInv'
<1>. USE DEF HomeworkInv
<1>1. /\ hwPc[r] = "scan" /\ hwPc' = [hwPc EXCEPT ![r] = "write"]
      /\ chosen' = [chosen EXCEPT ![r] = Homework!Choice(r)]
      /\ UNCHANGED <<homeworks, links, statuses, reminders, nextId, hwDraft, author>>
  BY DEF Homework!Scan, Homework!Goto, Homework!tables
<1>2. hwPc'[r] = "write" /\ chosen'[r] = Homework!Choice(r) /\ SavePoint(r) /\ hwCall[r].op # "save"
  BY <1>1 DEF HomeworkTypeOK, PointInv, SavePoint
<1>3. SavePoint(r)'
  BY <1>1, <1>2 DEF SavePoint, Saving
<1>4. ChosenPoint(r)'
  <2>1. CASE hwCall[r].op \in {"update", "delete"}
    <3>1. Homework!Choice(r) \subseteq {hwCall[r].id}
      BY <2>1 DEF Homework!Choice, Homework!Own
    <3>. QED  BY <1>2, <2>1, <3>1 DEF ChosenPoint
  <2>2. CASE hwCall[r].op = "done"
    <3>1. SUFFICES ASSUME Homework!Choice(r) # {}
                   PROVE  ChosenPoint(r)'
      BY <1>2, <2>2, <3>1 DEF ChosenPoint
    <3>2. /\ hwCall[r].id \in Homework!Ids
          /\ \A s \in Homework!Choice(r) :
               s \in Pupil /\ [group |-> GroupOf[s], id |-> hwCall[r].id] \in links
      BY <2>2, <3>1 DEF Homework!Choice, Homework!Members
    <3>3. PICK h \in homeworks : h.id = hwCall[r].id
      BY <3>2 DEF Homework!Ids
    <3>4. hwCall[r].id \in Nat /\ hwCall[r].id < nextId
      BY <3>3 DEF HomeworkTypeOK, Entry, IdInv
    <3>5. \A q \in Editor : \A g \in hwDraft[q].homeworks : g.id # hwCall[r].id
      BY <3>3 DEF IdInv
    <3>. QED  BY <1>1, <1>2, <2>2, <3>2, <3>4, <3>5 DEF ChosenPoint
  <2>. QED  BY <1>2, <2>1, <2>2 DEF ChosenPoint
<1>. QED  BY <1>1, <1>3, <1>4, QuietStep DEF Homework!Single, HomeworkTypeOK

\* INSERT INTO homeworks: the id is new to every table and transaction.
LEMMA InsertStep ==
  ASSUME HomeworkInv, NEW r \in Editor, hwCall' = hwCall, DOMAIN allowed' = Editor,
         Homework!InsertHomework(r)
  PROVE  HomeworkInv'
<1>. USE DEF HomeworkInv
<1>. DEFINE h == Homework!Row(nextId, hwCall[r], author[r])
<1>1. /\ hwPc[r] = "homework" /\ hwPc' = [hwPc EXCEPT ![r] = "link"] /\ nextId' = nextId + 1
      /\ hwDraft' = [hwDraft EXCEPT ![r].homeworks = {h}]
      /\ UNCHANGED <<homeworks, links, statuses, reminders, author, chosen>>
  BY DEF Homework!InsertHomework, Homework!Goto, Homework!tables
<1>2. Homework!Save(r) \/ Homework!Single(r)
  BY DEF Homework!Save
<1>3. SavePoint(r) /\ hwDraft[r] = Homework!NoDraft
  BY <1>1 DEF PointInv, SavePoint
<1>4. h \in Entry /\ h.id = nextId
  <2>1. author[r] \in Teacher /\ hwCall[r] \in HomeworkCalls /\ nextId \in Nat
    BY <1>1, <1>3 DEF HomeworkTypeOK, SavePoint
  <2>. QED  BY <2>1, NewRow
<1>. HIDE DEF h
<1>5. /\ hwDraft'[r] = [homeworks |-> {h}, links |-> {}]
      /\ \A q \in Editor \ {r} : hwDraft'[q] = hwDraft[q]
  <2>1. /\ hwDraft'[r] = [hwDraft[r] EXCEPT !.homeworks = {h}]
        /\ \A q \in Editor \ {r} : hwDraft'[q] = hwDraft[q]
    BY <1>1 DEF HomeworkTypeOK
  <2>2. hwDraft[r] = [homeworks |-> {}, links |-> {}]
    BY <1>3 DEF Homework!NoDraft
  <2>. QED  BY <2>1, <2>2
<1>6. HomeworkTypeOK'
  <2>1. hwDraft' \in [Editor -> [homeworks : SUBSET Entry, links : SUBSET Link]]
    BY <1>1, <1>4, <1>5 DEF HomeworkTypeOK
  <2>2. DOMAIN hwOutcome' = Editor
    BY <1>2, EditorAlone
  <2>. QED  BY <1>1, <2>1, <2>2 DEF HomeworkTypeOK, Saving
<1>7. PointInv'
  <2>1. SavePoint(r)' /\ ChosenPoint(r)'
    BY <1>1, <1>3, <1>5 DEF HomeworkTypeOK, SavePoint, ChosenPoint, Saving
  <2>2. ASSUME NEW q \in Editor \ {r}
        PROVE  SavePoint(q)' /\ ChosenPoint(q)'
    <3>1. SavePoint(q) /\ ChosenPoint(q) /\ hwPc'[q] = hwPc[q]
      BY <1>1 DEF PointInv, HomeworkTypeOK
    <3>2. SavePoint(q)'
      BY <1>1, <1>5, <3>1 DEF SavePoint
    <3>3. ChosenPoint(q)'
      <4>1. SUFFICES ASSUME hwPc[q] = "write", hwCall[q].op = "done", chosen[q] # {}
                     PROVE  /\ hwCall[q].id < nextId + 1
                            /\ \A p \in Editor : \A g \in hwDraft'[p].homeworks : g.id # hwCall[q].id
        BY <1>1, <3>1 DEF ChosenPoint
      <4>2. /\ hwCall[q].id \in Nat /\ hwCall[q].id < nextId /\ nextId \in Nat
            /\ \A p \in Editor : \A g \in hwDraft[p].homeworks : g.id # hwCall[q].id
        BY <3>1, <4>1 DEF ChosenPoint, HomeworkTypeOK
      <4>. QED  BY <1>4, <1>5, <4>2
    <3>. QED  BY <3>2, <3>3
  <2>. QED  BY <2>1, <2>2 DEF PointInv
<1>8. IdInv'
  <2>1. nextId \in Nat /\ \A g \in homeworks : g.id \in Nat /\ g.id < nextId
    BY DEF HomeworkTypeOK, Entry, IdInv
  <2>2. \A q \in Editor \ {r} : \A g \in hwDraft'[q].homeworks : g.id \in Nat /\ g.id < nextId
    BY <1>5 DEF HomeworkTypeOK, Entry, IdInv
  <2>3. \A q \in Editor : \A g, k \in hwDraft'[q].homeworks : g = k
    BY <1>5 DEF IdInv
  <2>4. ASSUME NEW q \in Editor, NEW g \in hwDraft'[q].homeworks
        PROVE  /\ g.id < nextId + 1 /\ \A k \in homeworks : k.id # g.id
               /\ \A p \in Editor \ {q} : \A k \in hwDraft'[p].homeworks : k.id # g.id
    <3>1. CASE q = r
      BY <1>4, <1>5, <2>1, <2>2, <3>1
    <3>2. CASE q # r
      <4>1. g \in hwDraft[q].homeworks /\ g.id < nextId /\ g.id \in Nat
        BY <1>5, <2>2, <3>2
      <4>2. \A k \in homeworks : k.id # g.id
        BY <4>1 DEF IdInv
      <4>3. \A p \in Editor \ {q, r} : \A k \in hwDraft'[p].homeworks : k.id # g.id
        BY <1>5, <4>1 DEF IdInv
      <4>4. \A k \in hwDraft'[r].homeworks : k.id # g.id
        BY <1>4, <1>5, <2>1, <4>1
      <4>. QED  BY <2>1, <4>1, <4>2, <4>3, <4>4
    <3>. QED  BY <3>1, <3>2
  <2>. QED  BY <1>1, <2>1, <2>3, <2>4 DEF IdInv
<1>9. RowInv'
  BY <1>1 DEF RowInv
<1>. QED  BY <1>6, <1>7, <1>8, <1>9

\* INSERT INTO group_homeworks
LEMMA LinkStep ==
  ASSUME HomeworkInv, NEW r \in Editor, hwCall' = hwCall, DOMAIN allowed' = Editor,
         Homework!InsertLink(r)
  PROVE  HomeworkInv'
<1>. USE DEF HomeworkInv
<1>. DEFINE new == {[group |-> hwCall[r].group, id |-> h.id] : h \in hwDraft[r].homeworks}
<1>1. /\ hwPc[r] = "link" /\ hwPc' = [hwPc EXCEPT ![r] = "commit"]
      /\ hwDraft' = [hwDraft EXCEPT ![r].links = new]
      /\ UNCHANGED <<homeworks, links, statuses, reminders, nextId, author, chosen>>
  BY DEF Homework!InsertLink, Homework!Goto, Homework!tables
<1>2. Homework!Save(r) \/ Homework!Single(r)
  BY DEF Homework!Save
<1>3. hwCall[r].group \in Group /\ hwCall[r].op = "save" /\ hwDraft[r].homeworks \subseteq Entry
  BY <1>1 DEF PointInv, SavePoint, HomeworkTypeOK, Saving
<1>4. /\ new \subseteq Link
      /\ \A h \in hwDraft[r].homeworks : \E l \in new : l.id = h.id
      /\ \A l \in new : \E h \in hwDraft[r].homeworks : l.id = h.id
  <2>1. new \subseteq Link
    BY <1>3 DEF Link, Entry
  <2>2. ASSUME NEW h \in hwDraft[r].homeworks
        PROVE  \E l \in new : l.id = h.id
    <3>1. [group |-> hwCall[r].group, id |-> h.id] \in new
      OBVIOUS
    <3>. QED  BY <3>1
  <2>3. \A l \in new : \E h \in hwDraft[r].homeworks : l.id = h.id
    OBVIOUS
  <2>. QED  BY <2>1, <2>2, <2>3
<1>. HIDE DEF new
<1>5. /\ hwDraft'[r].homeworks = hwDraft[r].homeworks /\ hwDraft'[r].links = new
      /\ \A q \in Editor \ {r} : hwDraft'[q] = hwDraft[q]
      /\ hwDraft' \in [Editor -> [homeworks : SUBSET Entry, links : SUBSET Link]]
  BY <1>1, <1>4 DEF HomeworkTypeOK
<1>6. \A q \in Editor : hwDraft'[q].homeworks = hwDraft[q].homeworks
  BY <1>5
<1>7. HomeworkTypeOK'
  <2>1. DOMAIN hwOutcome' = Editor
    BY <1>2, EditorAlone
  <2>. QED  BY <1>1, <1>5, <2>1 DEF HomeworkTypeOK, Saving
<1>8. PointInv'
  <2>1. SavePoint(r)' /\ ChosenPoint(r)'
    BY <1>1, <1>3, <1>4, <1>5 DEF HomeworkTypeOK, SavePoint, ChosenPoint, Saving
  <2>2. ASSUME NEW q \in Editor \ {r}
        PROVE  SavePoint(q)' /\ ChosenPoint(q)'
    <3>1. SavePoint(q) /\ ChosenPoint(q) /\ hwPc'[q] = hwPc[q]
      BY <1>1 DEF PointInv, HomeworkTypeOK
    <3>2. SavePoint(q)'
      BY <1>1, <1>5, <3>1 DEF SavePoint
    <3>3. ChosenPoint(q)'
      BY <1>1, <1>6, <3>1 DEF ChosenPoint
    <3>. QED  BY <3>2, <3>3
  <2>. QED  BY <2>1, <2>2 DEF PointInv
<1>9. IdInv'
  BY <1>1, <1>6 DEF IdInv
<1>10. RowInv'
  BY <1>1 DEF RowInv
<1>. QED  BY <1>7, <1>8, <1>9, <1>10

\* tx.Commit
LEMMA CommitStep ==
  ASSUME HomeworkInv, NEW r \in Editor, hwCall' = hwCall, DOMAIN allowed' = Editor,
         Homework!Commit(r)
  PROVE  HomeworkInv'
<1>. USE DEF HomeworkInv
<1>1. /\ hwPc[r] = "commit" /\ hwPc' = [hwPc EXCEPT ![r] = "returned"]
      /\ homeworks' = homeworks \cup hwDraft[r].homeworks /\ links' = links \cup hwDraft[r].links
      /\ hwDraft' = [hwDraft EXCEPT ![r] = Homework!NoDraft]
      /\ UNCHANGED <<statuses, reminders, nextId, author, chosen>>
  BY DEF Homework!Commit, Homework!CommitRows, Homework!Return
<1>2. Homework!Save(r) \/ Homework!Single(r)
  BY DEF Homework!Save
<1>3. /\ \A h \in hwDraft[r].homeworks : \E l \in hwDraft[r].links : l.id = h.id
      /\ \A l \in hwDraft[r].links : \E h \in hwDraft[r].homeworks : l.id = h.id
      /\ hwDraft[r].homeworks \subseteq Entry /\ hwDraft[r].links \subseteq Link
  BY <1>1 DEF PointInv, SavePoint, HomeworkTypeOK
<1>4. /\ hwDraft'[r] = [homeworks |-> {}, links |-> {}]
      /\ \A q \in Editor \ {r} : hwDraft'[q] = hwDraft[q]
      /\ hwDraft' \in [Editor -> [homeworks : SUBSET Entry, links : SUBSET Link]]
  BY <1>1 DEF HomeworkTypeOK, Homework!NoDraft
<1>5. HomeworkTypeOK'
  <2>1. DOMAIN hwOutcome' = Editor
    BY <1>2, EditorAlone
  <2>. QED  BY <1>1, <1>3, <1>4, <2>1 DEF HomeworkTypeOK, Saving
<1>6. PointInv'
  <2>1. SavePoint(r)' /\ ChosenPoint(r)'
    BY <1>1, <1>4 DEF HomeworkTypeOK, SavePoint, ChosenPoint, Saving, Homework!NoDraft
  <2>2. ASSUME NEW q \in Editor \ {r}
        PROVE  SavePoint(q)' /\ ChosenPoint(q)'
    <3>1. SavePoint(q) /\ ChosenPoint(q) /\ hwPc'[q] = hwPc[q]
      BY <1>1 DEF PointInv, HomeworkTypeOK
    <3>2. SavePoint(q)'
      BY <1>1, <1>4, <3>1 DEF SavePoint
    <3>3. ChosenPoint(q)'
      <4>1. \A p \in Editor : hwDraft'[p].homeworks \subseteq hwDraft[p].homeworks
        BY <1>4
      <4>. QED  BY <1>1, <3>1, <4>1 DEF ChosenPoint
    <3>. QED  BY <3>2, <3>3
  <2>. QED  BY <2>1, <2>2 DEF PointInv
<1>7. IdInv'
  <2>1. /\ \A h \in hwDraft[r].homeworks : h.id < nextId /\ \A g \in homeworks : g.id # h.id
        /\ \A h, g \in hwDraft[r].homeworks : h = g
    BY DEF IdInv
  <2>2. \A h \in homeworks' : h.id < nextId
    BY <1>1, <2>1 DEF IdInv
  <2>3. \A h, g \in homeworks' : h.id = g.id => h = g
    BY <1>1, <2>1 DEF IdInv
  <2>4. \A q \in Editor : \A h, g \in hwDraft'[q].homeworks : h = g
    BY <1>4 DEF IdInv
  <2>5. ASSUME NEW q \in Editor, NEW h \in hwDraft'[q].homeworks
        PROVE  /\ h.id < nextId /\ \A g \in homeworks' : g.id # h.id
               /\ \A p \in Editor \ {q} : \A g \in hwDraft'[p].homeworks : g.id # h.id
    BY <1>1, <1>4 DEF IdInv
  <2>. QED  BY <1>1, <2>2, <2>3, <2>4, <2>5 DEF IdInv
<1>8. RowInv'
  BY <1>1, <1>3 DEF RowInv
<1>. QED  BY <1>5, <1>6, <1>7, <1>8

\* What no statement but the writing of a row can change, for the calls in flight.
LEMMA OthersKeep ==
  ASSUME HomeworkInv, NEW r \in Editor, Homework!Single(r), hwCall' = hwCall,
         DOMAIN allowed' = Editor, hwPc' = [hwPc EXCEPT ![r] = "returned"],
         hwPc[r] = "write",
         UNCHANGED <<nextId, hwDraft, author, chosen>>,
         homeworks' \subseteq Entry, links' \subseteq links,
         statuses' \subseteq [student : Pupil, id : Nat],
         \A k \in homeworks' : \E h \in homeworks : h.id = k.id,
         \A l \in links \ links' : \A k \in homeworks' : k.id # l.id
  PROVE  HomeworkTypeOK' /\ PointInv'
<1>. USE DEF HomeworkInv
<1>1. HomeworkTypeOK'
  BY EditorAlone DEF HomeworkTypeOK
<1>2. ASSUME NEW q \in Editor
      PROVE  SavePoint(q)'
  <2>1. SavePoint(q) /\ (hwPc'[q] = hwPc[q] \/ (q = r /\ hwPc'[q] = "returned"))
    BY DEF PointInv, HomeworkTypeOK
  <2>. QED  BY <2>1 DEF SavePoint, Saving
<1>3. ASSUME NEW q \in Editor
      PROVE  ChosenPoint(q)'
  <2>1. SUFFICES ASSUME hwPc'[q] = "write"
                 PROVE  ChosenPoint(q)'
    BY DEF ChosenPoint
  <2>2. ChosenPoint(q) /\ hwPc[q] = "write"
    BY <2>1 DEF PointInv, HomeworkTypeOK
  <2>3. ASSUME hwCall[q].op = "done", chosen[q] # {}, NEW k \in homeworks', k.id = hwCall[q].id,
               NEW s \in chosen[q]
        PROVE  [group |-> GroupOf[s], id |-> hwCall[q].id] \in links'
    <3>. DEFINE l == [group |-> GroupOf[s], id |-> hwCall[q].id]
    <3>1. l \in links
      BY <2>2, <2>3 DEF ChosenPoint
    <3>2. l.id = k.id
      BY <2>3
    <3>. QED  BY <3>1, <3>2
  <2>. QED  BY <2>2, <2>3 DEF ChosenPoint
<1>. QED  BY <1>1, <1>2, <1>3 DEF PointInv

\* UPDATE homeworks
LEMMA UpdateStep ==
  ASSUME HomeworkInv, NEW r \in Editor, hwCall' = hwCall, DOMAIN allowed' = Editor,
         Homework!Update(r)
  PROVE  HomeworkInv'
<1>. USE DEF HomeworkInv
<1>. DEFINE live == chosen[r] \cap Homework!Ids
            new == Homework!Trimmed(hwCall[r].text)
            row(h) == IF h.id \in live THEN [h EXCEPT !.text = Homework!Edited(h.text, new)] ELSE h
<1>1. /\ hwPc[r] = "write" /\ hwPc' = [hwPc EXCEPT ![r] = "returned"] /\ hwCall[r].op = "update"
      /\ homeworks' = homeworks \/ homeworks' = {row(h) : h \in homeworks}
      /\ UNCHANGED <<links, statuses, reminders, nextId, hwDraft, author, chosen>>
  BY DEF Homework!Update, Homework!Nothing, Homework!Done, Homework!Return, Homework!tables
<1>2. Homework!Single(r)
  BY DEF Homework!Single
<1>3. \A h \in homeworks : row(h) \in Entry /\ row(h).id = h.id
  <2>1. SUFFICES ASSUME NEW h \in homeworks PROVE row(h) \in Entry /\ row(h).id = h.id
    OBVIOUS
  <2>2. h \in Entry
    BY DEF HomeworkTypeOK
  <2>3. new \in Seq(Word)
    BY CallWords, TrimmedWords DEF HomeworkTypeOK
  <2>. HIDE DEF new
  <2>4. Headed(Homework!Edited(h.text, new)) /\ Homework!Edited(h.text, new) \in Seq(Word)
    BY <2>2, <2>3, EditKeepsHead DEF Entry, Headed
  <2>. QED  BY <2>2, <2>4 DEF Entry
<1>. HIDE DEF row
<1>4. /\ homeworks' \subseteq Entry
      /\ \A k \in homeworks' : \E h \in homeworks : h.id = k.id
      /\ \A h \in homeworks : \E k \in homeworks' : k.id = h.id
      /\ \A k, g \in homeworks' : k.id = g.id => k = g
  <2>1. CASE homeworks' = homeworks
    BY <2>1 DEF HomeworkTypeOK, IdInv
  <2>2. CASE homeworks' = {row(h) : h \in homeworks}
    <3>1. homeworks' \subseteq Entry /\ \A k \in homeworks' : \E h \in homeworks : h.id = k.id
      BY <1>3, <2>2
    <3>2. \A h \in homeworks : \E k \in homeworks' : k.id = h.id
      <4>1. \A h \in homeworks : row(h) \in homeworks'
        BY <2>2
      <4>. QED  BY <1>3, <4>1
    <3>3. ASSUME NEW k \in homeworks', NEW g \in homeworks', k.id = g.id
          PROVE  k = g
      <4>1. PICK h \in homeworks, j \in homeworks : k = row(h) /\ g = row(j)
        BY <2>2
      <4>2. h.id = j.id
        BY <1>3, <3>3, <4>1
      <4>3. h = j
        BY <4>2 DEF IdInv
      <4>. QED  BY <4>1, <4>3
    <3>. QED  BY <3>1, <3>2, <3>3
  <2>. QED  BY <1>1, <2>1, <2>2
<1>5. HomeworkTypeOK' /\ PointInv'
  BY <1>1, <1>2, <1>4, OthersKeep DEF HomeworkTypeOK
<1>6. IdInv'
  BY <1>1, <1>4 DEF IdInv
<1>7. RowInv'
  <2>1. \A x \in links \cup statuses \cup reminders : \E h \in homeworks' : h.id = x.id
    <3>1. ASSUME NEW x \in links \cup statuses \cup reminders
          PROVE  \E k \in homeworks' : k.id = x.id
      <4>1. PICK h \in homeworks : h.id = x.id
        BY DEF RowInv
      <4>. QED  BY <1>4, <4>1
    <3>. QED  BY <3>1
  <2>2. ASSUME NEW k \in homeworks'
        PROVE  \E l \in links : l.id = k.id
    <3>1. PICK h \in homeworks : h.id = k.id
      BY <1>4
    <3>2. PICK l \in links : l.id = h.id
      BY DEF RowInv
    <3>. QED  BY <3>1, <3>2
  <2>3. \A s \in statuses : [group |-> GroupOf[s.student], id |-> s.id] \in links
    BY DEF RowInv
  <2>. QED  BY <1>1, <2>1, <2>2, <2>3 DEF RowInv
<1>. QED  BY <1>5, <1>6, <1>7

\* DELETE FROM homeworks, and ON DELETE CASCADE
LEMMA DeleteStep ==
  ASSUME HomeworkInv, NEW r \in Editor, hwCall' = hwCall, DOMAIN allowed' = Editor,
         Homework!Delete(r)
  PROVE  HomeworkInv'
<1>. USE DEF HomeworkInv
<1>. DEFINE Removed(gone) ==
       /\ homeworks' = {h \in homeworks : h.id \notin gone}
       /\ links' = {l \in links : l.id \notin gone} /\ statuses' = {s \in statuses : s.id \notin gone}
       /\ reminders' = {n \in reminders : n.id \notin gone}
<1>0. /\ hwPc[r] = "write" /\ hwPc' = [hwPc EXCEPT ![r] = "returned"]
      /\ UNCHANGED <<nextId, hwDraft, author, chosen>>
  BY DEF Homework!Delete, Homework!Nothing, Homework!Done, Homework!Return
<1>1. PICK gone : Removed(gone)
  <2>1. UNCHANGED <<homeworks, links, statuses, reminders>> => Removed({})
    OBVIOUS
  <2>2. \/ UNCHANGED <<homeworks, links, statuses, reminders>>
        \/ Removed(chosen[r] \cap Homework!Ids)
    BY DEF Homework!Delete, Homework!Nothing, Homework!Cascade, Homework!tables
  <2>. HIDE DEF Removed
  <2>. QED  BY <2>1, <2>2
<1>2. Homework!Single(r)
  BY DEF Homework!Single
<1>3. /\ homeworks' \subseteq homeworks /\ links' \subseteq links /\ statuses' \subseteq statuses
      /\ \A l \in links \ links' : \A k \in homeworks' : k.id # l.id
  BY <1>1
<1>4. HomeworkTypeOK' /\ PointInv'
  BY <1>0, <1>1, <1>2, <1>3, OthersKeep DEF HomeworkTypeOK
<1>5. IdInv'
  BY <1>0, <1>1, <1>3 DEF IdInv
<1>6. RowInv'
  <2>1. ASSUME NEW x \in links' \cup statuses' \cup reminders'
        PROVE  \E h \in homeworks' : h.id = x.id
    <3>1. x \in links \cup statuses \cup reminders /\ x.id \notin gone
      BY <1>1
    <3>. QED  BY <1>1, <3>1 DEF RowInv
  <2>2. ASSUME NEW h \in homeworks'
        PROVE  \E l \in links' : l.id = h.id
    <3>1. h \in homeworks /\ h.id \notin gone
      BY <1>1
    <3>. QED  BY <1>1, <3>1 DEF RowInv
  <2>3. ASSUME NEW s \in statuses'
        PROVE  [group |-> GroupOf[s.student], id |-> s.id] \in links'
    <3>1. s \in statuses /\ s.id \notin gone
      BY <1>1
    <3>. QED  BY <1>1, <3>1 DEF RowInv
  <2>. QED  BY <2>1, <2>2, <2>3 DEF RowInv
<1>. QED  BY <1>4, <1>5, <1>6

\* UpdateStatus, for the students and the link that the snapshot has shown.
LEMMA TickStep ==
  ASSUME HomeworkInv, NEW r \in Editor, hwCall' = hwCall, DOMAIN allowed' = Editor,
         Homework!TickOff(r)
  PROVE  HomeworkInv'
<1>. USE DEF HomeworkInv
<1>. DEFINE new == {[student |-> s, id |-> hwCall[r].id] : s \in chosen[r]}
<1>1. /\ hwPc[r] = "write" /\ hwPc' = [hwPc EXCEPT ![r] = "returned"] /\ hwCall[r].op = "done"
      /\ UNCHANGED <<homeworks, links, reminders, nextId, hwDraft, author, chosen>>
      /\ \/ statuses' = statuses
         \/ chosen[r] # {} /\ hwCall[r].id \in Homework!Ids /\ statuses' = statuses \cup new
  BY DEF Homework!TickOff, Homework!Nothing, Homework!Done, Homework!Return, Homework!tables
<1>2. Homework!Single(r) /\ ChosenPoint(r)
  BY DEF Homework!Single, PointInv
<1>3. \/ statuses' = statuses
      \/ /\ statuses' = statuses \cup new /\ new \subseteq [student : Pupil, id : Nat]
         /\ \A s \in new : /\ [group |-> GroupOf[s.student], id |-> s.id] \in links
                           /\ \E h \in homeworks : h.id = s.id
  <2>1. CASE chosen[r] # {} /\ hwCall[r].id \in Homework!Ids
    <3>1. /\ hwCall[r].id \in Nat /\ chosen[r] \subseteq Pupil
          /\ \E h \in homeworks : h.id = hwCall[r].id
          /\ \A s \in chosen[r] : [group |-> GroupOf[s], id |-> hwCall[r].id] \in links
      BY <1>1, <1>2, <2>1 DEF ChosenPoint, Homework!Ids
    <3>. QED  BY <1>1, <3>1
  <2>. QED  BY <1>1, <2>1
<1>. HIDE DEF new
<1>4. HomeworkTypeOK' /\ PointInv'
  <2>1. homeworks' \subseteq Entry /\ links' \subseteq links /\ statuses' \subseteq [student : Pupil, id : Nat]
    BY <1>1, <1>3 DEF HomeworkTypeOK
  <2>. QED  BY <1>1, <1>2, <2>1, OthersKeep
<1>5. IdInv'
  BY <1>1 DEF IdInv
<1>6. RowInv'
  BY <1>1, <1>3 DEF RowInv
<1>. QED  BY <1>4, <1>5, <1>6

\* AddNotification, for homework that exists, and DeleteNotification.
LEMMA ReminderStep ==
  ASSUME HomeworkInv, NEW r \in Editor, hwCall' = hwCall, DOMAIN allowed' = Editor,
         Homework!Remind(r) \/ Homework!Forget(r)
  PROVE  HomeworkInv'
<1>. USE DEF HomeworkInv
<1>1. /\ hwPc[r] = "write" /\ hwPc' = [hwPc EXCEPT ![r] = "returned"]
      /\ UNCHANGED <<homeworks, links, statuses, nextId, hwDraft, author, chosen>>
  BY DEF Homework!Remind, Homework!Forget, Homework!Done, Homework!Return, Homework!tables
<1>2. Homework!Single(r)
  BY DEF Homework!Single
<1>3. \A n \in reminders' : n \in reminders \/ \E h \in homeworks : h.id = n.id
  <2>1. CASE Homework!Remind(r)
    BY <2>1 DEF Homework!Remind, Homework!Ids, Homework!tables
  <2>2. CASE Homework!Forget(r)
    BY <2>2 DEF Homework!Forget
  <2>. QED  BY <2>1, <2>2
<1>4. HomeworkTypeOK' /\ PointInv'
  <2>1. homeworks' \subseteq Entry /\ links' \subseteq links /\ statuses' \subseteq [student : Pupil, id : Nat]
    BY <1>1 DEF HomeworkTypeOK
  <2>. QED  BY <1>1, <1>2, <2>1, OthersKeep
<1>5. IdInv'
  BY <1>1 DEF IdInv
<1>6. RowInv'
  BY <1>1, <1>3 DEF RowInv
<1>. QED  BY <1>4, <1>5, <1>6

LEMMA HomeworkStep == HomeworkInv /\ [Homework!Next]_(Homework!vars) => HomeworkInv'
<1>. SUFFICES ASSUME HomeworkInv, [Homework!Next]_(Homework!vars) PROVE HomeworkInv'
  OBVIOUS
<1>0. ASSUME UNCHANGED <<homeworks, links, statuses, reminders, nextId, hwDraft, hwCall, hwPc,
                         author, chosen, hwOutcome>>, DOMAIN allowed' = Editor
      PROVE  HomeworkInv'
  <2>1. HomeworkTypeOK'
    BY <1>0 DEF HomeworkInv, HomeworkTypeOK
  <2>2. PointInv'
    BY <1>0 DEF HomeworkInv, PointInv, SavePoint, ChosenPoint
  <2>3. IdInv' /\ RowInv'
    BY <1>0 DEF HomeworkInv, IdInv, RowInv
  <2>. QED  BY <2>1, <2>2, <2>3 DEF HomeworkInv
<1>1. CASE UNCHANGED Homework!vars
  BY <1>0, <1>1 DEF Homework!vars, Homework!tables, HomeworkInv, HomeworkTypeOK
<1>2. CASE Homework!Next
  <2>1. hwCall' = hwCall /\ DOMAIN allowed' = Editor
    BY <1>2 DEF Homework!Next, Homework!Witness
  <2>2. CASE Homework!Move
    <3>1. UNCHANGED <<homeworks, links, statuses, reminders, nextId, hwDraft, hwPc, author, chosen, hwOutcome>>
      BY <2>2 DEF Homework!Move, Homework!tables
    <3>. QED  BY <1>0, <2>1, <3>1
  <2>3. ASSUME NEW r \in Editor, Homework!Save(r) PROVE HomeworkInv'
    BY <2>1, <2>3, LookStep, InsertStep, LinkStep, CommitStep DEF Homework!Save
  <2>4. ASSUME NEW r \in Editor, Homework!Single(r) PROVE HomeworkInv'
    BY <2>1, <2>4, ScanStep, LookStep, UpdateStep, DeleteStep, TickStep, ReminderStep DEF Homework!Single
  <2>. QED  BY <1>2, <2>2, <2>3, <2>4 DEF Homework!Next
<1>. QED  BY <1>1, <1>2

LEMMA HomeworkCorrect == Homework!Spec => []HomeworkInv
BY HomeworkInit, HomeworkStep, PTL DEF Homework!Spec

LEMMA RowsBelongHere == HomeworkInv => RowsBelong
<1>. SUFFICES ASSUME HomeworkInv PROVE RowsBelong
  OBVIOUS
<1>1. \A x \in links \cup statuses \cup reminders : x.id \in Homework!Ids
  BY DEF HomeworkInv, RowInv, Homework!Ids
<1>2. ASSUME NEW s \in statuses, hwHolder[s.student] # Nobody
      PROVE  [id |-> s.id, done |-> TRUE] \in Homework!ListForUser(hwHolder[s.student])
  <2>. DEFINE c == hwHolder[s.student]
              l == [group |-> GroupOf[s.student], id |-> s.id]
              line(t, k) == [id |-> k.id, done |-> [student |-> t, id |-> k.id] \in statuses]
              shown(t) == {line(t, k) : k \in {j \in links : j.group = GroupOf[t] /\ j.id \in Homework!Ids}}
              row == line(s.student, l)
  <2>1. s.student \in Pupil /\ s = [student |-> s.student, id |-> s.id]
    BY DEF HomeworkInv, HomeworkTypeOK
  <2>2. l \in links /\ l.id \in Homework!Ids /\ l.group = GroupOf[s.student] /\ l.id = s.id
    BY <1>1 DEF HomeworkInv, RowInv
  <2>3. row \in shown(s.student)
    <3>. HIDE DEF l, line
    <3>. QED  BY <2>2
  <2>4. row = [id |-> s.id, done |-> TRUE]
    <3>1. ([student |-> s.student, id |-> l.id] \in statuses) = TRUE
      BY <2>1, <2>2
    <3>. QED  BY <2>2, <3>1
  <2>5. Homework!ListForUser(c) = UNION {shown(t) : t \in {u \in Pupil : hwHolder[u] = c}}
    BY DEF Homework!ListForUser
  <2>. HIDE DEF row, shown
  <2>6. row \in UNION {shown(t) : t \in {u \in Pupil : hwHolder[u] = c}}
    BY <2>1, <2>3
  <2>. QED  BY <2>4, <2>5, <2>6
<1>3. ASSUME NEW h \in homeworks
      PROVE  h.id \in Homework!ListForTeacher(hwHolder[h.author])
  <2>1. h \in {k \in homeworks : hwHolder[k.author] = hwHolder[h.author] /\ \E l \in links : l.id = k.id}
    BY DEF HomeworkInv, RowInv
  <2>. QED  BY <2>1 DEF Homework!ListForTeacher
<1>. QED  BY <1>1, <1>2, <1>3 DEF RowsBelong, Homework!RowsBelong

\* homework_repository.go: the tables of homework agree, for any number of calls,
\* chats and students, and however deletions race with ticks and reminders.
THEOREM HomeworkRowsBelong == Homework!Spec => []RowsBelong
BY HomeworkCorrect, RowsBelongHere, PTL

-----------------------------------------------------------------------------
\* Answers, and who may change homework.

\* What a call has seen of its own right to ask, by the statement it is at.
RightPoint(r) ==
  /\ hwPc[r] = "group" /\ hwCall[r].group \in Group => TRUE \in allowed[r]
  /\ hwPc[r] \in {"homework", "link", "commit"} => TRUE \in allowed[r]
  /\ hwPc[r] = "write" /\ hwCall[r].op \in {"update", "delete", "done"} =>
       (IF chosen[r] = {} THEN FALSE ELSE TRUE) \in allowed[r]
  /\ hwPc[r] = "write" /\ hwCall[r].op \in {"remind", "forget"} => TRUE \in allowed[r]
  /\ hwOutcome[r] = "ok" => TRUE \in allowed[r]
  /\ hwOutcome[r] = "missing" => FALSE \in allowed[r]

RightInv == \A r \in Editor : RightPoint(r)

LEMMA EntitledIs ==
  ASSUME NEW r \in Editor
  PROVE  /\ hwCall[r].op \in {"update", "delete"} =>
              Homework!Entitled(r) = (\E h \in homeworks : Homework!Own(r, h))
         /\ hwCall[r].op = "done" =>
              Homework!Entitled(r) = (Homework!Members(r) # {} /\ hwCall[r].id \in Homework!Ids)
         /\ hwCall[r].op = "save" =>
              Homework!Entitled(r) =
                (hwCall[r].group \in Group /\ \E t \in Teacher : hwHolder[t] = hwCall[r].chat)
         /\ hwCall[r].op \in {"remind", "forget"} => Homework!Entitled(r) = TRUE
BY DEF Homework!Entitled

\* A step that does not leave a call at its first statement witnesses its right.
LEMMA Witnessed ==
  ASSUME NEW r \in Editor, Homework!Witness, hwPc[r] # "returned",
         hwPc'[r] # Homework!First(hwCall[r])
  PROVE  allowed'[r] = allowed[r] \cup {Homework!Entitled(r)}
BY DEF Homework!Witness

\* What has been witnessed stays so.
LEMMA NothingUnseen ==
  ASSUME Homework!Witness, NEW r \in Editor
  PROVE  allowed[r] \subseteq allowed'[r]
BY DEF Homework!Witness

\* The calls that a step is not of.
LEMMA RightKept ==
  ASSUME RightInv, Homework!Witness, NEW q \in Editor, hwCall' = hwCall,
         hwPc'[q] = hwPc[q], chosen'[q] = chosen[q], hwOutcome'[q] = hwOutcome[q]
  PROVE  RightPoint(q)'
<1>1. allowed[q] \subseteq allowed'[q] /\ RightPoint(q)
  BY NothingUnseen DEF RightInv
<1>. QED  BY <1>1 DEF RightPoint

\* SaveForGroup
LEMMA SaveRight ==
  ASSUME HomeworkInv, RightInv, Homework!Witness, NEW r \in Editor, hwCall' = hwCall,
         Homework!Save(r)
  PROVE  RightPoint(r)'
<1>. USE DEF Saving, Homework!Goto, Homework!Return
<1>1. /\ DOMAIN hwPc = Editor /\ DOMAIN hwOutcome = Editor /\ RightPoint(r)
      /\ allowed[r] \subseteq allowed'[r] /\ SavePoint(r)
  BY NothingUnseen DEF HomeworkInv, HomeworkTypeOK, RightInv, PointInv
<1>2. hwPc[r] \in Saving => hwCall[r].op = "save" /\ Homework!First(hwCall[r]) = "teacher"
  BY <1>1 DEF SavePoint, Homework!First
<1>3. hwPc[r] = "teacher" /\ hwPc'[r] # "teacher" =>
        allowed'[r] = allowed[r] \cup {Homework!Entitled(r)}
  BY <1>2, Witnessed
<1>4. CASE Homework!FindTeacher(r)
  <2>1. CASE \A t \in Teacher : hwHolder[t] # hwCall[r].chat
    <3>1. hwPc[r] = "teacher" /\ hwPc'[r] = "returned" /\ hwOutcome'[r] = "missing"
      BY <1>1, <1>4, <2>1 DEF Homework!FindTeacher
    <3>2. Homework!Entitled(r) = FALSE
      BY <1>2, <2>1, <3>1, EntitledIs
    <3>. QED  BY <1>3, <3>1, <3>2 DEF RightPoint
  <2>2. CASE \E t \in Teacher : hwHolder[t] = hwCall[r].chat
    <3>1. hwPc[r] = "teacher" /\ hwPc'[r] = "group" /\ hwOutcome' = hwOutcome
      BY <1>1, <1>4, <2>2 DEF Homework!FindTeacher
    <3>2. hwCall[r].group \in Group => Homework!Entitled(r) = TRUE
      BY <1>2, <2>2, <3>1, EntitledIs
    <3>. QED  BY <1>1, <1>3, <3>1, <3>2 DEF RightPoint
  <2>. QED  BY <2>1, <2>2
<1>5. CASE Homework!FindGroup(r)
  <2>1. CASE hwCall[r].group \in Group
    <3>1. hwPc[r] = "group" /\ hwPc'[r] = "homework" /\ hwOutcome' = hwOutcome
      BY <1>1, <1>5, <2>1 DEF Homework!FindGroup
    <3>. QED  BY <1>1, <2>1, <3>1 DEF RightPoint
  <2>2. CASE hwCall[r].group \notin Group
    <3>1. hwPc[r] = "group" /\ hwPc'[r] = "returned" /\ hwOutcome'[r] = "missing"
      BY <1>1, <1>5, <2>2 DEF Homework!FindGroup
    <3>2. Homework!Entitled(r) = FALSE
      BY <1>2, <2>2, <3>1, EntitledIs
    <3>3. allowed'[r] = allowed[r] \cup {Homework!Entitled(r)}
      BY <1>2, <3>1, Witnessed
    <3>. QED  BY <3>1, <3>2, <3>3 DEF RightPoint
  <2>. QED  BY <2>1, <2>2
<1>6. CASE Homework!InsertHomework(r) \/ Homework!InsertLink(r)
  <2>1. /\ hwPc[r] \in {"homework", "link"} /\ hwPc'[r] \in {"link", "commit"}
        /\ hwOutcome' = hwOutcome
    BY <1>1, <1>6 DEF Homework!InsertHomework, Homework!InsertLink
  <2>. QED  BY <1>1, <2>1 DEF RightPoint
<1>7. CASE Homework!Commit(r)
  <2>1. hwPc[r] = "commit" /\ hwPc'[r] = "returned" /\ hwOutcome'[r] \in {"ok", "error"}
    BY <1>1, <1>7 DEF Homework!Commit
  <2>. QED  BY <1>1, <2>1 DEF RightPoint
<1>8. CASE Homework!SaveFails(r)
  <2>1. hwPc'[r] = "returned" /\ hwOutcome'[r] = "error"
    BY <1>1, <1>8 DEF Homework!SaveFails
  <2>. QED  BY <2>1 DEF RightPoint
<1>. QED  BY <1>4, <1>5, <1>6, <1>7, <1>8 DEF Homework!Save

\* The operations of one statement.
LEMMA SingleRight ==
  ASSUME HomeworkInv, RightInv, Homework!Witness, NEW r \in Editor, hwCall' = hwCall,
         Homework!Single(r)
  PROVE  RightPoint(r)'
<1>. USE DEF Homework!Goto, Homework!Return, Homework!Done, Homework!Nothing
<1>1. /\ DOMAIN hwPc = Editor /\ DOMAIN hwOutcome = Editor /\ DOMAIN chosen = Editor
      /\ RightPoint(r) /\ ChosenPoint(r)
      /\ allowed[r] \subseteq allowed'[r]
  BY NothingUnseen DEF HomeworkInv, HomeworkTypeOK, RightInv, PointInv
<1>2. hwPc[r] \in {"scan", "write"} =>
        /\ hwCall[r].op \in {"update", "delete", "done", "remind", "forget"}
        /\ Homework!First(hwCall[r]) = "scan"
  BY CallWords DEF Homework!First, HomeworkInv, HomeworkTypeOK, PointInv, SavePoint
<1>3. hwPc[r] \in {"scan", "write"} /\ hwPc'[r] # "scan" =>
        allowed'[r] = allowed[r] \cup {Homework!Entitled(r)}
  BY <1>2, Witnessed
<1>4. CASE Homework!Scan(r)
  <2>1. /\ hwPc[r] = "scan" /\ hwPc'[r] = "write" /\ hwOutcome' = hwOutcome
        /\ chosen'[r] = Homework!Choice(r)
    BY <1>1, <1>4 DEF Homework!Scan
  <2>2. CASE hwCall[r].op \in {"update", "delete"}
    <3>1. Homework!Entitled(r) = (\E h \in homeworks : Homework!Own(r, h))
      BY <2>2, EntitledIs
    <3>2. Homework!Choice(r) = {h.id : h \in {g \in homeworks : Homework!Own(r, g)}}
      BY <2>2 DEF Homework!Choice
    <3>3. CASE \E h \in homeworks : Homework!Own(r, h)
      <4>1. Homework!Choice(r) # {} /\ Homework!Entitled(r) = TRUE
        BY <3>1, <3>2, <3>3
      <4>. QED  BY <1>1, <1>3, <2>1, <2>2, <4>1 DEF RightPoint
    <3>4. CASE ~\E h \in homeworks : Homework!Own(r, h)
      <4>1. Homework!Choice(r) = {} /\ Homework!Entitled(r) = FALSE
        BY <3>1, <3>2, <3>4
      <4>. QED  BY <1>1, <1>3, <2>1, <2>2, <4>1 DEF RightPoint
    <3>. QED  BY <3>3, <3>4
  <2>3. CASE hwCall[r].op = "done"
    <3>1. Homework!Entitled(r) = (Homework!Members(r) # {} /\ hwCall[r].id \in Homework!Ids)
      BY <2>3, EntitledIs
    <3>2. Homework!Choice(r) = IF hwCall[r].id \in Homework!Ids THEN Homework!Members(r) ELSE {}
      BY <2>3 DEF Homework!Choice
    <3>3. CASE Homework!Members(r) # {} /\ hwCall[r].id \in Homework!Ids
      <4>1. Homework!Choice(r) # {} /\ Homework!Entitled(r) = TRUE
        BY <3>1, <3>2, <3>3
      <4>. QED  BY <1>1, <1>3, <2>1, <2>3, <4>1 DEF RightPoint
    <3>4. CASE ~(Homework!Members(r) # {} /\ hwCall[r].id \in Homework!Ids)
      <4>1. Homework!Choice(r) = {} /\ Homework!Entitled(r) = FALSE
        BY <3>1, <3>2, <3>4
      <4>. QED  BY <1>1, <1>3, <2>1, <2>3, <4>1 DEF RightPoint
    <3>. QED  BY <3>3, <3>4
  <2>4. CASE hwCall[r].op \in {"remind", "forget"}
    BY <1>1, <1>3, <2>1, <2>4, EntitledIs DEF RightPoint
  <2>. QED  BY <1>2, <2>1, <2>2, <2>3, <2>4
<1>5. CASE Homework!Update(r) \/ Homework!Delete(r)
  <2>1. /\ hwPc[r] = "write" /\ hwPc'[r] = "returned" /\ hwCall[r].op \in {"update", "delete"}
        /\ \/ chosen[r] \cap Homework!Ids = {} /\ hwOutcome'[r] = "missing"
           \/ chosen[r] # {} /\ hwOutcome'[r] \in {"ok", "error"}
    BY <1>1, <1>5 DEF Homework!Update, Homework!Delete
  <2>2. CASE chosen[r] = {}
    BY <1>1, <2>1, <2>2 DEF RightPoint
  <2>3. CASE chosen[r] # {} /\ hwOutcome'[r] = "missing"
    <3>1. chosen[r] \subseteq {hwCall[r].id}
      BY <1>1, <2>1 DEF ChosenPoint
    <3>2. hwCall[r].id \notin Homework!Ids
      BY <2>1, <2>3, <3>1
    <3>3. Homework!Entitled(r) = FALSE
      BY <2>1, <3>2, EntitledIs DEF Homework!Own, Homework!Ids
    <3>. QED  BY <1>3, <2>1, <2>3, <3>3 DEF RightPoint
  <2>4. CASE chosen[r] # {} /\ hwOutcome'[r] # "missing"
    BY <1>1, <2>1, <2>4 DEF RightPoint
  <2>. QED  BY <2>2, <2>3, <2>4
<1>6. CASE Homework!TickOff(r)
  <2>1. /\ hwPc[r] = "write" /\ hwPc'[r] = "returned" /\ hwCall[r].op = "done"
        /\ \/ chosen[r] = {} /\ hwOutcome'[r] = "missing"
           \/ chosen[r] # {} /\ hwOutcome'[r] \in {"ok", "error"}
    BY <1>1, <1>6 DEF Homework!TickOff
  <2>. QED  BY <1>1, <2>1 DEF RightPoint
<1>7. CASE Homework!Remind(r) \/ Homework!Forget(r)
  <2>1. /\ hwPc[r] = "write" /\ hwPc'[r] = "returned" /\ hwCall[r].op \in {"remind", "forget"}
        /\ hwOutcome'[r] \in {"ok", "error"}
    BY <1>1, <1>7 DEF Homework!Remind, Homework!Forget
  <2>. QED  BY <1>1, <2>1 DEF RightPoint
<1>8. CASE Homework!StatementFails(r)
  <2>1. hwPc'[r] = "returned" /\ hwOutcome'[r] = "error"
    BY <1>1, <1>8 DEF Homework!StatementFails
  <2>. QED  BY <2>1 DEF RightPoint
<1>. QED  BY <1>4, <1>5, <1>6, <1>7, <1>8 DEF Homework!Single

LEMMA RightStep == HomeworkInv /\ RightInv /\ [Homework!Next]_(Homework!vars) => RightInv'
<1>. SUFFICES ASSUME HomeworkInv, RightInv, [Homework!Next]_(Homework!vars) PROVE RightInv'
  OBVIOUS
<1>1. CASE UNCHANGED Homework!vars
  BY <1>1 DEF Homework!vars, RightInv, RightPoint
<1>2. CASE Homework!Next
  <2>1. hwCall' = hwCall /\ Homework!Witness
    BY <1>2 DEF Homework!Next
  <2>2. CASE Homework!Move
    <3>1. UNCHANGED <<hwPc, chosen, hwOutcome>>
      BY <2>2 DEF Homework!Move
    <3>. QED  BY <2>1, <3>1, RightKept DEF RightInv
  <2>3. ASSUME NEW r \in Editor, Homework!Save(r) \/ Homework!Single(r)
        PROVE  RightInv'
    <3>1. RightPoint(r)'
      BY <2>1, <2>3, SaveRight, SingleRight
    <3>2. ASSUME NEW q \in Editor \ {r}
          PROVE  RightPoint(q)'
      <4>1. hwPc'[q] = hwPc[q] /\ chosen'[q] = chosen[q] /\ hwOutcome'[q] = hwOutcome[q]
        BY <2>3, EditorAlone DEF HomeworkInv
      <4>. QED  BY <2>1, <4>1, RightKept
    <3>. QED  BY <3>1, <3>2 DEF RightInv
  <2>. QED  BY <1>2, <2>2, <2>3 DEF Homework!Next
<1>. QED  BY <1>1, <1>2

LEMMA RightInit == Homework!Init => RightInv
<1>. SUFFICES ASSUME Homework!Init, NEW r \in Editor PROVE RightPoint(r)
  BY DEF RightInv
<1>1. hwPc[r] \in {"teacher", "scan"} /\ hwOutcome[r] = "none"
  BY DEF Homework!Init, Homework!First
<1>. QED  BY <1>1 DEF RightPoint

\* homework_repository.go: a call that returned nil was entitled to what it asked at
\* some moment since it began, and one that returned "not found or forbidden" was not,
\* for any number of calls, chats, students and teachers.
THEOREM HomeworkAnswersTruthful == Homework!Spec => []AnswersTruthful
<1>1. RightInv => AnswersTruthful
  BY DEF RightInv, RightPoint, AnswersTruthful, Homework!AnswersTruthful
<1>. QED  BY <1>1, HomeworkCorrect, RightInit, RightStep, PTL DEF Homework!Spec

\* A row that a statement has changed or deleted is the one that its call is about,
\* and an edit kept its head.
LEMMA RowChanged ==
  ASSUME HomeworkInv, RightInv, NEW r \in Editor, Homework!Update(r) \/ Homework!Delete(r),
         NEW h \in homeworks \ homeworks'
  PROVE  /\ hwPc[r] = "write" /\ hwPc'[r] = "returned" /\ TRUE \in allowed[r]
         /\ hwCall[r].op \in {"update", "delete"} /\ hwCall[r].id = h.id
         /\ \A k \in homeworks' :
              k.id = h.id => \E n \in DOMAIN h.text :
                               h.text[n] = ":" /\ SubSeq(k.text, 1, n) = SubSeq(h.text, 1, n)
<1>. DEFINE live == chosen[r] \cap Homework!Ids
            new == Homework!Trimmed(hwCall[r].text)
            row(g) == IF g.id \in live THEN [g EXCEPT !.text = Homework!Edited(g.text, new)] ELSE g
<1>1. /\ hwPc[r] = "write" /\ hwPc'[r] = "returned" /\ hwCall[r].op \in {"update", "delete"}
      /\ \/ homeworks' = homeworks
         \/ homeworks' = {row(g) : g \in homeworks}
         \/ homeworks' = {g \in homeworks : g.id \notin live}
  BY DEF HomeworkInv, HomeworkTypeOK, Homework!Update, Homework!Delete, Homework!Nothing,
     Homework!Done, Homework!Return, Homework!tables
<1>2. h.id \in live
  <2>1. ASSUME h.id \notin live PROVE row(h) = h
    BY <2>1
  <2>. HIDE DEF row, live
  <2>. QED  BY <1>1, <2>1
<1>3. chosen[r] \subseteq {hwCall[r].id} /\ chosen[r] # {}
  BY <1>1, <1>2 DEF HomeworkInv, PointInv, ChosenPoint
<1>4. TRUE \in allowed[r]
  BY <1>1, <1>3 DEF RightInv, RightPoint
<1>5. ASSUME NEW k \in homeworks', k.id = h.id
      PROVE  \E n \in DOMAIN h.text :
               h.text[n] = ":" /\ SubSeq(k.text, 1, n) = SubSeq(h.text, 1, n)
  <2>1. homeworks \subseteq Entry /\ \A g, j \in homeworks : g.id = j.id => g = j
    BY DEF HomeworkInv, HomeworkTypeOK, IdInv
  <2>2. k = row(h)
    <3>1. \A g \in homeworks : row(g).id = g.id
      BY <2>1 DEF Entry
    <3>. HIDE DEF row, live
    <3>2. homeworks' # homeworks
      OBVIOUS
    <3>3. homeworks' # {g \in homeworks : g.id \notin live}
      BY <1>2, <1>5
    <3>4. PICK g \in homeworks : k = row(g)
      BY <1>1, <1>5, <3>2, <3>3
    <3>5. g.id = h.id
      BY <1>5, <3>1, <3>4
    <3>6. g = h
      BY <2>1, <3>5
    <3>. QED  BY <3>4, <3>6
  <2>3. k.text = Homework!Edited(h.text, new)
    BY <1>2, <2>1, <2>2 DEF Entry
  <2>4. new \in Seq(Word) /\ Headed(h.text)
    BY <2>1, CallWords, TrimmedWords DEF HomeworkInv, HomeworkTypeOK, Entry
  <2>. HIDE DEF new
  <2>. QED  BY <2>3, <2>4, EditKeepsHead
<1>. QED  BY <1>1, <1>2, <1>3, <1>4, <1>5

\* homework_repository.go: in no step is homework changed or deleted but for a chat
\* that was its author's during the call, and no edit touches what stands before the
\* first colon.
THEOREM HomeworkOnlyAuthorChanges == Homework!Spec => OnlyAuthorChanges
<1>. DEFINE Changed(h) ==
       /\ \E r \in Editor :
            /\ hwPc[r] = "write" /\ hwPc'[r] = "returned" /\ TRUE \in allowed[r]
            /\ hwCall[r].op \in {"update", "delete"} /\ hwCall[r].id = h.id
       /\ \A k \in homeworks' :
            k.id = h.id => \E n \in DOMAIN h.text :
                             h.text[n] = ":" /\ SubSeq(k.text, 1, n) = SubSeq(h.text, 1, n)
<1>1. HomeworkInv /\ RightInv /\ [Homework!Next]_(Homework!vars)
        => [\A h \in homeworks \ homeworks' : Changed(h)]_(Homework!vars)
  <2>. SUFFICES ASSUME HomeworkInv, RightInv, Homework!Next, NEW h \in homeworks \ homeworks'
                PROVE  Changed(h)
    OBVIOUS
  <2>. HIDE DEF Changed
  <2>1. ~Homework!Move
    BY DEF Homework!Move, Homework!tables
  <2>2. PICK r \in Editor : Homework!Save(r) \/ Homework!Single(r)
    BY <2>1 DEF Homework!Next
  <2>3. ~Homework!Save(r)
    BY DEF Homework!Save, Homework!FindTeacher, Homework!FindGroup, Homework!InsertHomework,
       Homework!InsertLink, Homework!Commit, Homework!CommitRows, Homework!SaveFails, Homework!tables
  <2>4. Homework!Update(r) \/ Homework!Delete(r)
    BY <2>2, <2>3 DEF Homework!Single, Homework!Scan, Homework!TickOff, Homework!Remind,
       Homework!Forget, Homework!StatementFails, Homework!Nothing, Homework!tables
  <2>5. /\ hwPc[r] = "write" /\ hwPc'[r] = "returned" /\ TRUE \in allowed[r]
        /\ hwCall[r].op \in {"update", "delete"} /\ hwCall[r].id = h.id
        /\ \A k \in homeworks' :
             k.id = h.id => \E n \in DOMAIN h.text :
                              h.text[n] = ":" /\ SubSeq(k.text, 1, n) = SubSeq(h.text, 1, n)
    BY <2>4, RowChanged
  <2>. QED  BY Zenon, <2>5 DEF Changed
<1>2. Homework!Spec => [][\A h \in homeworks \ homeworks' : Changed(h)]_(Homework!vars)
  BY <1>1, HomeworkCorrect, RightInit, RightStep, PTL DEF Homework!Spec
<1>. QED  BY <1>2 DEF OnlyAuthorChanges, Homework!OnlyAuthorChanges

=============================================================================
