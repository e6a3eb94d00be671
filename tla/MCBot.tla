-------------------------------- MODULE MCBot --------------------------------
(***************************************************************************)
(* Small instances of the bot's repositories for TLC.  Both halves are in  *)
(* one run and a behaviour exercises one of them, while the other rests in *)
(* one of its initial states: BotHomework has logins of its own.           *)
(***************************************************************************)
EXTENDS Bot, TLC

CONSTANTS q1, q2, q3, p1, p2, c1, c2, s1, s2, t1, g1, g2, g3

VARIABLE half  \* "accounts" or "homework"

RequestSymmetry == Permutations(Request)

-----------------------------------------------------------------------------
\* Accounts: a chat that moves between every account there is, by several calls at
\* once, and another that wants one of them.

Login(chat, account) == [op |-> "login", chat |-> chat, account |-> {account}]
Plain(op, chat) == [op |-> op, chat |-> chat, account |-> {}]

MCCalls ==
  { Login(c1, s1), Login(c1, s2), Login(c1, t1), Login(c2, s1),
    Plain("leave", c1), Plain("role", c1), Plain("login", c1) }

-----------------------------------------------------------------------------
\* Homework: with a colon in its subject for a group that exists, and for one that
\* does not; a text with a bullet; the other calls are about the first homework.

Call(op, chat) ==
  [op |-> op, chat |-> chat, id |-> 1, group |-> g1,
   subject |-> <<"physics", ":", "optics">>, text |-> <<"read">>]

MCHomeworkCalls ==
  { Call("save", c1), [Call("save", c2) EXCEPT !.group = g3],
    [Call("update", c1) EXCEPT !.text = <<"-", "write">>], Call("delete", c1),
    Call("done", c2), Call("remind", c2), Call("forget", c2) }

MCGroupOf == [s \in {s1} |-> g1]

-----------------------------------------------------------------------------

AccountsRest ==
  /\ holder = [a \in Account |-> Nobody] /\ users = Student
  /\ call = [r \in Request |-> Plain("role", c1)]
HomeworkRests ==
  /\ hwHolder = [a \in {s1, t1} |-> Nobody] /\ homeworks = {} /\ links = {}
  /\ hwCall = [r \in Editor |-> Call("done", c2)]

\* At first c1 may hold any account or be new, c2 has been here before; the teacher's
\* placeholder may be missing where the teacher's account is held or asked for.  Of
\* three calls one is a query or of the other chat.
AccountsBegin ==
  /\ c2 \in users /\ holder[s2] # c2 /\ holder[t1] # c2
  /\ t1 \in users \/ holder[t1] = c1 \/ \E r \in Request : call[r].account = {t1}
  /\ \E r \in Request : call[r].chat = c2 \/ call[r].op = "role"

MCInit ==
  \/ half = "accounts" /\ HomeworkRests /\ Init /\ AccountsBegin /\ Homework!Init
  \/ half = "homework" /\ AccountsRest /\ Init /\ Homework!Init

MCNext ==
  \/ half = "accounts" /\ Next /\ UNCHANGED <<half, homeworkVars>>
  \/ half = "homework" /\ Homework!Next /\ UNCHANGED <<half, vars>>

MCSpec == MCInit /\ [][MCNext]_<<half, vars, homeworkVars>>

=============================================================================
