----------------------------- MODULE BotHomework -----------------------------
(***************************************************************************)
(* Homework and reminders in the bot (homework_repository.go and           *)
(* notification_repository.go).  A teacher sets homework for a group in    *)
(* one transaction; the other operations are single statements, which      *)
(* choose their rows from a snapshot and look again at the rows they       *)
(* write.  Chats log in to accounts and leave them meanwhile.              *)
(*                                                                         *)
(* A text is a sequence of words; the colon and the bullet are words.      *)
(* Nothing in the code moves a student to another group or removes a       *)
(* group, a student or a teacher.                                          *)
(***************************************************************************)
EXTENDS Naturals, Sequences, FiniteSets, SequencesExt

CONSTANTS
  Request, Chat, Student, Teacher, Nobody,
  Group,
  GroupOf,   \* student -> group
  Calls,     \* what a request may ask: save, update, delete, done, remind, forget
  MaxId,     \* bound: values of the id sequence
  MaxMoves   \* bound: how often a chat logs in or leaves

Account == Student \cup Teacher
VARIABLES
  holder,     \* account -> the chat logged in to it
  users,      \* chats in table users
  homeworks,  \* {[id, text, author]}
  links,      \* group_homeworks: {[group, id]}
  statuses,   \* student_homework_statuses, all of them "done": {[student, id]}
  reminders,  \* notifications: {[chat, id]}
  nextId,     \* the id sequence
  draft,      \* request -> what its open transaction has inserted
  call, pc,   \* request -> what it asks, and the statement it is at
  author,     \* request -> teacher found by SaveForGroup
  chosen,     \* request -> rows its statement chose from its snapshot
  outcome,    \* request -> what it returned
  allowed,    \* history: whether it had the right to ask, at each moment so far
  moves

tables == <<homeworks, links, statuses, reminders>>
accounts == <<holder, users, moves>>
vars == <<accounts, tables, nextId, draft, call, pc, author, chosen, outcome, allowed>>

NoDraft == [homeworks |-> {}, links |-> {}]

-----------------------------------------------------------------------------
\* Texts.

\* UPDATE ... SET text: what stands up to the first colon is kept.
Edited(text, new) ==
  IF Contains(text, ":") THEN SubSeq(text, 1, SelectInSeq(text, LAMBDA w : w = ":")) \o <<"-">> \o new
  ELSE new

\* strings.TrimPrefix of the bullet, which the list shows and users copy.
Trimmed(new) == IF new # <<>> /\ Head(new) = "-" THEN Tail(new) ELSE new

-----------------------------------------------------------------------------
\* Rows that a call is about.

Ids == {h.id : h \in homeworks}
Own(r, h) == h.id = call[r].id /\ \E t \in Teacher : h.author = t /\ holder[t] = call[r].chat

\* JOIN group_homeworks JOIN students: for whom a chat may tick homework off.
Members(r) ==
  {s \in Student : holder[s] = call[r].chat
     /\ [group |-> GroupOf[s], id |-> call[r].id] \in links}

\* The row of a new homework.
Row(id, c, teacher) == [id |-> id, text |-> c.subject \o <<":">> \o c.text, author |-> teacher]

\* What the lists show: homework by way of its groups, with the student's status.
ListForUser(c) ==
  UNION {{[id |-> l.id, done |-> [student |-> s, id |-> l.id] \in statuses]
            : l \in {k \in links : k.group = GroupOf[s] /\ k.id \in Ids}}
         : s \in {t \in Student : holder[t] = c}}

ListForTeacher(c) ==
  {h.id : h \in {k \in homeworks : holder[k.author] = c /\ \E l \in links : l.id = k.id}}

\* Whether the call is entitled to what it asks for.
Entitled(r) ==
  CASE call[r].op \in {"update", "delete"} -> \E h \in homeworks : Own(r, h)
    [] call[r].op = "done" -> Members(r) # {} /\ call[r].id \in Ids
    [] call[r].op = "save" ->
         call[r].group \in Group /\ \E t \in Teacher : holder[t] = call[r].chat
    [] OTHER -> TRUE

Return(r, result) ==
  /\ pc' = [pc EXCEPT ![r] = "returned"] /\ outcome' = [outcome EXCEPT ![r] = result]

\* The first statement of a call.
First(c) == IF c.op = "save" THEN "teacher" ELSE "scan"

Goto(r, step) == pc' = [pc EXCEPT ![r] = step] /\ UNCHANGED outcome

Init ==
  /\ holder \in [Account -> Chat \cup {Nobody}]
  /\ users = {holder[a] : a \in Account} \ {Nobody}
  /\ \A a, b \in Account : holder[a] = holder[b] /\ a # b => holder[a] = Nobody
  /\ homeworks \in {{}} \cup {{Row(1, c, t)} : c \in {d \in Calls : d.op = "save"}, t \in Teacher}
  /\ links \in {{[group |-> g, id |-> h.id] : h \in homeworks} : g \in Group}
  /\ statuses = {} /\ reminders = {} /\ nextId = Cardinality(homeworks) + 1
  /\ draft = [r \in Request |-> NoDraft]
  /\ call \in [Request -> Calls] /\ pc = [r \in Request |-> First(call[r])]
  /\ author \in [Request -> {Nobody}] /\ chosen = [r \in Request |-> {}]
  /\ outcome = [r \in Request |-> "none"] /\ allowed = [r \in Request |-> {}] /\ moves = 0

-----------------------------------------------------------------------------
\* SaveForGroup: four statements and a commit.

FindTeacher(r) ==
  /\ pc[r] = "teacher"
  /\ \/ \E t \in Teacher : holder[t] = call[r].chat /\ author' = [author EXCEPT ![r] = t]
        /\ Goto(r, "group")
     \/ /\ \A t \in Teacher : holder[t] # call[r].chat
        /\ Return(r, "missing") /\ UNCHANGED author
  /\ UNCHANGED <<accounts, tables, nextId, draft, chosen>>

FindGroup(r) ==
  /\ pc[r] = "group"
  /\ IF call[r].group \in Group THEN Goto(r, "homework") ELSE Return(r, "missing")
  /\ UNCHANGED <<accounts, tables, nextId, draft, author, chosen>>

\* INSERT INTO homeworks ... RETURNING id
InsertHomework(r) ==
  /\ pc[r] = "homework" /\ nextId <= MaxId
  /\ draft' = [draft EXCEPT ![r].homeworks = {Row(nextId, call[r], author[r])}]
  /\ nextId' = nextId + 1
  /\ Goto(r, "link")
  /\ UNCHANGED <<accounts, tables, author, chosen>>

InsertLink(r) ==
  /\ pc[r] = "link"
  /\ draft' = [draft EXCEPT ![r].links =
       {[group |-> call[r].group, id |-> h.id] : h \in draft[r].homeworks}]
  /\ Goto(r, "commit")
  /\ UNCHANGED <<accounts, tables, nextId, author, chosen>>

CommitRows(r) ==
  /\ homeworks' = homeworks \cup draft[r].homeworks /\ links' = links \cup draft[r].links
  /\ draft' = [draft EXCEPT ![r] = NoDraft]
  /\ UNCHANGED <<statuses, reminders>>

Commit(r) ==
  /\ pc[r] = "commit"
  /\ CommitRows(r)
  /\ \E result \in {"ok", "error"} : Return(r, result)
  /\ UNCHANGED <<accounts, nextId, author, chosen>>

\* Any statement fails: defer tx.Rollback().
SaveFails(r) ==
  /\ pc[r] \in {"teacher", "group", "homework", "link", "commit"}
  /\ draft' = [draft EXCEPT ![r] = NoDraft]
  /\ Return(r, "error")
  /\ UNCHANGED <<accounts, tables, nextId, author, chosen>>

-----------------------------------------------------------------------------
\* The operations of one statement: a snapshot chooses, then rows are written.

\* Fault: any chat may change any homework it can name.
OwnersIgnored(r) ==
  CASE call[r].op = "done" -> Members(r)
    [] OTHER -> {h.id : h \in {g \in homeworks : g.id = call[r].id}}

Choice(r) ==
  CASE call[r].op \in {"update", "delete"} -> {h.id : h \in {g \in homeworks : Own(r, g)}}
    [] call[r].op = "done" -> IF call[r].id \in Ids THEN Members(r) ELSE {}
    [] OTHER -> {call[r].id} \cap Ids

Scan(r) ==
  /\ pc[r] = "scan"
  /\ chosen' = [chosen EXCEPT ![r] = Choice(r)]
  /\ Goto(r, "write")
  /\ UNCHANGED <<accounts, tables, nextId, draft, author>>

\* A statement that took effect may still be answered with an error.
Done(r) == \E result \in {"ok", "error"} : Return(r, result)

\* Fault: RowsAffected is not looked at.
NothingDone(r) == Return(r, "ok") /\ UNCHANGED tables

\* rows == 0: "not found or forbidden".
Nothing(r) == Return(r, "missing") /\ UNCHANGED tables

\* A row that was chosen may have been deleted before it is locked.
Update(r) ==
  /\ pc[r] = "write" /\ call[r].op = "update"
  /\ LET live == chosen[r] \cap Ids
     IN  \/ live = {} /\ Nothing(r)
         \/ /\ live # {}
            /\ homeworks' = {IF h.id \in live
                             THEN [h EXCEPT !.text = Edited(h.text, Trimmed(call[r].text))]
                             ELSE h : h \in homeworks}
            /\ Done(r)
            /\ UNCHANGED <<links, statuses, reminders>>
  /\ UNCHANGED <<accounts, nextId, draft, author, chosen>>

\* Fault: the schema keeps the rows of homework that is gone.
CascadeNothing(gone) == UNCHANGED <<links, statuses, reminders>>

\* ON DELETE CASCADE
Cascade(gone) ==
  /\ links' = {l \in links : l.id \notin gone} /\ statuses' = {s \in statuses : s.id \notin gone}
  /\ reminders' = {n \in reminders : n.id \notin gone}

Delete(r) ==
  /\ pc[r] = "write" /\ call[r].op = "delete"
  /\ LET live == chosen[r] \cap Ids
     IN  \/ live = {} /\ Nothing(r)
         \/ /\ live # {}
            /\ homeworks' = {h \in homeworks : h.id \notin live}
            /\ Cascade(live)
            /\ Done(r)
  /\ UNCHANGED <<accounts, nextId, draft, author, chosen>>

\* UpdateStatus; a homework deleted since the snapshot breaks the foreign key.
TickOff(r) ==
  /\ pc[r] = "write" /\ call[r].op = "done"
  /\ \/ chosen[r] = {} /\ Nothing(r)
     \/ chosen[r] # {} /\ call[r].id \notin Ids /\ Return(r, "error") /\ UNCHANGED tables
     \/ /\ chosen[r] # {} /\ call[r].id \in Ids
        /\ statuses' = statuses \cup {[student |-> s, id |-> call[r].id] : s \in chosen[r]}
        /\ Done(r)
        /\ UNCHANGED <<homeworks, links, reminders>>
  /\ UNCHANGED <<accounts, nextId, draft, author, chosen>>

\* AddNotification: both foreign keys are checked.
Remind(r) ==
  /\ pc[r] = "write" /\ call[r].op = "remind"
  /\ \/ /\ call[r].id \in Ids /\ call[r].chat \in users
        /\ reminders' = reminders \cup {[chat |-> call[r].chat, id |-> call[r].id]}
        /\ Done(r)
        /\ UNCHANGED <<homeworks, links, statuses>>
     \/ /\ call[r].id \notin Ids \/ call[r].chat \notin users
        /\ Return(r, "error") /\ UNCHANGED tables
  /\ UNCHANGED <<accounts, nextId, draft, author, chosen>>

\* DeleteNotification: no rows are no error.
Forget(r) ==
  /\ pc[r] = "write" /\ call[r].op = "forget"
  /\ reminders' = reminders \ {[chat |-> call[r].chat, id |-> call[r].id]}
  /\ Done(r)
  /\ UNCHANGED <<accounts, homeworks, links, statuses, nextId, draft, author, chosen>>

\* Before it took effect, a statement may fail or be cancelled.
StatementFails(r) ==
  /\ pc[r] \in {"scan", "write"}
  /\ Return(r, "error")
  /\ UNCHANGED <<accounts, tables, nextId, draft, author, chosen>>
-----------------------------------------------------------------------------
\* Logins and leaves of chats, each as the one step it is when it commits.

Login(c, a) ==
  /\ holder' = [b \in Account |-> IF b = a THEN c ELSE IF holder[b] = c THEN Nobody ELSE holder[b]]
  /\ users' = users \cup {c}

Leave(c) ==
  /\ \E a \in Account : holder[a] = c
  /\ holder' = [b \in Account |-> IF holder[b] = c THEN Nobody ELSE holder[b]]
  /\ UNCHANGED users

Move ==
  /\ moves < MaxMoves /\ moves' = moves + 1
  /\ \E c \in Chat : Leave(c) \/ \E a \in Account : Login(c, a)
  /\ UNCHANGED <<tables, nextId, draft, pc, author, chosen, outcome>>

-----------------------------------------------------------------------------

Save(r) ==
  FindTeacher(r) \/ FindGroup(r) \/ InsertHomework(r) \/ InsertLink(r) \/ Commit(r) \/ SaveFails(r)

Single(r) == Scan(r) \/ Update(r) \/ Delete(r) \/ TickOff(r) \/ Remind(r) \/ Forget(r) \/ StatementFails(r)

\* History, kept up in every step.
Witness ==
  allowed' = [r \in Request |->
    IF pc[r] = "returned" \/ pc'[r] = First(call[r]) THEN allowed[r]
    ELSE allowed[r] \cup {Entitled(r)}]

Next ==
  /\ Move \/ \E r \in Request : Save(r) \/ Single(r)
  /\ UNCHANGED call
  /\ Witness

Spec == Init /\ [][Next]_vars

-----------------------------------------------------------------------------
(***************************************************************************)
(* Properties.                                                             *)
(***************************************************************************)

\* Deletions race with ticks and reminders that have seen the homework: no row
\* stays behind for homework that is gone, and what a student has ticked off is
\* shown as done to whoever is logged in as that student.  Nor is there homework
\* that its author's list does not show, and that nobody could delete.
RowsBelong ==
  /\ \A x \in links \cup statuses \cup reminders : x.id \in Ids
  /\ \A s \in statuses : holder[s.student] # Nobody =>
       [id |-> s.id, done |-> TRUE] \in ListForUser(holder[s.student])
  /\ \A h \in homeworks : holder[h.author] # Nobody => h.id \in ListForTeacher(holder[h.author])

\* "ok" and "not found or forbidden" are true of some moment of the call, while
\* chats change accounts and other calls delete what the call is about.
AnswersTruthful ==
  \A r \in Request :
    /\ outcome[r] = "ok" => TRUE \in allowed[r]
    /\ outcome[r] = "missing" => FALSE \in allowed[r]

\* Homework is changed or deleted only for a chat that was its author's during
\* the call, and what stands before its first colon is never changed.
OnlyAuthorChanges ==
  [][\A h \in homeworks \ homeworks' :
       /\ \E r \in Request :
            /\ pc[r] = "write" /\ pc'[r] = "returned" /\ TRUE \in allowed[r]
            /\ call[r].op \in {"update", "delete"} /\ call[r].id = h.id
       /\ \A k \in homeworks' :
            k.id = h.id => \E n \in DOMAIN h.text :
                             h.text[n] = ":" /\ SubSeq(k.text, 1, n) = SubSeq(h.text, 1, n)]_vars

=============================================================================
