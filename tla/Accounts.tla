------------------------------ MODULE Accounts ------------------------------
(***************************************************************************)
(* What ports.UserRepository promises to concurrent registrations: the     *)
(* in-memory repository (in_memory_user_repo.go), whose mutex makes Create *)
(* one step.  The tests of the service run against it.                     *)
(***************************************************************************)
EXTENDS Integers

CONSTANTS Request

VARIABLES
  users,    \* map users, by login
  call,     \* request -> what it asks; never changes
  verdict   \* request -> "none", "created", "exists"

accountVars == <<users, call, verdict>>

Init ==
  /\ users = {}
  /\ verdict = [r \in Request |-> "none"]

Decide(r, outcome) ==
  /\ call[r].op = "register" /\ verdict[r] = "none"
  /\ verdict' = [verdict EXCEPT ![r] = outcome]
  /\ UNCHANGED call

Named(login) == {u \in users : u.login = login}

\* The new identity is one that nobody has; idSeq counts, a sequence has gaps.
Create(r) ==
  /\ Decide(r, "created")
  /\ Named(call[r].login.word) = {}
  /\ \E u \in users' \ users :
       /\ users' = users \cup {u}
       /\ u.login = call[r].login.word /\ u.role = call[r].role
       /\ u.password = call[r].password
       /\ \A v \in users : v.id # u.id

\* ErrUserAlreadyExists.
Refuse(r) ==
  /\ Decide(r, "exists")
  /\ Named(call[r].login.word) # {}
  /\ UNCHANGED users

Next == \E r \in Request : Create(r) \/ Refuse(r)

Spec == Init /\ [][Next]_accountVars

=============================================================================
