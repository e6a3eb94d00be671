---------------------------- MODULE MCAuthService ----------------------------
(* Small instances of AuthService for TLC. *)
EXTENDS AuthService, TLC

CONSTANTS r1, r2, r3, r4

Plain(w)  == [word |-> w, spaces |-> FALSE]
Padded(w) == [word |-> w, spaces |-> TRUE]

Register(login, password, role) ==
  [op |-> "register", login |-> login, password |-> password, role |-> role]
Login(login, password) == [op |-> "login", login |-> login, password |-> password]

\* Ann twice, with and without spaces and an unknown role; Bob.
MCCalls ==
  { Register(Plain("ann"), Plain("pw"), "student_b"),
    Register(Padded("ann"), Padded("pw"), "teacher"),
    Register(Plain("ann"), Plain("pw"), "unknown"),
    Register(Plain("bob"), Plain("pw"), "admin"),
    Login(Plain("ann"), Plain("pw")), Login(Padded("ann"), Padded("pw")),
    Login(Padded(""), Plain("pw")),
    [op |-> "me", header |-> "bearer"] }

\* Signed with the secret: without sub (as jwt_manager_test.go), with another
\* HMAC, with a role outside the closed set; and one signed with another key.
Claims == [alg |-> "HS256", sub |-> {1}, user_id |-> {1}, login |-> "ann", role |-> "teacher",
           exp |-> 1]
MCForeignTokens ==
  { [Claims EXCEPT !.sub = {}], [Claims EXCEPT !.alg = "HS512"],
    [Claims EXCEPT !.role = "unknown"], [Claims EXCEPT !.alg = "other key"] }

RequestSymmetry == Permutations(Request)

=============================================================================
