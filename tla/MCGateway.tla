------------------------------ MODULE MCGateway ------------------------------
(* Small instances of Gateway for TLC: every described call with each kind of *)
(* token, and calls that miss the routes of one side or of the other.         *)
EXTENDS Gateway, TLC

CONSTANTS r1, r2

RequestSymmetry == Permutations(Request)

MCInteger == {"7"}
Make3(m, p) == {[method |-> m, path |-> p, token |-> t] : t \in Token}

DescribedCalls ==
  Make3("GET", <<"auth", "me">>) \cup Make3("POST", <<"auth", "login">>)
    \cup Make3("GET", <<"rooms", "7">>) \cup Make3("POST", <<"booking">>)
    \cup Make3("DELETE", <<"booking", "7">>) \cup Make3("GET", <<"booking", "my">>)

OtherCalls ==
  {[method |-> m, path |-> p, token |-> "good"] :
     m \in {"GET", "DELETE"},
     p \in {<<"healthz">>, <<"auth">>, <<"auth", "">>, <<"api", "auth", "me">>, <<"rooms">>,
            <<"rooms", "">>, <<"rooms", "x">>, <<"booking", "my">>, <<"parser", "status">>}}
    \cup {[method |-> "OPTIONS", path |-> <<"booking">>, token |-> "none"],
          [method |-> "POST", path |-> <<"auth", "register">>, token |-> "none"]}

MCCall == DescribedCalls \cup OtherCalls

=============================================================================
