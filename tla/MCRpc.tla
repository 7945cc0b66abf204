------------------------------- MODULE MCRpc -------------------------------
(* Small instances of Rpc for TLC: who calls whom and what is registered.  *)
EXTENDS Rpc

CONSTANTS a, b

Call(to, rep, mode) == [to |-> to, type |-> "RPC_ROUTE", rep |-> rep, mode |-> mode]
Self(to, mode) == [to |-> to, type |-> "REQUEST", rep |-> FALSE, mode |-> mode]

\* The chain of the demo: the console calls a, a calls b with a reply; a may also call b
\* without waiting, or post.  b calls a back, a cycle.  And calls that go wrong: the
\* console asks for a reply a does not give, a asks itself through its own channel, and
\* calls an interface whose reply struct is not the one a was built with.
AllUses ==
  [r \in Runners |->
    CASE r = Console -> {Call(a, rep, "sync") : rep \in BOOLEAN}
      [] r = a -> {Call(b, TRUE, "sync"), Call(b, TRUE, "async"), Call(b, FALSE, "post"),
                   Call(b, FALSE, "sync"), Self(a, "sync")}
      [] r = b -> {Call(a, FALSE, "sync")}]

\* a takes no reply argument, like test_a_req; b has an interface with one, like
\* test_c_req, and one without.
AllInterfaces ==
  [x \in Actors |-> IF x = a THEN [type : {"REQUEST", "RPC_ROUTE"}, rep : {FALSE}]
                             ELSE [type : {"RPC_ROUTE"}, rep : BOOLEAN]]

AllSkewed == {[to |-> b, rep |-> TRUE]}

\* One synchronous call with a reply, as in README.md, lines 97-99.
ReadmeUses == [r \in Runners |-> IF r = Console THEN {Call(a, TRUE, "sync")} ELSE {}]
ReadmeInterfaces == [x \in Actors |-> {[type |-> "RPC_ROUTE", rep |-> TRUE]}]
=============================================================================
