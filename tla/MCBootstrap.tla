---------------------------- MODULE MCBootstrap -----------------------------
(* An application that calls EnableCliRunnerMode twice.                      *)
EXTENDS Bootstrap, TLC

Runner(n) == [name |-> n, ordered |-> FALSE, o |-> 0]
CalledTwice ==
    {[roots |-> {"init"}, priority |-> {}, sub |-> [m \in Module |-> {}],
      prec |-> ("init" :> 0) @@ ("cli" :> 1), calls |-> <<{Runner("a")}, {Runner("b")}>>]}
=============================================================================
