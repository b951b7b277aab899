------------------------------ MODULE MCRuntime ------------------------------
EXTENDS Runtime, TLC

CONSTANTS c1, c2, c3, s1

Setup(members, exits, first, second, third) ==
    [services |-> members, exits |-> exits,
     calls    |-> (c1 :> first) @@ (c2 :> second) @@ (c3 :> third)]

TwoExits == {"nil", "failure"}

\* Run races a Shutdown and a BeginDrain.
OneService == {Setup({s1}, TwoExits, "Run", "Shutdown", "BeginDrain")}

\* The same with two services; and, with one service and two exits or all of
\* them, Run races pairs of the other calls, or the runtime never runs.
CallMix ==
    {Setup(AllServices, TwoExits, "Run", "Shutdown", "BeginDrain")}
    \cup UNION {{Setup({s}, TwoExits, "Run", "Run", "Shutdown"),
                 Setup({s}, AllExits, "Run", "Shutdown", "Shutdown"),
                 Setup({s}, TwoExits, "Run", "Shutdown", "Readiness"),
                 Setup({s}, AllExits, "Run", "BeginDrain", "Liveness"),
                 Setup({s}, AllExits, "Shutdown", "Shutdown", "BeginDrain")} : s \in AllServices}

ServiceSymmetry == Permutations(AllServices)
=============================================================================
