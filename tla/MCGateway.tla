------------------------------ MODULE MCGateway ------------------------------
(* Instances of Gateway for TLC.                                           *)
EXTENDS Gateway, TLC

CONSTANTS c1, c2, p1

\* Directly, through one proxy and through two.
MCPaths == {<<>>, <<p1>>, <<p1, p1>>}

\* A forged client in both headers, a forged proxy and a hop that does not
\* parse.
MCSpoofs == {[xff |-> <<c2>>, realIP |-> c2],
             [xff |-> <<p1, Garbage>>, realIP |-> Garbage]}

\* Goroutines are interchangeable.
Symmetry == Permutations(Requests)
==============================================================================
