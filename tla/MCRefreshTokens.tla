--------------------------- MODULE MCRefreshTokens ---------------------------
(* Instances of RefreshTokens for TLC.                                     *)
EXTENDS RefreshTokens, TLC

\* Tokens, users and requests are interchangeable.
Symmetry == Permutations(Tokens) \cup Permutations(Users)
             \cup Permutations(Requests)
==============================================================================
