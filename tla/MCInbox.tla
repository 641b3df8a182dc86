------------------------------- MODULE MCInbox --------------------------------
(* Inbox for TLC: every event is a security event about one user.          *)
EXTENDS Inbox, TLC

CONSTANT ann

MCRecipient == [e \in Events |-> ann]
MCCategory == [e \in Events |-> "security"]

Symmetry == Permutations(Producers) \cup Permutations(Events)
==============================================================================
