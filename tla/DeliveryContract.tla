--------------------------- MODULE DeliveryContract ---------------------------
(***************************************************************************)
(* What the notification module promises a producer, with no workers, no   *)
(* claims and no clock: a notification that was accepted is owed until it  *)
(* is settled; while it is owed, at most MaxAttempts deliveries are tried; *)
(* it is settled once, as sent only after a delivery was accepted.         *)
(***************************************************************************)
EXTENDS Naturals

CONSTANTS Notifications, MaxAttempts

VARIABLES
    phase,      \* "absent", "owed", "sent" or "dead"
    tries,      \* deliveries tried
    accepted    \* the notifications some delivery of which was accepted

vars == <<phase, tries, accepted>>

Init ==
    /\ phase = [n \in Notifications |-> "absent"]
    /\ tries = [n \in Notifications |-> 0]
    /\ accepted = {}

\* The producer's enqueue commits.
Accept(n) ==
    /\ phase[n] = "absent"
    /\ phase' = [phase EXCEPT ![n] = "owed"]
    /\ UNCHANGED <<tries, accepted>>

\* One delivery of an owed notification, accepted by its sender or not.
Try(n) ==
    /\ phase[n] = "owed"
    /\ tries[n] < MaxAttempts
    /\ tries' = [tries EXCEPT ![n] = @ + 1]
    /\ accepted' \in {accepted, accepted \cup {n}}
    /\ UNCHANGED phase

\* The outcome is recorded, once.
Settle(n) ==
    /\ phase[n] = "owed"
    /\ \/ /\ n \in accepted
          /\ phase' = [phase EXCEPT ![n] = "sent"]
       \/ phase' = [phase EXCEPT ![n] = "dead"]
    /\ UNCHANGED <<tries, accepted>>

Next == \E n \in Notifications : Accept(n) \/ Try(n) \/ Settle(n)

Spec == Init /\ [][Next]_vars

FairSpec == Spec /\ \A n \in Notifications : WF_vars(Settle(n))
==============================================================================
