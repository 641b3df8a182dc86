------------------------------- MODULE Delivery -------------------------------
(***************************************************************************)
(* One notification through all its delivery attempts: attemptDelivery     *)
(* renders it and hands it to its channel's sender, the SMTP sender talks  *)
(* to the mail server one reply at a time, and settle turns the outcome    *)
(* into sent, dead or another attempt after a backoff.  Claims, saves and  *)
(* crashes around the attempts are the business of module Outbox.          *)
(*                                                                         *)
(* A message is its parts; a reply of the server is its class: ok, 4xx,    *)
(* 5xx, or lost for a connection that broke or a deadline that passed.     *)
(***************************************************************************)
EXTENDS Backoff

CONSTANTS
    MaxAttempts,
    Bases, Caps,       \* durations an operator may configure
    Draws, DrawScale,  \* a jitter draw is num / DrawScale, out of range too
    \* Bound of the model.
    MaxLost            \* verdicts lost after the server took the message

ASSUME DeliveryAssumption ==
    /\ MaxAttempts \in Nat \ {0} /\ MaxLost \in Nat
    /\ Bases \subseteq 1 .. MaxDuration
    /\ Caps \subseteq 1 .. MaxDuration
    /\ Draws \subseteq Nat
    /\ DrawScale \in Nat \ {0}

VARIABLES
    conf,       \* the deployment: its mail transport, log channel and schedule
    row,        \* the notification: its channel and what its template makes
    status, attempt,
    delay,      \* how long the next attempt waits
    phase,      \* where the SMTP conversation stands
    secure,     \* the connection is under TLS
    \* History, read by no action.
    last,       \* why the last attempt failed
    copies,     \* messages the mail server took
    lost        \* those it took without the verdict arriving

outcome == <<status, attempt, delay>>
history == <<last, copies, lost>>
vars == <<conf, row, outcome, phase, secure, history>>

Channels == {"email", "inapp", "webhook"}
None == "none"

\* What Config.Validate accepts: a base within the cap, and no channel with two
\* senders.
Valid(c) ==
    /\ c.base <= c.cap
    /\ c.logTo # "inapp"
    /\ c.logTo = "email" => c.email = "off"

\* Email is off, or starts in the clear, or starts with a TLS handshake.
Deployments ==
    {c \in [email : {"off", "plain", "implicit"}, loopback : BOOLEAN,
            logTo : Channels \cup {None}, base : Bases, cap : Caps] : Valid(c)}

\* The routing table of buildSenders: the in-app sender always, the others when
\* they are enabled.
Sender(channel) ==
    CASE channel = "inapp" -> "inapp"
      [] channel = "email" /\ conf.email # "off" -> "smtp"
      [] channel = conf.logTo -> "log"
      [] OTHER -> None

\* A family has its two required parts, or does not exist; each part needs the
\* payload's keys and may still render to nothing but blanks.
Rows == [channel : Channels, family : BOOLEAN, payload : BOOLEAN,
         blank : {None, "subject", "text"}]

Init ==
    /\ conf \in Deployments /\ row \in Rows
    /\ status = "pending" /\ attempt = 0 /\ delay = 0
    /\ phase = None /\ secure = FALSE
    /\ last = None /\ copies = 0 /\ lost = 0

------------------------------------------------------------------------------
(* settle.                                                                 *)

MarkSent ==
    /\ status' = "sent" /\ delay' = 0
    /\ UNCHANGED <<attempt, last>>

MarkDead(why) ==
    /\ status' = "dead" /\ delay' = 0
    /\ last' = why
    /\ UNCHANGED attempt

\* Mutant: the delay is computed after the failure is counted.
retryAfterLate(draw) ==
    BackoffWithJitter(attempt + 1, conf.base, conf.cap, draw, DrawScale)

\* The delay is computed from the failures recorded before this one.
retryAfter(draw) ==
    BackoffWithJitter(attempt, conf.base, conf.cap, draw, DrawScale)

RecordFailure(why) ==
    /\ attempt' = attempt + 1
    /\ IF attempt + 1 >= MaxAttempts THEN status' = "dead" /\ delay' = 0
       ELSE /\ status' = "pending"
            /\ \E draw \in Draws \cup {-1} : delay' = retryAfter(draw)
    /\ last' = why

\* Every way out of Send closes the connection.
HangUp == phase' = None /\ secure' = FALSE

Settle(result) == result /\ HangUp /\ UNCHANGED <<conf, row>>

Continue(next) ==
    /\ phase' = next
    /\ UNCHANGED <<conf, row, outcome, history>>

------------------------------------------------------------------------------
(* attemptDelivery.                                                        *)

\* Render fails for an unknown family, a payload without a key the template
\* names, and a subject that comes out empty.
Renders == row.family /\ row.payload /\ row.blank # "subject"

\* A claimed row without a sender, or that does not render, is dead: a
\* deployment or a producer must change.  The senders of the other channels
\* cannot fail.
Attempt ==
    /\ status = "pending"
    /\ \/ /\ Sender(row.channel) = None
          /\ Settle(MarkDead("no_sender"))
          /\ UNCHANGED <<copies, lost>>
       \/ /\ Sender(row.channel) # None /\ ~Renders
          /\ Settle(MarkDead("unrendered"))
          /\ UNCHANGED <<copies, lost>>
       \/ /\ Sender(row.channel) \in {"inapp", "log"} /\ Renders
          /\ Settle(MarkSent)
          /\ UNCHANGED <<copies, lost>>
       \/ /\ Sender(row.channel) = "smtp" /\ Renders
          /\ status' = "sending" /\ phase' = "resolve"
          /\ UNCHANGED <<conf, row, attempt, delay, secure, history>>

\* A sender that panics is recovered and counts as a failure worth retrying.
Panic ==
    /\ phase # None
    /\ Settle(RecordFailure("panic"))
    /\ UNCHANGED <<copies, lost>>

------------------------------------------------------------------------------
(* The SMTP sender.                                                        *)

\* ResolveEmail and the parse of its answer, then build, which refuses a
\* message with no plain text.
Resolve ==
    /\ phase = "resolve"
    /\ \/ /\ \E why \in {"no_address", "unusable_address"} :
                Settle(MarkDead(why))
          /\ UNCHANGED <<copies, lost>>
       \/ /\ Settle(RecordFailure("lookup"))
          /\ UNCHANGED <<copies, lost>>
       \/ /\ row.blank = "text"
          /\ Settle(MarkDead("no_text"))
          /\ UNCHANGED <<copies, lost>>
       \/ /\ row.blank # "text"
          /\ Continue("dial") /\ UNCHANGED secure

\* Dial, and the handshake of implicit TLS: any failure is worth a retry.
Dial ==
    /\ phase = "dial"
    /\ \/ /\ Settle(RecordFailure("unreachable"))
          /\ UNCHANGED <<copies, lost>>
       \/ /\ Continue("greeting")
          /\ secure' = (conf.email = "implicit")

\* Mutant: every negative reply is final.
classifyAll(reply) == reply \in {"4xx", "5xx"}

\* classify: a 5xx reply is final, everything else may pass.
classify(reply) == reply = "5xx"

Failures == {"4xx", "5xx", "lost"}

Fail(reply) ==
    /\ Settle(IF classify(reply) THEN MarkDead(reply) ELSE RecordFailure(reply))
    /\ UNCHANGED <<copies, lost>>

\* A command whose failure is classified.
Command(from, to) ==
    /\ phase = from
    /\ \/ \E reply \in Failures : Fail(reply)
       \/ Continue(to) /\ UNCHANGED secure

Greeting == Command("greeting", "starttls")

\* STARTTLS when the connection is not secure and the server offers it; its
\* failure is never final.
StartTLS ==
    /\ phase = "starttls"
    /\ \/ /\ Continue("auth") /\ UNCHANGED secure   \* not offered, not needed
       \/ /\ ~secure
          /\ Continue("auth") /\ secure' = TRUE
       \/ /\ ~secure
          /\ Settle(RecordFailure("starttls"))
          /\ UNCHANGED <<copies, lost>>

\* PlainAuth keeps the password from a server in the clear, unless it is local.
Refuses == ~secure /\ ~conf.loopback

Auth ==
    \/ /\ phase = "auth" /\ Refuses
       /\ Settle(RecordFailure("insecure"))
       /\ UNCHANGED <<copies, lost>>
    \/ ~Refuses /\ Command("auth", "mail")

Mail == Command("mail", "rcpt")
Rcpt == Command("rcpt", "data")
Data == Command("data", "write")

Write ==
    /\ phase = "write"
    /\ \/ /\ Settle(RecordFailure("lost"))
          /\ UNCHANGED <<copies, lost>>
       \/ Continue("verdict") /\ UNCHANGED secure

\* Mutant: a failed QUIT fails the delivery.
DeliveredIfQuit(reply, quit) == reply = "ok" /\ quit

\* The reply to the final dot is the delivery's outcome; QUIT's is ignored.
Delivered(reply, quit) == reply = "ok"

\* The end of the message.  A server that took it may fail to say so.
Verdict ==
    /\ phase = "verdict"
    /\ \E reply \in Failures \cup {"ok"}, taken \in BOOLEAN, quit \in BOOLEAN :
        /\ reply = "ok" => taken
        /\ reply \in {"4xx", "5xx"} => ~taken
        /\ copies' = IF taken THEN copies + 1 ELSE copies
        /\ lost' = IF taken /\ reply = "lost" THEN lost + 1 ELSE lost
        /\ lost' <= MaxLost
        /\ Settle(IF Delivered(reply, quit) THEN MarkSent
                  ELSE IF classify(reply) THEN MarkDead(reply)
                  ELSE RecordFailure(reply))

SMTP ==
    \/ Resolve \/ Dial \/ Greeting \/ StartTLS \/ Auth
    \/ Mail \/ Rcpt \/ Data \/ Write \/ Verdict

Next == Attempt \/ SMTP \/ Panic

Spec == Init /\ [][Next]_vars

------------------------------------------------------------------------------
(* Properties.                                                             *)

Smaller(x, y) == IF x < y THEN x ELSE y

\* The wait before the next attempt, over unbounded integers: after n failures
\* it lies in the upper half of min(base * 2^(n-1), cap) and below that value,
\* whatever the draw and whatever the machine word does with the shift; the
\* first retry waits the base and not twice it.  RetryDelays, which Outbox
\* uses, covers it.
ScheduleIsReference ==
    status = "pending" /\ attempt > 0 =>
        LET d == Smaller(conf.base * Pow2[attempt - 1], conf.cap)
        IN  /\ d \div 2 <= delay /\ delay < d
            /\ delay \in RetryDelays(attempt - 1, conf.base, conf.cap)

Permanent == {"no_sender", "unrendered", "no_address", "unusable_address",
              "no_text", "5xx"}

\* A notification dies early only for a reason no retry repairs, and is never
\* tried again after one: no outage and no busy server destroys a mail before
\* its budget is spent, and no mailbox that is gone is tried twice.
FailureIsClassified ==
    /\ status = "dead" /\ attempt < MaxAttempts => last \in Permanent
    /\ last \in Permanent => status = "dead"

\* The server holds exactly one copy of a mail that is reported sent, and one
\* more for each verdict that was lost: nothing else duplicates a mail, and
\* nothing is reported sent that the server did not take.
CopiesAreAccountedFor ==
    copies = lost + IF status = "sent" /\ Sender(row.channel) = "smtp"
                    THEN 1 ELSE 0
==============================================================================
