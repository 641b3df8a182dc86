---------------------------- MODULE RefreshTokens ----------------------------
(***************************************************************************)
(* Refresh-token families: login, rotation, reuse detection and logout     *)
(* over auth_refresh_tokens, with the requests of one or more server       *)
(* replicas interleaving between any two SQL statements.                   *)
(*                                                                         *)
(* The database runs at READ COMMITTED, the default InTx leaves alone: a   *)
(* statement sees the rows committed when it starts, waits for a row       *)
(* another transaction has updated, and then tests its WHERE clause again  *)
(* on the row's new version.  A row inserted meanwhile stays out of sight. *)
(*                                                                         *)
(* A family is named by the token of the login that started it.            *)
(***************************************************************************)
EXTENDS Naturals, FiniteSets

CONSTANTS
    Tokens,     \* the tokens that may be issued (bounds the logins and refreshes)
    Users,
    Requests    \* concurrent refresh and logout calls

VARIABLES
    issued,     \* committed rows
    owner,      \* user_id
    family,     \* family_id, as the family's first token
    used,       \* used_at IS NOT NULL
    revoked,    \* revoked = true
    expired,    \* expires_at <= now()
    pc,         \* where each request is
    target,     \* the token a refresh presents
    snapshot,   \* the rows a revoking statement found when it started
    \* History, read by no action.
    presented,  \* tokens presented to Refresh
    again,      \* tokens presented more than once
    loggedOut,  \* users a completed logout was for
    alarms,     \* families audited as RefreshReuseDetected
    killed,     \* families whose RevokeFamily committed
    ended,      \* families a committed logout of their owner was to end
    raced       \* families a Rotate committed in while a statement that had
                \* already found the old token was about to revoke it

rows == <<issued, owner, family, used, revoked, expired>>
history == <<presented, again, loggedOut, alarms, killed, ended, raced>>
vars == <<rows, pc, target, snapshot, history>>

Nobody == "nobody"   \* the owner of no row, the target of no request

Labels == {"idle", "rotate", "insert", "lookup", "revoke", "revoking",
           "loggingOut"}
Refreshing == {"rotate", "insert", "lookup", "revoke", "revoking"}

\* Unspent and unrevoked: usable, unless it has expired.
Live(t) == t \in issued /\ t \notin used /\ t \notin revoked

Usable(t) == Live(t) /\ t \notin expired

Family(f) == {t \in issued : family[t] = f}

\* A Rotate transaction has updated t's row and not ended: the row is locked.
InRotation(t) == \E r \in Requests : pc[r] = "insert" /\ target[r] = t

Goto(r, label) ==
    /\ pc' = [pc EXCEPT ![r] = label]
    /\ UNCHANGED target

\* The request answers.
Finish(r) ==
    /\ pc' = [pc EXCEPT ![r] = "idle"]
    /\ target' = [target EXCEPT ![r] = Nobody]
    /\ snapshot' = [snapshot EXCEPT ![r] = {}]

Init ==
    /\ issued = {} /\ used = {} /\ revoked = {} /\ expired = {}
    /\ owner = [t \in Tokens |-> Nobody]
    /\ family = [t \in Tokens |-> t]
    /\ pc = [r \in Requests |-> "idle"]
    /\ target = [r \in Requests |-> Nobody]
    /\ snapshot = [r \in Requests |-> {}]
    /\ presented = {} /\ again = {} /\ loggedOut = {} /\ alarms = {}
    /\ killed = {} /\ ended = {} /\ raced = {}

------------------------------------------------------------------------------
(* Actions.                                                                *)

\* The end of issueFullTokens: Store inserts a token with no FamilyID, which
\* starts a family of its own.
IssueTokens(u, t) ==
    /\ t \notin issued
    /\ issued' = issued \cup {t}
    /\ owner' = [owner EXCEPT ![t] = u]
    /\ family' = [family EXCEPT ![t] = t]
    /\ UNCHANGED <<used, revoked, expired, pc, target, snapshot, history>>

\* expires_at passes.  Each replica stamps it from its own clock, so tokens
\* need not expire in the order they were issued.
Expire(t) ==
    /\ t \in issued \ expired
    /\ expired' = expired \cup {t}
    /\ UNCHANGED <<issued, owner, family, used, revoked, pc, target, snapshot,
                   history>>

\* Mutant: a token nobody was given is taken for one that exists.
PresentUnknown(r, t) ==
    /\ pc[r] = "idle"
    /\ target' = [target EXCEPT ![r] = t]
    /\ pc' = [pc EXCEPT ![r] = "lookup"]
    /\ presented' = presented \cup {t}
    /\ again' = again \cup ({t} \cap presented)
    /\ UNCHANGED <<rows, snapshot, loggedOut, alarms, killed, ended, raced>>

\* Refresh up to FindValid.  Any error of FindValid, a failed query included,
\* sends the request to handleUnusableRefreshToken.
Present(r, t) ==
    /\ pc[r] = "idle"
    /\ t \in issued
    /\ target' = [target EXCEPT ![r] = t]
    /\ \/ Usable(t) /\ pc' = [pc EXCEPT ![r] = "rotate"]
       \/ pc' = [pc EXCEPT ![r] = "lookup"]
    /\ presented' = presented \cup {t}
    /\ again' = again \cup ({t} \cap presented)
    /\ UNCHANGED <<rows, snapshot, loggedOut, alarms, killed, ended, raced>>

\* FindAny tells a spent or revoked token from one that has only expired.
FindAny(r) ==
    /\ pc[r] = "lookup"
    /\ \/ /\ target[r] \in used \cup revoked
          /\ Goto(r, "revoke")
          /\ UNCHANGED snapshot
       \/ /\ target[r] \notin used \cup revoked
          /\ Finish(r)
    /\ UNCHANGED <<rows, history>>

\* Mutant: the number of rows the UPDATE affected is not looked at.
RotateUpdateUnchecked(r) ==
    /\ pc[r] = "rotate"
    /\ ~InRotation(target[r])
    /\ Goto(r, "insert")
    /\ UNCHANGED <<rows, snapshot, history>>

\* Rotate's UPDATE: it waits while another Rotate holds the row, then tests
\* used_at and revoked, not expires_at.  No row affected is
\* ErrRefreshTokenAlreadyUsed.
RotateUpdate(r) ==
    /\ pc[r] = "rotate"
    /\ ~InRotation(target[r])
    /\ IF Live(target[r]) THEN Goto(r, "insert") ELSE Goto(r, "revoke")
    /\ UNCHANGED <<rows, snapshot, history>>

\* Rotate's INSERT and COMMIT: the old token is spent and its child issued in
\* one step.
RotateCommit(r, child) ==
    /\ pc[r] = "insert"
    /\ child \notin issued
    /\ issued' = issued \cup {child}
    /\ owner' = [owner EXCEPT ![child] = owner[target[r]]]
    /\ family' = [family EXCEPT ![child] = family[target[r]]]
    /\ used' = used \cup {target[r]}
    /\ revoked' = revoked \cup {target[r]}
    /\ raced' = raced \cup
         {family[target[r]] : q \in {p \in Requests : target[r] \in snapshot[p]}}
    /\ Finish(r)
    /\ UNCHANGED <<expired, presented, again, loggedOut, alarms, killed, ended>>

\* Mutant: only the presented token is revoked.
RevokeTokenBegin(r) ==
    /\ pc[r] = "revoke"
    /\ snapshot' = [snapshot EXCEPT ![r] = {target[r]}]
    /\ Goto(r, "revoking")
    /\ UNCHANGED <<rows, history>>

\* RevokeFamily starts: the unrevoked rows of the family it can see.
RevokeFamilyBegin(r) ==
    /\ pc[r] = "revoke"
    /\ snapshot' = [snapshot EXCEPT ![r] =
                      Family(family[target[r]]) \ revoked]
    /\ Goto(r, "revoking")
    /\ UNCHANGED <<rows, history>>

\* What an UPDATE of the snapshot's rows does once no Rotate holds one.
RevokeSnapshot(r) ==
    /\ \A t \in snapshot[r] : ~InRotation(t)
    /\ revoked' = revoked \cup snapshot[r]
    /\ Finish(r)
    /\ UNCHANGED <<issued, owner, family, used, expired>>

\* RevokeFamily commits and the detection is audited.
RevokeFamilyEnd(r) ==
    /\ pc[r] = "revoking"
    /\ RevokeSnapshot(r)
    /\ alarms' = alarms \cup {family[target[r]]}
    /\ killed' = killed \cup {family[target[r]]}
    /\ UNCHANGED <<presented, again, loggedOut, ended, raced>>

\* RevokeFamily fails: nothing is revoked and the detection is audited with
\* the error.
RevokeFamilyFails(r) ==
    /\ pc[r] = "revoking"
    /\ alarms' = alarms \cup {family[target[r]]}
    /\ Finish(r)
    /\ UNCHANGED <<rows, presented, again, loggedOut, killed, ended, raced>>

\* Logout: RevokeAllForUser has no predicate but the user, so it visits every
\* row of theirs.
LogoutBegin(r, u) ==
    /\ pc[r] = "idle"
    /\ snapshot' = [snapshot EXCEPT ![r] = {t \in issued : owner[t] = u}]
    /\ snapshot'[r] # {}   \* otherwise the statement does nothing
    /\ Goto(r, "loggingOut")
    /\ UNCHANGED <<rows, history>>

LogoutEnd(r) ==
    /\ pc[r] = "loggingOut"
    /\ RevokeSnapshot(r)
    /\ loggedOut' = loggedOut \cup {owner[t] : t \in snapshot[r]}
    /\ ended' = ended \cup {family[t] : t \in snapshot[r]}
    /\ UNCHANGED <<presented, again, alarms, killed, raced>>

\* An error ends the request between two statements or rolls its transaction
\* back: FindByID, the random source, Rotate or RevokeAllForUser failed, the
\* client went away, or the replica was killed.
Abandon(r) ==
    /\ pc[r] # "idle"
    /\ Finish(r)
    /\ UNCHANGED <<rows, history>>

------------------------------------------------------------------------------
Step(r) ==
    \/ FindAny(r)
    \/ RotateUpdate(r)
    \/ \E t \in Tokens : RotateCommit(r, t)
    \/ RevokeFamilyBegin(r)
    \/ RevokeFamilyEnd(r)
    \/ RevokeFamilyFails(r)
    \/ LogoutEnd(r)
    \/ Abandon(r)

Next ==
    \/ \E u \in Users, t \in Tokens : IssueTokens(u, t)
    \/ \E t \in Tokens : Expire(t)
    \/ \E r \in Requests, t \in Tokens : Present(r, t)
    \/ \E r \in Requests, u \in Users : LogoutBegin(r, u)
    \/ \E r \in Requests : Step(r)

Spec == Init /\ [][Next]_vars

------------------------------------------------------------------------------
(* Properties.                                                             *)

\* Type invariant: rows, requests and history range over issued tokens.
TypeOK ==
    /\ issued \subseteq Tokens
    /\ used \subseteq issued /\ revoked \subseteq issued
    /\ expired \subseteq issued
    /\ owner \in [Tokens -> Users \cup {Nobody}]
    /\ family \in [Tokens -> Tokens]
    /\ pc \in [Requests -> Labels]
    /\ target \in [Requests -> Tokens \cup {Nobody}]
    /\ snapshot \in [Requests -> SUBSET issued]
    /\ presented \subseteq issued /\ again \subseteq presented
    /\ loggedOut \subseteq Users
    /\ alarms \subseteq issued /\ killed \subseteq issued
    /\ ended \subseteq issued /\ raced \subseteq issued

\* Rotation keeps at most one live token per login, whatever refreshes,
\* revocations, logouts and crashes interleave: two simultaneous refreshes of
\* one token never both get a child.
OneLivePerFamily ==
    \A t1, t2 \in issued :
        Live(t1) /\ Live(t2) /\ family[t1] = family[t2] => t1 = t2

\* Revocation is final: once a family has no live token, no request brings it
\* back to life, not even a Rotate that found its token live before.
FamilyDeadForGood ==
    [][\A f \in issued :
         (\A t \in Family(f) : ~Live(t))
           => (\A t \in Family(f)' : ~Live(t)')]_vars

\* A revocation that reported success ended the session: after RevokeFamily or
\* a logout commits, no token of a family it covered is live, unless a Rotate
\* committed in that family while the statement was waiting.  No other order of
\* logins, refreshes, failures and revocations lets a token survive.
OnlyRacesSurvive ==
    \A f \in (killed \cup ended) \ raced : \A t \in Family(f) : ~Live(t)

\* What the migration and RevokeFamily's contract say: detecting reuse revokes
\* every token of the family.  The child of a Rotate in flight escapes.
KilledFamilyIsDead ==
    \A f \in killed : \A t \in Family(f) : ~Live(t)

------------------------------------------------------------------------------
(* The inductive strengthening behind the theorems of RefreshTokenProofs.  *)

\* A family's name is one of its tokens, and all its tokens have one owner.
FamiliesFormed ==
    \A t \in issued :
        /\ family[t] \in issued /\ family[family[t]] = family[t]
        /\ owner[family[t]] = owner[t] /\ owner[t] \in Users

\* A refresh works on a token that exists.
TargetsIssued ==
    \A r \in Requests : pc[r] \in Refreshing => target[r] \in issued

\* The row a Rotate has locked is still live, and locked by it alone.
LockedIsLive ==
    \A r \in Requests :
        pc[r] = "insert" =>
            /\ Live(target[r])
            /\ \A q \in Requests \ {r} :
                  ~(pc[q] = "insert" /\ target[q] = target[r])

RotationInv ==
    TypeOK /\ FamiliesFormed /\ TargetsIssued /\ LockedIsLive /\ OneLivePerFamily

\* The family of t has a reason to be revoked.
Caused(t) ==
    \/ \E s \in again : family[s] = family[t]
    \/ owner[t] \in loggedOut

\* A token presented once is in the hands of one request and not yet spent.
SinglePresentation ==
    /\ used \subseteq presented
    /\ \A r \in Requests :
        pc[r] \in Refreshing =>
            /\ target[r] \in presented
            /\ target[r] \notin again =>
                  /\ target[r] \notin used
                  /\ \A q \in Requests \ {r} :
                        pc[q] \in Refreshing => target[q] # target[r]

\* Revocations, and requests about to revoke, have a cause.
RevocationsCaused ==
    /\ \A t \in revoked : t \in used \/ Caused(t)
    /\ \A r \in Requests :
        /\ pc[r] \in {"revoke", "revoking"} => Caused(target[r])
        /\ pc[r] = "revoking" =>
              \A t \in snapshot[r] : family[t] = family[target[r]]
    /\ \A f \in alarms : family[f] = f /\ Caused(f)

CauseInv == SinglePresentation /\ RevocationsCaused

\* What accounts for an alarm in the code: one of the family's tokens was
\* presented twice, or its user had logged out.  The second is not what the
\* audit event and the migration say an alarm means.
AlarmHasCause ==
    \A f \in alarms :
        \/ \E t \in again : family[t] = f
        \/ owner[f] \in loggedOut

\* A live token a revoking statement will miss, or has missed, is in a family
\* that a Rotate raced it in.
SurvivorsRaced ==
    /\ \A r \in Requests :
        /\ pc[r] = "revoking" /\ family[target[r]] \notin raced =>
              \A t \in Family(family[target[r]]) : Live(t) => t \in snapshot[r]
        /\ pc[r] = "loggingOut" =>
              \A s \in snapshot[r] : family[s] \notin raced =>
                \A t \in Family(family[s]) : Live(t) => t \in snapshot[r]
    /\ OnlyRacesSurvive
==============================================================================
