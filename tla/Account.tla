------------------------------- MODULE Account --------------------------------
(***************************************************************************)
(* One account of the identity module: Login with its lockout, the two     *)
(* steps of MFA enrolment and the second step of an MFA login, as          *)
(* concurrent requests.  Each request reads the user, works on its copy    *)
(* and writes the whole row back with UserRepo.Save, so requests overwrite *)
(* each other's columns.                                                   *)
(*                                                                         *)
(* Statements are atomic.  A password is right or wrong; a TOTP code is    *)
(* the secret it was computed from, and None stands for the public code of *)
(* the empty secret.                                                       *)
(***************************************************************************)
EXTENDS Naturals, Sequences

CONSTANTS
    Requests,          \* handler goroutines
    MaxFailedAttempts,
    LockDuration,
    AccessTTL, IDTTL, MfaTTL, Leeway,
    CodesPerBatch,     \* backup codes one confirmation issues
    \* Bounds of the model.
    Horizon,           \* the clock stops here
    MaxSecrets,        \* secrets SetupMFA generates
    MaxBatches,        \* confirmations
    MaxCount           \* failed passwords counted

ASSUME AccountAssumption ==
    /\ {MaxFailedAttempts, LockDuration, AccessTTL, IDTTL, MfaTTL, Leeway,
        CodesPerBatch, MaxCount, Horizon} \subseteq Nat \ {0}
    /\ {MaxSecrets, MaxBatches} \subseteq Nat
    /\ MaxFailedAttempts <= MaxCount

\* The key set is fixed here; module Gateway rotates it.
T == INSTANCE Tokens WITH Keys <- {"key"}, NoKid <- "none"

User == "user"
jwt == T!NewJWTService("key", "issuer", "client", Leeway, Leeway)

VARIABLES
    row,         \* the user's row
    codes,       \* the user's backup codes in order of issue: TRUE when used
    secrets,     \* secrets generated so far: 1 .. secrets
    now,
    req,         \* the request each goroutine is serving
    held,        \* per class, the expiry of the newest token the client has
    \* History, read by no action.
    fails,       \* wrong passwords so far, up to MaxCount
    streak,      \* wrong passwords since the last right one, up to MaxCount
    disturbed,   \* two requests overlapped, or a Save failed
    told,        \* a confirmation has been answered with backup codes
    spent,       \* backup codes that were accepted
    reused       \* one was accepted again

store == <<row, codes, secrets>>
counted == <<fails, streak>>
history == <<counted, disturbed, told, spent, reused>>
vars == <<store, now, req, held, history>>

None == 0

\* The columns requests change.  lockedUntil = None is NULL.
Users == [enabled : BOOLEAN, secret : 0 .. MaxSecrets,
          attempts : 0 .. MaxCount,
          lockedUntil : 0 .. Horizon + LockDuration]

Fresh == [enabled |-> FALSE, secret |-> None, attempts |-> 0,
          lockedUntil |-> None]

PCs == {"idle", "password", "issue", "setup", "confirm", "enable", "lookup",
        "mark", "grant"}

\* A request: where it is, its copy of the user, its input.
Idle == [pc |-> "idle", user |-> Fresh, arg |-> None]

Init ==
    /\ row = Fresh /\ codes = <<>> /\ secrets = 0
    /\ now = 1
    /\ req = [r \in Requests |-> Idle]
    /\ held = [c \in T!Classes |-> 0]
    /\ fails = 0 /\ streak = 0 /\ disturbed = FALSE
    /\ told = FALSE /\ spent = {} /\ reused = FALSE

------------------------------------------------------------------------------
(* domain.User, the TOTP service and the repository.                       *)

IsLocked(u) == u.lockedUntil # None /\ now < u.lockedUntil

\* Mutant: a failure is counted twice.
RecordFailedLoginTwice(u) ==
    [u EXCEPT !.attempts = @ + 2,
              !.lockedUntil = IF u.attempts + 2 >= MaxFailedAttempts
                              THEN now + LockDuration ELSE @]

\* Mutant: the threshold is one too low.
RecordFailedLoginEarly(u) ==
    [u EXCEPT !.attempts = @ + 1,
              !.lockedUntil = IF u.attempts + 2 >= MaxFailedAttempts
                              THEN now + LockDuration ELSE @]

RecordFailedLogin(u) ==
    [u EXCEPT !.attempts = @ + 1,
              !.lockedUntil = IF u.attempts + 1 >= MaxFailedAttempts
                              THEN now + LockDuration ELSE @]

\* Mutant: only the lock is cleared.
ResetLockOnly(u) == [u EXCEPT !.lockedUntil = None]

ResetFailedLogins(u) == [u EXCEPT !.attempts = 0, !.lockedUntil = None]

\* Mutant: the empty secret has a valid code.
ValidateCodeEmpty(secret, code) == code = secret

ValidateCode(secret, code) == secret # None /\ code = secret

\* The lookups return a copy of the row.  None is both the NULL of the column
\* and the empty string of the copy.
FindByUsername == row
FindByID == row

\* UserRepo.Save: the whole row, or an error.
Save(u) == row' = u

\* A token of this class is presented and accepted.
Bearer(cls, want) ==
    T!Validate(jwt, T!Sign(jwt, cls, User, jwt.audience, held[cls]), want, now)

Busy(r) == req[r].pc # "idle"

\* A request starts: a lone goroutine is undisturbed.
Overlap(r) == disturbed' = (disturbed \/ \E q \in Requests \ {r} : Busy(q))

Continue(r, pc, user, arg) ==
    req' = [req EXCEPT ![r] = [pc |-> pc, user |-> user, arg |-> arg]]
Answer(r) == req' = [req EXCEPT ![r] = Idle]

------------------------------------------------------------------------------
(* Login.                                                                  *)

\* FindByUsername and the lock check.  arg = 1 is the right password.
LoginFind(r) ==
    /\ ~Busy(r)
    /\ \/ Answer(r)            \* the lookup failed
       \/ IsLocked(FindByUsername) /\ Answer(r)
       \/ /\ ~IsLocked(FindByUsername)
          /\ \E good \in {0, 1} :
                Continue(r, "password", FindByUsername, good)
    /\ Overlap(r)
    /\ UNCHANGED <<store, now, held, counted, told, spent, reused>>

Bump(n) == IF n < MaxCount THEN n + 1 ELSE n

\* A wrong password is charged to the copy and saved; a failing Save is
\* ignored.
LoginWrong(r) ==
    /\ req[r].pc = "password" /\ req[r].arg = 0
    /\ \/ /\ req[r].user.attempts < MaxCount
          /\ Save(RecordFailedLogin(req[r].user))
          /\ UNCHANGED disturbed
       \/ UNCHANGED row /\ disturbed' = TRUE
    /\ Answer(r)
    /\ fails' = Bump(fails) /\ streak' = Bump(streak)
    /\ UNCHANGED <<codes, secrets, now, held, told, spent, reused>>

\* The right password: the counters are reset and saved before anything is
\* issued; a failing Save ends the request.
LoginRight(r) ==
    /\ req[r].pc = "password" /\ req[r].arg = 1
    /\ LET u == ResetFailedLogins(req[r].user)
       IN  \/ /\ Save(u) /\ Continue(r, "issue", u, None)
              /\ streak' = 0
              /\ UNCHANGED disturbed
           \/ /\ UNCHANGED <<row, streak>> /\ Answer(r)
              /\ disturbed' = TRUE
    /\ UNCHANGED <<codes, secrets, now, held, fails, told, spent, reused>>

Sessions == [held EXCEPT !["access"] = T!IssueAccessToken(jwt, User, now, AccessTTL).exp,
                         !["id"] = T!IssueIDToken(jwt, User, jwt.audience, now, IDTTL).exp]

\* issueFullTokens, which may fail to store the refresh token.
issueFullTokens(r) ==
    \/ held' = Sessions /\ Answer(r)
    \/ UNCHANGED held /\ Answer(r)

\* Mutant: MFA accounts get their tokens at once.
LoginIssueDirect(r) ==
    /\ req[r].pc = "issue"
    /\ issueFullTokens(r)
    /\ UNCHANGED <<store, now, history>>

\* The copy decides whether a second factor is asked for.
LoginIssue(r) ==
    /\ req[r].pc = "issue"
    /\ \/ /\ req[r].user.enabled
          /\ held' = [held EXCEPT !["mfa"] =
                         T!IssueMFAToken(jwt, User, now, MfaTTL).exp]
          /\ Answer(r)
       \/ ~req[r].user.enabled /\ issueFullTokens(r)
    /\ UNCHANGED <<store, now, history>>

------------------------------------------------------------------------------
(* Enrolment, behind AuthRequired.                                         *)

\* SetupMFA reads the user and generates a secret.
SetupFind(r) ==
    /\ ~Busy(r) /\ \E c \in T!Classes : Bearer(c, "access")
    /\ secrets < MaxSecrets
    /\ secrets' = secrets + 1
    /\ Continue(r, "setup", FindByID, secrets + 1)
    /\ Overlap(r)
    /\ UNCHANGED <<row, codes, now, held, counted, told, spent, reused>>

\* The secret is stored; nothing asks whether MFA is already on.
SetupSave(r) ==
    /\ req[r].pc = "setup"
    /\ \/ /\ Save([req[r].user EXCEPT !.secret = req[r].arg])
          /\ Answer(r) /\ UNCHANGED disturbed
       \/ UNCHANGED row /\ Answer(r) /\ disturbed' = TRUE
    /\ UNCHANGED <<codes, secrets, now, held, counted, told, spent, reused>>

\* Mutant: neither the use case nor the TOTP service refuses an empty secret.
CanConfirmEmpty(u, code) == ValidateCodeEmpty(u.secret, code)

CanConfirm(u, code) == u.secret # None /\ ValidateCode(u.secret, code)

\* VerifyMFASetup up to the code check.
ConfirmFind(r) ==
    /\ ~Busy(r) /\ \E c \in T!Classes : Bearer(c, "access")
    /\ \E code \in 0 .. secrets :
        IF CanConfirm(FindByID, code)
        THEN Continue(r, "confirm", FindByID, None)
        ELSE Answer(r)
    /\ Overlap(r)
    /\ UNCHANGED <<store, now, held, counted, told, spent, reused>>

NewBatch == [i \in 1 .. CodesPerBatch |-> FALSE]

\* StoreBackupCodes is one insert; earlier batches stay valid.
ConfirmStoreCodes(r) ==
    /\ req[r].pc = "confirm"
    /\ \/ /\ Len(codes) + CodesPerBatch <= MaxBatches * CodesPerBatch
          /\ codes' = codes \o NewBatch
          /\ req' = [req EXCEPT ![r].pc = "enable"]
       \/ UNCHANGED codes /\ Answer(r)
    /\ UNCHANGED <<row, secrets, now, held, history>>

\* The copy is enabled and saved, and the codes are shown.
ConfirmEnable(r) ==
    /\ req[r].pc = "enable"
    /\ \/ /\ Save([req[r].user EXCEPT !.enabled = TRUE])
          /\ Answer(r) /\ told' = TRUE /\ UNCHANGED disturbed
       \/ /\ UNCHANGED <<row, told>> /\ Answer(r)
          /\ disturbed' = TRUE
    /\ UNCHANGED <<codes, secrets, now, held, counted, spent, reused>>

------------------------------------------------------------------------------
(* The second step of an MFA login.                                        *)

\* VerifyMFA: the token, the user, and then a TOTP code or a backup code.
\* Neither the lock nor MFAEnabled is asked for, and the columns of the copy
\* are not used again.
FactorFind(r) ==
    /\ ~Busy(r)
    /\ IF \E c \in T!Classes : Bearer(c, "mfa")
       THEN \/ \E code \in 0 .. secrets :
                 IF ValidateCode(FindByID.secret, code)
                 THEN Continue(r, "grant", Fresh, None)
                 ELSE Answer(r)
            \/ \E code \in DOMAIN codes : Continue(r, "lookup", Fresh, code)
       ELSE Answer(r)
    /\ Overlap(r)
    /\ UNCHANGED <<store, now, held, counted, told, spent, reused>>

\* FindAndUseBackupCode: the unused codes are selected ...
BackupLookup(r) ==
    /\ req[r].pc = "lookup"
    /\ IF codes[req[r].arg]
       THEN Answer(r)
       ELSE req' = [req EXCEPT ![r].pc = "mark"]
    /\ UNCHANGED <<store, now, held, history>>

Accepted(r) ==
    /\ req' = [req EXCEPT ![r].pc = "grant"]
    /\ spent' = spent \cup {req[r].arg}
    /\ reused' = (reused \/ req[r].arg \in spent)

\* Mutant: the update is not checked for an error.
BackupMarkUnchecked(r) ==
    /\ req[r].pc = "mark"
    /\ codes' \in {codes, [codes EXCEPT ![req[r].arg] = TRUE]}
    /\ Accepted(r)
    /\ UNCHANGED <<row, secrets, now, held, counted, disturbed, told>>

\* ... and the one that matches is marked by its key alone.
BackupMark(r) ==
    /\ req[r].pc = "mark"
    /\ \/ codes' = [codes EXCEPT ![req[r].arg] = TRUE] /\ Accepted(r)
       \/ UNCHANGED <<codes, spent, reused>> /\ Answer(r)
    /\ UNCHANGED <<row, secrets, now, held, counted, disturbed, told>>

FactorGrant(r) ==
    /\ req[r].pc = "grant"
    /\ issueFullTokens(r)
    /\ UNCHANGED <<store, now, history>>

------------------------------------------------------------------------------
Tick ==
    /\ now < Horizon
    /\ now' = now + 1
    /\ UNCHANGED <<store, req, held, history>>

Login(r) == LoginFind(r) \/ LoginWrong(r) \/ LoginRight(r) \/ LoginIssue(r)
SetupMFA(r) == SetupFind(r) \/ SetupSave(r)
VerifyMFASetup(r) ==
    ConfirmFind(r) \/ ConfirmStoreCodes(r) \/ ConfirmEnable(r)
VerifyMFA(r) ==
    FactorFind(r) \/ BackupLookup(r) \/ BackupMark(r) \/ FactorGrant(r)

Next ==
    \/ \E r \in Requests :
        Login(r) \/ SetupMFA(r) \/ VerifyMFASetup(r) \/ VerifyMFA(r)
    \/ Tick

Spec == Init /\ [][Next]_vars

------------------------------------------------------------------------------
(* Properties.                                                             *)

\* Type invariant: the row, the requests and their copies are well formed, a
\* request about to store a secret has one, and a backup code that is looked
\* up or was accepted is in the table.
TypeOK ==
    /\ row \in Users
    /\ codes \in Seq(BOOLEAN) /\ Len(codes) <= MaxBatches * CodesPerBatch
    /\ secrets \in 0 .. MaxSecrets /\ now \in 1 .. Horizon
    /\ req \in [Requests -> [pc : PCs, user : Users, arg : Nat]]
    /\ \A r \in Requests :
        /\ req[r].pc = "setup" => req[r].arg \in 1 .. MaxSecrets
        /\ req[r].pc \in {"lookup", "mark"} => req[r].arg \in DOMAIN codes
    /\ held \in [T!Classes -> 0 .. Horizon + AccessTTL + IDTTL + MfaTTL]
    /\ fails \in 0 .. MaxCount /\ streak \in 0 .. MaxCount
    /\ disturbed \in BOOLEAN /\ told \in BOOLEAN /\ reused \in BOOLEAN
    /\ spent \subseteq DOMAIN codes

\* MFA that is on can be satisfied: whatever stale copies are written back and
\* whichever statement of an enrolment fails, an enabled account has a secret
\* to check codes against and backup codes in the table.
EnabledIsUsable == row.enabled => row.secret # None /\ codes # <<>>

\* Nobody is locked out by fewer than MaxFailedAttempts wrong passwords,
\* although requests overwrite each other's counter.
LockIsEarned ==
    /\ row.attempts <= fails
    /\ row.lockedUntil # None => fails >= MaxFailedAttempts

\* Without overlapping requests and failing saves the lockout is exact: the
\* row counts the wrong passwords since the last right one, and locks at the
\* threshold.
SerialCountIsExact ==
    ~disturbed =>
        /\ row.attempts = streak
        /\ (row.lockedUntil # None) = (streak >= MaxFailedAttempts)

\* Without overlapping requests and failing saves an enrolment holds: MFA
\* stays on once its backup codes were shown, and no code is accepted twice.
SerialEnrolmentHolds == ~disturbed => (told => row.enabled) /\ ~reused

\* Without overlapping requests a login to an account with MFA gets its tokens
\* from VerifyMFA and never from Login alone.  Refresh, which trades one session
\* for its successor, is in RefreshTokens.
SerialMFAEnforced ==
    [][~disturbed /\ row.enabled /\ held'["access"] # held["access"]
         => \E r \in Requests : req[r].pc = "grant"]_vars

\* The tokens of a login are not interchangeable: enrolment starts only while
\* an access token is alive and the second step only while an MFA token is,
\* whatever else the client holds.
TokenOpensItsOwnDoor ==
    [][\A r \in Requests :
         Busy(r)' /\ ~Busy(r) =>
           /\ req'[r].pc \in {"setup", "confirm"} =>
                now < held["access"] + Leeway
           /\ req'[r].pc \in {"lookup", "grant"} =>
                now < held["mfa"] + Leeway]_vars

\* What the tests and the API documentation say of backup codes: each is
\* accepted once.  Two requests that both looked the code up before either
\* marked it are both let in.
CodeIsSingleUse == ~reused
==============================================================================
