# Kopiochi in TLA+

Kopiochi is a modular-monolith Go API: an identity module (passwords, lockout,
MFA, JWTs, rotating refresh tokens), a notification module (a transactional
outbox drained by background workers, an in-app mailbox, preferences) and a user
module, over PostgreSQL and behind one HTTP process that is started and stopped
by a lifecycle stack. Several replicas may run against one database. This
directory models the parts whose correctness depends on the order of steps taken
by different actors, checks them with TLC on small instances, and proves the
safety properties the passing runs check with TLAPS, for every number of actors
(all but one, which "Proofs" names).

## Inventory

| Part | State | Operations | What makes it hard | Module |
|---|---|---|---|---|
| Notification outbox (`modules/notification/{domain,application}`, `notification_repo.go`) | a row per notification: status, attempts, next_attempt_at, claimed_at; a copy per holder | Enqueue, ClaimBatch, settle, Save, ClaimStalled, RecoverStalled | two replicas on one table, crash between send and Save, a holder slower than the stall window | `Outbox`, `DeliveryContract` |
| Retry schedule (`notification.go`) | none | scaleBase, Backoff, BackoffWithJitter | shifts past the width of a word | `Backoff` |
| One delivery (`dispatch.go`, `email_smtp.go`, `renderer.go`, `module.go`) | status and attempts of a row, an SMTP conversation | attemptDelivery, Render, Send, classify, settle | every step may fail for now or for good; a verdict may be lost | `Delivery` |
| Enqueue, preferences, mailbox (`service.go`, `preference_repo.go`, `notifier_adapter.go`, `transport/`) | in-app rows, preference rows, idempotency keys, a client's cursor | notify, Enqueue, UpdatePreferences, List, MarkRead, MarkAllRead | producer retries, preferences changing under an Enqueue, pages against inserts | `Inbox` |
| Refresh tokens (`refresh.go`, `logout.go`, `refresh_token_store.go`) | a row per token: owner, family, used, revoked, expiry | Store, FindValid, FindAny, Rotate, RevokeFamily, RevokeAllForUser | READ COMMITTED statements of concurrent requests, failure between them | `RefreshTokens` |
| Login, lockout, MFA (`login.go`, `mfa_*.go`, `user_repo.go`, `mfa_store.go`) | the user row, backup codes, the tokens a client holds | Login, SetupMFA, VerifyMFASetup, VerifyMFA | read-then-save of whole rows by concurrent requests | `Account` |
| JWTs (`jwt.go`, `transport/middleware.go`) | signing key, verification keys | issue, validate, WithPreviousKey | three classes under one key; rotation | `Tokens` |
| HTTP front (`internal/httpx`, `internal/middleware`, `internal/metrics`, `container.go`) | buckets in a bounded table, handlers in flight, keys, records | RealIP, rate limit, route, authenticate, handle, recover, record | forged headers, full table, eviction, panics and deadlines, two verifiers | `Gateway` |
| Process lifecycle and dispatcher goroutines (`cmd/api`, `internal/lifecycle`, `server.go`, `database.go`, `dispatcher.go`) | boot phase, closer stack, servers, pool, goroutines, two contexts | Load, Open, BuildApp, NewRouter, Serve, Stack.Shutdown, Start, drain, Stop, second signal | a failure or signal at any point, timers against drains, random select | `Lifecycle` |
| Audit and log sinks, user use cases, generator, migrations, coverage tool | little or none | | stateless or one-shot | not modelled |

How they meet: `Tokens` is instantiated by `Account` (a fixed key, all classes)
and by `Gateway` (rotating keys, access tokens); `Backoff` is extended by
`Outbox` and `Delivery`; `Inbox` ends where a row enters the outbox, `Outbox`
takes a sender to be accepted, retryable or permanent, and `Delivery` shows how
one attempt comes to that verdict; `Lifecycle` runs the goroutines whose batches
`Outbox` describes row by row. A login's refresh token is the `IssueTokens` of
`RefreshTokens`.

`PROJECT.json` lists the same components with the reason for each one left out,
and every hazard with its line and the properties aimed at it.

## Modules

### Outbox, DeliveryContract

`row` is the notifications table and `copy[p][n]` what worker or sweeper `p`
holds in memory. Each SQL statement is one step: `ClaimBatch` is the `UPDATE ...
FOR UPDATE SKIP LOCKED ... RETURNING` with its order and limit, `DeliverOk`,
`DeliverPermanent` and `DeliverRetryable` are the branches of `settle` up to
its Save, `Save` writes the columns the repository writes with nothing but the
id in its WHERE clause, `Sweep` is ClaimStalled with the in-memory
RecoverStalled. `SaveFails` is a failed Save or a recovered panic, and `Crash`
kills one holder at any point. A worker takes the next row of its batch only
after the last one was saved or its save failed.

Instants are offsets from now, so that the state space is finite: `wait` is
next_attempt_at minus now, `age` is now minus claimed_at, and `Tick` moves them
all. `age` saturates one past the stall window, where no comparison can tell
values apart; `wait` saturates at `-MaxOverdue`, so the order among rows overdue by
more than that is left open.

`Prompt` states the deployment's timing assumption: whoever claims a row
settles it before the claim is `StalledAfter` old. **No code enforces it**: the
claim is stamped once for a whole batch that is then sent row by row. With
`Prompt = TRUE` the clock waits for holders; with `FALSE` nothing is assumed.

`DeliveryContract` is what a producer may rely on: an accepted notification is
owed, tried at most `MaxAttempts` times and settled once, as sent only if a
sender accepted it. Pending and sending are both "owed" under the refinement
mapping. `sends`, `acked` and `lost` are history: no action reads them.

### Backoff, Delivery

`Backoff` has the saturating shift, the clamp and the jitter over a signed word of
`ValueBits` value bits (63 in the code). `Delivery` follows one notification
through all its attempts, for every deployment `Config.Validate` accepts and
every way its template can turn out. `Attempt` is attemptDelivery up to the
sender; the SMTP conversation is a step per reply, each failing with a 4xx, a
5xx or a lost connection, and `Verdict` lets the server take the message
without its reply arriving. Jitter draws outside [0, 1) are included, since the
port allows them. Message texts, addresses and MIME are left out.

### Inbox

An Enqueue is three steps (`Stamp`, `LoadPreferences`, `Insert`), because a user
may change a preference between them and because created_at is taken at the
first and the row appears at the last, so rows become visible out of the order
the mailbox shows. `Report` starts an event over, as producers that retry do, and
`NextChannel` goes on whatever one channel returned. `Insert` may fail with or
without the row. `row` holds the in-app rows, which clients see, and `mail`
counts the rows of the other channels, which they do not. The table starts with
the one preference row that should not exist, a protected pair that is off,
because `Allowed` is written against it. A client's walk carries the cursor
`encodeCursor` gave it and nothing else; `must`, `got` and `muted` are history.

### RefreshTokens

One step per SQL statement, because that is where requests interleave. The
request labels are: `rotate` (FindValid found the token), `insert` (Rotate's
UPDATE done, transaction open, row locked), `lookup` (handleUnusableRefreshToken),
`revoke` and `revoking` (RevokeFamily before and during its UPDATE),
`loggingOut`. The database is READ COMMITTED, the default that InTx leaves
alone: a statement acts on the rows committed when it began (`snapshot`), waits
for rows another transaction holds, and does not see rows inserted meanwhile.
`Abandon` ends a request at any point: an error, a rollback, a lost client or a
killed replica. `Present` may fail its query, which the code treats like an
unusable token. A presented string that is no row at all changes nothing and
is left out, and so is the `reuse_detected_at` column, which no code reads back
(`killed` records the same event). `killed` and `ended` are the families whose
revocation, by reuse or by logout, has committed; `raced` are those in which a
Rotate committed while such a statement was waiting.

### Account, Tokens

One account, requests that interleave between statements. Each request copies
the row when it finds the user and writes the whole copy back (`Save`), as
`UserRepo.Save` does. A TOTP code is the secret it was computed from, so that
the public code of the empty secret can be tried. Any statement may fail.
`held` is what a client could present; `Bearer` runs `Tokens!Validate` on it, of
every class at every door. `disturbed` records that two requests overlapped or a
Save failed: it separates what the code promises one request at a time from what
it promises always.

`Tokens` has the service as a record (signing key, verification set, issuer,
audience, leeway) and tokens as their claims and header. `Validate` compares the
class last, after signature, issuer, audience and expiry, as the code does.

### Gateway

What a request meets, in the order NewRouter registers it: recovery, client
address, deadline, logger, metrics, CORS, rate limit, routes, AuthRequired,
handler. Everything before the handler is one step, since its only shared state
is the limiter's table behind a mutex; handlers run concurrently and end by
`Return` or by `Panic`, before or after their deadline and before or after they
wrote a status. `Layer` is the order as data: `WayBack` lists the statuses
written while the request returns through the chain, the first one is sent, and
`Noted` computes what the logger and the metrics see of them from where they
stand.

Requests come directly; through proxies that append to X-Forwarded-For, behind
whatever the client put there; through one that drops it and sets X-Real-Ip; or
through one that passes the client's X-Forwarded-For on (`PassedOn`: with
X-Real-Ip set, or its own entry in a second header line, which `Header.Get` does
not return). The comment of `RealIP` leaves the last kind out by trusting proxies
"to set those headers honestly"; the code then takes the forged hop, and
`misled` collects the addresses such an admitted request names. Tokens of a
bucket are counted in parts so that a refill can be fractional. `ideal` is the
reference: a bucket per address, refilled on every tick and charged for what
that address really sent.

`Restart` replaces the process. Its operator follows the rule in the comment of
`WithPreviousKey`: a retired key stays configured until its last token expired.

### Lifecycle

`serve` from its first line. Boot is a phase per fallible step, each constructor
of `BuildApp` being one (`notificationConfig` ... `NewNotification`), which fails
by itself or for what is switched on. `stack` holds the closers in push order;
Shutdown pops the last one whether or not the one before failed, and `failed`
is the error serve will return. `pc[g]` is a dispatcher goroutine in its select,
claiming, delivering or saving a row of a batch with `left[g]` rows to go, or
returned; `stopClaiming` and `abortWork` are the two contexts. A select with both
cases ready may take either, as Go's does.

A claim, a Save and a handler's query hold one of the pool's connections until
they return, and any of them may fail. `CloseDatabase` lets no further statement
begin and `PoolDrained` waits for those under way, as `pgxpool.Close` does, which
takes no context. `stranded` says why claimed rows were left sending: `unsaved`,
a statement about the row failed and was only logged (`dispatcher.go:275-281`,
`304-306`); `dropped`, the shutdown gave the row up.

## Runs

| Run | Instance | What it shows |
|---|---|---|
| `outbox` | 2 rows, 2 workers, 1 sweeper, batches of 2, 3 attempts, 2 faults, prompt holders, fair | one owner per claimed row; at most MaxAttempts deliveries; every duplicate follows a lost outcome; outcomes are truthful; sent and dead are final; the contract and its progress are implemented |
| `outbox_slow` | 1 row, 2 workers, 1 sweeper, 1 fault, fair, no timing assumption | holders overlap, and still outcomes are truthful and the row ends settled for good |
| `outbox_terminal` | the same without faults | violation: a late Save takes a row out of sent or dead |
| `delivery` | 7-bit words, 9 attempts, bases and caps at both ends of the word, every deployment and template outcome, one lost verdict | delays equal the reference over unbounded integers; a row dies early only for a permanent reason; the server holds one copy, and one more per lost verdict |
| `refresh_rotation` | 3 tokens, 2 users, 2 requests | one live token per login; a dead family stays dead; a token outlives a committed revocation only where a Rotate raced it |
| `refresh_kill` | 3 tokens, 1 user, 2 requests | violation: the child of a Rotate in flight survives RevokeFamily |
| `account` | 2 requests, lock after 2 failures, 2 secrets, 1 batch of codes, 3 ticks | enabled MFA is usable and locks are earned under any interleaving; counting, enrolment and the second factor are exact one request at a time; each class of token opens its own door |
| `account_backup` | the same | violation: one backup code lets two requests in |
| `inbox` | 2 events about one user, 2 producers, 2 channels, pages of 1 | one row per event and channel; opt-outs hold; security mail cannot be switched off; a walk shows each row once and in order |
| `gateway` | 2 clients, 1 proxy, 2 handlers, a table of 1 key, 3 signing keys, 3 ticks | each client its own budget behind honest proxies, withheld only while the table is full and the budget whole; identity sessions end with their token across rotations; preflights, 429s and refusals are logged and counted as sent |
| `gateway_rotation` | the same | violation: user and notification routes refuse live tokens after a rotation |
| `lifecycle` | 1 worker, 1 sweeper, 1 request, batches of 2, every combination of switches | the shutdown itself strands no row, leaks nothing and closes the pool last; what exit status 0 means; the process exits by its timers once statements return, and the drain without timers when deliveries return |

### Why the bounds are enough

Outbox: conflicts need two holders of one row and one other row in a batch; two
workers and a sweeper give every pair of holder kinds, two rows with batches of
two give a partly saved batch, and a batch of one (`outbox_slow`) a full one that
leaves nothing. Three attempts distinguish first, middle and last; two faults
allow a recovery to be lost in its turn. The invariants hold with two sweepers
as well. Delivery: nine attempts cross the word's seven value bits.
Refresh: three tokens are a login and two rotations, or two logins and one; two
requests give every pair of concurrent handlers, and three requests with one user
give the same verdicts. Account: two requests give every pair of handlers; the
horizon outlasts a lock and every token; two secrets tell a stale enrolment
from the current one. Inbox: two rows and pages of one make three pages, with a
row inserted before, on and after the cursor's instant; clients ask for more than
the cap, so the normalised limit differs from theirs. Gateway: a table of one
key is full as soon as anybody is known; three keys make a rotation after a
rotation; the horizon outlasts TTL, the refill of a token and the life of an
access token. Lifecycle: a worker and the sweeper with batches of two put both
kinds of goroutine in every pair of phases at every point of the unwinding, with
a row still to come; a second worker differs from neither, and the proofs allow
any number.

`Symmetry` permutes interchangeable model values and is used only in runs that
check no liveness.

### Fairness

Outbox: `ClaimBatch` and `Sweep` are weakly fair because their tickers fire for
as long as the dispatcher runs; `WorkerStep` because every sender has a
timeout; `Save` because the database answers once faults are spent, and `Tick`
is time. Faults are bounded by `MaxFaults`: against a database that never
answers nothing is ever settled. Lifecycle: the specification assumes only that
the main goroutine is scheduled. `ShutdownCompletes` adds that the two timers
expire (`TimersFire`) and that statements under way return their connection
(`StatementsReturn`): a request's has the deadline of `chimw.Timeout`
(`router.go:71`), a goroutine's ends when Stop cancels the work context. It
assumes nothing of senders, of handlers between statements, or of the dispatcher
goroutines. Without `StatementsReturn` the property is false, since the pool's
closer waits for ever; then only the second signal ends the process, which is all
`stack.go:69-72` promises.
`DrainEnds` adds instead that statements and deliveries return, and strong
fairness of the `claim.Done()` case, since Go picks a ready case at random and
does not pick the ticker for ever; no timer is needed.

`CHECK_DEADLOCK` is off where the system ends: an exited process, a settled
notification, and the gateway when its clock has stopped while it drains.

## Proofs

Checked by TLAPS for all values of the constants that each module's own
assumption allows (`OutboxAssumption`, `DurationAssumption`,
`DeliveryAssumption`, `AccountAssumption`, `InboxAssumption`,
`GatewayAssumption`, `LifecycleAssumption`; `RefreshTokens` needs none).
They say that counts, sizes and durations are numbers of the right sign, that
sets of names do not overlap, and what `Config.Validate` enforces; none bounds
the number of actors. `MaxRows`, `Horizon` and the other bounds of a run
are arbitrary in the proofs. Every invariant and every action property of a
passing run is a theorem, except `RejectedTrafficIsSeen`: it is about one fixed
chain and finitely many answers, all of which TLC visits. Each inductive
invariant was first checked with TLC on the run's instance.

**OutboxProofs.** With no timing assumption. `TypeCorrect`: types are not
inductive alone, since `attempts <= MaxAttempts` after a charge needs that
whatever is pending or sending, in the table or in a copy, has budget left
(`BudgetLeft`). `TrueOutcomes`: a Save writes what a copy says, so the
invariant (`TruthInv`) asks of every copy what the property asks of the table;
budget left makes a charge that ends dead end at the budget exactly.

**OutboxOwnership.** Under `ASSUME Prompt`: `Exclusive`, `BudgetHolds`,
`DuplicatesExplained`, `SettledForGood`, `AttemptsMonotone` (no Save refunds an
attempt), and `OutboxImplementsContract` (every step is one contract step or a
stutter). The invariant is `PromptInv`:

- `Ownership`: a holder is alone, its row is sending, its claim no older than the
  stall window, so no sweep can take it;
- `SendsCharged`: each delivery tried is charged to an attempt or is the
  one still open, which bounds deliveries by the budget;
- `AcksAccounted`: accepted deliveries are those lost plus the one in hand.

Without `Prompt` the theorems are false, which `outbox_terminal` shows for one
of them.

**DeliveryProofs.** `ScheduleExact` is the retry schedule for every word width:
the guard of `scaleBase` on the largest Duration makes every shift that is taken
fit the word (`BackoffIsReference`), and the jitter stays in the upper half of
the delay (`JitterInUpperHalf`). Powers of two are a recursive function,
`Pow2`, because the prover has no exponentiation; what it needs of them comes by
induction over the naturals, through the library's theorem that a well-founded
set has minimal elements (`LeastElement`, `Induction`), which takes no
operator as a parameter. For `FailureClassified` and `CopiesAccounted` each
action is first shown to have one of six effects on the row (`Dies`, `Hands`,
`Begins`, `GoesOn`, `Fails`, `Delivers`), so that the many replies of the
conversation are dealt with once. The invariant adds `Phased`, a conversation is
open exactly while the row is sending, and `Counted`, a row that is still open
has budget left.

**InboxProofs.** `InboxInv`: types, `KeysUnique` (the idempotency index),
`ReportsSound` (a report past the routability check names a channel with a
sender, and a muted one still waits for preferences that are still off) and
`WalkSound`. The last is what makes `WalkExact` inductive: the cursor is the last
row given, the rows given are in order, and each row that was there at the
start was given, was read under an unread walk, or lies beyond the cursor.
A page is the first rows of a finite set under a strict total order
(`BeforeOrder`), and that ranks within such a set run through all of
`1 .. Cardinality` is `RankIsOnto`. `OneRow`, `OptOut` and `SecurityMail`
follow from the other parts.

**RefreshTokenProofs.** `TokensTyped`, `OneLive` and `DeadForGood` from
`RotationInv`: a row that a Rotate has locked is still live and locked by it alone
(`LockedIsLive`), because revoking statements wait for the lock; its commit
then swaps the family's one live token for its child. `OnlyRaces` adds
`SurvivorsRaced`, which asks of a statement that is still waiting what the
property asks of one that has committed: a live token of a family it covers is
in its snapshot, or the family is in `raced`. `NoFalseAlarm` adds `CauseInv`: a
token presented once is in the hands of one request and unspent, so a request
that finds its token spent or revoked has a second presentation or a logout
behind it. It is the exact statement of what an alarm means in the code, and
weaker than what the documentation says of it (see below).

**AccountProofs.** A copy may be written back at any time, so the invariant
asks of every copy what it asks of the row: `CopiesSound` (the MFA flag
only with a secret and stored codes; a request past its code check has them) gives
`EnabledUsable`, and that no copy counts more failures than happened gives
`LockEarned`. The serial half holds while nothing is `disturbed`: at most one
request runs (`Alone`), on a copy equal to the row, and the codes accepted are
the codes marked (`CodesExact`). `SerialCount`, `SerialEnrolment` and
`SerialMFA` follow. `OwnDoor` is `Tokens!Validate` computed for the tokens a
client can hold.

**GatewayProofs.** `OwnBudget` rests on `OwnLevels`, the same equality for the
bucket a key has or would be given, with a finite table of bounded size and
well-formed buckets: refilling lazily equals refilling tick by tick
(`RefillIsLazy`), a sweep changes no level because it drops full buckets only
(`SweepLevels`), and a request is charged to the address that sent it through
any chain of honest proxies and any forged headers, and to an address it names
through the others (`ChargedToSender`, `ChargedToNamed`). An address that is
turned away is not tracked, so its reference bucket is full. `SessionsEndOnTime`
needs `KeysOK`: a key with a token alive is the signing or the previous one.
`GatewayTyped` completes `GatewayInv`.

**LifecycleProofs.** `LifecycleInv` ties what is acquired to the stack: the
stack is a first part of what serve pushes (`TypeOK`), each boot phase knows
its depth (`BootOrder`), a closer runs above what is left (`CloserOrder`), and
whatever is acquired has its closer on the stack or running (`ResourcesHeld`).
`StopAccounted` and `ExitAccounted` relate how the drain and serve ended to the
error that is returned: rows are `dropped` only under a cancelled work context or
a closing pool, which by then follow a drain that timed out. `PoolLast`,
`AllReleased`, `NothingStranded` and `ExitZero` are read off it. A row whose own
statement failed is outside both of the last two, because the code neither
retries it nor reports it to Stop.

Only model-checked: liveness (`EventuallySettled`, `ImplementsFairContract`,
`ShutdownCompletes`, `DrainEnds`), which TLAPS does not prove under fairness;
`RejectedTrafficIsSeen`; and the four refuted properties, which are not theorems.

## Findings

1. `outbox_terminal`: Save is not fenced by the claim. A holder that outlives the
   stall window overwrites the outcome another stored, so a sent row can be
   pending, and delivered, again.
2. `refresh_kill`: RevokeFamily misses the child a concurrent Rotate commits. The
   counterexample: A rotates the live token and has not committed; B presents a
   spent token of the family, takes its snapshot, waits for A, and revokes only
   rows it saw. `RevokeAllForUser` has the same shape.
3. `account_backup`: a backup code is looked up and marked in two statements, the
   second of which names only the key. Two requests with one code are both let in.
4. `gateway_rotation`: `newAuthMiddleware` leaves out `PreviousPublicKeyPath`, so
   a rotation that the identity routes do not notice logs clients out of the user
   and notification routes.

Smaller disagreements met on the way, reachable in the models but without a run of their own:

- the first refresh after a logout is audited as reuse: `refresh.go:99` takes a
  revoked token for a spent one, against `audit.go:26` ("a refresh token presented
  twice") and `migrations/00006:30-32`, which sets reuse apart from "an ordinary
  logout". `NoFalseAlarm` names the logout as one of the two causes;
- Rotate's UPDATE does not repeat `expires_at > now()`
  (`refresh_token_store.go:97`, against `:81`), so a token that expires after
  FindValid is rotated;
- a tick that is ready with the cancellation may start one more cycle after Stop
  (`dispatcher.go:256`, against `config.go:104`), which `DrainEnds` and
  `DrainStrandsNothing` show to be harmless to the drain;
- a login in flight while MFA is being confirmed writes its older copy back:
  backup codes have been shown and MFA is off. `SerialEnrolmentHolds` and
  `SerialMFAEnforced` need `~disturbed` for this reason;
- a row whose Save fails during the drain stays sending while Stop returns nil and
  the process exits 0 (`dispatch.go:145-147`, `dispatcher.go:275-281`): the next
  process's sweep recovers it. `ExitZeroMeansClean` and `DrainStrandsNothing`
  allow for it by name;
- a recovered panic is neither logged as completed nor counted, because it passes
  the logger and the metrics as a panic and becomes a 500 outside them
  (`router.go:72-75` says it is counted and logged);
- a handler that returned late without writing anything, which the recorders allow
  for and no handler here does, would be sent as Timeout's 504 and recorded as
  200 (`zerolog.go:47-53`, `metrics.go:129-132`). `RejectedTrafficIsSeen` is
  therefore about answers written below the recorders;
- a trusted proxy that sets X-Real-Ip and passes X-Forwarded-For on lets a client
  choose the address it is charged to (`clientip.go:88-103` prefers the second
  header); `EachClientItsOwnBudget` exempts what such a request names.

## Not modelled

- Decoding of request bodies, headers, problem texts, templates, MIME and JWK
  encodings, password hashing and signatures: functions of their input with no
  state, out of the model's data abstraction.
- Audit and log sinks and the notification observer: written and never read.
- The user module's use cases: single statements with no protocol between them.
- `cmd/generator`, `cmd/migrate`, `tools/coverage`: one-shot development tools.
- Parsing of the configuration; its validation is a phase that may fail.

## Plan

Theorems still worth stating, none of them a property of a run: that `Validate`
of `Tokens` accepts exactly the living tokens of its class for any set of keys;
what does hold in place of three of the refuted properties (a code accepted
twice has two requests that overlapped; a token refused by the other routes was
signed with a retired key; a settled row changes only under a holder that
outlived its claim).
