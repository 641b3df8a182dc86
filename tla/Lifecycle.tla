------------------------------ MODULE Lifecycle -------------------------------
(***************************************************************************)
(* The API process from start to exit: serve's boot phases and their       *)
(* failures, the lifecycle stack they push onto and its unwinding, the API *)
(* and metrics servers, and the notification dispatcher's worker and       *)
(* sweeper goroutines with their two cancellable contexts.                 *)
(*                                                                         *)
(* A statement holds one of the pool's connections until it returns, and   *)
(* may fail; a delivery holds none, and may hang.  What a batch does to    *)
(* its rows is the business of module Outbox.                              *)
(***************************************************************************)
EXTENDS Naturals, Sequences

CONSTANTS
    Workers,     \* dispatch goroutines
    Sweeper,     \* the sweep goroutine
    Requests,    \* HTTP requests that may be in flight at once
    BatchSize    \* rows one claim takes

Goroutines == Workers \cup {Sweeper}

ASSUME LifecycleAssumption ==
    /\ Sweeper \notin Workers
    /\ BatchSize \in Nat \ {0}

VARIABLES
    cfg,         \* notifications, metrics, rateLimit: what is switched on
    main,        \* the phase serve is in
    built,       \* steps of BuildApp that have succeeded
    signalled,   \* the first signal has cancelled the base context
    failed,      \* serve will return an error: its cause, or a teardown error
    stack,       \* closers still registered, in the order they were pushed
    closing,     \* the closer that is running
    http,        \* the API server
    admin,       \* the metrics server
    limiter,     \* the rate limiter's eviction goroutine
    request,     \* requests in flight, and those inside a statement
    pc,          \* where a goroutine of the dispatcher is
    left,        \* rows of its batch still to settle
    full,        \* its last claim took a whole batch
    stopClaiming, abortWork,   \* the two contexts are cancelled
    stopErr,     \* "none" before Stop ends, then "nil" or "timeout"
    db,          \* the connection pool
    \* History, read by no action.
    stranded,    \* why claimed rows were left sending: "unsaved", a statement
                 \* about the row failed; "dropped", the shutdown gave it up
    forced       \* a second signal ended the process

boot == <<cfg, built>>
servers == <<http, admin, limiter, request>>
serving == <<boot, main, signalled, failed, stack, closing, servers, db,
             forced>>
goroutines == <<pc, left, full>>
dispatcher == <<goroutines, stopClaiming, abortWork, stopErr, stranded>>
vars == <<serving, dispatcher>>

Running(g) == pc[g] \notin {"off", "returned"}
AllReturned == \A g \in Goroutines : ~Running(g)   \* d.done is closed
InHand(g) == pc[g] \in {"deliver", "save"}         \* g has claimed rows

\* The connections of the pool that are acquired: one per statement under way.
PoolInUse ==
    \/ \E g \in Goroutines : pc[g] \in {"claim", "save"}
    \/ \E q \in Requests : request[q] = "querying"

Alive == main # "exited"

Init ==
    /\ cfg \in [notifications : BOOLEAN, metrics : BOOLEAN,
               rateLimit : BOOLEAN]
    /\ main = "config" /\ built = 0
    /\ signalled = FALSE /\ failed = FALSE
    /\ stack = <<>> /\ closing = "none"
    /\ http = "none" /\ admin = "none" /\ limiter = "none"
    /\ request = [q \in Requests |-> "none"]
    /\ pc = [g \in Goroutines |-> "off"]
    /\ left = [g \in Goroutines |-> 0]
    /\ full = [g \in Goroutines |-> FALSE]
    /\ stopClaiming = FALSE /\ abortWork = FALSE /\ stopErr = "none"
    /\ db = "none"
    /\ stranded = {} /\ forced = FALSE

------------------------------------------------------------------------------
(* Booting.                                                                *)

Die ==
    /\ main' = "exited"
    /\ stranded' = stranded \cup IF \E g \in Goroutines : InHand(g)
                                  THEN {"dropped"} ELSE {}
    /\ UNCHANGED <<boot, signalled, stack, closing, servers, db, goroutines,
                   stopClaiming, abortWork, stopErr>>

\* serve returns before anything is on the stack.
GiveUp == Die /\ failed' = TRUE /\ UNCHANGED forced

\* shutdownAfter with a cause.
Unwind ==
    /\ main' = "unwinding" /\ failed' = TRUE
    /\ UNCHANGED <<boot, signalled, stack, closing, servers, db, forced,
                   dispatcher>>

\* config.Load, and Validate inside it.
LoadConfig ==
    /\ main = "config"
    /\ \/ GiveUp
       \/ /\ main' = "database"
          /\ UNCHANGED <<boot, signalled, failed, stack, closing, servers, db,
                         forced, dispatcher>>

\* db.Open under the startup timeout and the signal's context; when the ping
\* fails it closes the pool itself.
OpenDatabase ==
    /\ main = "database"
    /\ \/ GiveUp
       \/ /\ ~signalled
          /\ main' = "modules" /\ db' = "open"
          /\ stack' = <<"database">>
          /\ UNCHANGED <<boot, signalled, failed, closing, servers, forced,
                         dispatcher>>

\* Mutant: the notification module is built before the user module.
BuildOrderEarly ==
    <<"notification_config", "notifier", "identity", "notification", "user">>

\* The fallible steps of BuildApp.
BuildOrder ==
    <<"notification_config", "notifier", "identity", "user", "notification">>

Building(step) ==
    main = "modules" /\ built < Len(BuildOrder) /\ BuildOrder[built + 1] = step

\* The step succeeded and started nothing.
Constructed ==
    /\ built' = built + 1
    /\ UNCHANGED <<cfg, main, signalled, failed, stack, closing, servers, db,
                   forced, dispatcher>>

\* The keys are read for the routes of an enabled module only.
notificationConfig ==
    /\ Building("notification_config")
    /\ (cfg.notifications /\ Unwind) \/ Constructed

\* The settings are validated and the senders and templates built, for an
\* enabled module only.
NewEnqueuerFails == cfg.notifications /\ Unwind

\* A disabled module's notifier is the one that does nothing.
newSecurityNotifier == Building("notifier") /\ (NewEnqueuerFails \/ Constructed)

\* Settings are validated and the keys read again, here and for the user
\* module's middleware.
NewIdentity == Building("identity") /\ (Unwind \/ Constructed)

newUserModule == Building("user") /\ (Unwind \/ Constructed)

\* notification.New of an enabled module starts the dispatcher, after
\* everything in it that can fail.
NewNotification ==
    /\ Building("notification")
    /\ \/ cfg.notifications /\ Unwind
       \/ ~cfg.notifications /\ Constructed
       \/ /\ cfg.notifications
          /\ built' = built + 1
          /\ pc' = [g \in Goroutines |-> "select"]
          /\ UNCHANGED <<cfg, main, signalled, failed, stack, closing, servers,
                         db, forced, left, full, stopClaiming, abortWork,
                         stopErr, stranded>>

BuildApp ==
    \/ notificationConfig \/ newSecurityNotifier
    \/ NewIdentity \/ newUserModule \/ NewNotification

\* BuildApp returns the modules and serve pushes their Close; a disabled
\* notification module has one too.
PushModules ==
    /\ main = "modules" /\ built = Len(BuildOrder)
    /\ main' = "metrics"
    /\ stack' = Append(stack, "dispatcher")
    /\ UNCHANGED <<boot, signalled, failed, closing, servers, db, forced,
                   dispatcher>>

\* RegisterPool, when metrics are on.
RegisterMetrics ==
    /\ main = "metrics"
    /\ \/ cfg.metrics /\ Unwind
       \/ /\ main' = "router"
          /\ UNCHANGED <<boot, signalled, failed, stack, closing, servers, db,
                         forced, dispatcher>>

\* NewRouter starts the rate limiter's goroutine, or fails before it does.
BuildRouter ==
    /\ main = "router"
    /\ \/ cfg.rateLimit /\ Unwind
       \/ /\ main' = "serving" /\ http' = "starting"
          /\ limiter' = IF cfg.rateLimit THEN "running" ELSE "none"
          /\ admin' = IF cfg.metrics THEN "listening" ELSE "none"
          /\ LET pushed == Append(Append(stack, "router"), "http_server")
             IN  stack' = IF cfg.metrics THEN Append(pushed, "metrics_server")
                          ELSE pushed
          /\ UNCHANGED <<boot, signalled, failed, closing, request, db, forced,
                         dispatcher>>

\* The first signal, once serve listens for it.
Signal ==
    /\ Alive /\ main # "config" /\ ~signalled
    /\ signalled' = TRUE
    /\ UNCHANGED <<boot, main, failed, stack, closing, servers, db, forced,
                   dispatcher>>

------------------------------------------------------------------------------
(* The dispatcher's goroutines.                                            *)

\* The work context or the pool lets no statement begin.
Broken == abortWork \/ db \in {"closing", "closed"}

\* The ticker case of the select in runWorker and runSweeper.  A tick may be
\* pending when the claim context is cancelled, and then select may pick it.
\* A claim that cannot begin fails at once, and leaves the goroutine there.
Poll(g) ==
    /\ Alive /\ pc[g] = "select"
    /\ ~Broken
    /\ pc' = [pc EXCEPT ![g] = "claim"]
    /\ UNCHANGED <<serving, left, full, stopClaiming, abortWork, stopErr,
                   stranded>>

\* The claim.Done() case.
Return(g) ==
    /\ Alive /\ pc[g] = "select"
    /\ stopClaiming
    /\ pc' = [pc EXCEPT ![g] = "returned"]
    /\ UNCHANGED <<serving, left, full, stopClaiming, abortWork, stopErr,
                   stranded>>

\* A statement that fails is only logged: its row stays sending, whether the
\* context was cancelled or the database failed.
StatementFails == IF Broken THEN {"dropped"} ELSE {"unsaved"}

\* ClaimBatch or ClaimStalled returns: nothing due or an error, perhaps after
\* the rows were marked, and the goroutine goes back to its select; or some
\* rows, now sending.
Claim(g) ==
    /\ Alive /\ pc[g] = "claim"
    /\ \E rows \in 0 .. BatchSize :
        /\ left' = [left EXCEPT ![g] = rows]
        /\ full' = [full EXCEPT ![g] = rows = BatchSize]
        /\ pc' = [pc EXCEPT ![g] = IF rows = 0 THEN "select" ELSE "deliver"]
        /\ \/ UNCHANGED stranded
           \/ rows = 0 /\ stranded' = stranded \cup StatementFails
    /\ UNCHANGED <<serving, stopClaiming, abortWork, stopErr>>

\* Mutant: shutdown ends the cycle between two rows of a batch.
AfterRowEager(g) ==
    IF stopClaiming THEN "select"
    ELSE IF left[g] > 1 THEN "deliver"
    ELSE IF g \in Workers /\ full[g] THEN "claim" ELSE "select"

\* Mutant: only an empty or short claim ends the drain loop.
AfterRowForever(g) ==
    IF left[g] > 1 THEN "deliver"
    ELSE IF g \in Workers /\ full[g] THEN "claim" ELSE "select"

\* Where a goroutine goes after a row: the rest of its batch first, whatever
\* was cancelled; a worker that took a full batch claims again unless claiming
\* has stopped.
AfterRow(g) ==
    IF left[g] > 1 THEN "deliver"
    ELSE IF g \in Workers /\ full[g] /\ ~stopClaiming THEN "claim"
    ELSE "select"

\* The goroutine is done with a row, which stays sending for these causes.
RowDone(g, causes) ==
    /\ pc' = [pc EXCEPT ![g] = AfterRow(g)]
    /\ left' = [left EXCEPT ![g] = IF AfterRow(g) = "deliver" THEN @ - 1 ELSE 0]
    /\ stranded' = stranded \cup causes
         \cup IF left[g] > 1 /\ AfterRow(g) # "deliver" THEN {"dropped"} ELSE {}
    /\ UNCHANGED <<serving, full, stopClaiming, abortWork, stopErr>>

\* The sender, or RecoverStalled, returns and the Save begins; a Save that
\* cannot begin fails at once.
Deliver(g) ==
    /\ Alive /\ pc[g] = "deliver"
    /\ \/ Broken /\ RowDone(g, {"dropped"})
       \/ /\ ~Broken
          /\ pc' = [pc EXCEPT ![g] = "save"]
          /\ UNCHANGED <<serving, left, full, stopClaiming, abortWork, stopErr,
                         stranded>>

\* The Save returns.
Save(g) ==
    /\ Alive /\ pc[g] = "save"
    /\ RowDone(g, {}) \/ RowDone(g, StatementFails)

------------------------------------------------------------------------------
(* Requests.                                                               *)

Accept(q) ==
    /\ Alive /\ http = "listening"
    /\ request[q] = "none"
    /\ request' = [request EXCEPT ![q] = "active"]
    /\ UNCHANGED <<boot, main, signalled, failed, stack, closing, http, admin,
                   limiter, db, forced, dispatcher>>

\* The handler issues a statement, unless the pool is closing,
Query(q) ==
    /\ Alive /\ request[q] = "active"
    /\ db = "open"
    /\ request' = [request EXCEPT ![q] = "querying"]
    /\ UNCHANGED <<boot, main, signalled, failed, stack, closing, http, admin,
                   limiter, db, forced, dispatcher>>

\* and it returns, by the request's deadline at the latest.
QueryReturns(q) ==
    /\ Alive /\ request[q] = "querying"
    /\ request' = [request EXCEPT ![q] = "active"]
    /\ UNCHANGED <<boot, main, signalled, failed, stack, closing, http, admin,
                   limiter, db, forced, dispatcher>>

Answer(q) ==
    /\ Alive /\ request[q] = "active"
    /\ request' = [request EXCEPT ![q] = "none"]
    /\ UNCHANGED <<boot, main, signalled, failed, stack, closing, http, admin,
                   limiter, db, forced, dispatcher>>

------------------------------------------------------------------------------
(* Serving and unwinding.                                                  *)

\* The API listener comes up.
Listen ==
    /\ main = "serving" /\ http = "starting"
    /\ http' = "listening"
    /\ UNCHANGED <<boot, main, signalled, failed, stack, closing, admin,
                   limiter, request, db, forced, dispatcher>>

\* A failed metrics listener is only logged.
AdminFails ==
    /\ Alive /\ admin = "listening"
    /\ admin' = "failed"
    /\ UNCHANGED <<boot, main, signalled, failed, stack, closing, http,
                   limiter, request, db, forced, dispatcher>>

\* Serve returns: ListenAndServe failed, before or after the listener was up,
\* or a signal cancelled its context, even one that arrived while the process
\* was booting.
ListenFails == main = "serving" /\ Unwind

ServeReturns ==
    /\ main = "serving" /\ signalled
    /\ main' = "unwinding"
    /\ UNCHANGED <<boot, signalled, failed, stack, closing, servers, db,
                   forced, dispatcher>>

\* Mutant: resources are released in the order they were acquired.
NextCloserFIFO ==
    /\ main = "unwinding" /\ closing = "none" /\ stack # <<>>
    /\ closing' = Head(stack)
    /\ stack' = Tail(stack)
    /\ UNCHANGED <<boot, main, signalled, failed, servers, db, forced,
                   dispatcher>>

\* Stack.Shutdown: the last closer pushed is the next to run, whether or not
\* the one before it failed.
NextCloser ==
    /\ main = "unwinding" /\ closing = "none" /\ stack # <<>>
    /\ closing' = stack[Len(stack)]
    /\ stack' = SubSeq(stack, 1, Len(stack) - 1)
    /\ UNCHANGED <<boot, main, signalled, failed, servers, db, forced,
                   dispatcher>>

\* Server.Shutdown: the listener closes at once; then the drain ends, or the
\* shutdown context expires with requests still running.
HttpShutdown ==
    /\ Alive /\ closing = "http_server" /\ http \in {"starting", "listening"}
    /\ http' = "draining"
    /\ UNCHANGED <<boot, main, signalled, failed, stack, closing, admin,
                   limiter, request, db, forced, dispatcher>>

HttpDrained ==
    /\ Alive /\ http = "draining"
    /\ \A q \in Requests : request[q] = "none"
    /\ http' = "closed" /\ closing' = "none"
    /\ UNCHANGED <<boot, main, signalled, failed, stack, admin, limiter,
                   request, db, forced, dispatcher>>

\* Mutant: a resource that fails to close does not fail serve.
TeardownFailsQuietly == failed' = failed

\* Stack.Shutdown joins the closers' errors, and serve returns them.
TeardownFails == failed' = TRUE

HttpTimeout ==
    /\ Alive /\ http = "draining"
    /\ http' = "timed_out" /\ closing' = "none"
    /\ TeardownFails
    /\ UNCHANGED <<boot, main, signalled, stack, admin, limiter, request, db,
                   forced, dispatcher>>

\* The metrics server: a scrape may outlast the shutdown context.
CloseAdmin ==
    /\ Alive /\ closing = "metrics_server"
    /\ admin' = "closed" /\ closing' = "none"
    /\ TeardownFails \/ UNCHANGED failed
    /\ UNCHANGED <<boot, main, signalled, stack, http, limiter, request, db,
                   forced, dispatcher>>

\* The router's closer stops the rate limiter's eviction goroutine.
CloseRouter ==
    /\ Alive /\ closing = "router"
    /\ limiter' = IF limiter = "running" THEN "closed" ELSE limiter
    /\ closing' = "none"
    /\ UNCHANGED <<boot, main, signalled, failed, stack, http, admin, request,
                   db, forced, dispatcher>>

\* The Close of a disabled notification module does nothing.
CloseDisabled ==
    /\ Alive /\ closing = "dispatcher" /\ ~cfg.notifications
    /\ closing' = "none"
    /\ UNCHANGED <<boot, main, signalled, failed, stack, servers, db, forced,
                   dispatcher>>

\* Dispatcher.Stop up to its select.
StopBegin ==
    /\ Alive /\ closing = "dispatcher" /\ cfg.notifications /\ ~stopClaiming
    /\ stopClaiming' = TRUE
    /\ UNCHANGED <<serving, pc, left, full, abortWork, stopErr, stranded>>

\* Stop ends, releasing the work context on both paths.
StopEnds(err) ==
    /\ Alive /\ closing = "dispatcher" /\ stopClaiming
    /\ stopErr' = err /\ abortWork' = TRUE /\ closing' = "none"
    /\ IF err = "nil" THEN UNCHANGED failed ELSE TeardownFails
    /\ UNCHANGED <<boot, main, signalled, stack, servers, db, forced,
                   goroutines, stopClaiming, stranded>>

StopDrained == AllReturned /\ StopEnds("nil")

\* Mutant: Stop waits for the goroutines without a bound.
StopNeverTimesOut == AllReturned /\ StopEnds("timeout")

\* DrainTimeout expires; select may pick this case even when done is closed.
StopTimeout == StopEnds("timeout")

\* DB.Close: sql.DB and the pool let no statement begin any more,
CloseDatabase ==
    /\ Alive /\ closing = "database" /\ db = "open"
    /\ db' = "closing"
    /\ TeardownFails \/ UNCHANGED failed
    /\ UNCHANGED <<boot, main, signalled, stack, closing, servers, forced,
                   dispatcher>>

\* and pgxpool.Close, which takes no context, waits until every acquired
\* connection is returned.
PoolDrained ==
    /\ Alive /\ db = "closing" /\ ~PoolInUse
    /\ db' = "closed" /\ closing' = "none"
    /\ UNCHANGED <<boot, main, signalled, failed, stack, servers, forced,
                   dispatcher>>

\* serve returns once the stack is empty, and the process with it.
Exit ==
    /\ main = "unwinding" /\ closing = "none" /\ stack = <<>>
    /\ Die
    /\ UNCHANGED <<failed, forced>>

\* watchForSecondSignal: os.Exit wherever serve is.
ForceExit ==
    /\ Alive /\ signalled
    /\ Die
    /\ forced' = TRUE /\ failed' = TRUE

------------------------------------------------------------------------------
GoroutineStep(g) ==
    Poll(g) \/ Return(g) \/ Claim(g) \/ Deliver(g) \/ Save(g)

RequestStep(q) == Accept(q) \/ Query(q) \/ QueryReturns(q) \/ Answer(q)

MainStep ==
    \/ NextCloser
    \/ HttpShutdown \/ HttpDrained
    \/ CloseAdmin \/ CloseRouter \/ CloseDisabled
    \/ StopBegin \/ StopDrained
    \/ CloseDatabase \/ PoolDrained
    \/ Exit

TimerStep == HttpTimeout \/ StopTimeout

BootStep ==
    \/ LoadConfig \/ OpenDatabase \/ BuildApp \/ PushModules
    \/ RegisterMetrics \/ BuildRouter \/ Listen

Next ==
    \/ BootStep
    \/ Signal
    \/ \E g \in Goroutines : GoroutineStep(g)
    \/ \E q \in Requests : RequestStep(q)
    \/ AdminFails \/ ListenFails \/ ServeReturns
    \/ MainStep
    \/ TimerStep
    \/ ForceExit

Spec == Init /\ [][Next]_vars

\* The main goroutine is scheduled.  Nothing is assumed of senders, requests
\* or the dispatcher's goroutines: each may hang.
FairSpec == Spec /\ WF_vars(MainStep)

\* The shutdown context and DrainTimeout do expire.
TimersFire == WF_vars(HttpTimeout) /\ WF_vars(StopTimeout)

\* A statement returns its connection: a request's has the request's deadline,
\* a goroutine's ends when the work context is cancelled.  Handlers and senders
\* may still hang between statements.
StatementsReturn ==
    /\ WF_vars(\E g \in Goroutines : Claim(g) \/ Save(g))
    /\ WF_vars(\E q \in Requests : QueryReturns(q))

\* Deliveries and statements return, and a select with both cases ready does
\* not pick the ticker for ever.
GoroutinesRun ==
    \A g \in Goroutines :
        WF_vars(Claim(g) \/ Deliver(g) \/ Save(g)) /\ SF_vars(Return(g))

------------------------------------------------------------------------------
(* Properties.                                                             *)

\* The order in which serve pushes.
Pushed == <<"database", "dispatcher", "router", "http_server",
            "metrics_server">>

ServingTyped ==
    /\ cfg \in [notifications : BOOLEAN, metrics : BOOLEAN,
               rateLimit : BOOLEAN]
    /\ main \in {"config", "database", "modules", "metrics", "router",
                 "serving", "unwinding", "exited"}
    /\ built \in 0 .. Len(BuildOrder)
    /\ closing \in {"none", "database", "dispatcher", "router",
                    "http_server", "metrics_server"}
    /\ http \in {"none", "starting", "listening", "draining", "closed",
                 "timed_out"}
    /\ admin \in {"none", "listening", "failed", "closed"}
    /\ limiter \in {"none", "running", "closed"}
    /\ request \in [Requests -> {"none", "active", "querying"}]
    /\ db \in {"none", "open", "closing", "closed"}
    /\ signalled \in BOOLEAN /\ failed \in BOOLEAN /\ forced \in BOOLEAN

DispatcherTyped ==
    /\ pc \in [Goroutines -> {"off", "select", "claim", "deliver", "save",
                              "returned"}]
    /\ left \in [Goroutines -> 0 .. BatchSize]
    /\ full \in [Goroutines -> BOOLEAN]
    /\ \A g \in Goroutines : left[g] > 0 <=> InHand(g)
    /\ stopErr \in {"none", "nil", "timeout"}
    /\ stopClaiming \in BOOLEAN /\ abortWork \in BOOLEAN
    /\ stranded \subseteq {"unsaved", "dropped"}

StackTyped == \E n \in 0 .. Len(Pushed) : stack = SubSeq(Pushed, 1, n)

\* Type invariant: every part of the process is in one of its states, the
\* stack is a first part of what serve pushes, and a goroutine has rows in hand
\* exactly while it delivers or saves one.
TypeOK == ServingTyped /\ DispatcherTyped /\ StackTyped

\* Shutdown drops no work in hand: a claimed row is left sending only when a
\* statement about it failed, which the dispatcher logs and leaves to a later
\* sweep, when the drain timed out, or when the operator forced the exit.
DrainStrandsNothing ==
    stranded \subseteq {"unsaved"} \/ stopErr = "timeout" \/ forced

\* The pool outlives its users: once its closing begins, the only goroutines
\* and requests still running are those whose own drain timed out, and the
\* goroutines' context has been cancelled.
PoolClosedLast ==
    db \in {"closing", "closed"} =>
        /\ \A g \in Goroutines : Running(g) => stopErr = "timeout" /\ abortWork
        /\ \A q \in Requests : request[q] # "none" => http = "timed_out"

\* Whatever boot phase failed and whichever closers did, a process that was
\* not forced out has released all it acquired: the pool, the limiter's
\* goroutine, the listeners, and the dispatcher's goroutines unless their own
\* drain timed out.
NothingLeaks ==
    main = "exited" /\ ~forced =>
        /\ db \notin {"open", "closing"} /\ limiter # "running"
        /\ http \notin {"starting", "listening", "draining"}
        /\ admin # "listening"
        /\ \A g \in Goroutines : Running(g) => stopErr = "timeout"

\* What exit status 0 can be taken to mean: the process was asked to stop, no
\* request was cut off, every goroutine has returned, and the shutdown itself
\* left no claimed row sending.  It does not mean that no row is: one whose claim
\* or Save failed may be, since the dispatcher only logs that error.
ExitZeroMeansClean ==
    main = "exited" /\ ~failed =>
        /\ signalled /\ AllReturned
        /\ stranded \subseteq {"unsaved"}
        /\ \A q \in Requests : request[q] = "none"

\* No hung sender or handler keeps the process alive: once serve unwinds, it
\* exits by its timers, provided the statements under way return their
\* connections, for the pool's closer waits for those without a bound.
ShutdownCompletes ==
    TimersFire /\ StatementsReturn => (main = "unwinding" ~> main = "exited")

\* The drain needs no timer when deliveries return: Stop ends by itself, even
\* if there is always a full batch due.
DrainEnds ==
    GoroutinesRun => (stopClaiming ~> (stopErr # "none" \/ forced))
==============================================================================
