------------------------------- MODULE Gateway --------------------------------
(***************************************************************************)
(* The HTTP front of the process: the middleware chain NewRouter builds,   *)
(* from the client address a request is charged to, through the rate       *)
(* limiter's shared table, the router and the access-token check, to the   *)
(* handler and the way its end travels back through the chain; and the     *)
(* restarts that rotate the signing key.                                   *)
(*                                                                         *)
(* Everything before the handler is one step: its only shared state is the *)
(* limiter's table, behind a mutex.  Handlers run concurrently.  Tokens of *)
(* a bucket are counted in parts, Unit of them to a token, so that a       *)
(* refill may be fractional.                                               *)
(***************************************************************************)
EXTENDS Naturals, Sequences, FiniteSets, FiniteSetsExt, Functions

CONSTANTS
    Requests,        \* handler goroutines
    Clients,         \* client addresses
    Proxies,         \* addresses inside trusted_proxies
    Unit,            \* parts of one token
    Rate,            \* parts refilled per tick
    Burst,           \* parts of a full bucket
    TTL,             \* idle ticks before a bucket may be evicted
    MaxKeys,         \* max_keys
    AccessTTL, Leeway,
    \* Bounds of the model.
    LastKey,         \* signing keys 1 .. LastKey
    Paths,           \* chains of proxies a request takes
    Spoofs,          \* X-Forwarded-For and X-Real-Ip as clients send them
    Horizon          \* the clock stops here

Garbage == "garbage"     \* a hop that is no address
None == 0

ASSUME GatewayAssumption ==
    /\ {Unit, Rate, Burst, TTL, MaxKeys, AccessTTL, Leeway, LastKey}
           \subseteq Nat \ {0}
    /\ Horizon \in Nat
    /\ Clients \cap Proxies = {} /\ Garbage \notin Clients \cup Proxies
    /\ Paths \subseteq Seq(Proxies)
    /\ \A s \in Spoofs :
          /\ s.xff \in Seq(Clients \cup Proxies \cup {Garbage})
          /\ s.realIP \in Clients \cup Proxies \cup {Garbage}

T == INSTANCE Tokens WITH Keys <- 1 .. LastKey, NoKid <- None

Addresses == Clients \cup Proxies

VARIABLES
    now,
    buckets,     \* RateLimiter.buckets: tracked key -> [tokens, last]
    handling,    \* the handler each goroutine runs
    inFlight,    \* the http_requests_in_flight gauge
    draining,    \* Server.draining
    signing, previous,   \* the keys this process was started with
    held,        \* per key, the expiry of the newest access token it signed
    \* History, read by no action.
    ideal,       \* per address, a bucket that is refilled on every tick
    misled,      \* addresses in headers that no honest proxy answers for
    event        \* what the last step decided

config == <<signing, previous>>
vars == <<now, buckets, handling, inFlight, draining, config, held, ideal,
          misled, event>>

Free == "none"

\* A step that answers nothing.
Quiet == [by |-> "none", panicked |-> FALSE, wire |-> None, logged |-> None,
          counted |-> None, cors |-> FALSE, door |-> "none", live |-> FALSE]

Init ==
    /\ now = 0
    /\ buckets = <<>>
    /\ handling = [r \in Requests |-> Free] /\ inFlight = 0
    /\ draining = FALSE
    /\ signing = 1 /\ previous = None
    /\ held = [k \in 1 .. LastKey |-> 0]
    /\ ideal = [a \in Addresses |-> Burst] /\ misled = {}
    /\ event = Quiet

------------------------------------------------------------------------------
(* The client address.                                                     *)

\* What arrives when client c's request passes the proxies of path: each proxy
\* appends the address it was called from.
XForwardedFor(c, path, spoof) ==
    IF path = <<>> THEN spoof
    ELSE spoof \o <<c>> \o SubSeq(path, 1, Len(path) - 1)

Peer(c, path) == IF path = <<>> THEN c ELSE path[Len(path)]

isTrusted(a) == a \in Proxies

\* resolveClientIP: the peer, unless it is a trusted proxy; then the rightmost
\* hop that parses and is not trusted, then X-Real-Ip, then the peer.
resolveClientIP(peer, xff, realIP) ==
    LET hops == {i \in DOMAIN xff : xff[i] # Garbage /\ ~isTrusted(xff[i])}
    IN  IF ~isTrusted(peer) THEN peer
        ELSE IF hops # {} THEN xff[Max(hops)]
        ELSE IF realIP # Garbage THEN realIP
        ELSE peer

------------------------------------------------------------------------------
(* The rate limiter.                                                       *)

Projected(b) == Min({Burst, b.tokens + (now - b.last) * Rate})

Tracked(key) == key \in DOMAIN buckets

\* A new key finds the table full.
TurnedAway(key) == ~Tracked(key) /\ Cardinality(DOMAIN buckets) >= MaxKeys

\* What is in the key's bucket: an unknown key would start with a full one,
Level(key) == IF Tracked(key) THEN Projected(buckets[key]) ELSE Burst

\* and may spend none of it while the table is full.
Allowance(key) == IF TurnedAway(key) THEN 0 ELSE Level(key)

Admits(key) == Allowance(key) >= Unit

\* The table with the key's bucket written back.
Stored(key, level) ==
    [k \in DOMAIN buckets \cup {key} |->
        IF k = key THEN [tokens |-> level, last |-> now] ELSE buckets[k]]

\* Mutant: a new key is tracked in a full table too.
ChargeUnbounded(key) ==
    buckets' = Stored(key, IF Level(key) >= Unit THEN Level(key) - Unit
                           ELSE Level(key))

\* allow under its lock: refill, and take one token if there is one.
Charge(key) ==
    IF TurnedAway(key) THEN UNCHANGED buckets
    ELSE buckets' = Stored(key, IF Admits(key) THEN Level(key) - Unit
                                ELSE Level(key))

\* Mutant: a bucket goes as soon as it is idle.
ExpiredWhenIdle(b) == b.last + TTL < now

\* evictExpired drops a bucket that is idle and has refilled.
Expired(b) == b.last + TTL < now /\ Projected(b) >= Burst

\* A tick of sweepLoop.
Sweep ==
    /\ buckets' = Restrict(buckets,
                     {k \in DOMAIN buckets : ~Expired(buckets[k])})
    /\ event' = Quiet
    /\ UNCHANGED <<now, handling, inFlight, draining, config, held, ideal,
                   misled>>

------------------------------------------------------------------------------
(* Token verification.                                                     *)

\* The service identity.New builds, with the previous key when one is
\* configured.
identityService ==
    LET svc == T!NewJWTService(signing, "issuer", "client", Leeway, Leeway)
    IN  IF previous = None THEN svc ELSE T!WithPreviousKey(svc, previous)

\* The one newAuthMiddleware builds for the user and notification modules.
newAuthMiddleware ==
    T!NewJWTService(signing, "issuer", "client", Leeway, Leeway)

Verifier(route) ==
    IF route = "identity" THEN identityService ELSE newAuthMiddleware

\* The newest access token key k signed.
AccessToken(k) ==
    [T!IssueAccessToken(newAuthMiddleware, "user", held[k], 0) EXCEPT
        !.key = k, !.kid = k]

\* The routes behind AuthRequired; "user" stands for the notification module's
\* too.
Protected == {"identity", "user"}

\* AuthRequired: no bearer token, or one that does not verify, is a 401.
AuthRequired(route, k) ==
    k # None /\ T!Validate(Verifier(route), AccessToken(k), "access", now)

------------------------------------------------------------------------------
(* A request: the client that sent it, its way here, what it asks for and  *)
(* the key that signed its bearer token.                                   *)

Public == {"healthz", "readyz", "login"}

\* What is at the path and method: a route, or the router's own answers.
Routes == Public \cup Protected \cup {"not_found", "method_not_allowed"}

Key(q) ==
    resolveClientIP(Peer(q.sender, q.path), q.xff, q.realIP)

Refused(q) == q.route \notin Public /\ ~AuthRequired(q.route, q.token)

Refusal(q) ==
    CASE q.route = "not_found" -> 404
      [] q.route = "method_not_allowed" -> 405
      [] OTHER -> 401

\* Its bearer token is an access token that has not expired.
Live(q) == q.token # None /\ now < held[q.token] + Leeway

\* Mutant: the metrics are registered below the limiter.
LayerMetricsLast == [server |-> 0, recovery |-> 1, timeout |-> 2, logger |-> 3,
                     metrics |-> 6, cors |-> 4, limiter |-> 5, routes |-> 7]

\* The layers that write a status or look at one, outermost first: net/http,
\* the middleware NewRouter registers, and what is mounted on the router.
Layer == [server |-> 0, recovery |-> 1, timeout |-> 2, logger |-> 3,
          metrics |-> 4, cors |-> 5, limiter |-> 6, routes |-> 7]

Status(layer, status) == [by |-> layer, status |-> status]

\* What a recorder notes of a request that went as far as the layer reached,
\* with these statuses written on its way back.  RequestLogger and the metrics'
\* Middleware both wrap the writer: the first status written below them, or
\* 200 if there was none.
Noted(recorder, reached, writes) ==
    LET below == {i \in DOMAIN writes :
                     Layer[recorder] < Layer[writes[i].by]}
    IN  IF Layer[reached] <= Layer[recorder] THEN None
        ELSE IF below = {} THEN 200 ELSE writes[Min(below)].status

\* The first status written is sent; the CORS middleware put its header on the
\* response on the way in.
Answered(reached, writes) ==
    [Quiet EXCEPT !.by = writes[1].by, !.wire = writes[1].status,
                  !.logged = Noted("logger", reached, writes),
                  !.counted = Noted("metrics", reached, writes),
                  !.cors = Layer["cors"] <= Layer[reached]]

\* A layer answers by itself.
Short(layer, status) == Answered(layer, <<Status(layer, status)>>)

\* What AuthRequired decided, when it ran.
Decided(q, answer) ==
    IF q.route \in Protected
    THEN [answer EXCEPT !.door = q.route, !.live = Live(q)] ELSE answer

\* A preflight is answered by the CORS middleware, ahead of the limiter.
Preflight ==
    /\ ~draining
    /\ event' = Short("cors", 204)
    /\ UNCHANGED <<now, buckets, handling, inFlight, draining, config, held,
                   ideal, misled>>

Throttle(q) ==
    /\ ~draining /\ ~Admits(Key(q))
    /\ Charge(Key(q))
    /\ event' = Short("limiter", 429)
    /\ UNCHANGED <<now, handling, inFlight, draining, config, held, ideal,
                   misled>>

\* The addresses a request may be charged to, by any reading of its headers.
Named(q) ==
    Addresses \cap ({q.sender, q.realIP} \cup Range(q.path) \cup Range(q.xff))

Admit(q) ==
    /\ ~draining /\ Admits(Key(q))
    /\ Charge(Key(q))
    /\ ideal' = [ideal EXCEPT ![q.sender] = IF @ >= Unit THEN @ - Unit ELSE 0]
    /\ misled' = IF q.honest THEN misled ELSE misled \cup Named(q)
    /\ UNCHANGED <<now, draining, config, held>>

\* No route, or no valid token: a problem document and no handler.
Refuse(q) ==
    /\ Refused(q)
    /\ Admit(q)
    /\ event' = Decided(q, Short("routes", Refusal(q)))
    /\ UNCHANGED <<handling, inFlight>>

\* Behind AuthRequired all handlers are alike here.
Handler(route) == IF route \in Protected THEN "api" ELSE route

Enter(r, q) ==
    /\ handling[r] = Free
    /\ ~Refused(q)
    /\ Admit(q)
    /\ handling' = [handling EXCEPT ![r] = Handler(q.route)]
    /\ inFlight' = inFlight + 1
    /\ event' = Decided(q, Quiet)

------------------------------------------------------------------------------
(* Handlers and the way back through the chain.                            *)

\* The statuses a handler may write.  readyz fails while draining, and when
\* the ping fails.
Statuses(at) ==
    CASE at = "healthz" -> {200}
      [] at = "readyz" -> IF draining THEN {503} ELSE {200, 503}
      [] at = "login" -> {200, 400}
      [] OTHER -> {200, 400, None}

\* The metrics' deferred decrement.
Leave(r) ==
    /\ handling' = [handling EXCEPT ![r] = Free]
    /\ inFlight' = inFlight - 1

\* What is written on the way back from a handler: its own answer, if it wrote
\* one, Timeout's 504 when the deadline has passed, and what comes last.
WayBack(written, late, last) ==
    (IF written = None THEN <<>> ELSE <<Status("routes", written)>>)
      \o (IF late THEN <<Status("timeout", 504)>> ELSE <<>>) \o <<last>>

\* A handler returns, in time or late.  One that wrote nothing, which the
\* recorders allow for, leaves net/http to send a 200.
Return(r, written, late) ==
    /\ handling[r] # Free
    /\ written \in Statuses(handling[r])
    /\ Leave(r)
    /\ held' = IF handling[r] = "login" /\ written = 200
               THEN [held EXCEPT ![signing] = now + AccessTTL] ELSE held
    /\ event' = Answered("routes",
                          WayBack(written, late, Status("server", 200)))
    /\ UNCHANGED <<now, buckets, draining, config, ideal, misled>>

\* A handler panics, before or after it wrote its answer.  The panic leaves
\* through the logger and the metrics, which note nothing, and stops at
\* Recovery.
Panic(r, written, late) ==
    /\ handling[r] # Free
    /\ written \in Statuses(handling[r]) \cup {None}
    /\ Leave(r)
    /\ event' = [Answered("routes",
                           WayBack(written, late, Status("recovery", 500)))
                    EXCEPT !.panicked = TRUE, !.logged = None, !.counted = None]
    /\ UNCHANGED <<now, buckets, draining, config, held, ideal, misled>>

------------------------------------------------------------------------------
(* The process and its surroundings.                                       *)

Tick ==
    /\ now < Horizon
    /\ now' = now + 1
    /\ ideal' = [a \in Addresses |-> Min({Burst, ideal[a] + Rate})]
    /\ event' = Quiet
    /\ UNCHANGED <<buckets, handling, inFlight, draining, config, held, misled>>

\* Server.Shutdown: readiness fails first, and no request is accepted.
Drain ==
    /\ ~draining
    /\ draining' = TRUE
    /\ event' = Quiet
    /\ UNCHANGED <<now, buckets, handling, inFlight, config, held, ideal,
                   misled>>

\* The next process, with an empty table.  Its keys follow the rotation rule
\* of WithPreviousKey: the retired key is configured as the previous one until
\* the last token it signed has expired.
Restart(key, prev) ==
    /\ draining /\ \A r \in Requests : handling[r] = Free
    /\ key \in {signing, signing + 1}
    /\ prev \in {None, previous, signing}
    /\ prev # None =>
           T!CanAddPrevious(T!NewJWTService(key, "issuer", "client", Leeway,
                                            Leeway), prev)
    /\ \A k \in 1 .. LastKey :
           now < held[k] + Leeway => k \in {key, prev}
    /\ signing' = key /\ previous' = prev
    /\ draining' = FALSE
    /\ buckets' = <<>> /\ ideal' = [a \in Addresses |-> Burst] /\ misled' = {}
    /\ inFlight' = 0
    /\ event' = Quiet
    /\ UNCHANGED <<now, handling, held>>

------------------------------------------------------------------------------
\* A request sent straight here.
Direct(c, route, k) ==
    [sender |-> c, path |-> <<>>, xff |-> <<>>, realIP |-> Garbage,
     honest |-> TRUE, route |-> route, token |-> k]

\* A request to a probe by way of proxies that append to X-Forwarded-For,
Appended(c, path, spoof) ==
    [Direct(c, "healthz", None) EXCEPT
        !.path = path, !.xff = XForwardedFor(c, path, spoof.xff),
        !.realIP = spoof.realIP]

\* by way of one that drops it and sets X-Real-Ip,
RealIPSet(c, proxy) ==
    [Direct(c, "healthz", None) EXCEPT !.path = <<proxy>>, !.realIP = c]

\* and by way of one that lets the client's X-Forwarded-For through, setting
\* X-Real-Ip, or adding a second X-Forwarded-For line, which Header.Get never
\* returns, or neither.
PassedOn(c, proxy, spoof, realIP) ==
    [Direct(c, "healthz", None) EXCEPT
        !.path = <<proxy>>, !.xff = spoof.xff, !.realIP = realIP,
        !.honest = FALSE]

Inputs ==
    {Direct(p, "healthz", None) : p \in Proxies}
      \cup {Direct(c, route, None) : c \in Clients, route \in Routes}
      \cup {Direct(c, route, k) : c \in Clients, route \in Protected,
                                  k \in {i \in 1 .. LastKey : held[i] > 0}}
      \cup {Appended(c, path, spoof) :
                   c \in Clients, path \in Paths, spoof \in Spoofs}
      \cup {RealIPSet(c, proxy) : c \in Clients, proxy \in Proxies}
      \cup UNION {{PassedOn(c, proxy, spoof, realIP) :
                       realIP \in {c, spoof.realIP}} :
                   c \in Clients, proxy \in Proxies, spoof \in Spoofs}

Next ==
    \/ \E q \in Inputs :
          \/ Throttle(q) \/ Refuse(q)
          \/ \E r \in Requests : Enter(r, q)
    \/ \E r \in Requests :
          \E s \in {None, 200, 400, 503}, late \in BOOLEAN :
             Return(r, s, late) \/ Panic(r, s, late)
    \/ Preflight \/ Sweep \/ Tick \/ Drain
    \/ \E k \in 1 .. LastKey, p \in 0 .. LastKey : Restart(k, p)

Spec == Init /\ [][Next]_vars

------------------------------------------------------------------------------
(* Properties.                                                             *)

\* Type invariant: the limiter tracks at most MaxKeys clients, no bucket is
\* overdrawn, and the in-flight gauge counts the handlers that run.
TypeOK ==
    /\ now \in 0 .. Horizon
    /\ DOMAIN buckets \subseteq Addresses
    /\ Cardinality(DOMAIN buckets) <= MaxKeys
    /\ \A a \in DOMAIN buckets :
          buckets[a] \in [tokens : 0 .. Burst, last : 0 .. now]
    /\ handling \in [Requests -> Public \cup {"api", Free}]
    /\ inFlight = Cardinality({r \in Requests : handling[r] # Free})
    /\ draining \in BOOLEAN
    /\ signing \in 1 .. LastKey /\ previous \in 0 .. LastKey
    /\ held \in [1 .. LastKey -> 0 .. Horizon + AccessTTL]
    /\ ideal \in [Addresses -> 0 .. Burst] /\ misled \subseteq Addresses

\* Each client spends its own budget: at any time the limiter lets an address
\* spend what a bucket of its own, refilled on every tick and charged for every
\* request the address really sent, holds.  The one exception is a full table:
\* an address it does not track may then spend nothing, and that never costs
\* it more than a budget it has not begun to use.  Lazy refill, eviction, other
\* clients and forged headers change nothing, as long as the proxies append to
\* X-Forwarded-For or drop it ("trust to set those headers honestly"): an
\* address is exempt once a request admitted through another kind of proxy
\* named it.
EachClientItsOwnBudget ==
    \A a \in Addresses \ misled :
        \/ Allowance(a) = ideal[a]
        \/ TurnedAway(a) /\ Allowance(a) = 0 /\ ideal[a] = Burst

\* Sessions outlive a key rotation and end with their token: the identity
\* routes turn a request away with a 401 exactly when its access token has
\* expired, whichever key signed it.
IdentitySessionsEndOnTime ==
    event.door = "identity" => (event.wire = 401 <=> ~event.live)

\* No traffic is invisible: a preflight, a 429, what the router and
\* AuthRequired refuse and what a handler answered are logged and counted with
\* the status the client got, and carry the CORS header (the order of
\* NewRouter's middleware).  It is not asked of Recovery and Timeout, which
\* write above the recorders, nor of a handler that panicked.
RejectedTrafficIsSeen ==
    event.by \in {"cors", "limiter", "routes", "server"} /\ ~event.panicked =>
        /\ event.logged = event.wire /\ event.counted = event.wire
        /\ event.cors

\* What WithPreviousKey promises of a rotation, on every protected route: it
\* is invisible to the holder of a live token.  The middleware of the user and
\* notification modules never learns the previous key.
RotationIsInvisible ==
    event.door \in Protected /\ event.live => event.wire # 401
==============================================================================
