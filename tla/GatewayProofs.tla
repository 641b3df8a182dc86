---------------------------- MODULE GatewayProofs -----------------------------
(***************************************************************************)
(* Theorems about Gateway, for any clients, proxies, budgets, table sizes, *)
(* keys, token lifetimes and goroutines.                                   *)
(***************************************************************************)
EXTENDS Gateway, FiniteSetTheorems, SequenceTheorems, WellFoundedInduction,
        TLAPS

\* The constants, one by one.
LEMMA GatewayConstants ==
    /\ Unit \in Nat /\ Unit > 0 /\ Rate \in Nat /\ Rate > 0
    /\ Burst \in Nat /\ Burst > 0 /\ TTL \in Nat /\ MaxKeys \in Nat /\ MaxKeys > 0
    /\ AccessTTL \in Nat /\ Leeway \in Nat /\ Leeway > 0
    /\ LastKey \in Nat /\ LastKey > 0 /\ Horizon \in Nat
BY GatewayAssumption

\* The smaller of two numbers,
LEMMA Least ==
    ASSUME NEW a \in Int, NEW b \in Int
    PROVE  Min({a, b}) = IF a <= b THEN a ELSE b
BY DEF Min

\* and the larger.
LEMMA Greatest ==
    ASSUME NEW S \in SUBSET Int, NEW m \in S, \A x \in S : x <= m
    PROVE  Max(S) = m
<1>1. \A y \in S : m >= y
  OBVIOUS
<1>2. ASSUME NEW x \in S, \A y \in S : x >= y PROVE x = m
  BY <1>2
<1> QED BY <1>1, <1>2 DEF Max

\* Positions of a sequence, if there are any, have a last one.
LEMMA LastPosition ==
    ASSUME NEW n \in Nat, NEW S \in SUBSET (1 .. n), S # {}
    PROVE  Max(S) \in S
<1> DEFINE Back == {n - i : i \in S}
           R == {ss \in Nat \X Nat : ss[1] < ss[2]}
<1>1. Back \in SUBSET Nat /\ Back # {}
  <2>1. \A i \in S : n - i \in Nat
    OBVIOUS
  <2> QED BY <2>1
<1>2. IsWellFoundedOn(R, Nat)
  BY NatLessThanWellFounded DEF OpToRel
<1> HIDE DEF R, Back
<1>3. PICK x \in Back : \A y \in Back : ~(<<y, x>> \in R)
  BY <1>1, <1>2, WFMin
<1>4. \A y \in Back : ~(y < x)
  BY <1>1, <1>3 DEF R
<1>5. PICK m \in S : x = n - m
  BY DEF Back
<1>6. \A i \in S : n - i \in Back /\ i \in Nat /\ m \in Nat
  BY DEF Back
<1>7. \A i \in S : i <= m
  BY <1>4, <1>5, <1>6
<1> QED BY <1>6, <1>7, Greatest

------------------------------------------------------------------------------
(* The client address.                                                     *)

\* The hops proxies wrote are the client and then proxies.
LEMMA ForwardedHops ==
    ASSUME NEW c \in Clients, NEW path \in Seq(Proxies), path # <<>>,
           NEW spoof \in Seq(Clients \cup Proxies \cup {Garbage})
    PROVE  LET xff == XForwardedFor(c, path, spoof)
               n == Len(spoof) + 1
           IN  /\ n \in DOMAIN xff /\ xff[n] = c
               /\ DOMAIN xff \subseteq Nat
               /\ \A i \in DOMAIN xff : i > n => isTrusted(xff[i])
<1> DEFINE Hops == Clients \cup Proxies \cup {Garbage}
           tail == SubSeq(path, 1, Len(path) - 1)
           front == spoof \o <<c>>
           xff == XForwardedFor(c, path, spoof)
<1>1. Len(path) \in Nat \ {0}
  BY EmptySeq
<1>2. tail \in Seq(Proxies) /\ Len(tail) = Len(path) - 1
  <2> DEFINE n == Len(path) - 1
  <2>1. n \in Nat /\ n <= Len(path)
    BY <1>1
  <2> HIDE DEF n
  <2>2. SubSeq(path, 1, n) \in Seq(Proxies) /\ Len(SubSeq(path, 1, n)) = n
    BY <2>1
  <2> QED BY <2>2 DEF n
<1>3. \A i \in 1 .. Len(tail) : tail[i] \in Proxies
  BY <1>2
<1> HIDE DEF tail
<1>4. /\ front \in Seq(Hops) /\ Len(front) = Len(spoof) + 1
      /\ front[Len(spoof) + 1] = c
  OBVIOUS
<1> HIDE DEF front
<1>5. xff = front \o tail
  BY DEF XForwardedFor, front, tail
<1>6. tail \in Seq(Hops)
  BY <1>2, <1>3
<1> HIDE DEF Hops, xff
<1>7. /\ DOMAIN xff = 1 .. Len(front) + Len(tail)
      /\ \A i \in 1 .. Len(front) : xff[i] = front[i]
      /\ \A i \in Len(front) + 1 .. Len(front) + Len(tail) :
           xff[i] = tail[i - Len(front)]
  <2>1. /\ xff \in Seq(Hops) /\ Len(xff) = Len(front) + Len(tail)
        /\ \A i \in 1 .. Len(front) + Len(tail) :
             xff[i] = IF i <= Len(front) THEN front[i] ELSE tail[i - Len(front)]
    BY <1>4, <1>5, <1>6, ConcatProperties
  <2>2. DOMAIN xff = 1 .. Len(xff)
    BY <2>1
  <2>3. Len(front) \in Nat /\ Len(tail) \in Nat
    BY <1>4, <1>6
  <2> QED BY <2>1, <2>2, <2>3
<1>8. Len(spoof) \in Nat /\ Len(tail) \in Nat
  BY <1>2, <1>1
<1>9. ASSUME NEW i \in DOMAIN xff, i > Len(spoof) + 1
      PROVE  isTrusted(xff[i])
  <2>1. i - Len(front) \in 1 .. Len(tail) /\ xff[i] = tail[i - Len(front)]
    BY <1>4, <1>7, <1>8, <1>9
  <2> QED BY <1>3, <2>1 DEF isTrusted
<1> QED BY <1>4, <1>7, <1>8, <1>9 DEF xff

\* Whatever its headers say, a request is charged to an address they name.
LEMMA ChargedToNamed ==
    ASSUME NEW sender \in Addresses, NEW proxy \in Proxies,
           NEW xff \in Seq(Addresses \cup {Garbage}),
           NEW realIP \in Addresses \cup {Garbage}
    PROVE  resolveClientIP(proxy, xff, realIP)
             \in Addresses \cap ({sender, realIP} \cup {proxy} \cup Range(xff))
<1> DEFINE hops == {i \in DOMAIN xff : xff[i] # Garbage /\ ~isTrusted(xff[i])}
<1>1. isTrusted(proxy) /\ proxy \in Addresses
  BY DEF isTrusted, Addresses
<1>2. CASE hops = {}
  BY <1>1, <1>2 DEF resolveClientIP
<1>3. CASE hops # {}
  <2>1. Len(xff) \in Nat /\ hops \in SUBSET (1 .. Len(xff))
    OBVIOUS
  <2>2. Max(hops) \in hops
    BY <1>3, <2>1, LastPosition
  <2> DEFINE m == Max(hops)
  <2>3. m \in DOMAIN xff /\ xff[m] # Garbage
    BY <2>2
  <2> HIDE DEF m
  <2>4. xff[m] \in Addresses /\ xff[m] \in Range(xff)
    BY <2>3 DEF Range
  <2>5. resolveClientIP(proxy, xff, realIP) = xff[m]
    BY <1>1, <1>3 DEF resolveClientIP, m
  <2> QED BY <2>4, <2>5
<1> QED BY <1>2, <1>3

\* Whatever a client forges, a request is charged to the client that sent it,
\* if the proxies are honest, and otherwise to an address it names.
LEMMA ChargedToSender ==
    ASSUME NEW q \in Inputs
    PROVE  /\ q.sender \in Addresses /\ (q.honest => Key(q) = q.sender)
           /\ Key(q) \in Named(q) /\ q.sender \in Named(q)
           /\ q.token = None \/ (q.token \in 1 .. LastKey /\ held[q.token] > 0)
           /\ q.token # None => q.route \in Protected
<1>0. /\ Clients \cap Proxies = {} /\ Garbage \notin Clients \cup Proxies
      /\ Paths \subseteq Seq(Proxies)
      /\ \A s \in Spoofs : /\ s.xff \in Seq(Clients \cup Proxies \cup {Garbage})
                           /\ s.realIP \in Clients \cup Proxies \cup {Garbage}
  BY GatewayAssumption
<1>1. ASSUME NEW a \in Addresses, NEW route, NEW k, q = Direct(a, route, k)
      PROVE  q.sender = a /\ Key(q) = a /\ q.token = k /\ q.route = route
  <2>1. /\ q.sender = a /\ q.path = <<>> /\ q.xff = <<>> /\ q.realIP = Garbage
        /\ q.token = k /\ q.route = route
    BY <1>1 DEF Direct
  <2>2. Peer(q.sender, q.path) = a
    BY <2>1 DEF Peer
  <2>3. {i \in DOMAIN q.xff : q.xff[i] # Garbage /\ ~isTrusted(q.xff[i])} = {}
    BY <2>1
  <2> QED BY <2>1, <2>2, <2>3 DEF Key, resolveClientIP
<1>2. ASSUME NEW c \in Clients, NEW path \in Paths, NEW spoof \in Spoofs,
             q = Appended(c, path, spoof)
      PROVE  q.sender = c /\ Key(q) = c /\ q.token = None
  <2>1. /\ q.sender = c /\ q.path = path /\ q.realIP = spoof.realIP
        /\ q.xff = XForwardedFor(c, path, spoof.xff) /\ q.token = None
    BY <1>2 DEF Appended, Direct
  <2>2. CASE path = <<>>
    <3>1. Peer(q.sender, q.path) = c /\ ~isTrusted(c)
      BY <1>0, <2>1, <2>2 DEF Peer, isTrusted
    <3> QED BY <2>1, <3>1 DEF Key, resolveClientIP
  <2>3. CASE path # <<>>
    <3> DEFINE n == Len(spoof.xff) + 1
               hops == {i \in DOMAIN q.xff :
                          q.xff[i] # Garbage /\ ~isTrusted(q.xff[i])}
    <3>1. path \in Seq(Proxies) /\ Len(path) \in Nat \ {0}
      BY <1>0, <2>3, EmptySeq
    <3>2. Peer(q.sender, q.path) = path[Len(path)] /\ path[Len(path)] \in Proxies
      BY <2>1, <2>3, <3>1 DEF Peer
    <3>3. /\ n \in DOMAIN q.xff /\ q.xff[n] = c /\ DOMAIN q.xff \subseteq Nat
          /\ \A i \in DOMAIN q.xff : i > n => isTrusted(q.xff[i])
      BY <1>0, <2>1, <2>3, <3>1, ForwardedHops
    <3>4. hops \in SUBSET Int /\ n \in hops /\ \A i \in hops : i <= n
      BY <1>0, <3>3 DEF isTrusted
    <3>5. Max(hops) = n
      BY <3>4, Greatest
    <3>6. hops # {}
      BY <3>4
    <3> QED BY <2>1, <3>2, <3>3, <3>5, <3>6 DEF Key, resolveClientIP, isTrusted
  <2> QED BY <2>1, <2>2, <2>3
<1>3. ASSUME NEW c \in Clients, NEW proxy \in Proxies, q = RealIPSet(c, proxy)
      PROVE  q.sender = c /\ Key(q) = c /\ q.token = None
  <2>1. /\ q.sender = c /\ q.path = <<proxy>> /\ q.realIP = c /\ q.xff = <<>>
        /\ q.token = None
    BY <1>3 DEF RealIPSet, Direct
  <2>2. Peer(q.sender, q.path) = proxy /\ isTrusted(proxy)
    BY <2>1 DEF Peer, isTrusted
  <2>3. {i \in DOMAIN q.xff : q.xff[i] # Garbage /\ ~isTrusted(q.xff[i])} = {}
    BY <2>1
  <2>4. c # Garbage
    BY <1>0
  <2> QED BY <2>1, <2>2, <2>3, <2>4 DEF Key, resolveClientIP
<1>4. ASSUME NEW c \in Clients, NEW proxy \in Proxies, NEW spoof \in Spoofs,
             NEW realIP \in {c, spoof.realIP},
             q = PassedOn(c, proxy, spoof, realIP)
      PROVE  /\ q.sender = c /\ q.honest = FALSE /\ q.token = None
             /\ Key(q) \in Named(q)
  <2>1. /\ q.sender = c /\ q.path = <<proxy>> /\ q.realIP = realIP
        /\ q.xff = spoof.xff /\ q.honest = FALSE /\ q.token = None
    BY <1>4 DEF PassedOn, Direct
  <2>2. Peer(q.sender, q.path) = proxy
    BY <2>1 DEF Peer
  <2>3. /\ c \in Addresses /\ spoof.xff \in Seq(Addresses \cup {Garbage})
        /\ realIP \in Addresses \cup {Garbage}
    BY <1>0 DEF Addresses
  <2>4. Range(<<proxy>>) = {proxy}
    BY DEF Range
  <2>5. Key(q) \in Addresses \cap ({c, realIP} \cup {proxy} \cup Range(spoof.xff))
    BY <2>1, <2>2, <2>3, ChargedToNamed DEF Key
  <2> QED BY <2>1, <2>4, <2>5 DEF Named
<1>5. /\ q.sender \in Addresses /\ (q.honest => Key(q) = q.sender)
      /\ Key(q) = q.sender \/ Key(q) \in Named(q)
      /\ q.token = None \/ (q.token \in 1 .. LastKey /\ held[q.token] > 0)
      /\ q.token # None => q.route \in Protected
  <2>1. Clients \subseteq Addresses /\ Proxies \subseteq Addresses
    BY DEF Addresses
  <2>2. CASE \/ \E p \in Proxies : q = Direct(p, "healthz", None)
             \/ \E c \in Clients, route \in Routes : q = Direct(c, route, None)
    BY <1>1, <2>1, <2>2
  <2>3. CASE \E c \in Clients, route \in Protected,
                k \in {i \in 1 .. LastKey : held[i] > 0} :
               q = Direct(c, route, k)
    BY <1>1, <2>1, <2>3
  <2>4. CASE \/ \E c \in Clients, path \in Paths, spoof \in Spoofs :
                  q = Appended(c, path, spoof)
             \/ \E c \in Clients, proxy \in Proxies : q = RealIPSet(c, proxy)
    BY <1>2, <1>3, <2>1, <2>4
  <2>5. CASE \E c \in Clients, proxy \in Proxies, spoof \in Spoofs :
               \E realIP \in {c, spoof.realIP} :
                  q = PassedOn(c, proxy, spoof, realIP)
    BY <1>4, <2>1, <2>5
  <2> QED BY <2>2, <2>3, <2>4, <2>5 DEF Inputs
<1>6. q.sender \in Named(q)
  BY <1>5 DEF Named
<1> QED BY <1>5, <1>6

------------------------------------------------------------------------------
(* The rate limiter.                                                       *)

BucketSet == [tokens : 0 .. Burst, last : 0 .. now]

\* The table is bounded, its entries are well formed, and it is finite, without
\* which its size would say nothing.
TableOK ==
    /\ DOMAIN buckets \subseteq Addresses /\ IsFiniteSet(DOMAIN buckets)
    /\ Cardinality(DOMAIN buckets) <= MaxKeys
    /\ \A a \in DOMAIN buckets : buckets[a] \in BucketSet

\* A bucket's parts after so many idle ticks.
Refilled(tokens, ticks) ==
    IF Burst <= tokens + ticks * Rate THEN Burst ELSE tokens + ticks * Rate

\* A refill stays within the burst, and no time refills nothing.
LEMMA RefilledRange ==
    ASSUME NEW tokens \in 0 .. Burst, NEW ticks \in Nat
    PROVE  /\ Refilled(tokens, ticks) \in 0 .. Burst
           /\ Refilled(tokens, 0) = tokens
<1>1. Burst \in Nat /\ Rate \in Nat /\ tokens \in Nat
  BY GatewayConstants
<1>2. ticks * Rate \in Nat /\ 0 * Rate = 0
  BY <1>1
<1> QED BY <1>1, <1>2 DEF Refilled

\* Refilling on every tick or once, when somebody looks, is the same.
LEMMA RefillIsLazy ==
    ASSUME NEW tokens \in 0 .. Burst, NEW ticks \in Nat
    PROVE  Refilled(tokens, ticks + 1)
             = Min({Burst, Refilled(tokens, ticks) + Rate})
<1>1. Burst \in Nat /\ Rate \in Nat /\ tokens \in Nat
  BY GatewayConstants
<1>2. ticks * Rate \in Nat /\ (ticks + 1) * Rate = ticks * Rate + Rate
  BY <1>1
<1>3. Refilled(tokens, ticks) \in Nat
  BY <1>1, <1>2 DEF Refilled
<1>4. Min({Burst, Refilled(tokens, ticks) + Rate})
        = IF Burst <= Refilled(tokens, ticks) + Rate THEN Burst
          ELSE Refilled(tokens, ticks) + Rate
  BY <1>1, <1>3, Least
<1> QED BY <1>1, <1>2, <1>4 DEF Refilled

\* What allow makes of a stored bucket is such a refill.
LEMMA ProjectedIs ==
    ASSUME now \in Nat, NEW b \in BucketSet
    PROVE  /\ now - b.last \in Nat /\ b.tokens \in 0 .. Burst
           /\ Projected(b) = Refilled(b.tokens, now - b.last)
<1>1. Burst \in Nat /\ Rate \in Nat
  BY GatewayConstants
<1>2. now - b.last \in Nat /\ b.tokens \in Nat /\ b.tokens \in 0 .. Burst
  BY <1>1 DEF BucketSet
<1>3. b.tokens + (now - b.last) * Rate \in Int
  BY <1>1, <1>2
<1> QED BY <1>1, <1>2, <1>3, Least DEF Projected, Refilled

\* A level is never below zero or above the burst.
LEMMA LevelRange ==
    ASSUME now \in Nat, TableOK, NEW a
    PROVE  Level(a) \in 0 .. Burst
<1>1. CASE Tracked(a)
  <2>1. buckets[a] \in BucketSet
    BY <1>1 DEF Tracked, TableOK
  <2> QED BY <1>1, <2>1, ProjectedIs, RefilledRange DEF Level
<1>2. CASE ~Tracked(a)
  BY <1>2, GatewayConstants DEF Level
<1> QED BY <1>1, <1>2

\* An address is admitted when the table has room for it and its bucket a token.
LEMMA AdmitsIs ==
    ASSUME NEW key
    PROVE  Admits(key) <=> ~TurnedAway(key) /\ Level(key) >= Unit
BY GatewayConstants DEF Admits, Allowance

\* A charge touches the budget of its key and no other, and the table stays
\* bounded.
LEMMA ChargeStep ==
    ASSUME now \in Nat, now' = now, TableOK, NEW key \in Addresses, Charge(key)
    PROVE  /\ TableOK'
           /\ \A a : Level(a)' = IF a = key /\ Admits(key)
                                 THEN Level(key) - Unit ELSE Level(a)
<1>0. BucketSet' = BucketSet
  BY DEF BucketSet
<1>1. CASE TurnedAway(key)
  <2>1. buckets' = buckets /\ ~Admits(key)
    BY <1>1, AdmitsIs DEF Charge
  <2>2. TableOK'
    BY <1>0, <2>1 DEF TableOK
  <2>3. \A a : Level(a)' = Level(a)
    BY <2>1 DEF Level, Tracked, Projected
  <2> QED BY <2>1, <2>2, <2>3
<1>2. CASE ~TurnedAway(key)
  <2> DEFINE level == IF Admits(key) THEN Level(key) - Unit ELSE Level(key)
             b == [tokens |-> level, last |-> now]
  <2>1. level \in 0 .. Burst
    BY LevelRange, GatewayConstants, AdmitsIs
  <2>2. b \in BucketSet
    BY <2>1 DEF BucketSet
  <2>3. buckets' = Stored(key, level)
    BY <1>2 DEF Charge
  <2> HIDE DEF level
  <2>4. /\ DOMAIN buckets' = DOMAIN buckets \cup {key}
        /\ buckets'[key] = b
        /\ \A a \in DOMAIN buckets : a # key => buckets'[a] = buckets[a]
    BY <2>3 DEF Stored
  <2>5. /\ IsFiniteSet(DOMAIN buckets')
        /\ Cardinality(DOMAIN buckets') =
             IF Tracked(key) THEN Cardinality(DOMAIN buckets)
             ELSE Cardinality(DOMAIN buckets) + 1
    BY <2>4, FS_AddElement DEF TableOK, Tracked
  <2>6. Cardinality(DOMAIN buckets') <= MaxKeys
    <3>1. Cardinality(DOMAIN buckets) \in Nat /\ MaxKeys \in Nat
      BY FS_CardinalityType, GatewayConstants DEF TableOK
    <3> QED BY <1>2, <2>5, <3>1 DEF TurnedAway, TableOK
  <2>7. \A a \in DOMAIN buckets' : buckets'[a] \in BucketSet
    BY <2>2, <2>4 DEF TableOK
  <2>8. TableOK'
    BY <1>0, <2>4, <2>5, <2>6, <2>7 DEF TableOK
  <2>9. Level(key)' = level
    <3>1. Level(key)' = Min({Burst, level + (now - now) * Rate})
      BY <2>4 DEF Level, Tracked, Projected
    <3>2. Projected(b) = Min({Burst, level + (now - now) * Rate})
      BY DEF Projected
    <3>3. now - now = 0
      OBVIOUS
    <3> QED BY <2>1, <2>2, <3>1, <3>2, <3>3, ProjectedIs, RefilledRange
  <2>10. ASSUME NEW a, a # key PROVE Level(a)' = Level(a)
    BY <2>4, <2>10 DEF Level, Tracked, Projected
  <2> QED BY <2>8, <2>9, <2>10 DEF level
<1> QED BY <1>1, <1>2

\* A tick refills every budget.
LEMMA TickLevels ==
    ASSUME now \in Nat, now' = now + 1, TableOK, buckets' = buckets
    PROVE  /\ TableOK'
           /\ \A a : Level(a)' = Min({Burst, Level(a) + Rate})
<1>1. TableOK'
  <2>1. ASSUME NEW b \in BucketSet PROVE b \in BucketSet'
    BY DEF BucketSet
  <2> QED BY <2>1 DEF TableOK
<1>2. ASSUME NEW a PROVE Level(a)' = Min({Burst, Level(a) + Rate})
  <2>1. CASE Tracked(a)
    <3> DEFINE b == buckets[a]
    <3>1. b \in BucketSet /\ b \in BucketSet'
      BY <1>1, <2>1 DEF Tracked, TableOK
    <3>2. /\ now - b.last \in Nat /\ b.tokens \in 0 .. Burst
          /\ Level(a) = Refilled(b.tokens, now - b.last)
      BY <2>1, <3>1, ProjectedIs DEF Level
    <3>3. Level(a)' = Min({Burst, b.tokens + ((now + 1) - b.last) * Rate})
      BY <2>1 DEF Level, Tracked, Projected
    <3>4. (now + 1) - b.last = (now - b.last) + 1
      BY <3>1 DEF BucketSet
    <3>5. Level(a)' = Refilled(b.tokens, (now - b.last) + 1)
      <4>1. b.tokens \in Nat /\ Rate \in Nat /\ Burst \in Nat
        BY <3>2, GatewayConstants
      <4>2. b.tokens + ((now - b.last) + 1) * Rate \in Int
        BY <3>2, <4>1
      <4> QED BY <3>3, <3>4, <4>1, <4>2, Least DEF Refilled
    <3> QED BY <3>2, <3>5, RefillIsLazy
  <2>2. CASE ~Tracked(a)
    <3>1. Level(a)' = Burst /\ Level(a) = Burst
      BY <2>2 DEF Level, Tracked
    <3> QED BY <3>1, Least, GatewayConstants
  <2> QED BY <2>1, <2>2
<1> QED BY <1>1, <1>2

\* Eviction forgets only what a new bucket would not change.
LEMMA SweepLevels ==
    ASSUME now \in Nat, now' = now, TableOK,
           buckets' = Restrict(buckets,
                        {k \in DOMAIN buckets : ~Expired(buckets[k])})
    PROVE  TableOK' /\ \A a : Level(a)' = Level(a)
<1> DEFINE K == {k \in DOMAIN buckets : ~Expired(buckets[k])}
<1>1. DOMAIN buckets' = K /\ \A k \in K : buckets'[k] = buckets[k]
  BY DEF Restrict
<1>2. K \in SUBSET DOMAIN buckets
  OBVIOUS
<1>3. IsFiniteSet(K) /\ Cardinality(K) <= Cardinality(DOMAIN buckets)
  BY <1>2, FS_Subset DEF TableOK
<1>4. Cardinality(K) <= MaxKeys
  BY <1>2, <1>3, FS_CardinalityType, GatewayConstants DEF TableOK
<1>5. TableOK'
  BY <1>1, <1>2, <1>3, <1>4 DEF TableOK, BucketSet
<1>6. ASSUME NEW a PROVE Level(a)' = Level(a)
  <2>1. CASE a \in K
    BY <1>1, <2>1 DEF Level, Tracked, Projected
  <2>2. CASE a \notin DOMAIN buckets
    BY <1>1, <2>2 DEF Level, Tracked
  <2>3. CASE a \in DOMAIN buckets /\ a \notin K
    <3>1. Projected(buckets[a]) >= Burst
      BY <2>3 DEF Expired
    <3>2. Level(a) \in 0 .. Burst /\ Level(a) = Projected(buckets[a])
      BY <2>3, LevelRange DEF Level, Tracked
    <3>3. Level(a) = Burst
      BY <3>1, <3>2, GatewayConstants
    <3>4. Level(a)' = Burst
      BY <1>1, <2>3 DEF Level, Tracked
    <3> QED BY <3>3, <3>4
  <2> QED BY <2>1, <2>2, <2>3
<1> QED BY <1>5, <1>6

------------------------------------------------------------------------------
(* The inductive invariant.                                                *)

Busy == {r \in Requests : handling[r] # Free}

ClockOK == now \in 0 .. Horizon

\* What is in the limiter's buckets, whether they may be spent or not.
OwnLevels == \A a \in Addresses \ misled : Level(a) = ideal[a]

BudgetsOK ==
    /\ TableOK
    /\ ideal \in [Addresses -> 0 .. Burst] /\ misled \subseteq Addresses
    /\ OwnLevels

\* The gauge counts a finite set: requests come and go one at a time.
GaugeOK ==
    /\ handling \in [Requests -> Public \cup {"api", Free}]
    /\ IsFiniteSet(Busy) /\ inFlight = Cardinality(Busy)

\* Every key that signed a token still alive is one this process verifies with.
KeysOK ==
    /\ draining \in BOOLEAN
    /\ signing \in 1 .. LastKey /\ previous \in 0 .. LastKey
    /\ held \in [1 .. LastKey -> 0 .. Horizon + AccessTTL]
    /\ \A k \in 1 .. LastKey :
         held[k] > 0 /\ now < held[k] + Leeway => k \in {signing, previous}

\* What a step decided at the identity door is the truth about the token.
Truthful(e) == e.door = "identity" => (e.wire = 401 <=> ~e.live)

GatewayInv == ClockOK /\ BudgetsOK /\ GaugeOK /\ KeysOK /\ Truthful(event)

\* The invariant is the type invariant and more.
LEMMA InvIsTyped == GatewayInv => TypeOK
BY DEF GatewayInv, TypeOK, ClockOK, BudgetsOK, TableOK, BucketSet, GaugeOK, Busy,
       KeysOK

\* The clock reads a number.
LEMMA ClockNat == ClockOK => now \in Nat
BY GatewayConstants DEF ClockOK

------------------------------------------------------------------------------
(* The parts of a step.                                                    *)

\* A step that leaves table, reference and clock alone keeps the budgets.
LEMMA BudgetsSame ==
    ASSUME BudgetsOK, UNCHANGED <<now, buckets, ideal, misled>>
    PROVE  BudgetsOK'
BY DEF BudgetsOK, TableOK, BucketSet, OwnLevels, Level, Tracked, Projected

\* A refused request is charged to nobody.
LEMMA ThrottleBudgets ==
    ASSUME ClockOK, BudgetsOK, NEW q \in Inputs, Throttle(q)
    PROVE  BudgetsOK'
<1>1. Key(q) \in Addresses
  BY ChargedToSender DEF Named
<1>2. Charge(Key(q)) /\ ~Admits(Key(q)) /\ UNCHANGED <<now, ideal, misled>>
  BY DEF Throttle
<1>3. TableOK' /\ \A a : Level(a)' = Level(a)
  BY <1>1, <1>2, ClockNat, ChargeStep DEF BudgetsOK
<1> QED BY <1>2, <1>3 DEF BudgetsOK, OwnLevels

\* An admitted one is charged to its sender, in the table and the reference, or
\* the addresses it names are misled.
LEMMA AdmitBudgets ==
    ASSUME ClockOK, BudgetsOK, NEW q \in Inputs, Admit(q)
    PROVE  BudgetsOK'
<1> DEFINE s == q.sender
           k == Key(q)
           rest == IF ideal[s] >= Unit THEN ideal[s] - Unit ELSE 0
<1>1. /\ s \in Addresses /\ k \in Addresses /\ Named(q) \subseteq Addresses
      /\ k \in Named(q) /\ s \in Named(q) /\ (q.honest => k = s)
  BY ChargedToSender DEF Named
<1>2. /\ Charge(k) /\ Admits(k) /\ now' = now
      /\ ideal' = [ideal EXCEPT ![s] = rest]
      /\ misled' = IF q.honest THEN misled ELSE misled \cup Named(q)
  BY DEF Admit
<1> HIDE DEF s, k
<1>3. TableOK' /\ \A a : Level(a)' = IF a = k THEN Level(k) - Unit ELSE Level(a)
  BY <1>1, <1>2, ClockNat, ChargeStep DEF BudgetsOK
<1>4. /\ \A a \in Addresses : ideal[a] \in 0 .. Burst
      /\ \A a \in Addresses \ misled : Level(a) = ideal[a]
  BY DEF BudgetsOK, OwnLevels
<1>5. Level(k) >= Unit
  BY <1>2, AdmitsIs
<1>6. rest \in 0 .. Burst
  BY <1>1, <1>4, GatewayConstants
<1>7. /\ ideal' \in [Addresses -> 0 .. Burst]
      /\ \A a \in Addresses : ideal'[a] = IF a = s THEN rest ELSE ideal[a]
  BY <1>1, <1>2, <1>6 DEF BudgetsOK
<1>8. misled' \subseteq Addresses
  BY <1>1, <1>2 DEF BudgetsOK
<1>9. ASSUME NEW a \in Addresses \ misled' PROVE Level(a)' = ideal'[a]
  <2>1. a \notin misled
    BY <1>2, <1>9
  <2>2. CASE q.honest /\ a = s
    <3>1. ideal[s] >= Unit /\ Level(s) = ideal[s] /\ k = s
      BY <1>1, <1>4, <1>5, <2>1, <2>2
    <3>2. rest = ideal[s] - Unit
      BY <3>1
    <3> QED BY <1>3, <1>7, <2>2, <3>1, <3>2
  <2>3. CASE q.honest /\ a # s
    BY <1>1, <1>3, <1>4, <1>7, <2>1, <2>3
  <2>4. CASE ~q.honest
    <3>1. a # s /\ a # k
      BY <1>1, <1>2, <1>9, <2>4
    <3> QED BY <1>3, <1>4, <1>7, <2>1, <3>1
  <2> QED BY <2>2, <2>3, <2>4
<1> QED BY <1>3, <1>7, <1>8, <1>9 DEF BudgetsOK, OwnLevels

\* A tick refills both, one of them lazily.
LEMMA TickBudgets ==
    ASSUME ClockOK, BudgetsOK, Tick
    PROVE  BudgetsOK'
<1>1. /\ now' = now + 1 /\ buckets' = buckets /\ misled' = misled
      /\ ideal' = [a \in Addresses |-> Min({Burst, ideal[a] + Rate})]
  BY DEF Tick
<1>2. TableOK' /\ \A a : Level(a)' = Min({Burst, Level(a) + Rate})
  BY <1>1, ClockNat, TickLevels DEF BudgetsOK
<1>3. ASSUME NEW a \in Addresses PROVE Min({Burst, ideal[a] + Rate}) \in 0 .. Burst
  <2>1. Burst \in Nat /\ Rate \in Nat /\ ideal[a] \in Nat
    BY GatewayConstants DEF BudgetsOK
  <2>2. Min({Burst, ideal[a] + Rate})
          = IF Burst <= ideal[a] + Rate THEN Burst ELSE ideal[a] + Rate
    BY <2>1, Least
  <2> QED BY <2>1, <2>2
<1>4. ideal' \in [Addresses -> 0 .. Burst]
  BY <1>1, <1>3
<1>5. \A a \in Addresses \ misled : Level(a)' = ideal'[a]
  BY <1>1, <1>2 DEF BudgetsOK, OwnLevels
<1> QED BY <1>1, <1>2, <1>4, <1>5 DEF BudgetsOK, OwnLevels

\* A sweep forgets only buckets that are full again.
LEMMA SweepBudgets ==
    ASSUME ClockOK, BudgetsOK, Sweep
    PROVE  BudgetsOK'
<1>1. /\ UNCHANGED <<now, ideal, misled>>
      /\ buckets' = Restrict(buckets,
                      {k \in DOMAIN buckets : ~Expired(buckets[k])})
  BY DEF Sweep
<1>2. TableOK' /\ \A a : Level(a)' = Level(a)
  BY <1>1, ClockNat, SweepLevels DEF BudgetsOK
<1> QED BY <1>1, <1>2 DEF BudgetsOK, OwnLevels

\* An empty table and full ideal buckets, at the start and after a restart.
LEMMA RestartBudgets ==
    ASSUME buckets' = <<>>, ideal' = [a \in Addresses |-> Burst], misled' = {}
    PROVE  BudgetsOK'
<1>1. DOMAIN buckets' = {}
  OBVIOUS
<1>2. TableOK'
  BY <1>1, FS_EmptySet, GatewayConstants DEF TableOK
<1>3. ideal' \in [Addresses -> 0 .. Burst]
  BY GatewayConstants
<1>4. \A a \in Addresses : Level(a)' = ideal'[a]
  BY <1>1 DEF Level, Tracked
<1> QED BY <1>2, <1>3, <1>4 DEF BudgetsOK, OwnLevels

\* At the start every budget is full.
LEMMA InitBudgets ==
    ASSUME buckets = <<>>, ideal = [a \in Addresses |-> Burst], misled = {}
    PROVE  BudgetsOK
<1>1. DOMAIN buckets = {}
  OBVIOUS
<1>2. TableOK
  BY <1>1, FS_EmptySet, GatewayConstants DEF TableOK
<1>3. ideal \in [Addresses -> 0 .. Burst]
  BY GatewayConstants
<1>4. \A a \in Addresses : Level(a) = ideal[a]
  BY <1>1 DEF Level, Tracked
<1> QED BY <1>2, <1>3, <1>4 DEF BudgetsOK, OwnLevels

\* The gauge follows a handler in and out.
LEMMA GaugeEnter ==
    ASSUME GaugeOK, NEW r \in Requests, handling[r] = Free,
           NEW h \in Public \cup {"api"},
           handling' = [handling EXCEPT ![r] = h], inFlight' = inFlight + 1
    PROVE  GaugeOK'
<1>1. h # Free /\ r \notin Busy
  BY DEF Public, Free, Busy
<1>2. handling' \in [Requests -> Public \cup {"api", Free}]
  BY DEF GaugeOK
<1>3. Busy' = Busy \cup {r}
  BY <1>1 DEF GaugeOK, Busy
<1>4. IsFiniteSet(Busy') /\ Cardinality(Busy') = Cardinality(Busy) + 1
  BY <1>1, <1>3, FS_AddElement DEF GaugeOK
<1> QED BY <1>2, <1>4 DEF GaugeOK

\* A handler that ends is counted out,
LEMMA GaugeLeave ==
    ASSUME GaugeOK, NEW r \in Requests, handling[r] # Free, Leave(r)
    PROVE  GaugeOK'
<1>1. handling' = [handling EXCEPT ![r] = Free] /\ inFlight' = inFlight - 1
      /\ r \in Busy
  BY DEF Leave, Busy
<1>2. handling' \in [Requests -> Public \cup {"api", Free}]
  BY <1>1 DEF GaugeOK
<1>3. Busy' = Busy \ {r}
  BY <1>1 DEF GaugeOK, Busy
<1>4. IsFiniteSet(Busy') /\ Cardinality(Busy') = Cardinality(Busy) - 1
  BY <1>1, <1>3, FS_RemoveElement DEF GaugeOK
<1> QED BY <1>1, <1>2, <1>4 DEF GaugeOK

\* a step that starts or ends none leaves the count,
LEMMA GaugeSame ==
    ASSUME GaugeOK, UNCHANGED <<handling, inFlight>>
    PROVE  GaugeOK'
BY DEF GaugeOK, Busy

\* and a process replaced when idle starts from none.
LEMMA GaugeRestart ==
    ASSUME GaugeOK, \A r \in Requests : handling[r] = Free,
           handling' = handling, inFlight' = 0
    PROVE  GaugeOK'
<1>1. Busy' = {}
  BY DEF Busy
<1> QED BY <1>1, FS_EmptySet DEF GaugeOK

\* Time only ends tokens, a login only adds one of the signing key, and the
\* rotation rule keeps every key that is still needed.
LEMMA KeysSame ==
    ASSUME ClockOK, KeysOK, UNCHANGED <<config, held>>, draining' \in BOOLEAN,
           now' \in Nat, now <= now'
    PROVE  KeysOK'
<1>1. UNCHANGED <<signing, previous, held>>
  BY DEF config
<1>2. now \in Nat /\ Leeway \in Nat /\ \A k \in 1 .. LastKey : held[k] \in Nat
  BY ClockNat, GatewayConstants DEF KeysOK
<1>3. ASSUME NEW k \in 1 .. LastKey, held[k] > 0, now' < held[k] + Leeway
      PROVE  k \in {signing, previous}
  <2>1. now < held[k] + Leeway
    BY <1>2, <1>3
  <2> QED BY <1>3, <2>1 DEF KeysOK
<1> QED BY <1>1, <1>3 DEF KeysOK

\* A token is signed with the key this process verifies with.
LEMMA KeysLogin ==
    ASSUME ClockOK, KeysOK, UNCHANGED <<now, draining, config>>,
           held' = [held EXCEPT ![signing] = now + AccessTTL]
    PROVE  KeysOK'
<1>1. UNCHANGED <<signing, previous>>
  BY DEF config
<1>2. now + AccessTTL \in 0 .. Horizon + AccessTTL
  BY GatewayConstants DEF ClockOK
<1>3. /\ held' \in [1 .. LastKey -> 0 .. Horizon + AccessTTL]
      /\ \A k \in 1 .. LastKey : k # signing => held'[k] = held[k]
  BY <1>2 DEF KeysOK
<1> QED BY <1>1, <1>3 DEF KeysOK

\* A restart drops a key only after its last token expired.
LEMMA KeysRestart ==
    ASSUME KeysOK, NEW k \in 1 .. LastKey, NEW p \in 0 .. LastKey, Restart(k, p)
    PROVE  KeysOK'
BY DEF KeysOK, Restart

------------------------------------------------------------------------------
(* What a step decides.                                                    *)

\* A step that answers nothing decides nothing,
LEMMA QuietTruthful ==
    Quiet.door = "none" /\ Quiet.live = FALSE /\ Quiet.wire = None
    /\ Truthful(Quiet)
BY DEF Quiet, Truthful

\* and an answer that no door was asked about claims nothing of one.
LEMMA AnsweredFields ==
    ASSUME NEW reached, NEW writes
    PROVE  /\ Answered(reached, writes).door = "none"
           /\ Answered(reached, writes).wire = writes[1].status
           /\ Truthful(Answered(reached, writes))
BY DEF Answered, Quiet, Truthful

\* A layer that answers by itself sends its status.
LEMMA ShortFields ==
    ASSUME NEW layer, NEW status
    PROVE  /\ Short(layer, status).wire = status
           /\ Truthful(Short(layer, status))
BY AnsweredFields DEF Short, Status

\* A panic claims nothing of a door either.
LEMMA PanickedTruthful ==
    ASSUME NEW writes,
           NEW e, e = [Answered("routes", writes) EXCEPT
                         !.panicked = TRUE, !.logged = None, !.counted = None]
    PROVE  Truthful(e)
<1>1. e.door = "none"
  BY DEF Answered, Quiet
<1> QED BY <1>1 DEF Truthful

\* On the identity routes a bearer token passes exactly while it is alive,
\* whichever key signed it.
LEMMA IdentityAccepts ==
    ASSUME ClockOK, KeysOK, NEW k,
           k = None \/ (k \in 1 .. LastKey /\ held[k] > 0)
    PROVE  AuthRequired("identity", k) <=> k # None /\ now < held[k] + Leeway
<1>1. CASE k = None
  BY <1>1 DEF AuthRequired
<1>2. CASE k # None
  <2> DEFINE svc == identityService
             tok == AccessToken(k)
  <2>1. k \in 1 .. LastKey /\ held[k] > 0 /\ held[k] \in Nat /\ k # 0
    BY <1>2, GatewayConstants DEF KeysOK
  <2>2. /\ svc.issuer = "issuer" /\ svc.audience = "client"
        /\ svc.leeway = Leeway
        /\ svc.verification = {signing} \cup
             (IF previous = None THEN {} ELSE {previous})
    BY GatewayConstants
    DEF identityService, T!NewJWTService, T!WithPreviousKey
  <2>3. /\ tok.key = k /\ tok.kid = k /\ tok.iss = "issuer"
        /\ tok.aud = "client" /\ tok.exp = held[k] + 0 /\ tok.cls = "access"
    BY DEF AccessToken, newAuthMiddleware, T!NewJWTService,
           T!IssueAccessToken, T!Sign
  <2>4. AuthRequired("identity", k) <=> T!Validate(svc, tok, "access", now)
    BY <1>2 DEF AuthRequired, Verifier
  <2> HIDE DEF svc, tok
  <2>5. T!keyFor(svc, tok) = svc.verification \cap {k}
    BY <1>2, <2>3 DEF T!keyFor
  <2>6. held[k] + 0 = held[k]
    BY <2>1
  <2>7. T!Validate(svc, tok, "access", now)
          <=> k \in svc.verification /\ now < held[k] + Leeway
    BY <2>2, <2>3, <2>5, <2>6 DEF T!Validate
  <2>8. now < held[k] + Leeway => k \in svc.verification
    BY <1>2, <2>1, <2>2 DEF KeysOK
  <2> QED BY <1>2, <2>4, <2>7, <2>8
<1> QED BY <1>1, <1>2

\* A decision at the identity door is the truth about the token.
LEMMA DecidedTruthful ==
    ASSUME ClockOK, KeysOK, NEW q \in Inputs, NEW answer,
           \/ answer = Quiet /\ ~Refused(q)
           \/ answer = Short("routes", Refusal(q)) /\ Refused(q)
    PROVE  Truthful(Decided(q, answer))
<1>1. q.token = None \/ (q.token \in 1 .. LastKey /\ held[q.token] > 0)
  BY ChargedToSender
<1>2. Truthful(answer)
  BY QuietTruthful, ShortFields
<1>3. CASE q.route \notin Protected
  BY <1>2, <1>3 DEF Decided
<1>4. CASE q.route \in Protected
  <2> DEFINE d == [answer EXCEPT !.door = q.route, !.live = Live(q)]
  <2>1. Decided(q, answer) = d
    BY <1>4 DEF Decided
  <2>2. d.wire = answer.wire
    OBVIOUS
  <2>3. d.door = q.route /\ (d.live <=> Live(q))
    BY DEF Short, Answered, Quiet
  <2> HIDE DEF d
  <2>4. CASE q.route # "identity"
    BY <2>1, <2>3, <2>4 DEF Truthful
  <2>5. CASE q.route = "identity"
    <3>1. Refused(q) <=> ~Live(q)
      BY <1>1, <2>5, IdentityAccepts DEF Refused, Public, Live
    <3>2. answer = Quiet => answer.wire # 401
      BY QuietTruthful DEF None
    <3>3. Refusal(q) = 401
      BY <2>5 DEF Refusal
    <3>4. answer = Short("routes", Refusal(q)) => answer.wire = 401
      BY <3>3, ShortFields
    <3>5. d.wire = 401 <=> ~d.live
      BY <2>2, <2>3, <3>1, <3>2, <3>4
    <3> QED BY <2>1, <3>5 DEF Truthful
  <2> QED BY <2>4, <2>5
<1> QED BY <1>3, <1>4

------------------------------------------------------------------------------
(* The invariant is inductive.                                             *)

\* The gateway starts idle, with one key and full budgets.
LEMMA InitGateway == Init => GatewayInv
<1> SUFFICES ASSUME Init PROVE GatewayInv
  OBVIOUS
<1>1. ClockOK
  BY GatewayConstants DEF Init, ClockOK
<1>2. BudgetsOK
  BY InitBudgets DEF Init
<1>3. GaugeOK
  <2>1. Busy = {}
    BY DEF Init, Busy
  <2> QED BY <2>1, FS_EmptySet DEF Init, GaugeOK
<1>4. KeysOK
  <2>1. /\ draining = FALSE /\ signing = 1 /\ previous = 0
        /\ held = [k \in 1 .. LastKey |-> 0]
    BY DEF Init, None
  <2>2. 0 \in 0 .. Horizon + AccessTTL /\ 1 \in 1 .. LastKey /\ 0 \in 0 .. LastKey
    BY GatewayConstants
  <2>3. held \in [1 .. LastKey -> 0 .. Horizon + AccessTTL]
        /\ \A k \in 1 .. LastKey : held[k] = 0
    BY <2>1, <2>2
  <2>4. draining \in BOOLEAN
    BY <2>1
  <2>5. \A k \in 1 .. LastKey : ~(held[k] > 0)
    BY <2>3
  <2>6. signing \in 1 .. LastKey /\ previous \in 0 .. LastKey
    BY <2>1, <2>2
  <2> QED BY <2>3, <2>4, <2>5, <2>6 DEF KeysOK
<1>5. Truthful(event)
  BY QuietTruthful DEF Init
<1> QED BY <1>1, <1>2, <1>3, <1>4, <1>5 DEF GatewayInv

\* The five parts make the invariant.
LEMMA Assemble ==
    ASSUME ClockOK', BudgetsOK', GaugeOK', KeysOK', NEW e, Truthful(e), event' = e
    PROVE  GatewayInv'
BY DEF GatewayInv, Truthful

\* A step that leaves the clock alone.
LEMMA ClockSame ==
    ASSUME ClockOK, now' = now
    PROVE  ClockOK' /\ now' \in Nat /\ now <= now'
BY GatewayConstants DEF ClockOK

\* Every step keeps it.
LEMMA GatewayStep ==
    ASSUME GatewayInv, [Next]_vars
    PROVE  GatewayInv'
<1>0. /\ ClockOK /\ BudgetsOK /\ GaugeOK /\ KeysOK /\ Truthful(event)
      /\ draining \in BOOLEAN
  BY DEF GatewayInv, KeysOK
<1>1. ASSUME NEW q \in Inputs, Throttle(q) PROVE GatewayInv'
  <2>1. UNCHANGED <<now, handling, inFlight, draining, config, held>>
        /\ event' = Short("limiter", 429)
    BY <1>1 DEF Throttle
  <2>2. ClockOK' /\ GaugeOK' /\ KeysOK'
    BY <1>0, <2>1, ClockSame, GaugeSame, KeysSame
  <2>3. BudgetsOK'
    BY <1>0, <1>1, ThrottleBudgets
  <2> QED BY <2>1, <2>2, <2>3, ShortFields, Assemble
<1>2. ASSUME NEW q \in Inputs, Refuse(q) PROVE GatewayInv'
  <2>1. /\ Admit(q) /\ UNCHANGED <<now, handling, inFlight, draining, config, held>>
        /\ event' = Decided(q, Short("routes", Refusal(q))) /\ Refused(q)
    BY <1>2 DEF Refuse, Admit
  <2>2. ClockOK' /\ GaugeOK' /\ KeysOK'
    BY <1>0, <2>1, ClockSame, GaugeSame, KeysSame
  <2>3. BudgetsOK'
    BY <1>0, <2>1, AdmitBudgets
  <2>4. Truthful(Decided(q, Short("routes", Refusal(q))))
    BY <1>0, <2>1, DecidedTruthful
  <2> QED BY <2>1, <2>2, <2>3, <2>4, Assemble
<1>3. ASSUME NEW q \in Inputs, NEW r \in Requests, Enter(r, q) PROVE GatewayInv'
  <2>1. /\ Admit(q) /\ UNCHANGED <<now, draining, config, held>>
        /\ event' = Decided(q, Quiet) /\ ~Refused(q)
        /\ handling[r] = Free /\ inFlight' = inFlight + 1
        /\ handling' = [handling EXCEPT ![r] = Handler(q.route)]
    BY <1>3 DEF Enter, Admit
  <2>2. Handler(q.route) \in Public \cup {"api"}
    BY <2>1, ChargedToSender DEF Handler, Refused, AuthRequired
  <2>3. ClockOK' /\ GaugeOK' /\ KeysOK'
    <3>1. GaugeOK'
      BY <1>0, <2>1, <2>2, GaugeEnter
    <3> QED BY <1>0, <2>1, <3>1, ClockSame, KeysSame
  <2>4. BudgetsOK'
    BY <1>0, <2>1, AdmitBudgets
  <2>5. Truthful(Decided(q, Quiet))
    BY <1>0, <2>1, DecidedTruthful
  <2> QED BY <2>1, <2>3, <2>4, <2>5, Assemble
<1>4. ASSUME NEW r \in Requests, NEW s \in {None, 200, 400, 503},
             NEW late \in BOOLEAN, Return(r, s, late)
      PROVE  GatewayInv'
  <2>1. /\ handling[r] # Free /\ Leave(r)
        /\ event' = Answered("routes",
                             WayBack(s, late, Status("server", 200)))
        /\ UNCHANGED <<now, buckets, draining, config, ideal, misled>>
        /\ held' = held \/ held' = [held EXCEPT ![signing] = now + AccessTTL]
    BY <1>4 DEF Return
  <2>2. ClockOK' /\ now' \in Nat /\ now <= now'
    BY <1>0, <2>1, ClockSame
  <2>3. GaugeOK'
    BY <1>0, <2>1, GaugeLeave
  <2>4. BudgetsOK'
    BY <1>0, <2>1, BudgetsSame
  <2>5. KeysOK'
    BY <1>0, <2>1, <2>2, KeysSame, KeysLogin
  <2> QED BY <2>1, <2>2, <2>3, <2>4, <2>5, AnsweredFields, Assemble
<1>5. ASSUME NEW r \in Requests, NEW s \in {None, 200, 400, 503},
             NEW late \in BOOLEAN, Panic(r, s, late)
      PROVE  GatewayInv'
  <2> DEFINE writes == WayBack(s, late, Status("recovery", 500))
             e == [Answered("routes", writes) EXCEPT
                     !.panicked = TRUE, !.logged = None, !.counted = None]
  <2>1. /\ handling[r] # Free /\ Leave(r) /\ event' = e
        /\ UNCHANGED <<now, buckets, draining, config, held, ideal, misled>>
    BY <1>5 DEF Panic
  <2>2. ClockOK' /\ now' \in Nat /\ now <= now'
    BY <1>0, <2>1, ClockSame
  <2>3. GaugeOK'
    BY <1>0, <2>1, GaugeLeave
  <2>4. BudgetsOK'
    BY <1>0, <2>1, BudgetsSame
  <2>5. KeysOK'
    BY <1>0, <2>1, <2>2, KeysSame
  <2>6. Truthful(e)
    BY PanickedTruthful
  <2> HIDE DEF e
  <2> QED BY <2>1, <2>2, <2>3, <2>4, <2>5, <2>6, Assemble
<1>6. CASE Preflight
  <2>1. /\ event' = Short("cors", 204)
        /\ UNCHANGED <<now, buckets, handling, inFlight, draining, config, held,
                       ideal, misled>>
    BY <1>6 DEF Preflight
  <2>2. ClockOK' /\ GaugeOK' /\ KeysOK' /\ BudgetsOK'
    BY <1>0, <2>1, ClockSame, GaugeSame, KeysSame, BudgetsSame
  <2> QED BY <2>1, <2>2, ShortFields, Assemble
<1>7. CASE Sweep
  <2>1. /\ event' = Quiet
        /\ UNCHANGED <<now, handling, inFlight, draining, config, held>>
    BY <1>7 DEF Sweep
  <2>2. ClockOK' /\ GaugeOK' /\ KeysOK'
    BY <1>0, <2>1, ClockSame, GaugeSame, KeysSame
  <2>3. BudgetsOK'
    BY <1>0, <1>7, SweepBudgets
  <2> QED BY <2>1, <2>2, <2>3, QuietTruthful, Assemble
<1>8. CASE Tick
  <2>1. /\ event' = Quiet /\ now < Horizon /\ now' = now + 1
        /\ UNCHANGED <<handling, inFlight, draining, config, held>>
    BY <1>8 DEF Tick
  <2>2. ClockOK' /\ now' \in Nat /\ now <= now'
    BY <1>0, <2>1, GatewayConstants DEF ClockOK
  <2>3. GaugeOK' /\ KeysOK'
    BY <1>0, <2>1, <2>2, GaugeSame, KeysSame
  <2>4. BudgetsOK'
    BY <1>0, <1>8, TickBudgets
  <2> QED BY <2>1, <2>2, <2>3, <2>4, QuietTruthful, Assemble
<1>9. CASE Drain
  <2>1. /\ event' = Quiet /\ draining' \in BOOLEAN
        /\ UNCHANGED <<now, buckets, handling, inFlight, config, held, ideal,
                       misled>>
    BY <1>9 DEF Drain
  <2>2. ClockOK' /\ GaugeOK' /\ KeysOK' /\ BudgetsOK'
    BY <1>0, <2>1, ClockSame, GaugeSame, KeysSame, BudgetsSame
  <2> QED BY <2>1, <2>2, QuietTruthful, Assemble
<1>10. ASSUME NEW k \in 1 .. LastKey, NEW p \in 0 .. LastKey, Restart(k, p)
       PROVE  GatewayInv'
  <2>1. /\ event' = Quiet /\ buckets' = <<>>
        /\ ideal' = [a \in Addresses |-> Burst] /\ misled' = {}
        /\ inFlight' = 0
        /\ UNCHANGED <<now, handling>> /\ \A r \in Requests : handling[r] = Free
    BY <1>10 DEF Restart
  <2>2. ClockOK'
    BY <1>0, <2>1, ClockSame
  <2>3. GaugeOK'
    BY <1>0, <2>1, GaugeRestart
  <2>4. KeysOK'
    BY <1>0, <1>10, KeysRestart
  <2>5. BudgetsOK'
    BY <2>1, RestartBudgets
  <2> QED BY <2>1, <2>2, <2>3, <2>4, <2>5, QuietTruthful, Assemble
<1>11. CASE UNCHANGED vars
  <2>1. UNCHANGED <<now, buckets, handling, inFlight, draining, config, held,
                    ideal, misled, event>>
    BY <1>11 DEF vars
  <2>2. ClockOK' /\ GaugeOK' /\ KeysOK' /\ BudgetsOK'
    BY <1>0, <2>1, ClockSame, GaugeSame, KeysSame, BudgetsSame
  <2> QED BY <1>0, <2>1, <2>2, Assemble
<1> QED BY <1>1, <1>2, <1>3, <1>4, <1>5, <1>6, <1>7, <1>8, <1>9, <1>10, <1>11
        DEF Next

\* So it holds in every behaviour.
LEMMA GatewayInductive == Spec => []GatewayInv
BY InitGateway, GatewayStep, PTL DEF Spec

------------------------------------------------------------------------------
(* The theorems.                                                           *)

\* For any number of clients, the limiter's table never outgrows max_keys, no
\* bucket is overdrawn, and the in-flight gauge is the number of handlers that
\* run, panics and restarts included.
THEOREM GatewayTyped == Spec => []TypeOK
BY GatewayInductive, InvIsTyped, PTL

\* For any budgets, refill rate, table size and chains of honest proxies, and
\* whatever clients forge, lazy refill and eviction leave an address exactly the
\* budget of a bucket of its own; a full table withholds only budgets that are
\* still whole.  Addresses named through a proxy that passes a client's
\* X-Forwarded-For on are exempt, and no others.
THEOREM OwnBudget == Spec => []EachClientItsOwnBudget
<1>1. ASSUME BudgetsOK, NEW a \in Addresses \ misled
      PROVE  \/ Allowance(a) = ideal[a]
             \/ TurnedAway(a) /\ Allowance(a) = 0 /\ ideal[a] = Burst
  <2>1. Level(a) = ideal[a]
    BY <1>1 DEF BudgetsOK, OwnLevels
  <2>2. CASE TurnedAway(a)
    BY <2>1, <2>2 DEF TurnedAway, Level, Allowance
  <2>3. CASE ~TurnedAway(a)
    BY <2>1, <2>3 DEF Allowance
  <2> QED BY <2>2, <2>3
<1>2. GatewayInv => EachClientItsOwnBudget
  BY <1>1 DEF GatewayInv, EachClientItsOwnBudget
<1> QED BY <1>2, GatewayInductive, PTL

\* Over any number of key rotations that keep to the rule of WithPreviousKey,
\* the identity routes answer 401 exactly to tokens that have expired.
THEOREM SessionsEndOnTime == Spec => []IdentitySessionsEndOnTime
<1>1. GatewayInv => IdentitySessionsEndOnTime
  BY DEF GatewayInv, Truthful, IdentitySessionsEndOnTime
<1> QED BY <1>1, GatewayInductive, PTL
==============================================================================
