----------------------------- MODULE InboxProofs ------------------------------
(***************************************************************************)
(* Theorems about Inbox, for any users, events, producers, limits and      *)
(* table sizes.                                                            *)
(***************************************************************************)
EXTENDS Inbox, FiniteSetTheorems, SequenceTheorems, TLAPS

\* The constants, one by one.
LEMMA InboxConstants ==
    /\ Recipient \in [Events -> Users] /\ CategoryOf \in [Events -> Categories]
    /\ Routable \subseteq Channels /\ Limits \subseteq Nat
    /\ MaxListLimit \in Nat /\ DefaultListLimit \in 1 .. MaxListLimit
    /\ MaxRows \in Nat /\ Horizon \in Nat /\ Horizon >= 1
BY InboxAssumption

\* A normalized limit is at least one and never more than the query allows.
LEMMA NormalizeBounds ==
    ASSUME NEW limit \in Nat
    PROVE  Normalize(limit) \in 1 .. MaxListLimit
BY InboxConstants DEF Normalize

------------------------------------------------------------------------------
(* Newest first is a strict total order of the rows.                       *)

\* What ordering rows needs of the table.
Ordered == \A i \in Stored : row[i].at \in Nat

\* The table is a finite set of ids.
LEMMA StoredIds == Stored \subseteq Nat /\ IsFiniteSet(Stored)
<1>1. Stored \subseteq Ids /\ Ids \subseteq Nat
  BY InboxConstants DEF Stored, Ids
<1>2. IsFiniteSet(Ids)
  BY FS_Interval, InboxConstants DEF Ids
<1> QED BY <1>1, <1>2, FS_Subset

\* The order of the mailbox is total and strict on stored rows.
LEMMA BeforeOrder ==
    ASSUME Ordered, NEW i \in Stored, NEW j \in Stored
    PROVE  /\ ~Before(i, encodeCursor(i))
           /\ i # j => Before(i, encodeCursor(j)) \/ Before(j, encodeCursor(i))
           /\ \A k \in Stored :
                Before(i, encodeCursor(j)) /\ Before(j, encodeCursor(k))
                  => Before(i, encodeCursor(k))
BY StoredIds DEF Ordered, Before, encodeCursor

\* How many rows of a set come before one of it.
Newer(S, i) == {j \in S : Before(i, encodeCursor(j))}

\* An older row has more rows before it.
LEMMA RankOrder ==
    ASSUME Ordered, NEW S \in SUBSET Stored, NEW i \in S, NEW j \in S,
           Before(i, encodeCursor(j))
    PROVE  Cardinality(Newer(S, j)) < Cardinality(Newer(S, i))
<1>1. IsFiniteSet(S)
  BY StoredIds, FS_Subset
<1>2. IsFiniteSet(Newer(S, i)) /\ IsFiniteSet(Newer(S, j))
  BY <1>1, FS_Subset DEF Newer
<1>3. Newer(S, j) \subseteq Newer(S, i)
  BY BeforeOrder DEF Newer
<1>4. j \in Newer(S, i) /\ j \notin Newer(S, j)
  BY BeforeOrder DEF Newer
<1>5. /\ Cardinality(Newer(S, j)) <= Cardinality(Newer(S, i))
      /\ Cardinality(Newer(S, i)) # Cardinality(Newer(S, j))
  BY <1>2, <1>3, <1>4, FS_Subset
<1> QED BY <1>2, <1>5, FS_CardinalityType

\* Ranks 0 .. n - 1 each belong to exactly one of n rows.
LEMMA RankIsOnto ==
    ASSUME Ordered, NEW S \in SUBSET Stored
    PROVE  /\ IsFiniteSet(S) /\ Cardinality(S) \in Nat
           /\ \A i \in S : Cardinality(Newer(S, i)) \in 0 .. Cardinality(S) - 1
           /\ \A k \in 0 .. Cardinality(S) - 1 :
                \E i \in S : Cardinality(Newer(S, i)) = k
<1> DEFINE n == Cardinality(S)
           rank == [i \in S |-> Cardinality(Newer(S, i))]
<1>1. IsFiniteSet(S) /\ n \in Nat
  BY StoredIds, FS_Subset, FS_CardinalityType
<1>2. ASSUME NEW i \in S PROVE Cardinality(Newer(S, i)) \in 0 .. n - 1
  <2>1. i \notin Newer(S, i) /\ Newer(S, i) \in SUBSET S
    BY BeforeOrder DEF Newer
  <2>2. IsFiniteSet(Newer(S, i)) /\ Cardinality(Newer(S, i)) <= n
        /\ n # Cardinality(Newer(S, i))
    BY <1>1, <2>1, FS_Subset
  <2>3. Cardinality(Newer(S, i)) \in Nat
    BY <2>2, FS_CardinalityType
  <2> QED BY <1>1, <2>2, <2>3
<1>3. rank \in [S -> 0 .. n - 1]
  BY <1>2
<1>4. ASSUME NEW i \in S, NEW j \in S, rank[i] = rank[j] PROVE i = j
  <2>1. rank[i] \in Nat /\ rank[j] \in Nat
    BY <1>1, <1>3
  <2>2. ~Before(i, encodeCursor(j)) /\ ~Before(j, encodeCursor(i))
    BY <1>4, <2>1, RankOrder
  <2> QED BY <2>2, BeforeOrder
<1>5. rank \in Injection(S, 0 .. n - 1)
  BY <1>3, <1>4 DEF Injection, IsInjective
<1>6. IsFiniteSet(0 .. n - 1) /\ Cardinality(0 .. n - 1) = n
  BY <1>1, FS_Interval
<1>7. rank \in Surjection(S, 0 .. n - 1)
  BY <1>5, <1>6, FS_Injection
<1>8. \A k \in 0 .. n - 1 : \E i \in S : rank[i] = k
  BY <1>7 DEF Surjection
<1> QED BY <1>1, <1>2, <1>8

------------------------------------------------------------------------------
(* What one page shows.                                                    *)

\* The rows a page is taken from.
Match(u, unread, cursor) ==
    {i \in Mailbox(u, unread) : cursor = NoCursor \/ Before(i, cursor)}

\* A page holds rows that match, newest first, as many as the limit allows, and
\* every row it leaves out is older than all it shows.
LEMMA PageFacts ==
    ASSUME Ordered, NEW u, NEW unread, NEW cursor,
           NEW limit \in 1 .. MaxListLimit
    PROVE  LET S == Match(u, unread, cursor)
               items == PageOf(u, unread, limit, cursor)
           IN  /\ items \in Seq(S) /\ Len(items) <= limit
               /\ \A a, b \in 1 .. Len(items) :
                    a < b => Before(items[b], encodeCursor(items[a]))
               /\ \A i \in S :
                    \/ \E k \in 1 .. Len(items) : items[k] = i
                    \/ /\ Len(items) = limit
                       /\ Before(i, encodeCursor(items[Len(items)]))
<1> DEFINE S == Match(u, unread, cursor)
           items == PageOf(u, unread, limit, cursor)
           n == Cardinality(S)
           m == IF limit < n THEN limit ELSE n
           Rank(i) == Cardinality(Newer(S, i))
<1>1. S \in SUBSET Stored
  BY DEF Match, Mailbox
<1> HIDE DEF S
<1>2. /\ IsFiniteSet(S) /\ n \in Nat
      /\ \A i \in S : Rank(i) \in 0 .. n - 1
      /\ \A k \in 0 .. n - 1 : \E i \in S : Rank(i) = k
  BY <1>1, RankIsOnto
<1>3. limit \in Nat /\ limit >= 1 /\ limit <= MaxListLimit /\ MaxListLimit \in Nat
  BY InboxConstants
<1>4. items = [k \in 1 .. Min({limit, n}) |-> CHOOSE i \in S : Rank(i) = k - 1]
  <2> DEFINE most == IF limit > MaxListLimit THEN MaxListLimit ELSE limit
  <2>1. most = limit
    BY <1>3
  <2> HIDE DEF most
  <2>2. items = [k \in 1 .. Min({most, n}) |-> CHOOSE i \in S : Rank(i) = k - 1]
    BY DEF PageOf, S, Match, Newer, most
  <2> QED BY <2>1, <2>2
<1>5. Min({limit, n}) = m
  BY <1>2, <1>3 DEF Min
<1> HIDE DEF n, items, Rank
<1>6. m \in Nat /\ m <= n /\ m <= limit /\ (m = limit \/ m = n)
  BY <1>2, <1>3
<1> HIDE DEF m
<1>7. ASSUME NEW k \in 1 .. m
      PROVE  items[k] \in S /\ Rank(items[k]) = k - 1
  <2>1. k - 1 \in 0 .. n - 1
    BY <1>2, <1>6
  <2>2. \E i \in S : Rank(i) = k - 1
    BY <1>2, <2>1
  <2>3. items[k] = CHOOSE i \in S : Rank(i) = k - 1
    BY <1>4, <1>5
  <2> QED BY <2>2, <2>3
<1>8. items \in [1 .. m -> S]
  BY <1>4, <1>5, <1>7
<1>9. items \in Seq(S) /\ Len(items) = m
  BY <1>6, <1>8
<1>10. ASSUME NEW i \in S, NEW j \in S, Rank(i) > Rank(j)
       PROVE  Before(i, encodeCursor(j))
  <2>1. Rank(i) \in Nat /\ Rank(j) \in Nat
    BY <1>2
  <2>2. i # j /\ ~Before(j, encodeCursor(i))
    BY <1>1, <1>10, <2>1, RankOrder DEF Rank
  <2> QED BY <1>1, <2>2, BeforeOrder
<1>11. ASSUME NEW a \in 1 .. m, NEW b \in 1 .. m, a < b
       PROVE  Before(items[b], encodeCursor(items[a]))
  <2>1. b - 1 > a - 1
    BY <1>6, <1>11
  <2> QED BY <1>7, <1>10, <2>1
<1>12. ASSUME NEW i \in S, ~\E k \in 1 .. m : items[k] = i
       PROVE  m = limit /\ Before(i, encodeCursor(items[m]))
  <2>1. Rank(i) \in Nat /\ Rank(i) < n
    BY <1>2
  <2>2. ~(Rank(i) < m)
    <3>1. SUFFICES ASSUME Rank(i) < m PROVE FALSE
      OBVIOUS
    <3>2. Rank(i) + 1 \in 1 .. m
      BY <1>6, <2>1, <3>1
    <3>3. items[Rank(i) + 1] \in S /\ Rank(items[Rank(i) + 1]) = Rank(i)
      BY <1>7, <2>1, <3>2
    <3>4. items[Rank(i) + 1] # i
      BY <1>12, <3>2
    <3>5. ~Before(i, encodeCursor(items[Rank(i) + 1]))
          /\ ~Before(items[Rank(i) + 1], encodeCursor(i))
      BY <1>1, <2>1, <3>3, RankOrder DEF Rank
    <3> QED BY <1>1, <3>3, <3>4, <3>5, BeforeOrder
  <2>3. m = limit /\ m \in 1 .. m
    BY <1>2, <1>3, <1>6, <2>1, <2>2
  <2>4. Rank(items[m]) = m - 1 /\ items[m] \in S
    BY <1>7, <2>3
  <2>5. Rank(i) > Rank(items[m])
    BY <1>6, <2>1, <2>2, <2>4
  <2> QED BY <1>10, <2>3, <2>4, <2>5
<1> QED BY <1>6, <1>9, <1>11, <1>12 DEF items, S

------------------------------------------------------------------------------
(* The inductive invariant.                                                *)

\* The idempotency index: an event has at most one row of each channel.
KeysUnique ==
    /\ \A i, j \in Stored : row[i].event = row[j].event => i = j
    /\ \A e \in Events : mail[e] <= 1

\* A report that passed the routability check names a channel with a sender, an
\* in-app one carries its instant, and a report whose pair has been off since
\* the stamp is still waiting for the preferences, which are still off.
Sound(r) ==
    /\ r.pc # "idle" => r.event \in Events /\ r.todo # <<>> /\ r.at <= now
    /\ r.pc \in {"prefs", "insert"} =>
         /\ Head(r.todo) \in Routable
         /\ Head(r.todo) = "inapp" => r.at >= 1
    /\ r.muted => r.pc = "prefs" /\ ~Enabled(PairOf(r.event, Head(r.todo)))

ReportsSound == \A p \in Producers : Sound(producer[p])

Given(i) == \E k \in DOMAIN walk.got : walk.got[k] = i

\* Where a row that was in the mailbox when the walk began has gone: the client
\* has it, it was read under an unread walk, or a later page will show it.
Due(i) ==
    \/ Given(i)
    \/ walk.unread /\ row[i].read
    \/ walk.pc = "page" /\ (walk.after = NoCursor \/ Before(i, walk.after))

\* The pages so far are in order, the cursor is the last row of them, and
\* nothing that was there at the start has fallen between the pages.
WalkSound ==
    /\ \A k \in DOMAIN walk.got : walk.got[k] \in Stored
    /\ \A i, j \in DOMAIN walk.got :
        i < j => Before(walk.got[j], encodeCursor(walk.got[i]))
    /\ walk.after = IF walk.got = <<>> THEN NoCursor
                    ELSE encodeCursor(Last(walk.got))
    /\ \A i \in walk.must : i \in Stored /\ Owner(i) = walk.user /\ Due(i)

InboxInv ==
    /\ TypeOK /\ KeysUnique /\ ReportsSound /\ WalkSound
    /\ dropped = FALSE

------------------------------------------------------------------------------
(* The walk.                                                               *)

\* What no step does to a row: take it away, move it, or make it unread.
RowsKept ==
    \A i \in Stored :
        /\ i \in Stored'
        /\ row'[i].at = row[i].at /\ row'[i].event = row[i].event
        /\ row[i].read => row'[i].read

\* The order of two rows, and a cursor that points at one, are fixed.
LEMMA OrderKept ==
    ASSUME RowsKept, NEW i \in Stored, NEW j \in Stored
    PROVE  /\ encodeCursor(j)' = encodeCursor(j)
           /\ Before(i, encodeCursor(j))' <=> Before(i, encodeCursor(j))
BY DEF RowsKept, encodeCursor, Before

\* A step that leaves the walk alone keeps what is known of it.
LEMMA WalkKept ==
    ASSUME WalkSound, walk \in WalkSet, RowsKept, walk' = walk
    PROVE  WalkSound'
<1> DEFINE got == walk.got
<1>1. got \in Seq(Ids)
  BY DEF WalkSet
<1>2. \A k \in DOMAIN got : got[k] \in Stored
  BY DEF WalkSound
<1>3. ASSUME NEW k \in DOMAIN got PROVE got[k] \in Stored'
  BY <1>2 DEF RowsKept
<1>4. ASSUME NEW i \in DOMAIN got, NEW j \in DOMAIN got, i < j
      PROVE  Before(got[j], encodeCursor(got[i]))'
  <2>1. Before(got[j], encodeCursor(got[i]))
    BY <1>4 DEF WalkSound
  <2>2. Before(got[j], encodeCursor(got[i]))' <=> Before(got[j], encodeCursor(got[i]))
    BY <1>2, OrderKept
  <2> QED BY <2>1, <2>2
<1>5. CASE got = <<>>
  <2>1. walk.after = NoCursor
    BY <1>5 DEF WalkSound
  <2>2. \A i \in walk.must : (i \in Stored /\ Owner(i) = walk.user /\ Due(i))'
    BY <2>1 DEF WalkSound, RowsKept, Owner, Due, Given
  <2> QED BY <1>3, <1>4, <1>5, <2>1, <2>2 DEF WalkSound
<1>6. CASE got # <<>>
  <2> DEFINE l == Last(got)
  <2>1. l \in Stored
    BY <1>1, <1>2, <1>6 DEF Last
  <2>2. walk.after = encodeCursor(l) /\ encodeCursor(l)' = encodeCursor(l)
    BY <1>6, <2>1, OrderKept DEF WalkSound
  <2>3. ASSUME NEW i \in walk.must
        PROVE  (i \in Stored /\ Owner(i) = walk.user /\ Due(i))'
    <3>1. i \in Stored /\ Owner(i) = walk.user /\ Due(i)
      BY DEF WalkSound
    <3>2. (i \in Stored)' /\ (Owner(i) = walk.user)'
      BY <3>1 DEF RowsKept, Owner
    <3>3. Before(i, encodeCursor(l))' <=> Before(i, encodeCursor(l))
      BY <2>1, <3>1, OrderKept
    <3>4. Before(i, walk.after)' <=> Before(i, walk.after)
      BY <2>2, <3>3
    <3>5. Due(i)'
      BY <3>1, <3>4 DEF Due, Given, RowsKept
    <3> QED BY <3>2, <3>5
  <2> QED BY <1>3, <1>4, <1>6, <2>2, <2>3 DEF WalkSound
<1> QED BY <1>5, <1>6

\* A page continues the walk: in order, from the cursor, without a gap.
LEMMA WalkPage ==
    ASSUME WalkSound, walk \in WalkSet, RowsTyped, Page
    PROVE  WalkSound' /\ walk' \in WalkSet
<1> DEFINE got == walk.got
           limit == Normalize(walk.limit)
           items == PageOf(walk.user, walk.unread, limit, walk.after)
           S == Match(walk.user, walk.unread, walk.after)
           all == got \o items
<1>1. /\ walk' = [walk EXCEPT !.got = all,
                     !.pc = IF Len(items) = limit THEN "page" ELSE "done",
                     !.after = IF items = <<>> THEN walk.after
                               ELSE encodeCursor(Last(items))]
      /\ row' = row /\ walk.pc = "page"
  BY DEF Page
<1>2. limit \in 1 .. MaxListLimit
  BY NormalizeBounds DEF WalkSet
<1>3. Ordered
  BY DEF RowsTyped, RowSet, Ordered, Stored
<1>4. /\ items \in Seq(S) /\ Len(items) <= limit
      /\ \A a, b \in 1 .. Len(items) :
           a < b => Before(items[b], encodeCursor(items[a]))
      /\ \A i \in S :
           \/ \E k \in 1 .. Len(items) : items[k] = i
           \/ Len(items) = limit /\ Before(i, encodeCursor(items[Len(items)]))
  BY <1>2, <1>3, PageFacts
<1>5. S \subseteq Stored /\ Stored \subseteq Ids
      /\ \A i \in S : walk.after = NoCursor \/ Before(i, walk.after)
  BY DEF Match, Mailbox, Stored
<1> HIDE DEF items, limit, S
<1>6. got \in Seq(Ids) /\ items \in Seq(Ids)
  BY <1>4, <1>5 DEF WalkSet
<1>7. /\ all \in Seq(Ids) /\ Len(all) = Len(got) + Len(items)
      /\ \A k \in 1 .. Len(got) : all[k] = got[k]
      /\ \A k \in 1 .. Len(items) : all[Len(got) + k] = items[k]
      /\ \A k \in 1 .. Len(all) :
           k \in 1 .. Len(got) \/ (k - Len(got) \in 1 .. Len(items)
                                   /\ all[k] = items[k - Len(got)])
  BY <1>6
<1>8. \A k \in 1 .. Len(got) : got[k] \in Stored
  BY <1>6 DEF WalkSound
<1>9. \A k \in 1 .. Len(items) : items[k] \in S /\ items[k] \in Stored
  BY <1>4, <1>5
<1>10. /\ walk'.got = all /\ walk'.user = walk.user /\ walk'.unread = walk.unread
       /\ walk'.must = walk.must /\ walk'.limit = walk.limit
       /\ walk'.pc = IF Len(items) = limit THEN "page" ELSE "done"
       /\ walk'.after = IF items = <<>> THEN walk.after
                        ELSE encodeCursor(Last(items))
  BY <1>1 DEF WalkSet
<1> HIDE DEF all
<1>11. walk' \in WalkSet
  <2>1. walk'.after \in [at : Nat, id : Nat]
    <3>1. CASE items = <<>>
      BY <1>10, <3>1 DEF WalkSet
    <3>2. CASE items # <<>>
      <4>1. Last(items) \in Ids /\ Last(items) \in Nat
        BY <1>6, <3>2, InboxConstants DEF Last, Ids
      <4>2. row[Last(items)].at \in Nat
        BY <4>1 DEF RowsTyped, RowSet
      <4> QED BY <1>10, <3>2, <4>1, <4>2 DEF encodeCursor
    <3> QED BY <3>1, <3>2
  <2>2. walk'.pc \in {"page", "done"} /\ walk'.got \in Seq(Ids)
    BY <1>7, <1>10
  <2>3. walk' = [pc |-> walk'.pc, user |-> walk.user, unread |-> walk.unread,
                 limit |-> walk.limit, after |-> walk'.after,
                 got |-> walk'.got, must |-> walk.must]
    BY <1>1, <1>10 DEF WalkSet
  <2> QED BY <2>1, <2>2, <2>3 DEF WalkSet
<1>12. \A k \in DOMAIN walk'.got : walk'.got[k] \in Stored'
  <2>1. ASSUME NEW k \in 1 .. Len(all) PROVE all[k] \in Stored
    BY <1>7, <1>8, <1>9
  <2> QED BY <1>1, <1>7, <1>10, <2>1 DEF Stored
<1>13. got # <<>> => Len(got) >= 1 /\ Last(got) = got[Len(got)]
  BY <1>6 DEF Last
<1>14. ASSUME NEW x \in S, NEW k \in 1 .. Len(got)
       PROVE  Before(x, encodeCursor(got[k]))
  <2>1. got # <<>>
    BY <1>6, <1>14
  <2>2. walk.after = encodeCursor(Last(got))
    BY <2>1 DEF WalkSound
  <2>3. Last(got) \in Stored /\ Last(got) # 0
    BY <1>6, <1>8, <1>13, <2>1, InboxConstants DEF Stored, Ids
  <2>4. walk.after # NoCursor
    BY <2>2, <2>3 DEF encodeCursor, NoCursor
  <2>5. Before(x, encodeCursor(Last(got)))
    BY <1>5, <2>2, <2>4
  <2>6. CASE k = Len(got)
    BY <1>13, <2>1, <2>5, <2>6
  <2>7. CASE k # Len(got)
    <3>1. Before(got[Len(got)], encodeCursor(got[k]))
      BY <1>6, <1>13, <2>1, <2>7 DEF WalkSound
    <3> QED BY <1>3, <1>5, <1>8, <1>13, <2>1, <2>3, <2>5, <3>1, BeforeOrder
  <2> QED BY <2>6, <2>7
<1>15. ASSUME NEW i \in 1 .. Len(all), NEW j \in 1 .. Len(all), i < j
       PROVE  Before(all[j], encodeCursor(all[i]))
  <2>1. CASE i \in 1 .. Len(got) /\ j \in 1 .. Len(got)
    BY <1>6, <1>7, <1>15, <2>1 DEF WalkSound
  <2>2. CASE i \in 1 .. Len(got) /\ j \notin 1 .. Len(got)
    BY <1>7, <1>9, <1>14, <2>2
  <2>3. CASE i \notin 1 .. Len(got)
    <3>1. i - Len(got) \in 1 .. Len(items) /\ all[i] = items[i - Len(got)]
      BY <1>7, <2>3
    <3>2. j - Len(got) \in 1 .. Len(items) /\ all[j] = items[j - Len(got)]
      BY <1>6, <1>7, <1>15, <2>3
    <3>3. i - Len(got) < j - Len(got)
      BY <1>6, <1>15
    <3> QED BY <1>4, <3>1, <3>2, <3>3
  <2> QED BY <2>1, <2>2, <2>3
<1>16. (\A i, j \in DOMAIN walk.got :
          i < j => Before(walk.got[j], encodeCursor(walk.got[i])))'
  <2>1. DOMAIN walk'.got = 1 .. Len(all)
    BY <1>7, <1>10
  <2>2. \A i, j \in DOMAIN walk'.got :
          i < j => Before(walk'.got[j], encodeCursor(walk'.got[i]))
    BY <1>10, <1>15, <2>1
  <2> QED BY <1>1, <2>2 DEF Before, encodeCursor
<1>17. walk'.after = IF walk'.got = <<>> THEN NoCursor
                     ELSE encodeCursor(Last(walk'.got))
  <2>1. CASE items = <<>>
    <3>1. all = got
      BY <1>6, <2>1 DEF all
    <3> QED BY <1>10, <2>1, <3>1 DEF WalkSound
  <2>2. CASE items # <<>>
    <3>1. Len(items) >= 1
      BY <1>6, <2>2
    <3>2. all # <<>> /\ Last(all) = Last(items)
      BY <1>6, <1>7, <3>1 DEF Last
    <3> QED BY <1>10, <2>2, <3>2
  <2> QED BY <2>1, <2>2
<1>18. ASSUME NEW i \in walk.must
       PROVE  i \in Stored /\ Owner(i) = walk.user
              /\ \/ \E k \in 1 .. Len(all) : all[k] = i
                 \/ walk.unread /\ row[i].read
                 \/ walk'.pc = "page" /\ Before(i, walk'.after)
  <2>1. i \in Stored /\ Owner(i) = walk.user /\ Due(i)
    BY DEF WalkSound
  <2>2. CASE Given(i)
    <3>1. PICK k \in 1 .. Len(got) : got[k] = i
      BY <1>6, <2>2 DEF Given
    <3>2. Len(got) \in Nat /\ Len(items) \in Nat
      BY <1>6
    <3>3. k \in 1 .. Len(all)
      BY <1>7, <3>2
    <3>4. all[k] = i
      BY <1>7, <3>1
    <3> QED BY <2>1, <3>3, <3>4
  <2>3. CASE walk.unread /\ row[i].read
    BY <2>1, <2>3
  <2>4. CASE /\ ~(walk.unread /\ row[i].read)
             /\ walk.after = NoCursor \/ Before(i, walk.after)
    <3>1. i \in S
      BY <2>1, <2>4 DEF S, Match, Mailbox
    <3>2. CASE \E k \in 1 .. Len(items) : items[k] = i
      <4>1. PICK k \in 1 .. Len(items) : items[k] = i
        BY <3>2
      <4>2. Len(got) + k \in 1 .. Len(all) /\ all[Len(got) + k] = i
        BY <1>6, <1>7, <4>1
      <4> QED BY <2>1, <4>2
    <3>3. CASE Len(items) = limit /\ Before(i, encodeCursor(items[Len(items)]))
      <4>1. items # <<>>
        BY <1>2, <1>6, <3>3, InboxConstants
      <4>2. walk'.after = encodeCursor(items[Len(items)]) /\ walk'.pc = "page"
        BY <1>10, <3>3, <4>1 DEF Last
      <4> QED BY <2>1, <3>3, <4>2
    <3> QED BY <1>4, <3>1, <3>2, <3>3
  <2> QED BY <2>1, <2>2, <2>3, <2>4 DEF Due
<1>19. \A i \in walk'.must : (i \in Stored /\ Owner(i) = walk.user /\ Due(i))'
  BY <1>1, <1>7, <1>10, <1>18 DEF Stored, Owner, Due, Given, Before
<1>20. (walk.after = IF walk.got = <<>> THEN NoCursor
                      ELSE encodeCursor(Last(walk.got)))'
  BY <1>1, <1>17 DEF encodeCursor
<1> QED BY <1>11, <1>12, <1>16, <1>19, <1>20 DEF WalkSound

\* A walk that begins owes the whole mailbox.
LEMMA WalkStart ==
    ASSUME NEW u \in Users, StartWalk(u)
    PROVE  WalkSound' /\ walk' \in WalkSet
<1>1. PICK unread \in BOOLEAN, limit \in Limits :
        walk' = [pc |-> "page", user |-> u, unread |-> unread,
                 limit |-> limit, after |-> NoCursor, got |-> <<>>,
                 must |-> Mailbox(u, unread)]
  BY DEF StartWalk
<1>2. row' = row
  BY DEF StartWalk
<1>3. Mailbox(u, unread) \in SUBSET Ids
      /\ \A i \in Mailbox(u, unread) : i \in Stored /\ Owner(i) = u
  BY DEF Mailbox, Stored
<1>4. walk' \in WalkSet
  <2>1. NoCursor \in [at : Nat, id : Nat]
    BY DEF NoCursor
  <2>2. <<>> \in Seq(Ids) /\ limit \in Nat
    BY InboxConstants
  <2> QED BY <1>1, <1>3, <2>1, <2>2 DEF WalkSet
<1>5. walk'.got = <<>> /\ DOMAIN walk'.got = {} /\ walk'.after = NoCursor
      /\ walk'.pc = "page" /\ walk'.user = u /\ walk'.must = Mailbox(u, unread)
  BY <1>1
<1>6. (\A i \in walk.must : i \in Stored /\ Owner(i) = walk.user /\ Due(i))'
  BY <1>2, <1>3, <1>5 DEF Stored, Owner, Due
<1> QED BY <1>4, <1>5, <1>6 DEF WalkSound

\* No walk owes nothing.
LEMMA WalkNone ==
    walk = NoWalk => WalkSound /\ walk \in WalkSet
<1> SUFFICES ASSUME walk = NoWalk PROVE WalkSound /\ walk \in WalkSet
  OBVIOUS
<1>1. /\ walk.got = <<>> /\ DOMAIN walk.got = {} /\ walk.after = NoCursor
      /\ walk.must = {}
  BY DEF NoWalk
<1>2. NoCursor \in [at : Nat, id : Nat] /\ <<>> \in Seq(Ids)
  BY DEF NoCursor
<1>3. walk \in WalkSet
  BY <1>2 DEF NoWalk, WalkSet
<1> QED BY <1>1, <1>3 DEF WalkSound

\* A client that walks no more waits for nothing.
LEMMA WalkEnd ==
    ASSUME EndWalk
    PROVE  WalkSound' /\ walk' \in WalkSet
<1>1. walk' = NoWalk
  BY DEF EndWalk
<1>2. /\ walk'.got = <<>> /\ DOMAIN walk'.got = {} /\ walk'.after = NoCursor
      /\ walk'.must = {}
  BY <1>1 DEF NoWalk
<1>3. NoCursor \in [at : Nat, id : Nat] /\ <<>> \in Seq(Ids)
  BY DEF NoCursor
<1>4. walk' \in WalkSet
  BY <1>1, <1>3 DEF NoWalk, WalkSet
<1> QED BY <1>2, <1>4 DEF WalkSound

------------------------------------------------------------------------------
(* The rows.                                                               *)

\* A step that writes no row keeps them all.
LEMMA RowsSame ==
    ASSUME RowsTyped, KeysUnique, UNCHANGED <<row, mail>>,
           now \in Nat, now' \in Nat, now <= now'
    PROVE  RowsTyped' /\ KeysUnique' /\ RowsKept
<1>1. Stored' = Stored
  BY DEF Stored
<1>2. KeysUnique' /\ RowsKept
  BY <1>1 DEF KeysUnique, RowsKept
<1>3. \A i \in Stored : row[i].at \in 1 .. now'
  BY DEF RowsTyped
<1> QED BY <1>1, <1>2, <1>3 DEF RowsTyped

\* Marking rows read moves none.
LEMMA RowsMarked ==
    ASSUME RowsTyped, KeysUnique, NEW ids \in SUBSET Stored, SetRead(ids),
           UNCHANGED <<mail, now>>
    PROVE  RowsTyped' /\ KeysUnique' /\ RowsKept
<1>1. ASSUME NEW i \in Ids
      PROVE  /\ row'[i] \in RowSet
             /\ row'[i].event = row[i].event /\ row'[i].at = row[i].at
             /\ row[i].read => row'[i].read
             /\ i \notin ids => row'[i] = row[i]
  BY DEF SetRead, RowsTyped, RowSet
<1>2. row' \in [Ids -> RowSet]
  BY <1>1 DEF SetRead
<1>3. \A i \in Stored : i \in Ids /\ row[i].event \in Events /\ row[i].at \in 1 .. now
  BY DEF RowsTyped, Stored
<1>4. Stored' = Stored
  <2>1. ASSUME NEW i \in Ids, i \in ids PROVE row'[i] # NoRow /\ row[i] # NoRow
    <3>1. i \in Stored
      BY <2>1
    <3>2. row'[i].at # 0
      BY <1>1, <1>3, <3>1
    <3> QED BY <3>1, <3>2 DEF NoRow, Stored
  <2> QED BY <1>1, <2>1 DEF Stored
<1>5. KeysUnique' /\ RowsKept
  BY <1>1, <1>3, <1>4 DEF KeysUnique, RowsKept
<1> QED BY <1>1, <1>2, <1>3, <1>4, <1>5 DEF RowsTyped

\* An insert under a free key adds one row and disturbs no other.
LEMMA RowsInserted ==
    ASSUME RowsTyped, KeysUnique, now \in Nat, now' = now,
           NEW p \in Producers, producer[p] \in ReportSet, Sound(producer[p]),
           producer[p].pc = "insert", KeyIsFree(p), Inserted(p)
    PROVE  RowsTyped' /\ KeysUnique' /\ RowsKept
<1> DEFINE e == producer[p].event
<1>1. e \in Events /\ producer[p].at \in Nat /\ producer[p].at <= now
  BY DEF Sound, ReportSet
<1>2. CASE Head(producer[p].todo) = "inapp"
  <2>1. PICK i \in Ids \ Stored :
          row' = [row EXCEPT ![i] = [event |-> e, read |-> FALSE,
                                     at |-> producer[p].at]]
    BY <1>2 DEF Inserted
  <2>2. mail' = mail /\ Holding(e) = {}
    BY <1>2 DEF Inserted, KeyIsFree
  <2>3. producer[p].at \in 1 .. now
    BY <1>1, <1>2 DEF Sound
  <2>4. [event |-> e, read |-> FALSE, at |-> producer[p].at] \in RowSet
    BY <1>1 DEF RowSet
  <2>5. /\ row' \in [Ids -> RowSet]
        /\ row'[i].event = e /\ row'[i].at = producer[p].at
        /\ \A j \in Ids : j # i => row'[j] = row[j]
    BY <2>1, <2>4 DEF RowsTyped
  <2>6. row'[i] # NoRow
    BY <2>3, <2>5 DEF NoRow
  <2>7. Stored' = Stored \cup {i}
    BY <2>5, <2>6 DEF Stored
  <2>8. \A j \in Stored : j \in Ids /\ j # i /\ row'[j] = row[j] /\ row[j].event # e
    BY <2>2, <2>5 DEF Stored, Holding
  <2>9. KeysUnique'
    BY <2>2, <2>5, <2>7, <2>8 DEF KeysUnique
  <2>10. RowsKept
    BY <2>7, <2>8 DEF RowsKept
  <2> QED BY <1>1, <2>2, <2>3, <2>5, <2>7, <2>8, <2>9, <2>10 DEF RowsTyped
<1>3. CASE Head(producer[p].todo) # "inapp"
  <2>1. mail' = [mail EXCEPT ![e] = @ + 1] /\ row' = row /\ mail[e] = 0
    BY <1>3 DEF Inserted, KeyIsFree
  <2>2. Stored' = Stored /\ RowsKept
    BY <2>1 DEF Stored, RowsKept
  <2>3. mail' \in [Events -> Nat] /\ \A x \in Events : mail'[x] <= 1
    BY <1>1, <2>1 DEF RowsTyped, KeysUnique
  <2> QED BY <2>1, <2>2, <2>3 DEF RowsTyped, KeysUnique
<1> QED BY <1>2, <1>3

------------------------------------------------------------------------------
(* The reports.                                                            *)

\* What Enqueue asks of a pair: protected, or not switched off.
LEMMA EnabledMeans ==
    ASSUME NEW q \in Pairs
    PROVE  Enabled(q) <=> protected(q) \/ pref[q]
BY DEF Enabled, Allowed, ListForUser

\* A routable report is about a pair of the table.
LEMMA PairKnown ==
    ASSUME NEW e \in Events, NEW ch \in Routable
    PROVE  PairOf(e, ch) \in Pairs
BY DEF Pairs

\* A report at the first of some channels is a sound one.
LEMMA ReportingSound ==
    ASSUME NEW e \in Events, NEW channels \in Seq(Channels), channels # <<>>,
           now \in Nat
    PROVE  Reporting(e, channels) \in ReportSet /\ Sound(Reporting(e, channels))
BY DEF Reporting, ReportSet, Sound

\* The adapter's next channel is a report like the one before, or none.
NextOf(r) == IF Len(r.todo) = 1 THEN NoReport ELSE Reporting(r.event, Tail(r.todo))

\* The adapter goes on to a well-formed report or to none.
LEMMA NextReport ==
    ASSUME NEW r \in ReportSet, Sound(r), r.pc # "idle", now \in Nat
    PROVE  NextOf(r) \in ReportSet /\ Sound(NextOf(r))
<1>1. r.todo \in Seq(Channels) /\ r.todo # <<>> /\ r.event \in Events
  BY DEF Sound, ReportSet
<1>2. CASE Len(r.todo) = 1
  <2>1. NoReport \in ReportSet
    <3>1. <<>> \in Seq(Channels)
      OBVIOUS
    <3> QED BY <3>1 DEF NoReport, ReportSet
  <2> QED BY <1>2, <2>1 DEF Sound, NoReport, NextOf
<1>3. CASE Len(r.todo) # 1
  <2>1. Len(r.todo) \in Nat \ {0}
    BY <1>1, EmptySeq
  <2>2. Tail(r.todo) \in Seq(Channels) /\ Len(Tail(r.todo)) = Len(r.todo) - 1
    BY <1>1, HeadTailProperties
  <2>3. Tail(r.todo) # <<>>
    <3>1. Len(Tail(r.todo)) # 0
      BY <1>3, <2>1, <2>2
    <3> QED BY <3>1, EmptySeq
  <2> QED BY <1>1, <1>3, <2>2, <2>3, ReportingSound DEF NextOf
<1> QED BY <1>2, <1>3

\* A step of one producer keeps the reports sound if its own report is.
LEMMA ReportsStep ==
    ASSUME ReportsTyped, ReportsSound, UNCHANGED <<pref, now>>,
           NEW p \in Producers, NEW r \in ReportSet, Sound(r),
           producer' = [producer EXCEPT ![p] = r]
    PROVE  ReportsTyped' /\ ReportsSound'
<1>1. /\ producer' \in [Producers -> ReportSet]
      /\ \A q \in Producers : producer'[q] = IF q = p THEN r ELSE producer[q]
  BY DEF ReportsTyped
<1>2. ASSUME NEW q \in Producers PROVE Sound(producer'[q])
  BY <1>1 DEF ReportsSound
<1>3. \A x : Sound(x)' <=> Sound(x)
  BY DEF Sound, Enabled, Allowed, ListForUser
<1>4. ReportsSound'
  BY <1>2, <1>3 DEF ReportsSound, Sound, Enabled, Allowed, ListForUser
<1>5. \A q \in Producers : producer'[q].pc # "idle" =>
        producer'[q].event \in Events /\ producer'[q].todo # <<>>
        /\ producer'[q].at <= now
  BY <1>2 DEF Sound
<1> QED BY <1>1, <1>4, <1>5 DEF ReportsTyped

\* A channel is left and the next one begun,
LEMMA NextChannelStep ==
    ASSUME ReportsTyped, ReportsSound, UNCHANGED <<pref, now>>, now \in Nat,
           NEW p \in Producers, producer[p].pc # "idle", NextChannel(p)
    PROVE  ReportsTyped' /\ ReportsSound'
<1>1. producer[p] \in ReportSet /\ Sound(producer[p])
  BY DEF ReportsTyped, ReportsSound
<1>2. NextOf(producer[p]) \in ReportSet /\ Sound(NextOf(producer[p]))
  BY <1>1, NextReport
<1>3. producer' = [producer EXCEPT ![p] = NextOf(producer[p])]
  BY DEF NextChannel, NextOf
<1> QED BY <1>2, <1>3, ReportsStep

\* an event is reported,
LEMMA ReportStep ==
    ASSUME ReportsTyped, ReportsSound, now \in Nat,
           NEW p \in Producers, NEW e \in Events, Report(p, e)
    PROVE  ReportsTyped' /\ ReportsSound'
<1>1. securityChannels \in Seq(Channels) /\ securityChannels # <<>>
  BY DEF Channels, securityChannels
<1>2. producer' = [producer EXCEPT ![p] = Reporting(e, securityChannels)]
      /\ UNCHANGED <<pref, now>>
  BY DEF Report
<1> QED BY <1>1, <1>2, ReportingSound, ReportsStep

\* and a row gets its instant.
LEMMA StampStep ==
    ASSUME ReportsTyped, ReportsSound, now \in Nat, now >= 1,
           NEW p \in Producers, Stamp(p)
    PROVE  ReportsTyped' /\ ReportsSound'
<1>1. /\ producer[p] \in ReportSet /\ Sound(producer[p])
      /\ producer[p].pc = "stamp" /\ UNCHANGED <<pref, now>>
  BY DEF ReportsTyped, ReportsSound, Stamp
<1>2. CASE Head(producer[p].todo) \in Routable
  <2> DEFINE at == IF Head(producer[p].todo) = "inapp" THEN now ELSE 0
             muted == ~Enabled(Pair(p))
             r == [pc |-> "prefs", event |-> producer[p].event,
                   todo |-> producer[p].todo, at |-> at, muted |-> muted]
  <2>1. producer' = [producer EXCEPT ![p] = r]
    BY <1>1, <1>2 DEF Stamp, ReportsTyped, ReportSet
  <2>2. at \in Nat /\ at <= now /\ (Head(producer[p].todo) = "inapp" => at >= 1)
    OBVIOUS
  <2>3. muted \in BOOLEAN /\ (muted <=> ~Enabled(Pair(p)))
    OBVIOUS
  <2> HIDE DEF at, muted
  <2>4. r \in ReportSet
    BY <1>1, <2>2, <2>3 DEF ReportSet
  <2>5. Sound(r)
    BY <1>1, <1>2, <2>2, <2>3 DEF Sound, Pair
  <2> HIDE DEF r
  <2> QED BY <1>1, <2>1, <2>4, <2>5, ReportsStep
<1>3. CASE Head(producer[p].todo) \notin Routable
  BY <1>1, <1>3, NextChannelStep DEF Stamp
<1> QED BY <1>2, <1>3

\* No preference suppresses a protected pair.
LEMMA LoadStep ==
    ASSUME ReportsTyped, ReportsSound, now \in Nat, dropped = FALSE,
           NEW p \in Producers, LoadPreferences(p)
    PROVE  ReportsTyped' /\ ReportsSound' /\ dropped' = FALSE
<1>1. /\ producer[p] \in ReportSet /\ Sound(producer[p])
      /\ producer[p].pc = "prefs" /\ UNCHANGED <<pref, now>>
  BY DEF ReportsTyped, ReportsSound, LoadPreferences
<1>2. Pair(p) \in Pairs
  BY <1>1, PairKnown DEF Sound, Pair
<1>3. CASE NextChannel(p) /\ UNCHANGED dropped
  BY <1>1, <1>3, NextChannelStep
<1>4. CASE /\ ~Enabled(Pair(p)) /\ NextChannel(p)
           /\ dropped' = (dropped \/ protected(Pair(p)))
  <2>1. ~protected(Pair(p))
    BY <1>2, <1>4, EnabledMeans
  <2> QED BY <1>1, <1>4, <2>1, NextChannelStep
<1>5. CASE /\ Enabled(Pair(p))
           /\ producer' = [producer EXCEPT ![p].pc = "insert"]
           /\ UNCHANGED dropped
  <2> DEFINE r == [producer[p] EXCEPT !.pc = "insert"]
  <2>1. producer' = [producer EXCEPT ![p] = r]
    BY <1>5
  <2>2. ~producer[p].muted
    BY <1>1, <1>5 DEF Sound, Pair
  <2>3. r \in ReportSet
    BY <1>1 DEF ReportSet
  <2>4. /\ r.pc = "insert" /\ r.event = producer[p].event
        /\ r.todo = producer[p].todo /\ r.at = producer[p].at
        /\ ~r.muted
    BY <1>1, <2>2 DEF ReportSet
  <2>5. Sound(r)
    BY <1>1, <2>4 DEF Sound
  <2> HIDE DEF r
  <2> QED BY <1>1, <1>5, <2>1, <2>3, <2>5, ReportsStep
<1> QED BY <1>3, <1>4, <1>5 DEF LoadPreferences

\* A preference that comes on ends the muting of the reports about it, and the
\* others are still off.
LEMMA UpdateStep ==
    ASSUME ReportsTyped, ReportsSound, pref \in [Pairs -> BOOLEAN],
           NEW u \in Users, UpdatePreferences(u)
    PROVE  /\ ReportsTyped' /\ ReportsSound' /\ pref' \in [Pairs -> BOOLEAN]
           /\ \A q \in Pairs : protected(q) /\ pref[q] => pref'[q]
<1>1. PICK s \in SUBSET {q \in Pairs : q.user = u} :
        \E updates \in [s -> BOOLEAN] : Acceptable(updates) /\ Upsert(updates)
  BY DEF UpdatePreferences
<1>2. PICK updates \in [s -> BOOLEAN] : Acceptable(updates) /\ Upsert(updates)
  BY <1>1
<1>3. pref' \in [Pairs -> BOOLEAN]
  BY <1>2 DEF Upsert
<1>4. ASSUME NEW q \in Pairs, protected(q), pref[q] PROVE pref'[q]
  <2>1. CASE q \in s
    BY <1>2, <1>4, <2>1 DEF Upsert, Acceptable
  <2>2. CASE q \notin s
    BY <1>2, <1>4, <2>2 DEF Upsert
  <2> QED BY <2>1, <2>2
<1>5. /\ now' = now
      /\ producer' = [p \in Producers |->
                        IF producer[p].muted /\ pref'[Pair(p)]
                        THEN [producer[p] EXCEPT !.muted = FALSE]
                        ELSE producer[p]]
  BY DEF UpdatePreferences
<1>6. ASSUME NEW p \in Producers
      PROVE  producer'[p] \in ReportSet /\ Sound(producer[p])
             /\ producer'[p].pc = producer[p].pc
             /\ producer'[p].event = producer[p].event
             /\ producer'[p].todo = producer[p].todo
             /\ producer'[p].at = producer[p].at
             /\ (producer'[p].muted => producer[p].muted /\ ~pref'[Pair(p)])
  BY <1>5 DEF ReportsTyped, ReportSet, ReportsSound
<1>7. producer' \in [Producers -> ReportSet]
  BY <1>5, <1>6
<1>8. ASSUME NEW p \in Producers PROVE Sound(producer[p])'
  <2>1. CASE ~producer'[p].muted
    BY <1>5, <1>6, <2>1 DEF Sound
  <2>2. CASE producer'[p].muted
    <3>1. producer[p].pc = "prefs" /\ ~Enabled(Pair(p)) /\ ~pref'[Pair(p)]
      BY <1>6, <2>2 DEF Sound, Pair
    <3>2. Pair(p) \in Pairs
      BY <1>6, <3>1, PairKnown DEF Sound, Pair
    <3>3. ~protected(Pair(p))
      BY <3>1, <3>2, EnabledMeans
    <3>4. Pair(p)' = Pair(p)
      BY <1>6 DEF Pair
    <3>5. \A q \in Pairs : Enabled(q)' <=> protected(q) \/ pref'[q]
      BY DEF Enabled, Allowed, ListForUser
    <3>6. ~Enabled(Pair(p))'
      BY <3>1, <3>2, <3>3, <3>4, <3>5 DEF Enabled, Allowed, ListForUser, protected
    <3> QED BY <1>5, <1>6, <3>1, <3>6 DEF Sound, Pair
  <2> QED BY <2>1, <2>2
<1>9. ReportsSound'
  BY <1>8 DEF ReportsSound
<1>10. ReportsTyped'
  BY <1>5, <1>6, <1>7 DEF ReportsTyped
<1> QED BY <1>3, <1>4, <1>9, <1>10

\* Reports outlive every other step, which only time can age.
LEMMA ReportsSame ==
    ASSUME ReportsTyped, ReportsSound, UNCHANGED <<producer, pref>>,
           now \in Nat, now' \in Nat, now <= now'
    PROVE  ReportsTyped' /\ ReportsSound'
<1>1. \A p \in Producers : producer[p].at \in Nat
  BY DEF ReportsTyped, ReportSet
<1>2. ReportsTyped'
  BY <1>1 DEF ReportsTyped
<1>3. \A r \in ReportSet : Sound(r) => Sound(r)'
  BY DEF Sound, Enabled, Allowed, ListForUser, ReportSet
<1>4. ReportsSound'
  BY <1>3 DEF ReportsSound, ReportsTyped, Sound, Enabled, Allowed, ListForUser
<1> QED BY <1>2, <1>4

------------------------------------------------------------------------------
(* The invariant is inductive.                                             *)

\* The empty mailbox satisfies it all.
LEMMA InitInbox == Init => InboxInv
<1> SUFFICES ASSUME Init PROVE InboxInv
  OBVIOUS
<1>1. now = 1 /\ now \in 1 .. Horizon /\ dropped = FALSE
  BY InboxConstants DEF Init
<1>2. Stored = {}
  BY DEF Init, Stored
<1>3. RowsTyped /\ KeysUnique
  <2>1. NoRow \in RowSet
    BY DEF NoRow, RowSet
  <2> QED BY <1>2, <2>1 DEF Init, RowsTyped, KeysUnique
<1>4. ReportsTyped /\ ReportsSound
  <2>1. <<>> \in Seq(Channels)
    OBVIOUS
  <2>2. NoReport \in ReportSet
    BY <2>1 DEF NoReport, ReportSet
  <2>3. \A p \in Producers : producer[p] = NoReport
    BY DEF Init
  <2>4. ReportsTyped
    BY <2>2, <2>3 DEF Init, ReportsTyped, NoReport
  <2> QED BY <2>3, <2>4 DEF ReportsSound, Sound, NoReport
<1>5. WalkSound /\ walk \in WalkSet
  BY WalkNone DEF Init
<1>6. WalkTyped
  BY <1>5 DEF WalkSound, WalkTyped
<1>7. pref \in [Pairs -> BOOLEAN]
  BY DEF Init
<1> QED BY <1>1, <1>3, <1>4, <1>5, <1>6, <1>7 DEF InboxInv, TypeOK

\* The parts of the invariant, put together again after a step.
LEMMA Assemble ==
    ASSUME RowsTyped', KeysUnique', ReportsTyped', ReportsSound',
           WalkSound', walk' \in WalkSet, pref' \in [Pairs -> BOOLEAN],
           now' \in 1 .. Horizon, dropped' = FALSE
    PROVE  InboxInv'
<1>1. WalkTyped'
  BY DEF WalkSound, WalkTyped
<1> QED BY <1>1 DEF InboxInv, TypeOK

\* No step takes a row away, moves it or makes it unread.
LEMMA InboxStep ==
    ASSUME InboxInv, [Next]_vars
    PROVE  InboxInv' /\ RowsKept
<1>0. /\ RowsTyped /\ KeysUnique /\ ReportsTyped /\ ReportsSound /\ WalkSound
      /\ walk \in WalkSet /\ pref \in [Pairs -> BOOLEAN] /\ dropped = FALSE
      /\ now \in 1 .. Horizon /\ now \in Nat /\ now >= 1
  BY InboxConstants DEF InboxInv, TypeOK, WalkTyped
<1>1. ASSUME NEW p \in Producers, NEW e \in Events, Report(p, e)
      PROVE  InboxInv' /\ RowsKept
  <2>1. UNCHANGED <<row, mail, pref, now, walk, dropped>>
    BY <1>1 DEF Report
  <2>2. RowsTyped' /\ KeysUnique' /\ RowsKept
    BY <1>0, <2>1, RowsSame
  <2>3. ReportsTyped' /\ ReportsSound'
    BY <1>0, <1>1, <2>1, ReportStep
  <2>4. WalkSound' /\ walk' \in WalkSet
    BY <1>0, <2>1, <2>2, WalkKept
  <2> QED BY <1>0, <2>1, <2>2, <2>3, <2>4, Assemble
<1>2. ASSUME NEW p \in Producers, Stamp(p)
      PROVE  InboxInv' /\ RowsKept
  <2>1. UNCHANGED <<row, mail, pref, now, walk, dropped>>
    BY <1>2 DEF Stamp
  <2>2. RowsTyped' /\ KeysUnique' /\ RowsKept
    BY <1>0, <2>1, RowsSame
  <2>3. ReportsTyped' /\ ReportsSound'
    BY <1>0, <1>2, <2>1, StampStep
  <2>4. WalkSound' /\ walk' \in WalkSet
    BY <1>0, <2>1, <2>2, WalkKept
  <2> QED BY <1>0, <2>1, <2>2, <2>3, <2>4, Assemble
<1>3. ASSUME NEW p \in Producers, LoadPreferences(p)
      PROVE  InboxInv' /\ RowsKept
  <2>1. UNCHANGED <<row, mail, pref, now, walk>>
    BY <1>3 DEF LoadPreferences
  <2>2. RowsTyped' /\ KeysUnique' /\ RowsKept
    BY <1>0, <2>1, RowsSame
  <2>3. ReportsTyped' /\ ReportsSound' /\ dropped' = FALSE
    BY <1>0, <1>3, <2>1, LoadStep
  <2>4. WalkSound' /\ walk' \in WalkSet
    BY <1>0, <2>1, <2>2, WalkKept
  <2> QED BY <1>0, <2>1, <2>2, <2>3, <2>4, Assemble
<1>4. ASSUME NEW p \in Producers, Insert(p)
      PROVE  InboxInv' /\ RowsKept
  <2>1. UNCHANGED <<pref, now, walk, dropped>> /\ NextChannel(p)
        /\ producer[p].pc = "insert"
    BY <1>4 DEF Insert
  <2>2. producer[p] \in ReportSet /\ Sound(producer[p])
    BY <1>0 DEF ReportsTyped, ReportsSound
  <2>3. RowsTyped' /\ KeysUnique' /\ RowsKept
    <3>1. CASE KeyIsFree(p) /\ Inserted(p)
      BY <1>0, <2>1, <2>2, <3>1, RowsInserted
    <3>2. CASE UNCHANGED <<row, mail>>
      BY <1>0, <2>1, <3>2, RowsSame
    <3> QED BY <1>4, <3>1, <3>2 DEF Insert
  <2>4. ReportsTyped' /\ ReportsSound'
    BY <1>0, <2>1, NextChannelStep
  <2> QED BY <1>0, <2>1, <2>3, <2>4, WalkKept, Assemble
<1>5. ASSUME NEW u \in Users, UpdatePreferences(u)
      PROVE  InboxInv' /\ RowsKept
  <2>1. UNCHANGED <<row, mail, now, walk, dropped>>
    BY <1>5 DEF UpdatePreferences
  <2>2. RowsTyped' /\ KeysUnique' /\ RowsKept
    BY <1>0, <2>1, RowsSame
  <2>3. ReportsTyped' /\ ReportsSound'
        /\ pref' \in [Pairs -> BOOLEAN]
    BY <1>0, <1>5, <2>1, UpdateStep
  <2>4. WalkSound' /\ walk' \in WalkSet
    BY <1>0, <2>1, <2>2, WalkKept
  <2> QED BY <1>0, <2>1, <2>2, <2>3, <2>4, Assemble
<1>6. ASSUME NEW u \in Users, StartWalk(u)
      PROVE  InboxInv' /\ RowsKept
  <2>1. UNCHANGED <<row, mail, pref, now, producer, dropped>>
    BY <1>6 DEF StartWalk
  <2>2. RowsTyped' /\ KeysUnique' /\ RowsKept
    BY <1>0, <2>1, RowsSame
  <2>3. ReportsTyped' /\ ReportsSound'
    BY <1>0, <2>1, ReportsSame
  <2>4. WalkSound' /\ walk' \in WalkSet
    BY <1>6, WalkStart
  <2> QED BY <1>0, <2>1, <2>2, <2>3, <2>4, Assemble
<1>7. ASSUME NEW u \in Users, NEW ids \in SUBSET Stored, SetRead(ids),
             UNCHANGED <<mail, pref, now, producer, walk, dropped>>
      PROVE  InboxInv' /\ RowsKept
  <2>1. RowsTyped' /\ KeysUnique' /\ RowsKept
    BY <1>0, <1>7, RowsMarked
  <2>2. ReportsTyped' /\ ReportsSound'
    BY <1>0, <1>7, ReportsSame
  <2>3. WalkSound' /\ walk' \in WalkSet
    BY <1>0, <1>7, <2>1, WalkKept
  <2> QED BY <1>0, <1>7, <2>1, <2>2, <2>3, Assemble
<1>8. ASSUME NEW u \in Users, MarkAllRead(u)
      PROVE  InboxInv' /\ RowsKept
  <2>1. Mailbox(u, TRUE) \in SUBSET Stored
    BY DEF Mailbox
  <2> QED BY <1>7, <1>8, <2>1 DEF MarkAllRead
<1>9. ASSUME NEW u \in Users, NEW i \in Ids, MarkRead(u, i)
      PROVE  InboxInv' /\ RowsKept
  <2>1. {i} \in SUBSET Stored
    BY <1>9 DEF MarkRead, Mailbox
  <2> QED BY <1>7, <1>9, <2>1 DEF MarkRead
<1>10. CASE Page
  <2>1. UNCHANGED <<row, mail, pref, now, producer, dropped>>
    BY <1>10 DEF Page
  <2>2. RowsTyped' /\ KeysUnique' /\ RowsKept
    BY <1>0, <2>1, RowsSame
  <2>3. ReportsTyped' /\ ReportsSound'
    BY <1>0, <2>1, ReportsSame
  <2>4. WalkSound' /\ walk' \in WalkSet
    BY <1>0, <1>10, WalkPage
  <2> QED BY <1>0, <2>1, <2>2, <2>3, <2>4, Assemble
<1>11. CASE EndWalk
  <2>1. UNCHANGED <<row, mail, pref, now, producer, dropped>>
    BY <1>11 DEF EndWalk
  <2>2. RowsTyped' /\ KeysUnique' /\ RowsKept
    BY <1>0, <2>1, RowsSame
  <2>3. ReportsTyped' /\ ReportsSound'
    BY <1>0, <2>1, ReportsSame
  <2>4. WalkSound' /\ walk' \in WalkSet
    BY <1>11, WalkEnd
  <2> QED BY <1>0, <2>1, <2>2, <2>3, <2>4, Assemble
<1>12. CASE Tick
  <2>1. UNCHANGED <<row, mail, pref, producer, walk, dropped>>
        /\ now' \in Nat /\ now <= now' /\ now' \in 1 .. Horizon
    BY <1>0, <1>12, InboxConstants DEF Tick
  <2>2. RowsTyped' /\ KeysUnique' /\ RowsKept
    BY <1>0, <2>1, RowsSame
  <2>3. ReportsTyped' /\ ReportsSound'
    BY <1>0, <2>1, ReportsSame
  <2>4. WalkSound' /\ walk' \in WalkSet
    BY <1>0, <2>1, <2>2, WalkKept
  <2> QED BY <1>0, <2>1, <2>2, <2>3, <2>4, Assemble
<1>13. CASE UNCHANGED vars
  <2>1. UNCHANGED <<row, mail, pref, now, producer, walk, dropped>>
    BY <1>13 DEF vars
  <2>2. RowsTyped' /\ KeysUnique' /\ RowsKept
    BY <1>0, <2>1, RowsSame
  <2>3. ReportsTyped' /\ ReportsSound'
    BY <1>0, <2>1, ReportsSame
  <2>4. WalkSound' /\ walk' \in WalkSet
    BY <1>0, <2>1, <2>2, WalkKept
  <2> QED BY <1>0, <2>1, <2>2, <2>3, <2>4, Assemble
<1> QED BY <1>1, <1>2, <1>3, <1>4, <1>5, <1>6, <1>8, <1>9, <1>10, <1>11, <1>12,
           <1>13 DEF Next

\* So the invariant holds in every behaviour.
LEMMA InboxInductive == Spec => []InboxInv
BY InitInbox, InboxStep, PTL DEF Spec

------------------------------------------------------------------------------
(* The theorems.                                                           *)

\* Rows, reports, preferences and walks stay well formed, no row is from the
\* future and a cursor is always the last row its client was given.
THEOREM InboxTyped == Spec => []TypeOK
BY InboxInductive, PTL DEF InboxInv

\* Any number of producers may report an event any number of times, with errors
\* after a commit and stale preferences: the unique key leaves one row per
\* channel.
THEOREM OneRow == Spec => []OneRowPerEvent
<1>1. InboxInv => OneRowPerEvent
  <2> SUFFICES ASSUME InboxInv, NEW e \in Events
               PROVE  Cardinality(Holding(e)) <= 1 /\ mail[e] <= 1
    BY DEF OneRowPerEvent
  <2>1. KeysUnique
    BY DEF InboxInv
  <2>2. CASE Holding(e) = {}
    BY <2>1, <2>2, FS_EmptySet DEF KeysUnique
  <2>3. CASE Holding(e) # {}
    <3>1. PICK i : i \in Holding(e)
      BY <2>3
    <3>2. Holding(e) = {i}
      BY <2>1, <3>1 DEF Holding, KeysUnique
    <3>3. Cardinality(Holding(e)) = 1
      BY <3>2, FS_Singleton
    <3> QED BY <2>1, <3>3 DEF KeysUnique
  <2> QED BY <2>2, <2>3
<1> QED BY <1>1, InboxInductive, PTL

\* For any table, any limits and any interleaving with inserts and reads, the
\* pages a client walks through are strictly newest first, and when the last
\* one is short nothing that was there at the start was skipped.
THEOREM WalkExact == Spec => []WalkIsExact
<1>1. InboxInv => WalkIsExact
  BY DEF InboxInv, WalkSound, WalkIsExact, Due, Given
<1> QED BY <1>1, InboxInductive, PTL

\* Whatever the order of stamps, loads and preference updates of any number of
\* producers, an Enqueue whose pair was off throughout writes no row.
THEOREM OptOut == Spec => OptOutHolds
<1>1. InboxInv =>
        \A p \in Producers : ~(producer[p].muted /\ producer[p].pc = "insert")
  BY DEF InboxInv, ReportsSound, Sound
<1>2. InboxInv /\ [Next]_vars =>
        [\A p \in Producers :
           producer[p].muted /\ producer[p].pc = "insert"
           /\ producer'[p] # producer[p]
             => UNCHANGED <<row, mail>>]_vars
  BY <1>1
<1> QED BY <1>2, InboxInductive, PTL DEF OptOutHolds, Spec

\* No sequence of preference updates, and no row found in the table, switches
\* the protected pair off.
THEOREM SecurityMail == Spec => SecurityMailIsProtected
<1>1. ASSUME InboxInv, Next
      PROVE  /\ ~dropped'
             /\ \A q \in Pairs : protected(q) /\ pref[q] => pref'[q]
  <2>1. InboxInv'
    BY <1>1, InboxStep
  <2>2. ~dropped'
    BY <2>1 DEF InboxInv
  <2>3. CASE \E u \in Users : UpdatePreferences(u)
    BY <1>1, <2>2, <2>3, UpdateStep DEF InboxInv, TypeOK
  <2>4. CASE pref' = pref
    BY <2>2, <2>4
  <2>5. pref' = pref \/ \E u \in Users : UpdatePreferences(u)
    BY <1>1 DEF Next, Report, Stamp, LoadPreferences, Insert, StartWalk,
                MarkAllRead, MarkRead, Page, EndWalk, Tick
  <2> QED BY <2>3, <2>4, <2>5
<1>2. InboxInv /\ [Next]_vars =>
        [/\ ~dropped'
         /\ \A p \in Pairs : protected(p) /\ pref[p] => pref'[p]]_vars
  BY <1>1
<1> QED BY <1>2, InboxInductive, PTL DEF SecurityMailIsProtected, Spec
==============================================================================
