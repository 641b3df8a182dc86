-------------------------------- MODULE Inbox ---------------------------------
(***************************************************************************)
(* What surrounds the outbox: producers report security events through     *)
(* securityNotifierAdapter and Service.Enqueue, users change their         *)
(* delivery preferences, and clients page through the in-app mailbox and   *)
(* mark what they read, all over the same two tables.                      *)
(*                                                                         *)
(* An Enqueue is three steps, because the user may change a preference     *)
(* between them: the notification is stamped, the preferences are loaded,  *)
(* the row is inserted.  created_at is the first of these instants, so     *)
(* rows are not inserted in the order the mailbox shows them.              *)
(***************************************************************************)
EXTENDS Naturals, Sequences, FiniteSets, SequencesExt

CONSTANTS
    Users,
    Events,            \* security events; a retried report is the same event
    Recipient,         \* whom an event concerns
    CategoryOf,        \* its category
    Producers,         \* goroutines that report events
    Routable,          \* channels with a registered sender
    DefaultListLimit, MaxListLimit,
    Limits,            \* the limits clients ask for; 0 is none
    \* Bounds of the model.
    MaxRows,           \* rows the outbox may hold
    Horizon            \* the clock stops here

Channels == {"email", "inapp", "webhook"}
Categories == {"security", "account", "system"}
securityChannels == <<"email", "inapp">>

ASSUME InboxAssumption ==
    /\ Recipient \in [Events -> Users]
    /\ CategoryOf \in [Events -> Categories]
    /\ Routable \subseteq Channels
    /\ MaxListLimit \in Nat /\ DefaultListLimit \in 1 .. MaxListLimit
    /\ Limits \subseteq Nat
    /\ MaxRows \in Nat \ {0} /\ Horizon \in Nat \ {0}

VARIABLES
    row,       \* the rows of the in-app channel, by id
    mail,      \* per event, how many rows the other channels hold
    pref,      \* notification_preferences; a pair without a row counts as on
    now,
    producer,  \* the report each producer goroutine is making; muted is
               \* history: its pair has been off since the stamp
    walk,      \* a client's walk through its mailbox
    \* History, read by no action.
    dropped    \* a preference suppressed a protected notification

vars == <<row, mail, pref, now, producer, walk, dropped>>

Ids == 1 .. MaxRows        \* random UUIDs: their order means nothing
NoRow == [event |-> "none", at |-> 0, read |-> FALSE]
Stored == {i \in Ids : row[i] # NoRow}
Owner(i) == Recipient[row[i].event]

PairOf(e, ch) ==
    [user |-> Recipient[e], channel |-> ch, category |-> CategoryOf[e]]

\* The pairs somebody may be told something on.
Pairs == {PairOf(e, ch) : e \in Events, ch \in Routable}

protected(p) == p.channel = "email" /\ p.category = "security"

\* What is stored for one user.
ListForUser(u) == [p \in {q \in Pairs : q.user = u} |-> pref[p]]

\* Mutant: the stored row is looked at first.
AllowedStored(prefs, p) == prefs[p]

\* The protected pair before any stored row, no row means on.
Allowed(prefs, p) == protected(p) \/ prefs[p]

\* A cell of GetPreferences' matrix, which is the answer Enqueue acts on.
Enabled(p) == Allowed(ListForUser(p.user), p)

NoReport == [pc |-> "idle", event |-> "none", todo |-> <<>>, at |-> 0,
             muted |-> FALSE]
NoCursor == [at |-> 0, id |-> 0]    \* a request without ?cursor
NoWalk == [pc |-> "idle", user |-> "none", unread |-> FALSE, limit |-> 0,
           after |-> NoCursor, got |-> <<>>, must |-> {}]

\* An empty outbox, nobody has opted out, and the table holds the one kind of
\* row that should not exist, against which Allowed defends: a protected pair
\* that is off.  Any request may repair it.
Init ==
    /\ row = [i \in Ids |-> NoRow] /\ mail = [e \in Events |-> 0]
    /\ pref = [p \in Pairs |-> ~protected(p)]
    /\ now = 1
    /\ producer = [p \in Producers |-> NoReport]
    /\ walk = NoWalk
    /\ dropped = FALSE

------------------------------------------------------------------------------
(* Producers.                                                              *)

Pair(p) == PairOf(producer[p].event, Head(producer[p].todo))

\* The loop of notify at the first of the channels left.
Reporting(e, channels) ==
    [pc |-> "stamp", event |-> e, todo |-> channels, at |-> 0, muted |-> FALSE]

\* Mutant: the loop runs past the last channel.
NextChannelTooFar(p) ==
    LET r == producer[p]
    IN  producer' = [producer EXCEPT ![p] =
                       IF r.todo = <<>> THEN NoReport
                       ELSE Reporting(r.event, Tail(r.todo))]

\* The adapter goes on to the next channel whatever this one returned.
NextChannel(p) ==
    LET r == producer[p]
    IN  producer' = [producer EXCEPT ![p] =
                       IF Len(r.todo) = 1 THEN NoReport
                       ELSE Reporting(r.event, Tail(r.todo))]

\* notify: an event is reported, or reported again.
Report(p, e) ==
    /\ producer[p].pc = "idle"
    /\ producer' = [producer EXCEPT ![p] = Reporting(e, securityChannels)]
    /\ UNCHANGED <<row, mail, pref, now, walk, dropped>>

\* Enqueue, up to the routability check: the notification gets its created_at,
\* which only the mailbox reads.
Stamp(p) ==
    /\ producer[p].pc = "stamp"
    /\ IF Head(producer[p].todo) \in Routable
       THEN producer' = [producer EXCEPT ![p].pc = "prefs",
              ![p].at = IF Head(producer[p].todo) = "inapp" THEN now ELSE 0,
              ![p].muted = ~Enabled(Pair(p))]
       ELSE NextChannel(p)
    /\ UNCHANGED <<row, mail, pref, now, walk, dropped>>

\* Mutant: a failure to load the preferences lets the notification pass.
LoadPreferencesOpen(p) ==
    /\ producer[p].pc = "prefs"
    /\ producer' = [producer EXCEPT ![p].pc = "insert"]
    /\ UNCHANGED <<row, mail, pref, now, walk, dropped>>

\* The preferences are loaded: an error ends this channel, a pair that is off
\* is dropped silently.
LoadPreferences(p) ==
    /\ producer[p].pc = "prefs"
    /\ \/ NextChannel(p) /\ UNCHANGED dropped        \* load preferences: err
       \/ /\ ~Enabled(Pair(p))
          /\ NextChannel(p)
          /\ dropped' = (dropped \/ protected(Pair(p)))
       \/ /\ Enabled(Pair(p))
          /\ producer' = [producer EXCEPT ![p].pc = "insert"]
          /\ UNCHANGED dropped
    /\ UNCHANGED <<row, mail, pref, now, walk>>

Holding(e) == {i \in Stored : row[i].event = e}

\* A row of the in-app channel, under a fresh id, or of another one.
Inserted(p) ==
    LET e == producer[p].event
    IN  IF Head(producer[p].todo) = "inapp"
        THEN /\ \E i \in Ids \ Stored :
                  row' = [row EXCEPT ![i] = [event |-> e, read |-> FALSE,
                                             at |-> producer[p].at]]
             /\ UNCHANGED mail
        ELSE mail' = [mail EXCEPT ![e] = @ + 1] /\ UNCHANGED row

\* Mutant: the key has no unique index.
KeyIsFreeAlways(p) == TRUE

\* The idempotency key names the event and the channel.
KeyIsFree(p) ==
    IF Head(producer[p].todo) = "inapp"
    THEN Holding(producer[p].event) = {}
    ELSE mail[producer[p].event] = 0

\* INSERT ... ON CONFLICT (idempotency_key) DO NOTHING: a new row, an existing
\* one, or an error.  An error after the commit leaves the row.
Insert(p) ==
    /\ producer[p].pc = "insert"
    /\ \/ KeyIsFree(p) /\ Inserted(p)
       \/ UNCHANGED <<row, mail>>
    /\ NextChannel(p)
    /\ UNCHANGED <<pref, now, walk, dropped>>

------------------------------------------------------------------------------
(* Preferences.                                                            *)

\* NewPreference on every update before any is written.
Acceptable(updates) ==
    \A p \in DOMAIN updates : protected(p) => updates[p]

\* INSERT ... ON CONFLICT DO UPDATE: one statement, the whole set or nothing.
Upsert(updates) ==
    pref' = [p \in Pairs |-> IF p \in DOMAIN updates THEN updates[p]
                             ELSE pref[p]]

\* UpdatePreferences of one user.  A request that names a pair twice is refused
\* like one that is not acceptable.
UpdatePreferences(u) ==
    /\ \E s \in (SUBSET {p \in Pairs : p.user = u}) \ {{}} :
        \E updates \in [s -> BOOLEAN] : Acceptable(updates) /\ Upsert(updates)
    /\ producer' = [p \in Producers |->
                      IF producer[p].muted /\ pref'[Pair(p)]
                      THEN [producer[p] EXCEPT !.muted = FALSE]
                      ELSE producer[p]]
    /\ UNCHANGED <<row, mail, now, walk, dropped>>

------------------------------------------------------------------------------
(* The mailbox.                                                            *)

\* What a page hands out to continue from: the last row's values, not its
\* position.
encodeCursor(i) == [at |-> row[i].at, id |-> i]

\* (created_at, id) < (cursor): row values compare column by column.
Before(i, cursor) ==
    \/ row[i].at < cursor.at
    \/ row[i].at = cursor.at /\ i < cursor.id

\* What the WHERE clause admits, the cursor apart.
Mailbox(u, unread) ==
    {i \in Stored : /\ Owner(i) = u
                    /\ unread => ~row[i].read}

\* Mutant: the limit the client sent decides whether there is another page.
NormalizeNothing(limit) == limit

\* ListFilter.Normalize: absent means the default, too large means the most.
Normalize(limit) ==
    IF limit = 0 THEN DefaultListLimit
    ELSE IF limit > MaxListLimit THEN MaxListLimit ELSE limit

StartWalk(u) ==
    /\ walk.pc = "idle"
    /\ \E unread \in BOOLEAN, limit \in Limits :
        walk' = [pc |-> "page", user |-> u, unread |-> unread,
                 limit |-> limit, after |-> NoCursor, got |-> <<>>,
                 must |-> Mailbox(u, unread)]
    /\ UNCHANGED <<row, mail, pref, now, producer, dropped>>

\* Newest first, at most the normalized limit (which the query applies again).
PageOf(u, unread, limit, cursor) ==
    LET match == {i \in Mailbox(u, unread) :
                    cursor = NoCursor \/ Before(i, cursor)}
        newer(i) == {j \in match : Before(i, encodeCursor(j))}
        most == IF limit > MaxListLimit THEN MaxListLimit ELSE limit
    IN  [k \in 1 .. Min({most, Cardinality(match)}) |->
            CHOOSE i \in match : Cardinality(newer(i)) = k - 1]

\* Handler.List: a full page carries a cursor, a short one ends the walk.  A
\* failing query leaves the client where it was.
Page ==
    /\ walk.pc = "page"
    /\ LET limit == Normalize(walk.limit)
           items == PageOf(walk.user, walk.unread, limit, walk.after)
       IN  walk' = [walk EXCEPT
                      !.got = @ \o items,
                      !.pc = IF Len(items) = limit THEN "page" ELSE "done",
                      !.after = IF items = <<>> THEN @
                                ELSE encodeCursor(Last(items))]
    /\ UNCHANGED <<row, mail, pref, now, producer, dropped>>

EndWalk ==
    /\ walk.pc = "done"
    /\ walk' = NoWalk
    /\ UNCHANGED <<row, mail, pref, now, producer, dropped>>

\* The UPDATE of read_at, which keeps the instant of the first read; the model
\* tells set from NULL.
SetRead(ids) ==
    row' = [i \in Ids |-> IF i \in ids THEN [row[i] EXCEPT !.read = TRUE]
                         ELSE row[i]]

\* MarkRead: id, recipient and channel in one predicate.  Any other id, and one
\* already read, changes nothing.
MarkRead(u, i) ==
    /\ i \in Mailbox(u, TRUE)
    /\ SetRead({i})
    /\ UNCHANGED <<mail, pref, now, producer, walk, dropped>>

MarkAllRead(u) ==
    /\ Mailbox(u, TRUE) # {}
    /\ SetRead(Mailbox(u, TRUE))
    /\ UNCHANGED <<mail, pref, now, producer, walk, dropped>>

Tick ==
    /\ now < Horizon
    /\ now' = now + 1
    /\ UNCHANGED <<row, mail, pref, producer, walk, dropped>>

Next ==
    \/ \E p \in Producers :
        \/ \E e \in Events : Report(p, e)
        \/ Stamp(p) \/ LoadPreferences(p) \/ Insert(p)
    \/ \E u \in Users :
        \/ UpdatePreferences(u)
        \/ StartWalk(u)
        \/ MarkAllRead(u)
        \/ \E i \in Ids : MarkRead(u, i)
    \/ Page \/ EndWalk
    \/ Tick

Spec == Init /\ [][Next]_vars

------------------------------------------------------------------------------
(* Properties.                                                             *)

RowSet == [event : Events \cup {"none"}, at : Nat, read : BOOLEAN]
ReportSet == [pc : {"idle", "stamp", "prefs", "insert"},
              event : Events \cup {"none"}, todo : Seq(Channels), at : Nat,
              muted : BOOLEAN]
WalkSet == [pc : {"idle", "page", "done"}, user : Users \cup {"none"},
            unread : BOOLEAN, limit : Nat, after : [at : Nat, id : Nat],
            got : Seq(Ids), must : SUBSET Ids]

RowsTyped ==
    /\ row \in [Ids -> RowSet]
    /\ \A i \in Stored : row[i].event \in Events /\ row[i].at \in 1 .. now
    /\ mail \in [Events -> Nat]

ReportsTyped ==
    /\ producer \in [Producers -> ReportSet]
    /\ \A p \in Producers : producer[p].pc # "idle" =>
         /\ producer[p].event \in Events /\ producer[p].todo # <<>>
         /\ producer[p].at <= now

WalkTyped ==
    /\ walk \in WalkSet
    /\ walk.after # NoCursor => walk.after = encodeCursor(Last(walk.got))

\* Type invariant: rows, reports and the walk are well formed, no row is from
\* the future, and a client's cursor names the last row it was given.
TypeOK ==
    /\ RowsTyped
    /\ ReportsTyped
    /\ WalkTyped
    /\ pref \in [Pairs -> BOOLEAN]
    /\ now \in 1 .. Horizon

\* However often an event is reported, and by however many goroutines at once,
\* the outbox holds it once per channel.
OneRowPerEvent ==
    \A e \in Events : Cardinality(Holding(e)) <= 1 /\ mail[e] <= 1

\* Opting out works: an Enqueue writes nothing when the pair was off from its
\* start to its insert.
OptOutHolds ==
    [][\A p \in Producers :
         producer[p].muted /\ producer[p].pc = "insert" /\ producer'[p] # producer[p]
           => UNCHANGED <<row, mail>>]_vars

\* Security mail cannot be switched off: no preference ever suppresses it, not
\* even a stored row that should not exist, and no request stores one.
SecurityMailIsProtected ==
    [][/\ ~dropped'
       /\ \A p \in Pairs : protected(p) /\ pref[p] => pref'[p]]_vars

\* A walk through the pages shows everything that was there when it began,
\* newest first, nothing twice, although rows are inserted, some with an older
\* created_at than rows already shown, and marked read meanwhile.  An unread
\* walk may miss what was read under it.
WalkIsExact ==
    /\ \A i, j \in DOMAIN walk.got :
        i < j => Before(walk.got[j], encodeCursor(walk.got[i]))
    /\ walk.pc = "done" =>
        \A i \in walk.must :
            \/ \E k \in DOMAIN walk.got : walk.got[k] = i
            \/ walk.unread /\ row[i].read
==============================================================================
