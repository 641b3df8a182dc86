---------------------------- MODULE AccountProofs -----------------------------
(* Theorems about Account, for any number of requests and any thresholds,  *)
(* durations and bounds.                                                   *)
EXTENDS Account, TLAPS

\* What a goroutine's request is.
RequestRecords == [pc : PCs, user : Users, arg : Nat]

------------------------------------------------------------------------------
(* Types.                                                                  *)

\* The constants, one by one.
LEMMA ConstantsTyped ==
    /\ MaxFailedAttempts \in Nat \ {0} /\ LockDuration \in Nat \ {0}
    /\ AccessTTL \in Nat \ {0} /\ IDTTL \in Nat \ {0} /\ MfaTTL \in Nat \ {0}
    /\ Leeway \in Nat \ {0} /\ CodesPerBatch \in Nat \ {0}
    /\ MaxCount \in Nat \ {0} /\ Horizon \in Nat \ {0}
    /\ MaxSecrets \in Nat /\ MaxBatches \in Nat
    /\ MaxFailedAttempts <= MaxCount
    /\ MaxBatches * CodesPerBatch \in Nat
<1>1. /\ CodesPerBatch \in Nat /\ MaxBatches \in Nat
  BY AccountAssumption
<1>2. MaxBatches * CodesPerBatch \in Nat
  BY <1>1
<1> QED BY <1>2, AccountAssumption

\* The row of a new account and the request nobody makes are well formed.
LEMMA FreshTyped == Fresh \in Users /\ Idle \in RequestRecords
BY ConstantsTyped DEF Fresh, Users, Idle, RequestRecords, PCs, None

\* domain.User's mutators return users.
LEMMA CountersTyped ==
    ASSUME NEW u \in Users, NEW a \in 0 .. MaxCount,
           NEW l \in 0 .. Horizon + LockDuration
    PROVE  [u EXCEPT !.attempts = a, !.lockedUntil = l] \in Users
BY DEF Users

\* A cleared counter leaves a user record.
LEMMA ResetTyped ==
    ASSUME NEW u \in Users
    PROVE  /\ ResetFailedLogins(u) \in Users
           /\ ResetFailedLogins(u).attempts = 0
           /\ ResetFailedLogins(u).lockedUntil = None
           /\ ResetFailedLogins(u).enabled = u.enabled
           /\ ResetFailedLogins(u).secret = u.secret
<1>1. 0 \in 0 .. MaxCount /\ None \in 0 .. Horizon + LockDuration
  BY ConstantsTyped DEF None
<1>2. ResetFailedLogins(u) \in Users
  BY <1>1, CountersTyped DEF ResetFailedLogins
<1> QED BY <1>2 DEF ResetFailedLogins, Users

\* A counted failure leaves a user record, locked or not.
LEMMA RecordTyped ==
    ASSUME NEW u \in Users, u.attempts < MaxCount, now \in 1 .. Horizon
    PROVE  /\ RecordFailedLogin(u) \in Users
           /\ RecordFailedLogin(u).attempts = u.attempts + 1
           /\ RecordFailedLogin(u).lockedUntil # None
                <=> u.attempts + 1 >= MaxFailedAttempts \/ u.lockedUntil # None
           /\ RecordFailedLogin(u).enabled = u.enabled
           /\ RecordFailedLogin(u).secret = u.secret
<1> DEFINE a == u.attempts + 1
           l == IF a >= MaxFailedAttempts THEN now + LockDuration
                ELSE u.lockedUntil
<1>1. a \in 0 .. MaxCount /\ l \in 0 .. Horizon + LockDuration
  BY ConstantsTyped DEF Users
<1>2. RecordFailedLogin(u) = [u EXCEPT !.attempts = a, !.lockedUntil = l]
  BY DEF RecordFailedLogin, Users
<1>3. l # None <=> a >= MaxFailedAttempts \/ u.lockedUntil # None
  BY ConstantsTyped DEF None, Users
<1> HIDE DEF a, l
<1>4. RecordFailedLogin(u) \in Users
  BY <1>1, <1>2, CountersTyped
<1>5. /\ RecordFailedLogin(u).attempts = a
      /\ RecordFailedLogin(u).lockedUntil = l
      /\ RecordFailedLogin(u).enabled = u.enabled
      /\ RecordFailedLogin(u).secret = u.secret
  BY <1>2 DEF Users
<1> QED BY <1>3, <1>4, <1>5 DEF a

\* So does a new secret,
LEMMA SecretTyped ==
    ASSUME NEW u \in Users, NEW s \in 1 .. MaxSecrets
    PROVE  LET w == [u EXCEPT !.secret = s]
           IN  /\ w \in Users /\ w.secret = s /\ w.secret # None
               /\ w.enabled = u.enabled /\ w.attempts = u.attempts
               /\ w.lockedUntil = u.lockedUntil
BY ConstantsTyped DEF Users, None

\* and switching MFA on.
LEMMA EnableTyped ==
    ASSUME NEW u \in Users
    PROVE  LET w == [u EXCEPT !.enabled = TRUE]
           IN  /\ w \in Users /\ w.enabled /\ w.secret = u.secret
               /\ w.attempts = u.attempts /\ w.lockedUntil = u.lockedUntil
BY DEF Users

\* One request goes on and the others stay where they are.
LEMMA ContinueMoves ==
    ASSUME req \in [Requests -> RequestRecords], NEW r \in Requests,
           NEW p \in PCs, NEW u \in Users, NEW a \in Nat, Continue(r, p, u, a)
    PROVE  /\ req' \in [Requests -> RequestRecords]
           /\ req'[r].pc = p /\ req'[r].user = u /\ req'[r].arg = a
           /\ \A q \in Requests \ {r} : req'[q] = req[q]
BY DEF Continue, RequestRecords

\* An answered request is idle and the others stay where they are.
LEMMA AnswerMoves ==
    ASSUME req \in [Requests -> RequestRecords], NEW r \in Requests, Answer(r)
    PROVE  /\ req' \in [Requests -> RequestRecords]
           /\ req'[r] = Idle /\ req'[r].pc = "idle" /\ req'[r].user = Fresh
           /\ \A q \in Requests \ {r} : req'[q] = req[q]
BY FreshTyped DEF Answer, Idle

\* So do they when one request only moves on.
LEMMA PcMoves ==
    ASSUME req \in [Requests -> RequestRecords], NEW r \in Requests,
           NEW p \in PCs, req' = [req EXCEPT ![r].pc = p]
    PROVE  /\ req' \in [Requests -> RequestRecords]
           /\ req'[r].pc = p /\ req'[r].user = req[r].user
           /\ req'[r].arg = req[r].arg
           /\ \A q \in Requests \ {r} : req'[q] = req[q]
BY DEF RequestRecords

\* Issuing tokens keeps the client's tokens well formed, and the access token
\* of a login is not touched by an MFA token.
LEMMA SessionsTyped ==
    ASSUME TypeOK
    PROVE  /\ Sessions \in [T!Classes -> 0 .. Horizon + AccessTTL + IDTTL + MfaTTL]
           /\ LET h == [held EXCEPT !["mfa"] = T!IssueMFAToken(jwt, User, now, MfaTTL).exp]
              IN  /\ h \in [T!Classes -> 0 .. Horizon + AccessTTL + IDTTL + MfaTTL]
                  /\ h["access"] = held["access"]
<1> DEFINE E == 0 .. Horizon + AccessTTL + IDTTL + MfaTTL
<1>1. /\ T!IssueAccessToken(jwt, User, now, AccessTTL).exp = now + AccessTTL
      /\ T!IssueIDToken(jwt, User, jwt.audience, now, IDTTL).exp = now + IDTTL
      /\ T!IssueMFAToken(jwt, User, now, MfaTTL).exp = now + MfaTTL
  BY DEF T!IssueAccessToken, T!IssueIDToken, T!IssueMFAToken, T!Sign
<1>2. now + AccessTTL \in E /\ now + IDTTL \in E /\ now + MfaTTL \in E
  BY ConstantsTyped DEF TypeOK
<1>3. held \in [T!Classes -> E]
  BY DEF TypeOK
<1> HIDE DEF E
<1>4. /\ Sessions \in [T!Classes -> E]
      /\ LET h == [held EXCEPT !["mfa"] = now + MfaTTL]
         IN  h \in [T!Classes -> E] /\ h["access"] = held["access"]
  BY <1>1, <1>2, <1>3 DEF Sessions, T!Classes
<1> QED BY <1>1, <1>4 DEF E

------------------------------------------------------------------------------
(* The inductive invariant.                                                *)

\* A copy that may be written back is fit to be the row: if it says MFA is on,
\* there is a secret in it and there are codes in the table.
Sound(u) == u.enabled => u.secret # None /\ codes # <<>>

\* The failures it counts did happen, and its lock was earned.
Charged(u) ==
    /\ u.attempts <= fails
    /\ u.lockedUntil # None => fails >= MaxFailedAttempts

\* The copies of the requests in flight are as good as the row, and an
\* enrolment that passed its code check has a secret, then codes.
CopiesSound ==
    /\ Sound(row)
    /\ \A r \in Requests :
        /\ Sound(req[r].user)
        /\ req[r].pc \in {"confirm", "enable"} => req[r].user.secret # None
        /\ req[r].pc = "enable" => codes # <<>>

CopiesCharged == Charged(row) /\ \A r \in Requests : Charged(req[r].user)

\* Requests that will save their copy, or decide by it.
UsesCopy == {"password", "issue", "setup", "confirm", "enable"}

\* Undisturbed requests run one at a time, on a copy that is the row.
Alone == \A r, q \in Requests : Busy(r) /\ Busy(q) => r = q
CopiesCurrent ==
    \A r \in Requests : req[r].pc \in UsesCopy => req[r].user = row
CountExact ==
    /\ row.attempts = streak
    /\ row.lockedUntil # None <=> streak >= MaxFailedAttempts
\* The codes that were accepted are marked, and one about to be is not.
CodesExact ==
    /\ told => row.enabled
    /\ ~reused
    /\ \A i \in spent : codes[i]
    /\ \A r \in Requests : req[r].pc = "mark" => ~codes[req[r].arg]

Serial == ~disturbed => Alone /\ CopiesCurrent /\ CountExact /\ CodesExact

AccountInv == TypeOK /\ CopiesSound /\ CopiesCharged /\ Serial

\* A new account satisfies it.
LEMMA AccountInit == Init => AccountInv
<1> SUFFICES ASSUME Init PROVE AccountInv
  OBVIOUS
<1>1. \A r \in Requests : req[r] = Idle
  BY DEF Init
<1>2. Idle.pc = "idle" /\ Idle.user = Fresh
  BY DEF Idle
<1>3. TypeOK
  <2>1. /\ row \in Users /\ req \in [Requests -> [pc : PCs, user : Users, arg : Nat]]
    BY FreshTyped DEF Init, RequestRecords
  <2>2. codes \in Seq(BOOLEAN) /\ Len(codes) = 0 /\ DOMAIN codes = {}
    BY DEF Init
  <2>3. held \in [T!Classes -> 0 .. Horizon + AccessTTL + IDTTL + MfaTTL]
    BY ConstantsTyped DEF Init
  <2>4. /\ secrets \in 0 .. MaxSecrets /\ now \in 1 .. Horizon
        /\ fails \in 0 .. MaxCount /\ streak \in 0 .. MaxCount
        /\ Len(codes) <= MaxBatches * CodesPerBatch
    BY <2>2, ConstantsTyped DEF Init
  <2>5. /\ disturbed \in BOOLEAN /\ told \in BOOLEAN /\ reused \in BOOLEAN
        /\ spent = {}
    BY DEF Init
  <2> QED BY <1>1, <1>2, <2>1, <2>2, <2>3, <2>4, <2>5 DEF TypeOK
<1>4. CopiesSound
  BY <1>1, <1>2 DEF CopiesSound, Sound, Init, Fresh
<1>5. CopiesCharged
  BY <1>1, <1>2 DEF CopiesCharged, Charged, Init, Fresh, None
<1>6. Serial
  BY <1>1, <1>2, ConstantsTyped
     DEF Serial, Alone, CopiesCurrent, CountExact, CodesExact, Busy, Init,
         Fresh, None, UsesCopy
<1> QED BY <1>3, <1>4, <1>5, <1>6 DEF AccountInv

------------------------------------------------------------------------------
(* Steps.                                                                  *)

\* A request that starts copies the row and changes nothing but req, secrets
\* and whether it is alone.
LEMMA StartKeeps ==
    ASSUME AccountInv, NEW r \in Requests, ~Busy(r), Overlap(r),
           UNCHANGED <<row, codes, now, held, counted, told, spent, reused>>,
           secrets' \in 0 .. MaxSecrets,
           req' \in [Requests -> RequestRecords],
           \A q \in Requests \ {r} : req'[q] = req[q],
           req'[r].pc \in {"idle", "password", "setup", "confirm", "lookup",
                           "grant"},
           req'[r].user \in {row, Fresh},
           req'[r].pc \in UsesCopy => req'[r].user = row,
           req'[r].pc = "setup" => req'[r].arg \in 1 .. MaxSecrets,
           req'[r].pc = "confirm" => row.secret # None,
           req'[r].pc = "lookup" => req'[r].arg \in DOMAIN codes
    PROVE  AccountInv'
<1>1. TypeOK'
  <2>1. disturbed' \in BOOLEAN
    BY DEF Overlap, AccountInv, TypeOK, Busy
  <2> QED BY <2>1 DEF AccountInv, TypeOK, RequestRecords, counted
<1>2. Sound(Fresh) /\ Charged(Fresh)
  BY DEF Sound, Charged, Fresh, None, AccountInv, TypeOK
<1>3. CopiesSound'
  <2>1. \A q \in Requests : Sound(req'[q].user)
    BY <1>2 DEF AccountInv, CopiesSound
  <2> QED BY <2>1 DEF AccountInv, CopiesSound, Sound, UsesCopy
<1>4. CopiesCharged'
  <2>1. \A q \in Requests : Charged(req'[q].user)
    BY <1>2 DEF AccountInv, CopiesCharged
  <2> QED BY <2>1 DEF AccountInv, CopiesCharged, Charged, counted
<1>5. Serial'
  <2> SUFFICES ASSUME ~disturbed'
               PROVE  (Alone /\ CopiesCurrent /\ CountExact /\ CodesExact)'
    BY DEF Serial
  <2>1. ~disturbed /\ \A q \in Requests \ {r} : ~Busy(q)
    BY DEF Overlap
  <2>2. Alone' /\ CopiesCurrent'
    BY <2>1 DEF Alone, CopiesCurrent, Busy, UsesCopy
  <2>3. CountExact' /\ CodesExact'
    BY <2>1 DEF AccountInv, Serial, CountExact, CodesExact, counted
  <2> QED BY <2>2, <2>3
<1> QED BY <1>1, <1>3, <1>4, <1>5 DEF AccountInv

\* A request that answers without having changed the row or the codes.
LEMMA EndKeeps ==
    ASSUME AccountInv, NEW r \in Requests, Answer(r),
           UNCHANGED <<store, now, counted, told, spent, reused>>,
           disturbed' \in BOOLEAN, disturbed => disturbed',
           held' \in [T!Classes -> 0 .. Horizon + AccessTTL + IDTTL + MfaTTL]
    PROVE  AccountInv'
<1> USE DEF store, counted
<1>1. /\ req' \in [Requests -> RequestRecords]
      /\ req'[r].pc = "idle" /\ req'[r].user = Fresh
      /\ \A q \in Requests \ {r} : req'[q] = req[q]
  BY AnswerMoves DEF AccountInv, TypeOK, RequestRecords
<1>2. TypeOK'
  BY <1>1 DEF AccountInv, TypeOK, RequestRecords
<1>3. CopiesSound'
  BY <1>1 DEF AccountInv, CopiesSound, Sound, Fresh
<1>4. CopiesCharged'
  <2>1. Charged(Fresh)
    BY DEF Charged, Fresh, None, AccountInv, TypeOK
  <2>2. \A q \in Requests : Charged(req'[q].user)
    BY <1>1, <2>1 DEF AccountInv, CopiesCharged
  <2> QED BY <2>2 DEF AccountInv, CopiesCharged, Charged
<1>5. Serial'
  <2> SUFFICES ASSUME ~disturbed'
               PROVE  (Alone /\ CopiesCurrent /\ CountExact /\ CodesExact)'
    BY DEF Serial
  <2>1. ~disturbed /\ Alone /\ CopiesCurrent /\ CountExact /\ CodesExact
    BY DEF AccountInv, Serial
  <2>2. Alone' /\ CopiesCurrent'
    BY <1>1, <2>1 DEF Alone, CopiesCurrent, Busy, UsesCopy
  <2>3. CountExact' /\ CodesExact'
    BY <1>1, <2>1 DEF CountExact, CodesExact
  <2> QED BY <2>2, <2>3
<1> QED BY <1>2, <1>3, <1>4, <1>5 DEF AccountInv

\* A login that finds the user takes a copy of the row.
LEMMA LoginFindKeeps ==
    ASSUME AccountInv, NEW r \in Requests, LoginFind(r)
    PROVE  AccountInv'
<1> USE DEF store
<1>1. CASE Answer(r)
  BY <1>1, StartKeeps, AnswerMoves
     DEF AccountInv, TypeOK, RequestRecords, LoginFind, UsesCopy
<1>2. CASE \E good \in {0, 1} : Continue(r, "password", FindByUsername, good)
  <2>1. PICK good \in {0, 1} : Continue(r, "password", row, good)
    BY <1>2 DEF FindByUsername
  <2>2. row \in Users /\ good \in Nat /\ "password" \in PCs
    BY DEF AccountInv, TypeOK, PCs
  <2>3. /\ req' \in [Requests -> RequestRecords]
        /\ req'[r].pc = "password" /\ req'[r].user = row
        /\ \A q \in Requests \ {r} : req'[q] = req[q]
    BY <2>1, <2>2, ContinueMoves DEF AccountInv, TypeOK, RequestRecords
  <2> QED BY <2>3, StartKeeps DEF AccountInv, TypeOK, LoginFind
<1> QED BY <1>1, <1>2 DEF LoginFind

\* So does the start of an enrolment,
LEMMA SetupFindKeeps ==
    ASSUME AccountInv, NEW r \in Requests, SetupFind(r)
    PROVE  AccountInv'
<1>1. Continue(r, "setup", row, secrets + 1) /\ row \in Users
  BY DEF SetupFind, FindByID, AccountInv, TypeOK
<1>2. /\ secrets' \in 0 .. MaxSecrets /\ secrets + 1 \in 1 .. MaxSecrets
      /\ secrets + 1 \in Nat /\ "setup" \in PCs
  BY ConstantsTyped DEF SetupFind, AccountInv, TypeOK, PCs
<1>3. /\ req' \in [Requests -> RequestRecords]
      /\ req'[r].pc = "setup" /\ req'[r].user = row
      /\ req'[r].arg = secrets + 1
      /\ \A q \in Requests \ {r} : req'[q] = req[q]
  BY <1>1, <1>2, ContinueMoves DEF AccountInv, TypeOK, RequestRecords
<1> QED BY <1>2, <1>3, StartKeeps DEF SetupFind

\* its confirmation,
LEMMA ConfirmFindKeeps ==
    ASSUME AccountInv, NEW r \in Requests, ConfirmFind(r)
    PROVE  AccountInv'
<1> USE DEF store
<1>1. CASE Answer(r)
  BY <1>1, StartKeeps, AnswerMoves
     DEF AccountInv, TypeOK, RequestRecords, ConfirmFind, UsesCopy
<1>2. CASE row.secret # None /\ Continue(r, "confirm", row, None)
  <2>1. row \in Users /\ None \in Nat /\ "confirm" \in PCs
    BY DEF AccountInv, TypeOK, PCs, None
  <2>2. /\ req' \in [Requests -> RequestRecords]
        /\ req'[r].pc = "confirm" /\ req'[r].user = row
        /\ \A q \in Requests \ {r} : req'[q] = req[q]
    BY <1>2, <2>1, ContinueMoves DEF AccountInv, TypeOK, RequestRecords
  <2> QED BY <1>2, <2>2, StartKeeps DEF AccountInv, TypeOK, ConfirmFind
<1> QED BY <1>1, <1>2 DEF ConfirmFind, CanConfirm, FindByID

\* and the second step of a login.
LEMMA FactorFindKeeps ==
    ASSUME AccountInv, NEW r \in Requests, FactorFind(r)
    PROVE  AccountInv'
<1> USE DEF store
<1>1. CASE Answer(r)
  BY <1>1, StartKeeps, AnswerMoves
     DEF AccountInv, TypeOK, RequestRecords, FactorFind, UsesCopy
<1>2. ASSUME NEW p \in {"grant", "lookup"}, NEW a \in Nat,
             p = "lookup" => a \in DOMAIN codes, Continue(r, p, Fresh, a)
      PROVE  AccountInv'
  <2>1. /\ req' \in [Requests -> RequestRecords]
        /\ req'[r].pc = p /\ req'[r].user = Fresh /\ req'[r].arg = a
        /\ \A q \in Requests \ {r} : req'[q] = req[q]
    BY <1>2, FreshTyped, ContinueMoves DEF AccountInv, TypeOK, RequestRecords, PCs
  <2> QED BY <1>2, <2>1, StartKeeps DEF AccountInv, TypeOK, FactorFind, UsesCopy
<1>3. DOMAIN codes \subseteq Nat
  BY DEF AccountInv, TypeOK
<1>4. CASE Continue(r, "grant", Fresh, None)
  BY <1>2, <1>4 DEF None
<1>5. CASE \E code \in DOMAIN codes : Continue(r, "lookup", Fresh, code)
  BY <1>2, <1>3, <1>5
<1> QED BY <1>1, <1>4, <1>5 DEF FactorFind

\* A request that saves its copy: the new row is sound and charged, and exact
\* when it was the only request.
LEMMA SaveKeeps ==
    ASSUME AccountInv, NEW r \in Requests, Busy(r), NEW w \in Users, Save(w),
           UNCHANGED <<codes, secrets, now, held, spent, reused, disturbed>>,
           fails' \in 0 .. MaxCount, fails <= fails', streak' \in 0 .. MaxCount,
           told' \in BOOLEAN,
           req' \in [Requests -> RequestRecords],
           \A q \in Requests \ {r} : req'[q] = req[q],
           req'[r].pc \in {"idle", "issue"}, req'[r].user \in {w, Fresh},
           req'[r].pc = "issue" => req'[r].user = w,
           Sound(w),
           w.attempts <= fails',
           w.lockedUntil # None => fails' >= MaxFailedAttempts,
           ~disturbed => /\ w.attempts = streak'
                         /\ w.lockedUntil # None <=> streak' >= MaxFailedAttempts
                         /\ told' => w.enabled
    PROVE  AccountInv'
<1> USE DEF Save
<1>1. TypeOK'
  BY DEF AccountInv, TypeOK, RequestRecords
<1>2. CopiesSound'
  <2>1. Sound(Fresh)
    BY DEF Sound, Fresh
  <2>2. \A q \in Requests : Sound(req'[q].user)
    BY <2>1 DEF AccountInv, CopiesSound
  <2> QED BY <2>2 DEF AccountInv, CopiesSound, Sound
<1>3. CopiesCharged'
  <2>1. Fresh.attempts = 0 /\ Fresh.lockedUntil = None
    BY DEF Fresh
  <2>2. ASSUME NEW q \in Requests, q # r
        PROVE  Charged(req[q].user)'
    <3>1. Charged(req[q].user) /\ req'[q] = req[q] /\ req[q].user \in Users
      BY <2>2 DEF AccountInv, CopiesCharged, TypeOK
    <3>2. req[q].user.attempts \in Nat
      BY <3>1 DEF Users
    <3>3. fails \in Nat /\ fails' \in Nat
      BY DEF AccountInv, TypeOK
    <3>4. MaxFailedAttempts \in Nat
      BY ConstantsTyped
    <3>5. /\ req[q].user.attempts <= fails'
          /\ req[q].user.lockedUntil # None => fails' >= MaxFailedAttempts
      BY <3>1, <3>2, <3>3, <3>4 DEF Charged
    <3> QED BY <3>1, <3>5 DEF Charged
  <2>3. Charged(req[r].user)' /\ Charged(row)'
    BY <2>1 DEF Charged, None
  <2> QED BY <2>2, <2>3 DEF CopiesCharged
<1>4. Serial'
  <2> SUFFICES ASSUME ~disturbed'
               PROVE  (Alone /\ CopiesCurrent /\ CountExact /\ CodesExact)'
    BY DEF Serial
  <2>1. ~disturbed /\ Alone /\ CodesExact
    BY DEF AccountInv, Serial
  <2>2. \A q \in Requests \ {r} : ~Busy(q) /\ req'[q].pc = "idle"
    BY <2>1 DEF Alone, Busy
  <2>3. Alone' /\ CopiesCurrent'
    BY <2>2 DEF Alone, CopiesCurrent, Busy, UsesCopy
  <2>4. CountExact' /\ CodesExact'
    BY <2>1, <2>2 DEF CountExact, CodesExact
  <2> QED BY <2>3, <2>4
<1> QED BY <1>1, <1>2, <1>3, <1>4 DEF AccountInv

\* The model's bound on counters.
LEMMA BumpBounded ==
    ASSUME NEW n \in 0 .. MaxCount
    PROVE  /\ Bump(n) \in 0 .. MaxCount /\ n <= Bump(n)
           /\ n < MaxCount => Bump(n) = n + 1
           /\ n = MaxCount => Bump(n) = MaxCount
BY ConstantsTyped DEF Bump

\* A wrong password is counted on the copy, and the copy written back.
LEMMA LoginWrongKeeps ==
    ASSUME AccountInv, NEW r \in Requests, LoginWrong(r)
    PROVE  AccountInv'
<1> DEFINE u == req[r].user
<1>1. /\ u \in Users /\ now \in 1 .. Horizon /\ req[r].pc = "password"
      /\ fails \in 0 .. MaxCount /\ streak \in 0 .. MaxCount
      /\ Sound(u) /\ Charged(u)
  BY DEF AccountInv, TypeOK, CopiesSound, CopiesCharged, LoginWrong
<1>2. /\ req' \in [Requests -> RequestRecords]
      /\ req'[r].pc = "idle" /\ req'[r].user = Fresh
      /\ \A q \in Requests \ {r} : req'[q] = req[q]
  BY AnswerMoves DEF AccountInv, TypeOK, RequestRecords, LoginWrong
<1>3. /\ fails' \in 0 .. MaxCount /\ fails <= fails'
      /\ fails < MaxCount => fails' = fails + 1
      /\ fails = MaxCount => fails' = MaxCount
      /\ streak' \in 0 .. MaxCount
      /\ streak < MaxCount => streak' = streak + 1
  BY <1>1, BumpBounded DEF LoginWrong
<1>4. CASE u.attempts < MaxCount /\ Save(RecordFailedLogin(u)) /\ UNCHANGED disturbed
  <2> DEFINE w == RecordFailedLogin(u)
  <2>1. /\ w \in Users /\ w.attempts = u.attempts + 1
        /\ w.lockedUntil # None
             <=> u.attempts + 1 >= MaxFailedAttempts \/ u.lockedUntil # None
        /\ w.enabled = u.enabled /\ w.secret = u.secret
    BY <1>1, <1>4, RecordTyped
  <2> HIDE DEF w
  <2>2. Sound(w)
    BY <1>1, <2>1 DEF Sound
  <2>3. u.attempts \in 0 .. MaxCount /\ u.attempts <= fails
    BY <1>1 DEF Users, Charged
  <2>4. w.attempts <= fails'
    BY <1>1, <1>3, <1>4, <2>1, <2>3, ConstantsTyped
  <2>5. w.lockedUntil # None => fails' >= MaxFailedAttempts
    BY <1>1, <1>3, <1>4, <2>1, <2>3, <2>4, ConstantsTyped DEF Charged
  <2>6. ASSUME ~disturbed
        PROVE  /\ w.attempts = streak'
               /\ w.lockedUntil # None <=> streak' >= MaxFailedAttempts
               /\ told' => w.enabled
    <3>1. u = row /\ CountExact /\ CodesExact
      BY <2>6, <1>1 DEF AccountInv, Serial, CopiesCurrent, UsesCopy
    <3>2. u.attempts = streak /\ (u.lockedUntil # None <=> streak >= MaxFailedAttempts)
      BY <3>1 DEF CountExact
    <3>3. streak' = streak + 1
      BY <1>1, <1>3, <1>4, <3>2
    <3>4. told' => w.enabled
      BY <2>1, <3>1 DEF CodesExact, LoginWrong
    <3> QED BY <1>1, <2>1, <3>2, <3>3, <3>4, ConstantsTyped
  <2>7. /\ UNCHANGED <<codes, secrets, now, held, told, spent, reused, disturbed>>
        /\ Save(w) /\ Busy(r) /\ told' \in BOOLEAN
    BY <1>1, <1>4 DEF LoginWrong, w, Busy, AccountInv, TypeOK
  <2> QED BY <1>2, <1>3, <2>1, <2>2, <2>4, <2>5, <2>6, <2>7, SaveKeeps
<1>5. CASE UNCHANGED row /\ disturbed' = TRUE
  <2>1. TypeOK'
    BY <1>2, <1>3, <1>5 DEF AccountInv, TypeOK, RequestRecords, LoginWrong
  <2>2. CopiesSound'
    BY <1>2, <1>5 DEF AccountInv, CopiesSound, Sound, Fresh, LoginWrong
  <2>3. CopiesCharged'
    <3>1. Fresh.attempts = 0 /\ Fresh.lockedUntil = None
      BY DEF Fresh
    <3>2. ASSUME NEW v \in Users, Charged(v)
          PROVE  v.attempts <= fails'
                 /\ (v.lockedUntil # None => fails' >= MaxFailedAttempts)
      BY <3>2, <1>1, <1>3, ConstantsTyped DEF Charged, Users
    <3>3. \A q \in Requests \ {r} : Charged(req[q].user)'
      BY <1>2, <3>2 DEF AccountInv, TypeOK, CopiesCharged, Charged
    <3>4. Charged(req[r].user)' /\ Charged(row)'
      BY <1>2, <1>3, <1>5, <3>1, <3>2 DEF AccountInv, TypeOK, CopiesCharged, Charged
    <3> QED BY <3>3, <3>4 DEF CopiesCharged
  <2> QED BY <2>1, <2>2, <2>3, <1>5 DEF AccountInv, Serial
<1> QED BY <1>4, <1>5 DEF LoginWrong

\* A right one clears the counter of the copy.
LEMMA LoginRightKeeps ==
    ASSUME AccountInv, NEW r \in Requests, LoginRight(r)
    PROVE  AccountInv'
<1> DEFINE u == req[r].user
           w == ResetFailedLogins(u)
<1>1. /\ u \in Users /\ req[r].pc = "password" /\ Busy(r)
      /\ fails \in 0 .. MaxCount /\ Sound(u)
  BY DEF AccountInv, TypeOK, CopiesSound, LoginRight, Busy
<1>2. /\ w \in Users /\ w.attempts = 0 /\ w.lockedUntil = None
      /\ w.enabled = u.enabled /\ w.secret = u.secret
  BY <1>1, ResetTyped
<1>3. CASE Save(w) /\ Continue(r, "issue", w, None) /\ streak' = 0 /\ UNCHANGED disturbed
  <2> HIDE DEF w
  <2>1. /\ req' \in [Requests -> RequestRecords]
        /\ req'[r].pc = "issue" /\ req'[r].user = w
        /\ \A q \in Requests \ {r} : req'[q] = req[q]
    BY <1>2, <1>3, ContinueMoves DEF AccountInv, TypeOK, RequestRecords, PCs, None
  <2>2. Sound(w)
    BY <1>1, <1>2 DEF Sound
  <2>3. ~disturbed => (told' => w.enabled)
    <3> SUFFICES ASSUME ~disturbed PROVE told' => w.enabled
      OBVIOUS
    <3>1. u = row /\ CodesExact
      BY <1>1 DEF AccountInv, Serial, CopiesCurrent, UsesCopy
    <3> QED BY <3>1, <1>2 DEF CodesExact, LoginRight
  <2>4. /\ UNCHANGED <<codes, secrets, now, held, fails, told, spent, reused, disturbed>>
        /\ told' \in BOOLEAN /\ streak' \in 0 .. MaxCount
    BY <1>3, ConstantsTyped DEF LoginRight, AccountInv, TypeOK
  <2>5. /\ fails' \in 0 .. MaxCount /\ fails <= fails' /\ w.attempts <= fails'
        /\ w.attempts = streak' /\ ~(w.lockedUntil # None)
        /\ ~(streak' >= MaxFailedAttempts)
    BY <1>1, <1>2, <1>3, <2>4, ConstantsTyped
  <2> QED BY <1>1, <1>2, <1>3, <2>1, <2>2, <2>3, <2>4, <2>5, SaveKeeps
<1>4. CASE UNCHANGED <<row, streak>> /\ Answer(r) /\ disturbed' = TRUE
  BY <1>4, EndKeeps DEF LoginRight, store, counted, AccountInv, TypeOK
<1> QED BY <1>3, <1>4 DEF LoginRight

\* The second factor is decided by the copy, and only tokens change.
LEMMA IssueKeeps ==
    ASSUME AccountInv, NEW r \in Requests, LoginIssue(r) \/ FactorGrant(r)
    PROVE  /\ AccountInv'
           /\ held'["access"] # held["access"]
                => req[r].pc = "grant" \/ ~req[r].user.enabled
<1>1. /\ Answer(r) /\ UNCHANGED <<store, now, history>>
      /\ held' \in {held, Sessions,
                    [held EXCEPT !["mfa"] = T!IssueMFAToken(jwt, User, now, MfaTTL).exp]}
      /\ \/ req[r].pc = "grant" \/ ~req[r].user.enabled
         \/ held' = [held EXCEPT !["mfa"] = T!IssueMFAToken(jwt, User, now, MfaTTL).exp]
  BY DEF LoginIssue, FactorGrant, issueFullTokens
<1>2. held' \in [T!Classes -> 0 .. Horizon + AccessTTL + IDTTL + MfaTTL]
  BY <1>1, SessionsTyped DEF AccountInv, TypeOK
<1>3. AccountInv'
  BY <1>1, <1>2, EndKeeps DEF history, counted, AccountInv, TypeOK
<1> QED BY <1>1, <1>3, SessionsTyped DEF AccountInv

\* An enrolment that starts never switches MFA on.
LEMMA SetupSaveKeeps ==
    ASSUME AccountInv, NEW r \in Requests, SetupSave(r)
    PROVE  AccountInv'
<1> DEFINE u == req[r].user
           w == [u EXCEPT !.secret = req[r].arg]
<1>1. /\ u \in Users /\ req[r].arg \in 1 .. MaxSecrets /\ Busy(r)
      /\ Sound(u) /\ Charged(u) /\ req[r].pc = "setup"
  BY DEF AccountInv, TypeOK, CopiesSound, CopiesCharged, SetupSave, Busy
<1>2. /\ w \in Users /\ w.secret # None /\ w.enabled = u.enabled
      /\ w.attempts = u.attempts /\ w.lockedUntil = u.lockedUntil
  BY <1>1, SecretTyped
<1>3. CASE Save(w) /\ Answer(r) /\ UNCHANGED disturbed
  <2> HIDE DEF w
  <2>1. /\ req' \in [Requests -> RequestRecords]
        /\ req'[r].pc = "idle" /\ req'[r].user = Fresh
        /\ \A q \in Requests \ {r} : req'[q] = req[q]
    BY <1>3, AnswerMoves DEF AccountInv, TypeOK, RequestRecords
  <2>2. UNCHANGED <<codes, secrets, now, held, fails, streak, told, spent, reused>>
    BY DEF SetupSave, counted
  <2>3. Sound(w) /\ w.attempts <= fails'
        /\ (w.lockedUntil # None => fails' >= MaxFailedAttempts)
    BY <1>1, <1>2, <2>2 DEF Sound, Charged
  <2>4. ASSUME ~disturbed
        PROVE  /\ w.attempts = streak'
               /\ w.lockedUntil # None <=> streak' >= MaxFailedAttempts
               /\ told' => w.enabled
    <3>1. u = row /\ CountExact /\ CodesExact
      BY <2>4, <1>1 DEF AccountInv, Serial, CopiesCurrent, UsesCopy
    <3> QED BY <3>1, <1>2, <2>2 DEF CountExact, CodesExact
  <2>5. /\ fails' \in 0 .. MaxCount /\ fails <= fails'
        /\ streak' \in 0 .. MaxCount /\ told' \in BOOLEAN
    BY <2>2, ConstantsTyped DEF AccountInv, TypeOK
  <2> QED BY <1>1, <1>2, <1>3, <2>1, <2>2, <2>3, <2>4, <2>5, SaveKeeps
<1>4. CASE UNCHANGED row /\ Answer(r) /\ disturbed' = TRUE
  BY <1>4, EndKeeps DEF SetupSave, store, counted, AccountInv, TypeOK
<1> QED BY <1>3, <1>4 DEF SetupSave

\* MFA is switched on by a request whose codes are stored.
LEMMA ConfirmEnableKeeps ==
    ASSUME AccountInv, NEW r \in Requests, ConfirmEnable(r)
    PROVE  AccountInv'
<1> DEFINE u == req[r].user
           w == [u EXCEPT !.enabled = TRUE]
<1>1. /\ u \in Users /\ Busy(r) /\ Charged(u) /\ req[r].pc = "enable"
      /\ u.secret # None /\ codes # <<>>
  BY DEF AccountInv, TypeOK, CopiesSound, CopiesCharged, ConfirmEnable, Busy
<1>2. /\ w \in Users /\ w.secret = u.secret /\ w.enabled
      /\ w.attempts = u.attempts /\ w.lockedUntil = u.lockedUntil
  BY <1>1, EnableTyped
<1>3. CASE Save(w) /\ Answer(r) /\ told' = TRUE /\ UNCHANGED disturbed
  <2> HIDE DEF w
  <2>1. /\ req' \in [Requests -> RequestRecords]
        /\ req'[r].pc = "idle" /\ req'[r].user = Fresh
        /\ \A q \in Requests \ {r} : req'[q] = req[q]
    BY <1>3, AnswerMoves DEF AccountInv, TypeOK, RequestRecords
  <2>2. UNCHANGED <<codes, secrets, now, held, fails, streak, spent, reused>>
    BY DEF ConfirmEnable, counted
  <2>3. Sound(w) /\ w.attempts <= fails'
        /\ (w.lockedUntil # None => fails' >= MaxFailedAttempts)
    BY <1>1, <1>2, <2>2 DEF Sound, Charged
  <2>4. ASSUME ~disturbed
        PROVE  /\ w.attempts = streak'
               /\ w.lockedUntil # None <=> streak' >= MaxFailedAttempts
    <3>1. u = row /\ CountExact
      BY <2>4, <1>1 DEF AccountInv, Serial, CopiesCurrent, UsesCopy
    <3> QED BY <3>1, <1>2, <2>2 DEF CountExact
  <2>5. /\ fails' \in 0 .. MaxCount /\ fails <= fails'
        /\ streak' \in 0 .. MaxCount /\ told' \in BOOLEAN
    BY <1>3, <2>2, ConstantsTyped DEF AccountInv, TypeOK
  <2> QED BY <1>1, <1>2, <1>3, <2>1, <2>2, <2>3, <2>4, <2>5, SaveKeeps
<1>4. CASE UNCHANGED <<row, told>> /\ Answer(r) /\ disturbed' = TRUE
  BY <1>4, EndKeeps DEF ConfirmEnable, store, counted, AccountInv, TypeOK
<1> QED BY <1>3, <1>4 DEF ConfirmEnable

\* A batch is added behind the codes that are there, which keep their places.
LEMMA BatchAppended ==
    ASSUME NEW c \in Seq(BOOLEAN)
    PROVE  /\ c \o NewBatch \in Seq(BOOLEAN)
           /\ Len(c \o NewBatch) = Len(c) + CodesPerBatch
           /\ c \o NewBatch # <<>>
           /\ DOMAIN c \subseteq DOMAIN (c \o NewBatch)
           /\ \A i \in DOMAIN c : (c \o NewBatch)[i] = c[i]
<1>1. NewBatch \in Seq(BOOLEAN) /\ Len(NewBatch) = CodesPerBatch
  BY ConstantsTyped DEF NewBatch
<1> QED BY <1>1, ConstantsTyped

\* Storing codes replaces the batch and spends none of the new one.
LEMMA ConfirmStoreCodesKeeps ==
    ASSUME AccountInv, NEW r \in Requests, ConfirmStoreCodes(r)
    PROVE  AccountInv'
<1> USE DEF history, counted
<1>1. CASE /\ Len(codes) + CodesPerBatch <= MaxBatches * CodesPerBatch
           /\ codes' = codes \o NewBatch
           /\ req' = [req EXCEPT ![r].pc = "enable"]
  <2>1. /\ codes' \in Seq(BOOLEAN) /\ Len(codes') = Len(codes) + CodesPerBatch
        /\ codes' # <<>> /\ DOMAIN codes \subseteq DOMAIN codes'
        /\ \A i \in DOMAIN codes : codes'[i] = codes[i]
    BY <1>1, BatchAppended DEF AccountInv, TypeOK
  <2>2. /\ req' \in [Requests -> RequestRecords]
        /\ req'[r].pc = "enable" /\ req'[r].user = req[r].user
        /\ \A q \in Requests \ {r} : req'[q] = req[q]
    BY <1>1, PcMoves DEF AccountInv, TypeOK, RequestRecords, PCs
  <2>3. req[r].pc = "confirm"
    BY DEF ConfirmStoreCodes
  <2>4. TypeOK'
    BY <1>1, <2>1, <2>2 DEF AccountInv, TypeOK, RequestRecords, ConfirmStoreCodes
  <2>5. CopiesSound'
    BY <2>1, <2>2, <2>3 DEF AccountInv, CopiesSound, Sound, ConfirmStoreCodes
  <2>6. CopiesCharged'
    <3>1. \A q \in Requests : req'[q].user = req[q].user
      BY <2>2
    <3> QED BY <3>1 DEF AccountInv, CopiesCharged, Charged, ConfirmStoreCodes
  <2>7. Serial'
    <3> SUFFICES ASSUME ~disturbed'
                 PROVE  (Alone /\ CopiesCurrent /\ CountExact /\ CodesExact)'
      BY DEF Serial
    <3>1. ~disturbed /\ Alone /\ CopiesCurrent /\ CountExact /\ CodesExact
      BY DEF AccountInv, Serial, ConfirmStoreCodes
    <3>2. Alone' /\ CopiesCurrent'
      BY <2>2, <2>3, <3>1 DEF Alone, CopiesCurrent, Busy, UsesCopy, ConfirmStoreCodes
    <3>3. CountExact'
      BY <3>1 DEF CountExact, ConfirmStoreCodes
    <3>4. spent \subseteq DOMAIN codes
      BY DEF AccountInv, TypeOK
    <3>5. \A q \in Requests : req'[q].pc # "mark"
      BY <2>2, <2>3, <3>1 DEF Alone, Busy
    <3>6. CodesExact'
      BY <2>1, <3>1, <3>4, <3>5 DEF CodesExact, ConfirmStoreCodes
    <3> QED BY <3>2, <3>3, <3>6
  <2> QED BY <2>4, <2>5, <2>6, <2>7 DEF AccountInv
<1>2. CASE UNCHANGED codes /\ Answer(r)
  BY <1>2, EndKeeps DEF ConfirmStoreCodes, store, AccountInv, TypeOK
<1> QED BY <1>1, <1>2 DEF ConfirmStoreCodes

\* A backup code is looked up before it is marked,
LEMMA BackupLookupKeeps ==
    ASSUME AccountInv, NEW r \in Requests, BackupLookup(r)
    PROVE  AccountInv'
<1> USE DEF history, counted, store
<1>1. CASE Answer(r)
  BY <1>1, EndKeeps DEF BackupLookup, AccountInv, TypeOK
<1>2. CASE ~codes[req[r].arg] /\ req' = [req EXCEPT ![r].pc = "mark"]
  <2>1. /\ req' \in [Requests -> RequestRecords]
        /\ req'[r].pc = "mark" /\ req'[r].user = req[r].user
        /\ req'[r].arg = req[r].arg
        /\ \A q \in Requests \ {r} : req'[q] = req[q]
    BY <1>2, PcMoves DEF AccountInv, TypeOK, RequestRecords, PCs
  <2>2. req[r].pc = "lookup"
    BY DEF BackupLookup
  <2>3. TypeOK'
    BY <2>1, <2>2 DEF AccountInv, TypeOK, RequestRecords, BackupLookup
  <2>4. CopiesSound'
    BY <2>1 DEF AccountInv, CopiesSound, Sound, BackupLookup
  <2>5. CopiesCharged'
    <3>1. \A q \in Requests : req'[q].user = req[q].user
      BY <2>1
    <3> QED BY <3>1 DEF AccountInv, CopiesCharged, Charged, BackupLookup
  <2>6. Serial'
    <3> SUFFICES ASSUME ~disturbed'
                 PROVE  (Alone /\ CopiesCurrent /\ CountExact /\ CodesExact)'
      BY DEF Serial
    <3>1. ~disturbed /\ Alone /\ CopiesCurrent /\ CountExact /\ CodesExact
      BY DEF AccountInv, Serial, BackupLookup
    <3>2. Alone' /\ CopiesCurrent'
      BY <2>1, <2>2, <3>1 DEF Alone, CopiesCurrent, Busy, UsesCopy, BackupLookup
    <3>3. CountExact' /\ CodesExact'
      BY <1>2, <2>1, <3>1 DEF CountExact, CodesExact, BackupLookup
    <3> QED BY <3>2, <3>3
  <2> QED BY <2>3, <2>4, <2>5, <2>6 DEF AccountInv
<1> QED BY <1>1, <1>2 DEF BackupLookup

\* A mark changes one code and no other.
LEMMA CodeMarked ==
    ASSUME NEW c \in Seq(BOOLEAN), NEW i \in DOMAIN c
    PROVE  LET d == [c EXCEPT ![i] = TRUE]
           IN  /\ d \in Seq(BOOLEAN) /\ Len(d) = Len(c)
               /\ DOMAIN d = DOMAIN c /\ d[i] = TRUE
               /\ \A j \in DOMAIN c \ {i} : d[j] = c[j]
<1> DEFINE d == [c EXCEPT ![i] = TRUE]
<1>1. c \in [1 .. Len(c) -> BOOLEAN] /\ Len(c) \in Nat /\ DOMAIN c = 1 .. Len(c)
  OBVIOUS
<1>2. d \in [1 .. Len(c) -> BOOLEAN] /\ DOMAIN d = 1 .. Len(c)
  BY <1>1
<1>3. d \in Seq(BOOLEAN) /\ Len(d) = Len(c)
  BY <1>1, <1>2
<1>4. d[i] = TRUE /\ \A j \in DOMAIN c \ {i} : d[j] = c[j]
  OBVIOUS
<1> QED BY <1>1, <1>2, <1>3, <1>4

\* and marked by its key alone.
LEMMA BackupMarkKeeps ==
    ASSUME AccountInv, NEW r \in Requests, BackupMark(r)
    PROVE  AccountInv'
<1> USE DEF counted
<1>1. CASE codes' = [codes EXCEPT ![req[r].arg] = TRUE] /\ Accepted(r)
  <2>1. /\ req' \in [Requests -> RequestRecords]
        /\ req'[r].pc = "grant" /\ req'[r].user = req[r].user
        /\ \A q \in Requests \ {r} : req'[q] = req[q]
    BY <1>1, PcMoves DEF AccountInv, TypeOK, RequestRecords, PCs, Accepted
  <2>2. /\ req[r].pc = "mark" /\ req[r].arg \in DOMAIN codes
        /\ codes \in Seq(BOOLEAN)
    BY DEF BackupMark, AccountInv, TypeOK
  <2>3. /\ codes' \in Seq(BOOLEAN) /\ Len(codes') = Len(codes)
        /\ DOMAIN codes' = DOMAIN codes
        /\ codes'[req[r].arg] = TRUE
        /\ \A i \in DOMAIN codes \ {req[r].arg} : codes'[i] = codes[i]
    BY <1>1, <2>2, CodeMarked
  <2>4. TypeOK'
    <3>1. spent' \subseteq DOMAIN codes' /\ reused' \in BOOLEAN
      BY <1>1, <2>2, <2>3 DEF Accepted, AccountInv, TypeOK
    <3> QED BY <2>1, <2>2, <2>3, <3>1
            DEF AccountInv, TypeOK, RequestRecords, BackupMark
  <2>5. CopiesSound'
    <3>1. codes # <<>> /\ codes' # <<>>
      BY <2>2, <2>3 DEF AccountInv, TypeOK
    <3> QED BY <2>1, <2>2, <3>1 DEF AccountInv, CopiesSound, Sound, BackupMark
  <2>6. CopiesCharged'
    <3>1. \A q \in Requests : req'[q].user = req[q].user
      BY <2>1
    <3> QED BY <3>1 DEF AccountInv, CopiesCharged, Charged, BackupMark
  <2>7. Serial'
    <3> SUFFICES ASSUME ~disturbed'
                 PROVE  (Alone /\ CopiesCurrent /\ CountExact /\ CodesExact)'
      BY DEF Serial
    <3>1. ~disturbed /\ Alone /\ CopiesCurrent /\ CountExact /\ CodesExact
      BY DEF AccountInv, Serial, BackupMark
    <3>2. Alone' /\ CopiesCurrent'
      BY <2>1, <2>2, <3>1 DEF Alone, CopiesCurrent, Busy, UsesCopy, BackupMark
    <3>3. CountExact'
      BY <3>1 DEF CountExact, BackupMark
    <3>4. req[r].arg \notin spent
      BY <2>2, <3>1 DEF CodesExact
    <3>5. \A q \in Requests : req'[q].pc # "mark"
      BY <2>1, <2>2, <3>1 DEF Alone, Busy
    <3>6. \A i \in spent' : codes'[i]
      BY <1>1, <2>2, <2>3, <3>1 DEF CodesExact, Accepted, AccountInv, TypeOK
    <3>7. CodesExact'
      BY <1>1, <3>1, <3>4, <3>5, <3>6 DEF CodesExact, Accepted, BackupMark
    <3> QED BY <3>2, <3>3, <3>7
  <2> QED BY <2>4, <2>5, <2>6, <2>7 DEF AccountInv
<1>2. CASE UNCHANGED <<codes, spent, reused>> /\ Answer(r)
  BY <1>2, EndKeeps DEF BackupMark, store, AccountInv, TypeOK
<1> QED BY <1>1, <1>2 DEF BackupMark

\* Time passes, or nothing happens.
LEMMA TickKeeps ==
    ASSUME AccountInv, Tick \/ UNCHANGED vars
    PROVE  AccountInv'
<1> USE DEF store, history, counted, vars
<1>1. UNCHANGED <<store, req, held, history>> /\ now' \in 1 .. Horizon
  BY ConstantsTyped DEF Tick, AccountInv, TypeOK
<1>2. TypeOK'
  BY <1>1 DEF AccountInv, TypeOK
<1>3. CopiesSound' /\ CopiesCharged'
  BY <1>1 DEF AccountInv, CopiesSound, CopiesCharged, Sound, Charged
<1>4. Serial'
  BY <1>1 DEF AccountInv, Serial, Alone, CopiesCurrent, CountExact, CodesExact, Busy
<1> QED BY <1>2, <1>3, <1>4 DEF AccountInv

\* Every step keeps the invariant.
LEMMA AccountStep == AccountInv /\ [Next]_vars => AccountInv'
<1> SUFFICES ASSUME AccountInv, [Next]_vars PROVE AccountInv'
  OBVIOUS
<1>1. CASE Tick \/ UNCHANGED vars
  BY <1>1, TickKeeps
<1>2. ASSUME NEW r \in Requests, Login(r)
      PROVE  AccountInv'
  BY <1>2, LoginFindKeeps, LoginWrongKeeps, LoginRightKeeps, IssueKeeps DEF Login
<1>3. ASSUME NEW r \in Requests, SetupMFA(r)
      PROVE  AccountInv'
  BY <1>3, SetupFindKeeps, SetupSaveKeeps DEF SetupMFA
<1>4. ASSUME NEW r \in Requests, VerifyMFASetup(r)
      PROVE  AccountInv'
  BY <1>4, ConfirmFindKeeps, ConfirmStoreCodesKeeps, ConfirmEnableKeeps
     DEF VerifyMFASetup
<1>5. ASSUME NEW r \in Requests, VerifyMFA(r)
      PROVE  AccountInv'
  BY <1>5, FactorFindKeeps, BackupLookupKeeps, BackupMarkKeeps, IssueKeeps
     DEF VerifyMFA
<1> QED BY <1>1, <1>2, <1>3, <1>4, <1>5 DEF Next

\* So the invariant holds in every behaviour.
LEMMA AccountInvariant == Spec => []AccountInv
BY AccountInit, AccountStep, PTL DEF Spec

------------------------------------------------------------------------------
(* Theorems.                                                               *)

\* The row, every copy of it in flight and the tokens stay well formed.
THEOREM AccountTyped == Spec => []TypeOK
BY AccountInvariant, PTL DEF AccountInv

\* However requests overlap and whichever Save or insert fails, an account with
\* MFA on has a secret and backup codes: no stale copy that is written back
\* carries the flag without them.
THEOREM EnabledUsable == Spec => []EnabledIsUsable
<1>1. AccountInv => EnabledIsUsable
  BY DEF AccountInv, CopiesSound, Sound, EnabledIsUsable
<1> QED BY <1>1, AccountInvariant, PTL

\* Lost updates of the counter only ever lose failures: nobody is locked out by
\* fewer wrong passwords than the threshold.
THEOREM LockEarned == Spec => []LockIsEarned
<1>1. AccountInv => LockIsEarned
  BY DEF AccountInv, CopiesCharged, Charged, LockIsEarned
<1> QED BY <1>1, AccountInvariant, PTL

\* Requests that do not overlap, with saves that succeed, count exactly.
THEOREM SerialCount == Spec => []SerialCountIsExact
<1>1. AccountInv => SerialCountIsExact
  BY DEF AccountInv, Serial, CountExact, SerialCountIsExact
<1> QED BY <1>1, AccountInvariant, PTL

\* Then an enrolment that was answered stays on and no backup code is accepted
\* twice.
THEOREM SerialEnrolment == Spec => []SerialEnrolmentHolds
<1>1. AccountInv => SerialEnrolmentHolds
  BY DEF AccountInv, Serial, CodesExact, SerialEnrolmentHolds
<1> QED BY <1>1, AccountInvariant, PTL

\* Then also an account with MFA on gets an access token from the second step
\* only: the copy the first step decides by is the row.
THEOREM SerialMFA == Spec => SerialMFAEnforced
<1> DEFINE Enforced == ~disturbed /\ row.enabled /\ held'["access"] # held["access"]
                          => \E r \in Requests : req[r].pc = "grant"
<1>1. AccountInv /\ [Next]_vars => [Enforced]_vars
  <2> SUFFICES ASSUME AccountInv, Next, ~disturbed, row.enabled,
                      held'["access"] # held["access"]
               PROVE  \E r \in Requests : req[r].pc = "grant"
    BY DEF vars
  <2>1. PICK r \in Requests : LoginIssue(r) \/ FactorGrant(r)
    BY DEF Next, Tick, Login, SetupMFA, VerifyMFASetup, VerifyMFA, LoginFind,
       LoginWrong, LoginRight, SetupFind, SetupSave, ConfirmFind,
       ConfirmStoreCodes, ConfirmEnable, FactorFind, BackupLookup, BackupMark
  <2>2. req[r].pc = "grant" \/ ~req[r].user.enabled
    BY <2>1, IssueKeeps
  <2>3. req[r].pc = "issue" => req[r].user = row
    BY DEF AccountInv, Serial, CopiesCurrent, UsesCopy
  <2> QED BY <2>1, <2>2, <2>3 DEF LoginIssue, FactorGrant
<1> QED BY <1>1, AccountInvariant, PTL DEF Spec, SerialMFAEnforced

\* A token is accepted only at the door of its class, and not past its leeway.
LEMMA BearerMeansAlive ==
    ASSUME NEW c \in T!Classes, NEW want, Bearer(c, want)
    PROVE  c = want /\ now < held[c] + Leeway
<1>1. jwt.leeway = Leeway
  BY ConstantsTyped DEF jwt, T!NewJWTService
<1> QED BY <1>1 DEF Bearer, T!Validate, T!Sign

\* Enrolment starts only with a living access token and the second step only
\* with a living MFA token, whatever other tokens the client presents.
THEOREM OwnDoor == Spec => TokenOpensItsOwnDoor
<1> DEFINE Door(r) ==
        Busy(r)' /\ ~Busy(r) =>
           /\ req'[r].pc \in {"setup", "confirm"} => now < held["access"] + Leeway
           /\ req'[r].pc \in {"lookup", "grant"} => now < held["mfa"] + Leeway
<1>1. ASSUME AccountInv, [Next]_vars, NEW r \in Requests, Busy(r)', ~Busy(r)
      PROVE  LoginFind(r) \/ SetupFind(r) \/ ConfirmFind(r) \/ FactorFind(r)
  <2>1. req' # req /\ req'[r] # req[r]
    BY <1>1 DEF Busy
  <2>2. ASSUME NEW q \in Requests, q # r, req'[r] # req[r]
        PROVE  ~(Login(q) \/ SetupMFA(q) \/ VerifyMFASetup(q) \/ VerifyMFA(q))
    BY <1>1, <2>2 DEF Login, SetupMFA, VerifyMFASetup, VerifyMFA, LoginFind,
       LoginWrong, LoginRight, LoginIssue, SetupFind, SetupSave, ConfirmFind,
       ConfirmStoreCodes, ConfirmEnable, FactorFind, BackupLookup, BackupMark,
       FactorGrant, issueFullTokens, Accepted, Continue, Answer, AccountInv, TypeOK
  <2>3. Login(r) \/ SetupMFA(r) \/ VerifyMFASetup(r) \/ VerifyMFA(r)
    BY <1>1, <2>1, <2>2 DEF Next, Tick, vars
  <2> QED
    BY <1>1, <2>3 DEF Busy, Login, SetupMFA, VerifyMFASetup, VerifyMFA,
       LoginWrong, LoginRight, LoginIssue, SetupSave, ConfirmStoreCodes,
       ConfirmEnable, BackupLookup, BackupMark, FactorGrant
<1>2. ASSUME AccountInv, [Next]_vars, NEW r \in Requests
      PROVE  Door(r)
  <2> SUFFICES ASSUME Busy(r)', ~Busy(r) PROVE Door(r)
    OBVIOUS
  <2> USE DEF T!Classes
  <2>0. req \in [Requests -> RequestRecords] /\ row \in Users /\ secrets + 1 \in Nat
        /\ DOMAIN codes \subseteq Nat
    BY <1>2, ConstantsTyped DEF AccountInv, TypeOK, RequestRecords
  <2>1. CASE LoginFind(r)
    <3>1. \E good \in {0, 1} : Continue(r, "password", row, good)
      BY <2>0, <2>1, AnswerMoves DEF LoginFind, Busy, FindByUsername
    <3>2. req'[r].pc = "password"
      BY <2>0, <3>1, ContinueMoves DEF PCs
    <3> QED BY <3>2
  <2>2. CASE SetupFind(r)
    <3>1. req'[r].pc = "setup"
      BY <2>0, <2>2, ContinueMoves DEF SetupFind, FindByID, PCs
    <3>2. now < held["access"] + Leeway
      BY <2>2, BearerMeansAlive DEF SetupFind
    <3> QED BY <3>1, <3>2
  <2>3. CASE ConfirmFind(r)
    <3>1. Continue(r, "confirm", row, None)
      BY <2>0, <2>3, AnswerMoves DEF ConfirmFind, Busy, FindByID
    <3>2. req'[r].pc = "confirm"
      BY <2>0, <3>1, ContinueMoves DEF PCs, None
    <3>3. now < held["access"] + Leeway
      BY <2>3, BearerMeansAlive DEF ConfirmFind
    <3> QED BY <3>2, <3>3
  <2>4. CASE FactorFind(r)
    <3>1. /\ \E c \in T!Classes : Bearer(c, "mfa")
          /\ \/ Continue(r, "grant", Fresh, None)
             \/ \E code \in DOMAIN codes : Continue(r, "lookup", Fresh, code)
      BY <2>0, <2>4, AnswerMoves DEF FactorFind, Busy
    <3>2. req'[r].pc \in {"grant", "lookup"}
      BY <2>0, <3>1, FreshTyped, ContinueMoves DEF PCs, None
    <3>3. now < held["mfa"] + Leeway
      BY <3>1, BearerMeansAlive
    <3> QED BY <3>2, <3>3
  <2> QED BY <1>1, <1>2, <2>1, <2>2, <2>3, <2>4
<1>3. AccountInv /\ [Next]_vars => [\A r \in Requests : Door(r)]_vars
  BY <1>2
<1> QED BY <1>3, AccountInvariant, PTL DEF Spec, TokenOpensItsOwnDoor
==============================================================================
