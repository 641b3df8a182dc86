-------------------------- MODULE RefreshTokenProofs --------------------------
(* Theorems about RefreshTokens, for any tokens, users and requests.       *)
EXTENDS RefreshTokens, TLAPS

\* The empty table satisfies the invariant.
LEMMA RotationInit == Init => RotationInv
BY DEF Init, RotationInv, TypeOK, FamiliesFormed, TargetsIssued, LockedIsLive,
   OneLivePerFamily, Labels, Refreshing, Nobody

\* A login adds a live token in a family nothing else belongs to.
LEMMA IssueKeeps ==
    ASSUME RotationInv, NEW u \in Users, NEW t \in Tokens, IssueTokens(u, t)
    PROVE  RotationInv'
<1>1. TypeOK'
  BY DEF RotationInv, TypeOK, IssueTokens, history
<1>2. FamiliesFormed'
  BY DEF RotationInv, TypeOK, FamiliesFormed, IssueTokens, history
<1>3. TargetsIssued'
  BY DEF RotationInv, TypeOK, TargetsIssued, IssueTokens, history
<1>4. LockedIsLive'
  BY DEF RotationInv, TypeOK, LockedIsLive, Live, IssueTokens, history
<1>5. OneLivePerFamily'
  BY DEF RotationInv, TypeOK, FamiliesFormed, OneLivePerFamily, Live,
     IssueTokens, history
<1> QED BY <1>1, <1>2, <1>3, <1>4, <1>5 DEF RotationInv

\* A step that leaves the rows alone and lets no request enter Rotate's
\* transaction only has to keep the requests well formed.
LEMMA RowsKept ==
    ASSUME RotationInv, UNCHANGED <<issued, owner, family, used, revoked>>,
           TypeOK', TargetsIssued',
           \A r \in Requests :
              pc'[r] = "insert" => pc[r] = "insert" /\ target'[r] = target[r]
    PROVE  RotationInv'
<1>1. LockedIsLive'
  BY DEF RotationInv, LockedIsLive, Live
<1>2. FamiliesFormed' /\ OneLivePerFamily'
  BY DEF RotationInv, FamiliesFormed, OneLivePerFamily, Live
<1> QED BY <1>1, <1>2 DEF RotationInv

\* A request that answers stays well formed, and locks nothing.
LEMMA FinishKeeps ==
    ASSUME RotationInv, NEW r \in Requests, Finish(r), issued \subseteq issued'
    PROVE  /\ pc' \in [Requests -> Labels]
           /\ target' \in [Requests -> Tokens \cup {Nobody}]
           /\ snapshot' \in [Requests -> SUBSET issued]
           /\ pc'[r] = "idle"
           /\ \A q \in Requests \ {r} :
                pc'[q] = pc[q] /\ target'[q] = target[q]
           /\ TargetsIssued'
<1>1. /\ pc' \in [Requests -> Labels]
      /\ target' \in [Requests -> Tokens \cup {Nobody}]
      /\ snapshot' \in [Requests -> SUBSET issued]
  BY DEF Finish, RotationInv, TypeOK, Labels
<1>2. /\ pc'[r] = "idle"
      /\ \A q \in Requests \ {r} : pc'[q] = pc[q] /\ target'[q] = target[q]
  BY DEF Finish, RotationInv, TypeOK
<1>3. TargetsIssued'
  BY <1>2 DEF RotationInv, TargetsIssued, Refreshing
<1> QED BY <1>1, <1>2, <1>3

\* A request that moves on with the same target stays well formed.
LEMMA GotoKeeps ==
    ASSUME RotationInv, NEW r \in Requests, NEW label \in Labels, Goto(r, label),
           pc[r] \in Refreshing \/ label \notin Refreshing, issued' = issued
    PROVE  /\ pc' \in [Requests -> Labels]
           /\ target' = target
           /\ pc'[r] = label
           /\ \A q \in Requests \ {r} : pc'[q] = pc[q]
           /\ TargetsIssued'
<1>1. /\ pc' \in [Requests -> Labels] /\ target' = target /\ pc'[r] = label
      /\ \A q \in Requests \ {r} : pc'[q] = pc[q]
  BY DEF Goto, RotationInv, TypeOK
<1> QED BY <1>1 DEF RotationInv, TargetsIssued

\* FindValid only reads.
LEMMA PresentKeeps ==
    ASSUME RotationInv, NEW r \in Requests, NEW t \in Tokens, Present(r, t)
    PROVE  RotationInv'
<1>1. /\ UNCHANGED rows /\ t \in issued
      /\ pc'[r] \in {"rotate", "lookup"} /\ target'[r] = t
      /\ \A q \in Requests \ {r} : pc'[q] = pc[q] /\ target'[q] = target[q]
  BY DEF Present, RotationInv, TypeOK
<1>2. TypeOK'
  BY <1>1 DEF Present, RotationInv, TypeOK, Labels, rows
<1>3. TargetsIssued'
  BY <1>1 DEF RotationInv, TargetsIssued, rows
<1> QED BY <1>1, <1>2, <1>3, RowsKept DEF rows

\* FindAny only reads.
LEMMA FindAnyKeeps ==
    ASSUME RotationInv, NEW r \in Requests, FindAny(r)
    PROVE  RotationInv'
<1>1. CASE Finish(r)
  <2>1. TypeOK'
    BY <1>1, FinishKeeps DEF FindAny, RotationInv, TypeOK, rows, history
  <2> QED BY <1>1, <2>1, FinishKeeps, RowsKept DEF FindAny, rows
<1>2. CASE Goto(r, "revoke") /\ UNCHANGED snapshot
  <2>1. "revoke" \in Labels /\ pc[r] \in Refreshing
    BY DEF FindAny, Labels, Refreshing
  <2>2. TypeOK'
    BY <1>2, <2>1, GotoKeeps DEF FindAny, RotationInv, TypeOK, rows, history
  <2> QED BY <1>2, <2>1, <2>2, GotoKeeps, RowsKept DEF FindAny, rows
<1> QED BY <1>1, <1>2 DEF FindAny

\* Rotate's UPDATE takes the lock of a live row nobody else has locked.
LEMMA RotateUpdateKeeps ==
    ASSUME RotationInv, NEW r \in Requests, RotateUpdate(r)
    PROVE  RotationInv'
<1>1. PICK label \in {"insert", "revoke"} :
        Goto(r, label) /\ (label = "insert" => Live(target[r]))
  BY DEF RotateUpdate
<1>2. label \in Labels /\ pc[r] \in Refreshing /\ UNCHANGED rows
  BY DEF RotateUpdate, Labels, Refreshing
<1>3. TypeOK' /\ TargetsIssued'
  BY <1>1, <1>2, GotoKeeps
     DEF RotateUpdate, RotationInv, TypeOK, rows, history
<1>4. LockedIsLive'
  BY <1>1, <1>2, GotoKeeps
     DEF RotateUpdate, InRotation, RotationInv, LockedIsLive, Live, rows
<1>5. FamiliesFormed' /\ OneLivePerFamily'
  BY <1>2 DEF RotationInv, FamiliesFormed, OneLivePerFamily, Live, rows
<1> QED BY <1>3, <1>4, <1>5 DEF RotationInv

\* Rotate's commit swaps the family's only live token for its child.
LEMMA RotateCommitKeeps ==
    ASSUME RotationInv, NEW r \in Requests, NEW c \in Tokens, RotateCommit(r, c)
    PROVE  RotationInv'
<1> DEFINE t == target[r]
<1>1. /\ Live(t) /\ t \in issued /\ t \in Tokens /\ c \notin issued /\ c # t
      /\ \A q \in Requests \ {r} : ~(pc[q] = "insert" /\ target[q] = t)
  BY DEF RotateCommit, RotationInv, TypeOK, LockedIsLive, Live
<1>2. /\ issued' = issued \cup {c}
      /\ owner' = [owner EXCEPT ![c] = owner[t]]
      /\ family' = [family EXCEPT ![c] = family[t]]
      /\ used' = used \cup {t} /\ revoked' = revoked \cup {t}
      /\ UNCHANGED <<expired, presented, again, loggedOut, alarms, killed, ended>>
      /\ Finish(r)
  BY DEF RotateCommit
<1>a. raced' \subseteq issued
  <2>1. family[t] \in issued
    BY <1>1 DEF RotationInv, FamiliesFormed
  <2> QED BY <2>1 DEF RotateCommit, RotationInv, TypeOK
<1>3. TypeOK'
  BY <1>1, <1>2, <1>a, FinishKeeps DEF RotationInv, TypeOK
<1>4. FamiliesFormed'
  BY <1>1, <1>2 DEF RotationInv, TypeOK, FamiliesFormed
<1>5. LockedIsLive'
  BY <1>1, <1>2, FinishKeeps DEF RotationInv, LockedIsLive, Live
<1>6. OneLivePerFamily'
  BY <1>1, <1>2 DEF RotationInv, TypeOK, OneLivePerFamily, Live
<1>7. TargetsIssued'
  BY <1>2, FinishKeeps
<1> QED BY <1>3, <1>4, <1>5, <1>6, <1>7 DEF RotationInv

\* A revoking UPDATE waits for Rotate's locks, so it kills no locked row.
LEMMA RevokeSnapshotKeeps ==
    ASSUME RotationInv, NEW r \in Requests, RevokeSnapshot(r),
           presented' = presented, again' = again, loggedOut' \subseteq Users,
           alarms' \subseteq issued, killed' \subseteq issued,
           ended' \subseteq issued, raced' \subseteq issued
    PROVE  RotationInv'
<1>1. /\ revoked' = revoked \cup snapshot[r] /\ snapshot[r] \subseteq issued
      /\ UNCHANGED <<issued, owner, family, used, expired>> /\ Finish(r)
      /\ \A t \in snapshot[r] : ~InRotation(t)
  BY DEF RevokeSnapshot, RotationInv, TypeOK
<1>2. TypeOK' /\ TargetsIssued'
  BY <1>1, FinishKeeps DEF RotationInv, TypeOK
<1>3. LockedIsLive'
  BY <1>1, FinishKeeps DEF RotationInv, LockedIsLive, Live, InRotation
<1>4. FamiliesFormed' /\ OneLivePerFamily'
  BY <1>1 DEF RotationInv, FamiliesFormed, OneLivePerFamily, Live
<1> QED BY <1>2, <1>3, <1>4 DEF RotationInv

\* A statement that starts, or a request that ends, with the rows as they are.
LEMMA OthersKeep ==
    ASSUME RotationInv, NEW r \in Requests,
           \/ RevokeFamilyBegin(r)
           \/ RevokeFamilyFails(r)
           \/ \E u \in Users : LogoutBegin(r, u)
           \/ Abandon(r)
    PROVE  RotationInv'
<1>1. CASE RevokeFamilyBegin(r)
  <2>1. "revoking" \in Labels /\ pc[r] \in Refreshing
    BY <1>1 DEF RevokeFamilyBegin, Labels, Refreshing
  <2>2. TypeOK' /\ TargetsIssued'
    BY <1>1, <2>1, GotoKeeps
       DEF RevokeFamilyBegin, RotationInv, TypeOK, Family, rows, history
  <2> QED BY <1>1, <2>1, <2>2, GotoKeeps, RowsKept DEF RevokeFamilyBegin, rows
<1>2. CASE RevokeFamilyFails(r)
  <2>1. family[target[r]] \in issued
    BY <1>2 DEF RevokeFamilyFails, RotationInv, TargetsIssued, FamiliesFormed,
       Refreshing
  <2>2. TypeOK' /\ TargetsIssued'
    BY <1>2, <2>1, FinishKeeps DEF RevokeFamilyFails, RotationInv, TypeOK, rows
  <2> QED BY <1>2, <2>2, FinishKeeps, RowsKept DEF RevokeFamilyFails, rows
<1>3. ASSUME NEW u \in Users, LogoutBegin(r, u)
      PROVE  RotationInv'
  <2>1. "loggingOut" \in Labels /\ "loggingOut" \notin Refreshing
    BY DEF Labels, Refreshing
  <2>2. TypeOK' /\ TargetsIssued'
    BY <1>3, <2>1, GotoKeeps DEF LogoutBegin, RotationInv, TypeOK, rows, history
  <2> QED BY <1>3, <2>1, <2>2, GotoKeeps, RowsKept DEF LogoutBegin, rows
<1>4. CASE Abandon(r)
  <2>1. TypeOK' /\ TargetsIssued'
    BY <1>4, FinishKeeps DEF Abandon, RotationInv, TypeOK, rows, history
  <2> QED BY <1>4, <2>1, FinishKeeps, RowsKept DEF Abandon, rows
<1> QED BY <1>1, <1>2, <1>3, <1>4

\* The invariant is inductive.
LEMMA RotationStep == RotationInv /\ [Next]_vars => RotationInv'
<1> SUFFICES ASSUME RotationInv, [Next]_vars
             PROVE  RotationInv'
  OBVIOUS
<1>1. CASE UNCHANGED vars
  BY <1>1 DEF vars, rows, history, RotationInv, TypeOK, FamiliesFormed,
     TargetsIssued, LockedIsLive, OneLivePerFamily, Live
<1>2. ASSUME NEW t \in Tokens, Expire(t)
      PROVE  RotationInv'
  <2>1. TypeOK' /\ TargetsIssued'
    BY <1>2 DEF Expire, RotationInv, TypeOK, TargetsIssued, history
  <2> QED BY <1>2, <2>1, RowsKept DEF Expire
<1>3. ASSUME NEW r \in Requests, RevokeFamilyEnd(r)
      PROVE  RotationInv'
  <2>1. family[target[r]] \in issued
    BY <1>3 DEF RevokeFamilyEnd, RotationInv, TargetsIssued, FamiliesFormed,
       Refreshing
  <2> QED BY <1>3, <2>1, RevokeSnapshotKeeps
          DEF RevokeFamilyEnd, RotationInv, TypeOK
<1>4. ASSUME NEW r \in Requests, LogoutEnd(r)
      PROVE  RotationInv'
  <2>1. loggedOut' \subseteq Users
    BY <1>4 DEF LogoutEnd, RotationInv, TypeOK, FamiliesFormed
  <2>2. ended' \subseteq issued
    BY <1>4 DEF LogoutEnd, RotationInv, TypeOK, FamiliesFormed
  <2> QED BY <1>4, <2>1, <2>2, RevokeSnapshotKeeps
          DEF LogoutEnd, RotationInv, TypeOK
<1> QED BY <1>1, <1>2, <1>3, <1>4, IssueKeeps, PresentKeeps, FindAnyKeeps,
           RotateUpdateKeeps, RotateCommitKeeps, OthersKeep DEF Next, Step

\* RotationInv holds in every reachable state.
LEMMA RotationCorrect == Spec => []RotationInv
BY RotationInit, RotationStep, PTL DEF Spec

\* Type correctness of the token table and of every request.
THEOREM TokensTyped == Spec => []TypeOK
<1>1. RotationInv => TypeOK
  BY DEF RotationInv
<1> QED BY <1>1, RotationCorrect, PTL

\* Rotate's row lock and its rowsAffected check leave at most one live token
\* per login, for any number of concurrent refreshes, revocations and logouts.
THEOREM OneLive == Spec => []OneLivePerFamily
<1>1. RotationInv => OneLivePerFamily
  BY DEF RotationInv
<1> QED BY <1>1, RotationCorrect, PTL

\* A dead family stays dead: only Rotate issues into an existing family, and
\* it commits only on a row that was live when it was locked.
THEOREM DeadForGood == Spec => FamilyDeadForGood
<1>1. ASSUME RotationInv, RotationInv', Next, NEW f \in issued,
             \A t \in Family(f) : ~Live(t),
             NEW t \in Family(f)', Live(t)'
      PROVE  FALSE
  <2>1. \A s \in issued : s \in used \cup revoked => s \in used' \cup revoked'
    BY <1>1 DEF Next, Step, IssueTokens, Expire, Present, LogoutBegin, FindAny,
       RotateUpdate, RotateCommit, RevokeFamilyBegin, RevokeFamilyEnd,
       RevokeFamilyFails, LogoutEnd, Abandon, RevokeSnapshot, rows
  <2>2. \A s \in issued : family'[s] = family[s]
    BY <1>1 DEF Next, Step, IssueTokens, Expire, Present, LogoutBegin, FindAny,
       RotateUpdate, RotateCommit, RevokeFamilyBegin, RevokeFamilyEnd,
       RevokeFamilyFails, LogoutEnd, Abandon, RevokeSnapshot, rows,
       RotationInv, TypeOK
  <2>3. CASE t \in issued
    BY <1>1, <2>1, <2>2, <2>3 DEF Family, Live
  <2>4. CASE t \notin issued
    <3>1. \/ \E u \in Users, s \in Tokens : IssueTokens(u, s)
          \/ \E r \in Requests, s \in Tokens : RotateCommit(r, s)
      BY <1>1, <2>4 DEF Family, Next, Step, Expire, Present, LogoutBegin,
         FindAny, RotateUpdate, RevokeFamilyBegin, RevokeFamilyEnd,
         RevokeFamilyFails, LogoutEnd, Abandon, RevokeSnapshot, rows
    <3>2. CASE \E u \in Users, s \in Tokens : IssueTokens(u, s)
      BY <1>1, <2>4, <3>2 DEF IssueTokens, Family, RotationInv, TypeOK
    <3>3. ASSUME NEW r \in Requests, NEW s \in Tokens, RotateCommit(r, s)
          PROVE  FALSE
      <4>1. s = t /\ family'[t] = family[target[r]] /\ target[r] \in issued
        BY <1>1, <2>4, <3>3
           DEF RotateCommit, Family, RotationInv, TypeOK, LockedIsLive, Live
      <4>2. target[r] \in Family(f) /\ Live(target[r])
        BY <1>1, <3>3, <4>1 DEF RotateCommit, Family, RotationInv, LockedIsLive
      <4> QED BY <1>1, <4>2
    <3> QED BY <3>1, <3>2, <3>3
  <2> QED BY <2>3, <2>4
<1>2. ASSUME RotationInv, RotationInv', [Next]_vars
      PROVE  [\A f \in issued :
                (\A t \in Family(f) : ~Live(t))
                  => (\A t \in Family(f)' : ~Live(t)')]_vars
  BY <1>1, <1>2
<1> QED BY <1>2, RotationCorrect, PTL DEF Spec, FamilyDeadForGood

------------------------------------------------------------------------------
(* What survives a revocation.                                             *)

\* A step that issues nothing, unrevokes nothing and leaves the revoking
\* statements alone.
LEMMA SurvivorsKept ==
    ASSUME RotationInv, SurvivorsRaced,
           UNCHANGED <<issued, family, used, raced>>, revoked \subseteq revoked',
           \A q \in Requests : pc'[q] \in {"revoking", "loggingOut"} =>
              /\ pc'[q] = pc[q] /\ target'[q] = target[q]
              /\ snapshot'[q] = snapshot[q],
           \A f \in (killed' \cup ended') \ raced :
              f \in killed \cup ended \/ \A t \in Family(f) : ~Live(t)'
    PROVE  SurvivorsRaced'
<1>1. \A t : Live(t)' => Live(t)
  BY DEF Live
<1>2. \A f : Family(f)' = Family(f)
  BY DEF Family
<1>3. OnlyRacesSurvive'
  <2> SUFFICES ASSUME NEW f \in (killed' \cup ended') \ raced',
                      NEW t \in Family(f)'
               PROVE  ~Live(t)'
    BY DEF OnlyRacesSurvive
  <2>1. t \in Family(f)
    BY <1>2
  <2>2. CASE f \in killed \cup ended
    BY <1>1, <2>1, <2>2 DEF SurvivorsRaced, OnlyRacesSurvive
  <2> QED BY <2>1, <2>2
<1>4. ASSUME NEW q \in Requests, pc'[q] = "revoking",
             family'[target'[q]] \notin raced',
             NEW t \in Family(family[target[q]]), Live(t)'
      PROVE  t \in snapshot'[q]
  BY <1>1, <1>4 DEF SurvivorsRaced
<1>5. ASSUME NEW q \in Requests, pc'[q] = "loggingOut", NEW s \in snapshot'[q],
             family'[s] \notin raced', NEW t \in Family(family[s]), Live(t)'
      PROVE  t \in snapshot'[q]
  BY <1>1, <1>5 DEF SurvivorsRaced
<1>6. \A q \in Requests : pc'[q] = "revoking" =>
         (Family(family[target[q]]))' = Family(family[target[q]])
  BY DEF Family
<1>7. \A s : (Family(family[s]))' = Family(family[s])
  BY DEF Family
<1> QED BY <1>3, <1>4, <1>5, <1>6, <1>7 DEF SurvivorsRaced

\* Rotate's child is live in the old token's family: every statement that had
\* found the family's live token had found the old one.
LEMMA CommitRaces ==
    ASSUME RotationInv, SurvivorsRaced, NEW r \in Requests, NEW c \in Tokens,
           RotateCommit(r, c)
    PROVE  SurvivorsRaced'
<1> DEFINE o == target[r]
           f == family[o]
<1>1. Live(o) /\ o \in issued /\ o \in Tokens /\ c \notin issued /\ o \in Family(f)
  BY DEF RotateCommit, RotationInv, TypeOK, LockedIsLive, Live, Family
<1>2. /\ issued' = issued \cup {c}
      /\ family' = [family EXCEPT ![c] = f]
      /\ used' = used \cup {o} /\ revoked' = revoked \cup {o}
      /\ UNCHANGED <<killed, ended>> /\ Finish(r)
      /\ raced' = raced \cup {f : q \in {p \in Requests : o \in snapshot[p]}}
  BY DEF RotateCommit
<1>3. /\ raced \subseteq raced'
      /\ \A q \in Requests : o \in snapshot[q] => f \in raced'
  BY <1>2
<1>4. \A s \in issued : family'[s] = family[s]
  BY <1>1, <1>2 DEF RotationInv, TypeOK
<1>5. \A g, t : g # f /\ t \in Family(g)' /\ Live(t)' => t \in Family(g) /\ Live(t)
  <2> SUFFICES ASSUME NEW g, NEW t, g # f, t \in Family(g)', Live(t)'
               PROVE  t \in Family(g) /\ Live(t)
    OBVIOUS
  <2>1. t \in issued' /\ family'[t] = g /\ t \notin used' /\ t \notin revoked'
    BY DEF Family, Live
  <2>2. t # c
    BY <1>2, <2>1 DEF RotationInv, TypeOK
  <2> QED BY <1>2, <1>4, <2>1, <2>2 DEF Family, Live
<1>6. \A q \in Requests : pc'[q] \in {"revoking", "loggingOut"} =>
         /\ pc'[q] = pc[q] /\ target'[q] = target[q] /\ snapshot'[q] = snapshot[q]
         /\ snapshot[q] \subseteq issued
         /\ pc[q] = "revoking" => target[q] \in issued
  BY <1>2 DEF Finish, RotationInv, TypeOK, TargetsIssued, Refreshing
<1>7. OnlyRacesSurvive'
  <2> SUFFICES ASSUME NEW g \in (killed' \cup ended') \ raced',
                      NEW t \in Family(g)', Live(t)'
               PROVE  FALSE
    BY DEF OnlyRacesSurvive
  <2>1. g \in (killed \cup ended) \ raced
    BY <1>2, <1>3
  <2>2. g # f
    BY <1>1, <2>1 DEF SurvivorsRaced, OnlyRacesSurvive
  <2> QED BY <1>5, <2>1, <2>2 DEF SurvivorsRaced, OnlyRacesSurvive
<1>8. ASSUME NEW q \in Requests, pc'[q] = "revoking",
             family'[target'[q]] \notin raced',
             NEW t, t \in Family(family[target[q]])', Live(t)'
      PROVE  t \in snapshot'[q]
  <2>1. /\ pc[q] = "revoking" /\ snapshot'[q] = snapshot[q]
        /\ target'[q] = target[q] /\ target[q] \in issued
    BY <1>6, <1>8
  <2>2. family'[target[q]] = family[target[q]] /\ family[target[q]] \notin raced
    BY <1>3, <1>4, <1>8, <2>1
  <2>3. family[target[q]] # f
    BY <1>1, <1>3, <1>8, <2>1, <2>2 DEF SurvivorsRaced
  <2>4. t \in Family(family[target[q]]) /\ Live(t)
    <3>1. issued' = issued \cup {c} /\ t \in issued'
          /\ family'[t] = family'[target'[q]]
      BY <1>2, <1>8, <2>1 DEF Family
    <3>2. t \in Family(family[target[q]])'
      BY <1>8
    <3>3. family'[t] = family[target[q]] /\ t \notin used' /\ t \notin revoked'
      BY <1>8, <2>1, <2>2, <3>1 DEF Live
    <3>4. t # c
      BY <1>2, <2>3, <3>3 DEF RotationInv, TypeOK
    <3> QED BY <1>2, <1>4, <3>1, <3>3, <3>4 DEF Family, Live
  <2> QED BY <2>1, <2>2, <2>4 DEF SurvivorsRaced
<1>9. ASSUME NEW q \in Requests, pc'[q] = "loggingOut", NEW s \in snapshot'[q],
             family'[s] \notin raced',
             NEW t, t \in Family(family[s])', Live(t)'
      PROVE  t \in snapshot'[q]
  <2>1. /\ pc[q] = "loggingOut" /\ snapshot'[q] = snapshot[q]
        /\ s \in snapshot[q] /\ s \in issued
    BY <1>6, <1>9
  <2>2. family'[s] = family[s] /\ family[s] \notin raced
    BY <1>3, <1>4, <1>9, <2>1
  <2>3. family[s] # f
    BY <1>1, <1>3, <1>9, <2>1, <2>2 DEF SurvivorsRaced
  <2>4. t \in Family(family[s]) /\ Live(t)
    <3>1. t \in issued' /\ family'[t] = family'[s]
      BY <1>9 DEF Family
    <3>2. family'[t] = family[s] /\ t \notin used' /\ t \notin revoked'
      BY <1>9, <2>2, <3>1 DEF Live
    <3>3. t # c
      BY <1>2, <2>3, <3>2 DEF RotationInv, TypeOK
    <3> QED BY <1>2, <1>4, <3>1, <3>2, <3>3 DEF Family, Live
  <2> QED BY <2>1, <2>2, <2>4 DEF SurvivorsRaced
<1> QED BY <1>7, <1>8, <1>9 DEF SurvivorsRaced

\* A login's family is new to every statement and to the history.
LEMMA IssueRaces ==
    ASSUME RotationInv, SurvivorsRaced, NEW u \in Users, NEW n \in Tokens,
           IssueTokens(u, n)
    PROVE  SurvivorsRaced'
<1>1. /\ issued' = issued \cup {n} /\ n \notin issued
      /\ family' = [family EXCEPT ![n] = n]
      /\ UNCHANGED <<used, revoked, pc, target, snapshot, killed, ended, raced>>
  BY DEF IssueTokens, history
<1>2. \A s \in issued : family'[s] = family[s] /\ family[s] # n
  BY <1>1 DEF RotationInv, TypeOK, FamiliesFormed
<1>3. ASSUME NEW g, g # n, NEW t, t \in issued', family'[t] = g
      PROVE  t \in Family(g) /\ (Live(t)' <=> Live(t))
  BY <1>1, <1>2, <1>3 DEF Family, Live, RotationInv, TypeOK
<1>4. OnlyRacesSurvive'
  <2> SUFFICES ASSUME NEW g \in (killed' \cup ended') \ raced',
                      NEW t \in Family(g)'
               PROVE  ~Live(t)'
    BY DEF OnlyRacesSurvive
  <2>1. g \in (killed \cup ended) \ raced /\ g # n
    BY <1>1 DEF RotationInv, TypeOK
  <2>2. t \in issued' /\ family'[t] = g
    BY DEF Family
  <2> QED BY <1>3, <2>1, <2>2 DEF SurvivorsRaced, OnlyRacesSurvive
<1>5. ASSUME NEW q \in Requests, pc'[q] = "revoking",
             family'[target'[q]] \notin raced',
             NEW t, t \in Family(family[target[q]])', Live(t)'
      PROVE  t \in snapshot'[q]
  <2>1. pc[q] = "revoking" /\ target[q] \in issued /\ target' = target
    BY <1>1, <1>5 DEF RotationInv, TargetsIssued, Refreshing
  <2>2. t \in issued' /\ family'[t] = family[target[q]]
        /\ family[target[q]] # n /\ family[target[q]] \notin raced
    BY <1>1, <1>2, <1>5, <2>1 DEF Family
  <2> QED BY <1>1, <1>3, <1>5, <2>1, <2>2 DEF SurvivorsRaced
<1>6. ASSUME NEW q \in Requests, pc'[q] = "loggingOut", NEW s \in snapshot'[q],
             family'[s] \notin raced',
             NEW t, t \in Family(family[s])', Live(t)'
      PROVE  t \in snapshot'[q]
  <2>1. pc[q] = "loggingOut" /\ s \in snapshot[q] /\ s \in issued
    BY <1>1, <1>6 DEF RotationInv, TypeOK
  <2>2. t \in issued' /\ family'[t] = family[s]
        /\ family[s] # n /\ family[s] \notin raced
    BY <1>1, <1>2, <1>6, <2>1 DEF Family
  <2> QED BY <1>1, <1>3, <1>6, <2>1, <2>2 DEF SurvivorsRaced
<1> QED BY <1>4, <1>5, <1>6 DEF SurvivorsRaced

\* A statement that begins finds every live token there is to find.
LEMMA BeginRaces ==
    ASSUME RotationInv, SurvivorsRaced, NEW r \in Requests,
           RevokeFamilyBegin(r) \/ \E u \in Users : LogoutBegin(r, u)
    PROVE  SurvivorsRaced'
<1>1. UNCHANGED <<issued, owner, family, used, revoked, target, killed, ended, raced>>
  BY DEF RevokeFamilyBegin, LogoutBegin, Goto, rows, history
<1>2. \A q \in Requests \ {r} : pc'[q] = pc[q] /\ snapshot'[q] = snapshot[q]
  BY DEF RevokeFamilyBegin, LogoutBegin, Goto, RotationInv, TypeOK
<1>3. OnlyRacesSurvive'
  BY <1>1 DEF SurvivorsRaced, OnlyRacesSurvive, Family, Live
<1>4. CASE RevokeFamilyBegin(r)
  <2>1. /\ pc'[r] = "revoking"
        /\ snapshot'[r] = Family(family[target[r]]) \ revoked
    BY <1>4 DEF RevokeFamilyBegin, Goto, RotationInv, TypeOK
  <2> QED BY <1>1, <1>2, <1>3, <2>1 DEF SurvivorsRaced, Family, Live
<1>5. ASSUME NEW u \in Users, LogoutBegin(r, u)
      PROVE  SurvivorsRaced'
  <2>1. /\ pc'[r] = "loggingOut"
        /\ snapshot'[r] = {t \in issued : owner[t] = u}
    BY <1>5 DEF LogoutBegin, Goto, RotationInv, TypeOK
  <2>2. \A s \in snapshot'[r], t \in issued :
           family[t] = family[s] => t \in snapshot'[r]
    BY <2>1 DEF RotationInv, FamiliesFormed
  <2> QED BY <1>1, <1>2, <1>3, <2>1, <2>2 DEF SurvivorsRaced, Family, Live
<1> QED BY <1>4, <1>5

\* A statement that commits has revoked what it found.
LEMMA EndRaces ==
    ASSUME RotationInv, SurvivorsRaced, NEW r \in Requests,
           RevokeFamilyEnd(r) \/ LogoutEnd(r)
    PROVE  SurvivorsRaced'
<1>1. /\ UNCHANGED <<issued, family, used, raced>>
      /\ revoked' = revoked \cup snapshot[r]
  BY DEF RevokeFamilyEnd, LogoutEnd, RevokeSnapshot
<1>2. \A q \in Requests : pc'[q] \in {"revoking", "loggingOut"} =>
         /\ pc'[q] = pc[q] /\ target'[q] = target[q]
         /\ snapshot'[q] = snapshot[q]
  BY DEF RevokeFamilyEnd, LogoutEnd, RevokeSnapshot, Finish, RotationInv, TypeOK
<1>3. \A f \in (killed' \cup ended') \ raced :
         f \in killed \cup ended \/ \A t \in Family(f) : ~Live(t)'
  <2>1. CASE RevokeFamilyEnd(r)
    <3>1. /\ killed' = killed \cup {family[target[r]]} /\ ended' = ended
          /\ pc[r] = "revoking"
      BY <2>1 DEF RevokeFamilyEnd
    <3>2. family[target[r]] \notin raced =>
             \A t \in Family(family[target[r]]) : Live(t) => t \in snapshot[r]
      BY <3>1 DEF SurvivorsRaced
    <3> QED BY <1>1, <3>1, <3>2 DEF Live
  <2>2. CASE LogoutEnd(r)
    <3>1. /\ ended' = ended \cup {family[t] : t \in snapshot[r]}
          /\ killed' = killed /\ pc[r] = "loggingOut"
      BY <2>2 DEF LogoutEnd
    <3>2. \A s \in snapshot[r] : family[s] \notin raced =>
             \A t \in Family(family[s]) : Live(t) => t \in snapshot[r]
      BY <3>1 DEF SurvivorsRaced
    <3> QED BY <1>1, <3>1, <3>2 DEF Live
  <2> QED BY <2>1, <2>2
<1> QED BY <1>1, <1>2, <1>3, SurvivorsKept

\* The other steps touch no row a revocation is about.
LEMMA QuietRaces ==
    ASSUME RotationInv, SurvivorsRaced,
           \/ \E t \in Tokens : Expire(t)
           \/ \E r \in Requests, t \in Tokens : Present(r, t)
           \/ \E r \in Requests : FindAny(r) \/ RotateUpdate(r)
                 \/ RevokeFamilyFails(r) \/ Abandon(r)
    PROVE  SurvivorsRaced'
<1>1. UNCHANGED <<issued, family, used, revoked, raced, killed, ended>>
  BY DEF Expire, Present, FindAny, RotateUpdate, RevokeFamilyFails, Abandon,
     rows, history
<1>2. \A q \in Requests : pc'[q] \in {"revoking", "loggingOut"} =>
         /\ pc'[q] = pc[q] /\ target'[q] = target[q]
         /\ snapshot'[q] = snapshot[q]
  BY DEF Expire, Present, FindAny, RotateUpdate, RevokeFamilyFails, Abandon,
     Goto, Finish, RotationInv, TypeOK
<1> QED BY <1>1, <1>2, SurvivorsKept

\* RevokeFamily and logout leave a live token behind only in a family a Rotate
\* raced them in, for any number of tokens, users and requests.
THEOREM OnlyRaces == Spec => []OnlyRacesSurvive
<1>1. Init => SurvivorsRaced
  BY DEF Init, SurvivorsRaced, OnlyRacesSurvive
<1>2. RotationInv /\ SurvivorsRaced /\ [Next]_vars => SurvivorsRaced'
  <2> SUFFICES ASSUME RotationInv, SurvivorsRaced, [Next]_vars
               PROVE  SurvivorsRaced'
    OBVIOUS
  <2>1. CASE UNCHANGED vars
    BY <2>1, SurvivorsKept DEF vars, rows, history
  <2>2. CASE Next
    BY <2>2, IssueRaces, CommitRaces, BeginRaces, EndRaces, QuietRaces
       DEF Next, Step
  <2> QED BY <2>1, <2>2
<1>3. SurvivorsRaced => OnlyRacesSurvive
  BY DEF SurvivorsRaced
<1> QED BY <1>1, <1>2, <1>3, RotationCorrect, PTL DEF Spec

------------------------------------------------------------------------------
(* No false alarm.                                                         *)

\* The history only grows, and an issued row keeps its owner and its family.
LEMMA CauseStable ==
    ASSUME RotationInv, Next
    PROVE  /\ \A t \in issued : Caused(t) => Caused(t)'
           /\ \A t \in issued : family'[t] = family[t] /\ owner'[t] = owner[t]
           /\ presented \subseteq presented' /\ again \subseteq again'
           /\ issued \subseteq issued'
<1>1. \A t \in issued : family'[t] = family[t] /\ owner'[t] = owner[t]
  BY DEF Next, Step, IssueTokens, Expire, Present, LogoutBegin, FindAny,
     RotateUpdate, RotateCommit, RevokeFamilyBegin, RevokeFamilyEnd,
     RevokeFamilyFails, LogoutEnd, Abandon, RevokeSnapshot, rows,
     RotationInv, TypeOK
<1>2. /\ presented \subseteq presented' /\ again \subseteq again'
      /\ loggedOut \subseteq loggedOut' /\ issued \subseteq issued'
  BY DEF Next, Step, IssueTokens, Expire, Present, LogoutBegin, FindAny,
     RotateUpdate, RotateCommit, RevokeFamilyBegin, RevokeFamilyEnd,
     RevokeFamilyFails, LogoutEnd, Abandon, RevokeSnapshot, rows, history
<1>3. again \subseteq issued
  BY DEF RotationInv, TypeOK
<1> QED BY <1>1, <1>2, <1>3 DEF Caused

\* Requests of a step that neither presents nor spends a token.
LEMMA PresentationKept ==
    ASSUME SinglePresentation, UNCHANGED <<used, presented, again>>,
           \A r \in Requests : pc'[r] \in Refreshing =>
              pc[r] \in Refreshing /\ target'[r] = target[r]
    PROVE  SinglePresentation'
BY DEF SinglePresentation

\* A token presented once is held by the request that presented it.
LEMMA SingleStep ==
    ASSUME RotationInv, SinglePresentation, Next
    PROVE  SinglePresentation'
<1>1. ASSUME NEW r \in Requests, NEW t \in Tokens, Present(r, t)
      PROVE  SinglePresentation'
  <2>1. /\ pc'[r] \in Refreshing /\ target'[r] = t
        /\ presented' = presented \cup {t}
        /\ again' = again \cup ({t} \cap presented) /\ used' = used
        /\ \A q \in Requests \ {r} : pc'[q] = pc[q] /\ target'[q] = target[q]
    BY <1>1 DEF Present, RotationInv, TypeOK, Refreshing, rows
  <2> QED BY <2>1 DEF SinglePresentation
<1>2. ASSUME NEW r \in Requests, NEW c \in Tokens, RotateCommit(r, c)
      PROVE  SinglePresentation'
  <2>1. /\ pc'[r] = "idle" /\ pc[r] \in Refreshing
        /\ used' = used \cup {target[r]}
        /\ UNCHANGED <<presented, again>>
        /\ \A q \in Requests \ {r} : pc'[q] = pc[q] /\ target'[q] = target[q]
    BY <1>2 DEF RotateCommit, Finish, RotationInv, TypeOK, Refreshing, history
  <2>2. "idle" \notin Refreshing
    BY DEF Refreshing
  <2> QED BY <2>1, <2>2 DEF SinglePresentation
<1>3. ASSUME NEW r \in Requests,
             \/ FindAny(r) \/ RotateUpdate(r) \/ RevokeFamilyBegin(r)
             \/ RevokeFamilyEnd(r) \/ RevokeFamilyFails(r) \/ LogoutEnd(r)
             \/ Abandon(r) \/ \E u \in Users : LogoutBegin(r, u)
      PROVE  SinglePresentation'
  <2>1. UNCHANGED <<used, presented, again>>
    BY <1>3 DEF FindAny, RotateUpdate, RevokeFamilyBegin, RevokeFamilyEnd,
       RevokeFamilyFails, LogoutEnd, Abandon, LogoutBegin, RevokeSnapshot,
       rows, history
  <2>2. \A q \in Requests : pc'[q] \in Refreshing =>
           pc[q] \in Refreshing /\ target'[q] = target[q]
    BY <1>3 DEF FindAny, RotateUpdate, RevokeFamilyBegin, RevokeFamilyEnd,
       RevokeFamilyFails, LogoutEnd, Abandon, LogoutBegin, RevokeSnapshot,
       Finish, Goto, Refreshing, RotationInv, TypeOK
  <2> QED BY <2>1, <2>2, PresentationKept
<1>4. ASSUME \/ \E u \in Users, t \in Tokens : IssueTokens(u, t)
             \/ \E t \in Tokens : Expire(t)
      PROVE  SinglePresentation'
  BY <1>4, PresentationKept DEF IssueTokens, Expire, history
<1> QED BY <1>1, <1>2, <1>3, <1>4 DEF Next, Step

\* A request starts to revoke only a token whose family has a cause, and
\* whatever it revokes shares that cause.
LEMMA RevocationStep ==
    ASSUME RotationInv, RotationInv', CauseInv, Next
    PROVE  RevocationsCaused'
<1>1. \A t \in revoked : t \in used \/ Caused(t)
  BY DEF CauseInv, RevocationsCaused
<1>2. \A t \in revoked' : t \in used' \/ Caused(t)'
  <2>1. used \subseteq used'
    BY DEF Next, Step, IssueTokens, Expire, Present, LogoutBegin, FindAny,
       RotateUpdate, RotateCommit, RevokeFamilyBegin, RevokeFamilyEnd,
       RevokeFamilyFails, LogoutEnd, Abandon, RevokeSnapshot, rows
  <2>2. \A t \in revoked : t \in used' \/ Caused(t)'
    BY <1>1, <2>1, CauseStable DEF RotationInv, TypeOK
  <2>3. CASE revoked' = revoked
    BY <2>2, <2>3
  <2>4. ASSUME NEW r \in Requests, NEW c \in Tokens, RotateCommit(r, c)
        PROVE  \A t \in revoked' : t \in used' \/ Caused(t)'
    BY <2>2, <2>4 DEF RotateCommit
  <2>5. ASSUME NEW r \in Requests, RevokeFamilyEnd(r)
        PROVE  \A t \in revoked' : t \in used' \/ Caused(t)'
    <3>1. /\ revoked' = revoked \cup snapshot[r] /\ pc[r] = "revoking"
          /\ snapshot[r] \subseteq issued /\ target[r] \in issued
      BY <2>5 DEF RevokeFamilyEnd, RevokeSnapshot, RotationInv, TypeOK,
         TargetsIssued, Refreshing
    <3>2. \A t \in snapshot[r] : family[t] = family[target[r]]
      BY <3>1 DEF CauseInv, RevocationsCaused
    <3>3. \A t \in snapshot[r] : owner[t] = owner[target[r]]
      BY <3>1, <3>2 DEF RotationInv, FamiliesFormed
    <3>4. \A t \in snapshot[r] : Caused(t)
      BY <3>1, <3>2, <3>3 DEF CauseInv, RevocationsCaused, Caused
    <3> QED BY <2>2, <3>1, <3>4, CauseStable
  <2>6. ASSUME NEW r \in Requests, LogoutEnd(r)
        PROVE  \A t \in revoked' : t \in used' \/ Caused(t)'
    BY <2>2, <2>6 DEF LogoutEnd, RevokeSnapshot, Caused
  <2> QED BY <2>3, <2>4, <2>5, <2>6
          DEF Next, Step, IssueTokens, Expire, Present, LogoutBegin, FindAny,
              RotateUpdate, RevokeFamilyBegin, RevokeFamilyFails, Abandon, rows
<1>3. \A t \in used \cup revoked : t \in used \/ Caused(t)
  BY <1>1
<1>4. \A q \in Requests : pc'[q] \in {"revoke", "revoking"} =>
         target'[q] = target[q] /\ target[q] \in issued /\ Caused(target[q])
  <2>1. \A q \in Requests : pc[q] \in {"revoke", "revoking"} =>
           target[q] \in issued /\ Caused(target[q])
    BY DEF CauseInv, RevocationsCaused, RotationInv, TargetsIssued, Refreshing
  <2>2. ASSUME NEW r \in Requests, FindAny(r) \/ RotateUpdate(r),
               pc'[r] \in {"revoke", "revoking"}
        PROVE  /\ target[r] \in issued /\ Caused(target[r]) /\ target' = target
    <3>1. /\ target[r] \in used \cup revoked /\ pc[r] \in Refreshing
          /\ target' = target /\ target[r] \in issued
      BY <2>2 DEF FindAny, RotateUpdate, Finish, Goto, Live, Refreshing,
         RotationInv, TypeOK, TargetsIssued
    <3>2. target[r] \in used => target[r] \in again
      BY <3>1 DEF CauseInv, SinglePresentation
    <3>3. target[r] \in again => Caused(target[r])
      BY DEF Caused
    <3> QED BY <1>3, <3>1, <3>2, <3>3
  <2>3. ASSUME NEW r \in Requests, FindAny(r) \/ RotateUpdate(r)
        PROVE  \A q \in Requests \ {r} : pc'[q] = pc[q] /\ target'[q] = target[q]
    BY <2>3 DEF FindAny, RotateUpdate, Finish, Goto, RotationInv, TypeOK
  <2>4. ASSUME NEW r \in Requests, FindAny(r) \/ RotateUpdate(r)
        PROVE  \A q \in Requests : pc'[q] \in {"revoke", "revoking"} =>
                 target'[q] = target[q] /\ target[q] \in issued
                   /\ Caused(target[q])
    BY <2>1, <2>2, <2>3, <2>4
  <2>5. ASSUME NEW r \in Requests,
               \/ \E t \in Tokens : RotateCommit(r, t) \/ Present(r, t)
               \/ RevokeFamilyBegin(r) \/ RevokeFamilyEnd(r)
               \/ RevokeFamilyFails(r) \/ LogoutEnd(r) \/ Abandon(r)
               \/ \E u \in Users : LogoutBegin(r, u)
        PROVE  \A q \in Requests : pc'[q] \in {"revoke", "revoking"} =>
                 target'[q] = target[q] /\ pc[q] \in {"revoke", "revoking"}
    BY <2>5 DEF RotateCommit, Present, RevokeFamilyBegin, RevokeFamilyEnd,
       RevokeFamilyFails, LogoutEnd, Abandon, LogoutBegin, RevokeSnapshot,
       Finish, Goto, RotationInv, TypeOK
  <2>6. ASSUME \/ \E u \in Users, t \in Tokens : IssueTokens(u, t)
               \/ \E t \in Tokens : Expire(t)
        PROVE  pc' = pc /\ target' = target
    BY <2>6 DEF IssueTokens, Expire
  <2> QED BY <2>1, <2>4, <2>5, <2>6 DEF Next, Step
<1>5. \A q \in Requests : pc'[q] = "revoking" =>
         \A t \in snapshot'[q] :
            t \in issued /\ family[t] = family[target[q]]
  <2>1. \A q \in Requests : pc[q] = "revoking" => \A t \in snapshot[q] :
            t \in issued /\ family[t] = family[target[q]]
    BY DEF CauseInv, RevocationsCaused, RotationInv, TypeOK
  <2>2. ASSUME NEW r \in Requests, RevokeFamilyBegin(r)
        PROVE  \A q \in Requests : pc'[q] = "revoking" =>
                 \A t \in snapshot'[q] :
                    t \in issued /\ family[t] = family[target[q]]
    BY <2>1, <2>2 DEF RevokeFamilyBegin, Goto, Family, RotationInv, TypeOK
  <2>3. ASSUME NEW r \in Requests,
               \/ \E t \in Tokens : RotateCommit(r, t) \/ Present(r, t)
               \/ FindAny(r) \/ RotateUpdate(r) \/ RevokeFamilyEnd(r)
               \/ RevokeFamilyFails(r) \/ LogoutEnd(r) \/ Abandon(r)
               \/ \E u \in Users : LogoutBegin(r, u)
        PROVE  \A q \in Requests : pc'[q] = "revoking" =>
                 pc[q] = "revoking" /\ snapshot'[q] = snapshot[q]
    BY <2>3 DEF RotateCommit, Present, FindAny, RotateUpdate, RevokeFamilyEnd,
       RevokeFamilyFails, LogoutEnd, Abandon, LogoutBegin, RevokeSnapshot,
       Finish, Goto, RotationInv, TypeOK
  <2>4. ASSUME \/ \E u \in Users, t \in Tokens : IssueTokens(u, t)
               \/ \E t \in Tokens : Expire(t)
        PROVE  pc' = pc /\ snapshot' = snapshot
    BY <2>4 DEF IssueTokens, Expire
  <2> QED BY <2>1, <2>2, <2>3, <2>4 DEF Next, Step
<1>6. \A f \in alarms' : f \in issued /\ family[f] = f /\ Caused(f)
  <2>1. \A f \in alarms : f \in issued /\ family[f] = f /\ Caused(f)
    BY DEF CauseInv, RevocationsCaused, RotationInv, TypeOK
  <2>2. ASSUME NEW r \in Requests, RevokeFamilyEnd(r) \/ RevokeFamilyFails(r)
        PROVE  \A f \in alarms' : f \in issued /\ family[f] = f /\ Caused(f)
    <3>1. /\ alarms' = alarms \cup {family[target[r]]}
          /\ target[r] \in issued /\ Caused(target[r])
      BY <2>2 DEF RevokeFamilyEnd, RevokeFamilyFails, CauseInv,
         RevocationsCaused, RotationInv, TargetsIssued, Refreshing
    <3>2. LET f == family[target[r]] IN
            f \in issued /\ family[f] = f /\ Caused(f)
      BY <3>1 DEF RotationInv, FamiliesFormed, Caused
    <3> QED BY <2>1, <3>1, <3>2
  <2>3. CASE alarms' = alarms
    BY <2>1, <2>3
  <2> QED BY <2>2, <2>3
          DEF Next, Step, IssueTokens, Expire, Present, LogoutBegin, FindAny,
              RotateUpdate, RotateCommit, RevokeFamilyBegin, LogoutEnd,
              Abandon, history
<1>7. \A q \in Requests : pc'[q] \in {"revoke", "revoking"} => Caused(target[q])'
  BY <1>4, CauseStable DEF Caused
<1> QED BY <1>2, <1>4, <1>5, <1>6, <1>7, CauseStable DEF RevocationsCaused

\* What an alarm can be traced to: the family's token was presented twice, or
\* its user had logged out.  Rotation races, rollbacks, crashes and expiry alone
\* raise none, but a stale token after an ordinary logout does, although the
\* audit event is documented as a token presented twice.
THEOREM NoFalseAlarm == Spec => []AlarmHasCause
<1>1. Init => CauseInv
  BY DEF Init, CauseInv, SinglePresentation, RevocationsCaused, Refreshing
<1>2. RotationInv /\ RotationInv' /\ CauseInv /\ [Next]_vars => CauseInv'
  <2> SUFFICES ASSUME RotationInv, RotationInv', CauseInv, [Next]_vars
               PROVE  CauseInv'
    OBVIOUS
  <2>1. CASE UNCHANGED vars
    BY <2>1 DEF vars, rows, history, CauseInv, SinglePresentation,
       RevocationsCaused, Caused
  <2>2. CASE Next
    BY <2>2, SingleStep, RevocationStep DEF CauseInv
  <2> QED BY <2>1, <2>2
<1>3. RotationInv /\ CauseInv => AlarmHasCause
  BY DEF CauseInv, RevocationsCaused, Caused, AlarmHasCause
<1> QED BY <1>1, <1>2, <1>3, RotationCorrect, PTL DEF Spec
==============================================================================
