----------------------------- MODULE UserAuthProofs -----------------------------
(***************************************************************************)
(* Theorems about the UI users, for any users, any number of requests in   *)
(* flight, any threshold and any number of failures.                       *)
(***************************************************************************)
EXTENDS UserAuth, FiniteSetTheorems, TLAPS

\* Each session runs a statement for a user, or none.
RequestOK ==
  /\ pc \in [Sessions -> Labels]
  /\ who \in [Sessions -> Users \cup {NoUser}]
  /\ \A s \in Sessions : pc[s] # "idle" => who[s] \in Users

\* A request that ends, goes on or begins.
LEMMA FinishType ==
  ASSUME RequestOK, NEW s \in Sessions, Finish(s)
  PROVE  RequestOK'
BY DEF RequestOK, Finish, Labels

\* What Goto assigns.
LEMMA GotoType ==
  ASSUME RequestOK, NEW s \in Sessions, NEW l \in Labels, pc[s] # "idle", Goto(s, l)
  PROVE  RequestOK'
BY DEF RequestOK, Goto

\* What Begin assigns.
LEMMA BeginType ==
  ASSUME RequestOK, NEW s \in Sessions, NEW u \in Users, NEW l \in Labels, Begin(s, u, l)
  PROVE  RequestOK'
BY DEF RequestOK, Begin

\* Changing an entry of a map keeps its type.
LEMMA EntryType ==
  ASSUME NEW S, NEW T, NEW m \in [S -> T], NEW x \in S, NEW v \in T
  PROVE  [m EXCEPT ![x] = v] \in [S -> T]
OBVIOUS

\* A statement that fails leaves a natural number of failures.
LEMMA BudgetType ==
  ASSUME TypeOK, NoFault \/ Fault
  PROVE  budget' \in Nat /\ budget' <= budget
BY DEF TypeOK, NoFault, Fault

\* A request at a statement has a user.
LEMMA HasUser ==
  ASSUME TypeOK, NEW s \in Sessions, pc[s] # "idle"
  PROVE  who[s] \in Users
BY DEF TypeOK

\* The failures counted are at most the threshold.
LEMMA CountType ==
  ASSUME TypeOK, NEW u \in Users, CountFailure(u) \/ (Unlock(u) /\ UNCHANGED fresh)
  PROVE  /\ attempts' \in [Users -> 0..LockoutThreshold]
         /\ locked' \in [Users -> BOOLEAN] /\ fresh' \in [Users -> BOOLEAN]
<1>1. CASE CountFailure(u)
  <2>1. attempts[u] \in 0..LockoutThreshold
    BY DEF TypeOK
  <2>2. (IF attempts[u] < LockoutThreshold THEN attempts[u] + 1 ELSE attempts[u])
          \in 0..LockoutThreshold
    BY <2>1, ThresholdAssumption
  <2> QED BY <1>1, <2>2 DEF TypeOK, CountFailure
<1>2. CASE Unlock(u) /\ UNCHANGED fresh
  <2>1. 0 \in 0..LockoutThreshold
    BY ThresholdAssumption
  <2> QED BY <1>2, <2>1 DEF TypeOK, Unlock
<1> QED BY <1>1, <1>2

\* The tables are empty at first.
LEMMA TypeInit == Init => TypeOK
<1>1. 0 \in 0..LockoutThreshold
  BY ThresholdAssumption
<1> QED BY <1>1, FaultAssumption DEF Init, TypeOK, States, Labels

\* Whatever a request does next, the types stay.
LEMMA ServeType ==
  ASSUME TypeOK, NEW s \in Sessions, Serve(s)
  PROVE  TypeOK'
<1> USE DEF account, lockout, sessions, At
<1>1. RequestOK
  BY DEF TypeOK, RequestOK
<1>2. pc[s] # "idle" /\ who[s] \in Users
  <2>1. pc[s] # "idle"
    BY DEF Serve, RecordFailedAttempt, ClearLockout, InsertLoginAuditLog,
       InsertRefreshToken, GetUserByUserID, SignJWT, RevokeRefreshTokens, CreateUser,
       DeleteUser, ResetUserPassword, ClearAfterReset
  <2> QED BY <2>1, HasUser
<1>3. {"InsertLoginAuditLog", "InsertRefreshToken", "signJWT", "ClearAfterReset"} \subseteq Labels
  BY DEF Labels
<1>4. RequestOK'
  <2>1. Finish(s) \/ \E l \in Labels : Goto(s, l)
    BY <1>3 DEF Serve, RecordFailedAttempt, ClearLockout, InsertLoginAuditLog,
       InsertRefreshToken, GetUserByUserID, SignJWT, RevokeRefreshTokens, CreateUser,
       DeleteUser, ResetUserPassword, ClearAfterReset
  <2> QED BY <1>1, <1>2, <2>1, FinishType, GotoType
<1>5. budget' \in Nat
  <2>1. NoFault \/ Fault
    BY DEF Serve, RecordFailedAttempt, ClearLockout, InsertLoginAuditLog,
       InsertRefreshToken, GetUserByUserID, SignJWT, RevokeRefreshTokens, CreateUser,
       DeleteUser, ResetUserPassword, ClearAfterReset
  <2> QED BY <2>1, BudgetType
<1>6. CASE RecordFailedAttempt(s)
  <2>1. /\ attempts' \in [Users -> 0..LockoutThreshold]
        /\ locked' \in [Users -> BOOLEAN] /\ fresh' \in [Users -> BOOLEAN]
    <3>1. CASE CountFailure(who[s])
      BY <1>2, <3>1, CountType
    <3>2. CASE UNCHANGED <<attempts, locked, fresh>>
      BY <3>2 DEF TypeOK
    <3> QED BY <1>6, <3>1, <3>2 DEF RecordFailedAttempt
  <2> QED BY <1>4, <1>5, <1>6, <2>1 DEF RecordFailedAttempt, TypeOK, RequestOK
<1>7. CASE ClearLockout(s)
  <2>1. guesses' \in [Users -> Nat]
    BY <1>7 DEF ClearLockout, Unlock, TypeOK
  <2> QED BY <1>2, <1>4, <1>5, <1>7, <2>1, CountType DEF ClearLockout, TypeOK, RequestOK
<1>8. CASE InsertLoginAuditLog(s)
  BY <1>2, <1>4, <1>5, <1>8 DEF InsertLoginAuditLog, TypeOK, RequestOK
<1>9. CASE InsertRefreshToken(s)
  BY <1>2, <1>4, <1>5, <1>9 DEF InsertRefreshToken, TypeOK, RequestOK
<1>10. CASE GetUserByUserID(s)
  BY <1>4, <1>5, <1>10 DEF GetUserByUserID, TypeOK, RequestOK
<1>11. CASE SignJWT(s)
  BY <1>2, <1>4, <1>5, <1>11 DEF SignJWT, TypeOK, RequestOK
<1>12. CASE RevokeRefreshTokens(s)
  BY <1>2, <1>4, <1>5, <1>12 DEF RevokeRefreshTokens, TypeOK, RequestOK
<1>13. CASE CreateUser(s)
  BY <1>2, <1>4, <1>5, <1>13 DEF CreateUser, InsertRow, TypeOK, RequestOK, States
<1>14. CASE DeleteUser(s)
  BY <1>2, <1>4, <1>5, <1>14 DEF DeleteUser, DeleteRow, TypeOK, RequestOK, States
<1>15. CASE ResetUserPassword(s)
  BY <1>4, <1>5, <1>15 DEF ResetUserPassword, TypeOK, RequestOK
<1>16. CASE ClearAfterReset(s)
  <2>1. attempts' \in [Users -> 0..LockoutThreshold] /\ guesses' \in [Users -> Nat]
    <3>1. 0 \in 0..LockoutThreshold
      BY ThresholdAssumption
    <3> QED BY <1>16, <3>1 DEF ClearAfterReset, Unlock, TypeOK
  <2>2. locked' \in [Users -> BOOLEAN] /\ fresh' \in [Users -> BOOLEAN]
    <3>1. locked' \in [Users -> BOOLEAN]
      BY <1>16 DEF ClearAfterReset, Unlock, TypeOK
    <3>2. Exists(who[s]) \in BOOLEAN
      BY DEF Exists
    <3> QED BY <1>2, <1>16, <3>1, <3>2, EntryType DEF ClearAfterReset, TypeOK
  <2> QED BY <1>4, <1>5, <1>16, <2>1, <2>2 DEF ClearAfterReset, TypeOK, RequestOK
<1> QED
  BY <1>6, <1>7, <1>8, <1>9, <1>10, <1>11, <1>12, <1>13, <1>14, <1>15, <1>16 DEF Serve

\* So they do when a request arrives,
LEMMA ArriveType ==
  ASSUME TypeOK, NEW s \in Sessions, NEW u \in Users, Arrive(s, u)
  PROVE  TypeOK'
<1> USE DEF account, lockout, sessions
<1>1. RequestOK
  BY DEF TypeOK, RequestOK
<1>2. RequestOK'
  <2>1. \E l \in Labels : Begin(s, u, l)
    BY DEF Arrive, LoginReads, GetRefreshToken, Authorize, Labels
  <2> QED BY <1>1, <2>1, BeginType
<1>3. budget' \in Nat
  BY BudgetType DEF Arrive, LoginReads, GetRefreshToken, Authorize
<1>4. guesses' \in [Users -> Nat]
  BY DEF Arrive, LoginReads, GetRefreshToken, Authorize, TypeOK
<1> QED
  BY <1>2, <1>3, <1>4 DEF Arrive, LoginReads, GetRefreshToken, Authorize, TypeOK, RequestOK

\* The steps of dbtool and of time on a user.
Outside(u) ==
  \/ DbtoolInsert(u) \/ DbtoolDelete(u) \/ DbtoolDeactivate(u) \/ DbtoolReset(u)
  \/ LockoutExpires(u) \/ RefreshExpires(u) \/ AccessExpires(u)

\* and when dbtool or time changes a row.
LEMMA OutsideType ==
  ASSUME TypeOK, NEW u \in Users, Outside(u)
  PROVE  TypeOK'
<1> USE DEF account, lockout, sessions, request
<1>1. CASE DbtoolInsert(u)
  BY <1>1 DEF DbtoolInsert, InsertRow, TypeOK, States
<1>2. CASE DbtoolDelete(u) \/ DbtoolDeactivate(u)
  BY <1>2 DEF DbtoolDelete, DeleteRow, DbtoolDeactivate, TypeOK, States
<1>3. CASE DbtoolReset(u)
  BY <1>3 DEF DbtoolReset, TypeOK
<1>4. CASE LockoutExpires(u)
  BY <1>4 DEF LockoutExpires, TypeOK
<1>5. CASE RefreshExpires(u) \/ AccessExpires(u)
  BY <1>5 DEF RefreshExpires, AccessExpires, TypeOK
<1> QED BY <1>1, <1>2, <1>3, <1>4, <1>5 DEF Outside

\* The restart of the server leaves a state of the right type.
LEMMA RestartType ==
  ASSUME TypeOK, Restart
  PROVE  TypeOK'
BY BudgetType DEF Restart, TypeOK, account, lockout, sessions, Labels

\* Every step keeps the types.
LEMMA TypeStep == TypeOK /\ [Next]_vars => TypeOK'
<1>1. CASE UNCHANGED vars
  BY <1>1 DEF vars, account, lockout, sessions, request, TypeOK
<1> QED BY <1>1, ServeType, ArriveType, OutsideType, RestartType DEF Next, Outside

\* The accounts' state keeps its types, and every request at a statement has a
\* user, for any users, requests, threshold and failures.
THEOREM TypeCorrect == Spec => []TypeOK
BY TypeInit, TypeStep, PTL DEF Spec

-----------------------------------------------------------------------------
\* Refresh tokens go with their user: the steps on the users row and on the tokens.
LEMMA TokensStep ==
  ASSUME TypeOK, TokensHaveUsers, [Next]_vars
  PROVE  TokensHaveUsers'
<1> USE DEF account, lockout, sessions, request, At
<1>1. ASSUME NEW u \in Users, UNCHANGED <<state, tokens>> PROVE tokens'[u] => Exists(u)'
  BY <1>1 DEF TokensHaveUsers, Exists
<1>2. ASSUME NEW s \in Sessions, Serve(s) PROVE TokensHaveUsers'
  <2>1. pc[s] # "idle" => who[s] \in Users
    BY HasUser
  <2>2. CASE InsertRefreshToken(s)
    BY <2>1, <2>2 DEF InsertRefreshToken, TokensHaveUsers, Exists, TypeOK
  <2>3. CASE RevokeRefreshTokens(s)
    BY <2>1, <2>3 DEF RevokeRefreshTokens, TokensHaveUsers, Exists, TypeOK
  <2>4. CASE CreateUser(s)
    BY <2>1, <2>4 DEF CreateUser, InsertRow, TokensHaveUsers, Exists, TypeOK
  <2>5. CASE DeleteUser(s)
    BY <2>1, <2>5 DEF DeleteUser, DeleteRow, TokensHaveUsers, Exists, TypeOK
  <2>6. CASE UNCHANGED <<state, tokens>>
    BY <1>1, <2>6 DEF TokensHaveUsers
  <2>7. \/ InsertRefreshToken(s) \/ RevokeRefreshTokens(s) \/ CreateUser(s) \/ DeleteUser(s)
        \/ UNCHANGED <<state, tokens>>
    BY <1>2 DEF Serve, RecordFailedAttempt, ClearLockout, InsertLoginAuditLog,
       GetUserByUserID, SignJWT, ResetUserPassword, ClearAfterReset
  <2> QED BY <2>2, <2>3, <2>4, <2>5, <2>6, <2>7
<1>3. ASSUME NEW s \in Sessions, NEW u \in Users, Arrive(s, u) PROVE TokensHaveUsers'
  <2>1. UNCHANGED <<state, tokens>>
    BY <1>3 DEF Arrive, LoginReads, GetRefreshToken, Authorize
  <2> QED BY <1>1, <2>1 DEF TokensHaveUsers
<1>4. ASSUME NEW u \in Users, Outside(u) PROVE TokensHaveUsers'
  <2>1. CASE DbtoolInsert(u)
    BY <2>1 DEF DbtoolInsert, InsertRow, TokensHaveUsers, Exists, TypeOK
  <2>2. CASE DbtoolDelete(u)
    BY <2>2 DEF DbtoolDelete, DeleteRow, TokensHaveUsers, Exists, TypeOK
  <2>3. CASE DbtoolDeactivate(u)
    BY <2>3 DEF DbtoolDeactivate, TokensHaveUsers, Exists, TypeOK
  <2>4. CASE RefreshExpires(u)
    BY <2>4 DEF RefreshExpires, TokensHaveUsers, Exists, TypeOK
  <2>5. CASE DbtoolReset(u) \/ LockoutExpires(u) \/ AccessExpires(u)
    BY <1>1, <2>5 DEF DbtoolReset, LockoutExpires, AccessExpires, TokensHaveUsers
  <2> QED BY <1>4, <2>1, <2>2, <2>3, <2>4, <2>5 DEF Outside
<1>5. CASE Restart \/ UNCHANGED vars
  BY <1>1, <1>5 DEF Restart, vars, TokensHaveUsers
<1> QED BY <1>2, <1>3, <1>4, <1>5 DEF Next, Outside

\* No refresh token outlives its user, whichever request was issuing one when the
\* user was deleted by a handler or by dbtool (InsertRefreshToken, DeleteUser).
THEOREM TokensOfUsers == Spec => []TokensHaveUsers
<1>1. Init => TokensHaveUsers
  BY DEF Init, TokensHaveUsers
<1> QED BY <1>1, TypeCorrect, TokensStep, PTL DEF Spec

-----------------------------------------------------------------------------
\* The statements after the audit row.
Issuing == {"InsertRefreshToken", "GetUserByUserID", "signJWT"}

\* Who has, or is about to be given, a token or a JWT has been audited.
Audited ==
  /\ \A u \in Users : tokens[u] \/ access[u] => audited[u]
  /\ \A s \in Sessions : pc[s] \in Issuing => audited[who[s]]

\* So it is as long as no statement has failed.
AuditInv == budget <= MaxFaults /\ (budget = MaxFaults => Audited)

\* A failure is never taken back.
LEMMA FailuresStay ==
  ASSUME TypeOK, budget <= MaxFaults, [Next]_vars
  PROVE  /\ budget' <= MaxFaults
         /\ budget' = MaxFaults => budget = MaxFaults /\ NoFault
<1>1. NoFault \/ Fault
  BY DEF Next, Serve, RecordFailedAttempt, ClearLockout, InsertLoginAuditLog,
     InsertRefreshToken, GetUserByUserID, SignJWT, RevokeRefreshTokens, CreateUser,
     DeleteUser, ResetUserPassword, ClearAfterReset, Arrive, LoginReads,
     GetRefreshToken, Authorize, DbtoolInsert, DbtoolDelete, DbtoolDeactivate,
     DbtoolReset, LockoutExpires, RefreshExpires, AccessExpires, Restart, vars, NoFault
<1> QED BY <1>1, FaultAssumption DEF TypeOK, NoFault, Fault

\* The audit row comes before the tokens, and who refreshes a JWT had a token.
LEMMA ServeAudited ==
  ASSUME TypeOK, Audited, NEW s \in Sessions, Serve(s), NoFault
  PROVE  Audited'
<1> USE DEF account, lockout, sessions, At
<1>1. pc[s] # "idle" => who[s] \in Users
  BY HasUser
<1>2. ~Fault
  BY DEF TypeOK, NoFault, Fault
<1>3. CASE InsertLoginAuditLog(s)
  <2>1. who[s] \in Users /\ audited' = [audited EXCEPT ![who[s]] = TRUE]
    BY <1>1, <1>2, <1>3 DEF InsertLoginAuditLog
  <2> QED BY <1>3, <2>1 DEF InsertLoginAuditLog, Goto, Audited, TypeOK, Issuing
<1>4. CASE InsertRefreshToken(s)
  BY <1>1, <1>2, <1>4 DEF InsertRefreshToken, Finish, Audited, TypeOK, Issuing
<1>5. CASE GetUserByUserID(s)
  BY <1>1, <1>5 DEF GetUserByUserID, Goto, Finish, Audited, TypeOK, Issuing
<1>6. CASE SignJWT(s)
  BY <1>1, <1>6 DEF SignJWT, Finish, Audited, TypeOK, Issuing
<1>7. ASSUME UNCHANGED <<audited, access>>, \A u \in Users : tokens'[u] => tokens[u],
             Finish(s) \/ \E l \in Labels \ Issuing : Goto(s, l)
      PROVE  Audited'
  BY <1>7 DEF Audited, Finish, Goto, TypeOK, Issuing
<1>8. CASE RecordFailedAttempt(s) \/ ClearLockout(s)
  BY <1>7, <1>8 DEF RecordFailedAttempt, ClearLockout, Labels, Issuing
<1>9. CASE RevokeRefreshTokens(s)
  <2>1. \A u \in Users : tokens'[u] => tokens[u]
    BY <1>1, <1>9 DEF RevokeRefreshTokens, TypeOK
  <2> QED BY <1>7, <1>9, <2>1 DEF RevokeRefreshTokens
<1>10. CASE DeleteUser(s)
  <2>1. \A u \in Users : tokens'[u] => tokens[u]
    BY <1>1, <1>10 DEF DeleteUser, DeleteRow, TypeOK
  <2> QED BY <1>7, <1>10, <2>1 DEF DeleteUser
<1>11. CASE CreateUser(s) \/ ResetUserPassword(s) \/ ClearAfterReset(s)
  BY <1>7, <1>11 DEF CreateUser, ResetUserPassword, ClearAfterReset, Labels, Issuing
<1> QED
  BY <1>3, <1>4, <1>5, <1>6, <1>8, <1>9, <1>10, <1>11 DEF Serve

\* A request that arrives is past no statement yet: a user with a token has his row.
LEMMA ArriveAudited ==
  ASSUME TypeOK, Audited, NEW s \in Sessions, NEW u \in Users, Arrive(s, u)
  PROVE  Audited'
<1> USE DEF account, lockout, sessions
<1>1. UNCHANGED <<tokens, access, audited>>
  BY DEF Arrive, LoginReads, GetRefreshToken, Authorize
<1>2. \E l \in Labels : Begin(s, u, l) /\ (l \in Issuing => tokens[u])
  BY DEF Arrive, LoginReads, GetRefreshToken, Authorize, Labels, Issuing
<1> QED BY <1>1, <1>2 DEF Audited, Begin, TypeOK

\* The steps of dbtool and of time only take tokens away.
LEMMA OutsideAudited ==
  ASSUME TypeOK, Audited, NEW u \in Users, Outside(u)
  PROVE  Audited'
<1> USE DEF account, lockout, sessions, request
<1>1. UNCHANGED <<audited, pc, who>>
  BY DEF Outside, DbtoolInsert, DbtoolDelete, DbtoolDeactivate, DbtoolReset,
     LockoutExpires, RefreshExpires, AccessExpires
<1>2. \A v \in Users : (tokens'[v] => tokens[v]) /\ (access'[v] => access[v])
  <2>1. CASE DbtoolDelete(u)
    BY <2>1 DEF DbtoolDelete, DeleteRow, TypeOK
  <2>2. CASE RefreshExpires(u) \/ AccessExpires(u)
    BY <2>2 DEF RefreshExpires, AccessExpires, TypeOK
  <2>3. CASE DbtoolInsert(u) \/ DbtoolDeactivate(u) \/ DbtoolReset(u) \/ LockoutExpires(u)
    BY <2>3 DEF DbtoolInsert, DbtoolDeactivate, DbtoolReset, LockoutExpires
  <2> QED BY <2>1, <2>2, <2>3 DEF Outside
<1> QED BY <1>1, <1>2 DEF Audited

\* Every step keeps it.
LEMMA AuditStep ==
  ASSUME TypeOK, AuditInv, [Next]_vars
  PROVE  AuditInv'
<1>1. budget <= MaxFaults
  BY DEF AuditInv
<1>2. /\ budget' <= MaxFaults
      /\ budget' = MaxFaults => budget = MaxFaults /\ NoFault
  BY <1>1, FailuresStay
<1>3. ASSUME budget' = MaxFaults PROVE Audited'
  <2>1. Audited /\ NoFault
    BY <1>2, <1>3 DEF AuditInv
  <2>2. ~Restart
    BY <2>1 DEF Restart, Fault, NoFault, TypeOK
  <2>3. CASE UNCHANGED vars
    BY <2>1, <2>3 DEF vars, sessions, request, Audited
  <2> QED
    BY <2>1, <2>2, <2>3, ServeAudited, ArriveAudited, OutsideAudited DEF Next, Outside
<1> QED BY <1>2, <1>3 DEF AuditInv

\* Who is signed in has a success row in login_audit_log, unless a statement has
\* failed: the row comes before the tokens, and a JWT is only refreshed with a token
\* (InsertLoginAuditLog, InsertRefreshToken, handleAccessTokenRefresh).
THEOREM SignedInAudited == Spec => []SignInsAudited
<1>1. Init => AuditInv
  BY FaultAssumption DEF Init, AuditInv, Audited, Issuing
<1>2. AuditInv => SignInsAudited
  BY DEF AuditInv, Audited, SignInsAudited
<1> QED BY <1>1, <1>2, TypeCorrect, AuditStep, PTL DEF Spec

-----------------------------------------------------------------------------
\* The requests about to count a wrong password of u.
Guessing(u) == {s \in Sessions : pc[s] = "RecordFailedAttempt" /\ who[s] = u}

\* The counts that failed statements and restarts may have lost.
Lost == Cardinality(Sessions) * (MaxFaults - budget)

\* The wrong passwords that failed_attempts accounts for while u is not locked out:
\* the one that reaches the threshold locks.
Counted(u) == IF attempts[u] < LockoutThreshold THEN attempts[u] ELSE LockoutThreshold - 1

\* While u is not locked out its wrong passwords are those counted, those about to be
\* counted and those lost; during a lockout there are no more than there were when
\* the last request read the row.
GuessInv(u) ==
  /\ state[u] = "none" => guesses[u] = 0
  /\ Exists(u) /\ ~locked[u] =>
       guesses[u] <= Counted(u) + Cardinality(Guessing(u)) + Lost
  /\ guesses[u] <= LockoutThreshold - 1 + Cardinality(Sessions) + Lost

\* How many requests may be guessing.
LEMMA GuessingFinite ==
  ASSUME NEW u
  PROVE  /\ Cardinality(Sessions) \in Nat
         /\ IsFiniteSet(Guessing(u)) /\ Cardinality(Guessing(u)) \in Nat
         /\ Cardinality(Guessing(u)) <= Cardinality(Sessions)
<1>1. Guessing(u) \in SUBSET Sessions
  BY DEF Guessing
<1> QED BY <1>1, SessionsAssumption, FS_Subset, FS_CardinalityType

\* What a failure adds.
LEMMA LostType ==
  ASSUME TypeOK, budget <= MaxFaults, NoFault \/ Fault
  PROVE  /\ Lost \in Nat /\ Lost' \in Nat /\ Lost <= Lost'
         /\ NoFault => Lost' = Lost
         /\ Fault => Lost' = Lost + Cardinality(Sessions)
<1> DEFINE N == Cardinality(Sessions)
<1>1. N \in Nat
  BY GuessingFinite
<1>2. budget \in Nat /\ MaxFaults \in Nat /\ MaxFaults - budget \in Nat
  BY FaultAssumption DEF TypeOK
<1>3. \A n \in Nat : N * n \in Nat /\ N * (n + 1) = N * n + N
  BY <1>1
<1>4. CASE NoFault
  <2>1. Lost' = Lost /\ Lost \in Nat
    BY <1>2, <1>3, <1>4 DEF Lost, NoFault
  <2>2. ~Fault
    BY <1>2, <1>4 DEF NoFault, Fault
  <2> QED BY <2>1, <2>2
<1>5. CASE Fault
  <2>1. MaxFaults - budget' = (MaxFaults - budget) + 1
    BY <1>2, <1>5 DEF Fault
  <2>2. Lost \in Nat /\ Lost' = Lost + N
    <3>1. Lost = N * (MaxFaults - budget) /\ Lost' = N * (MaxFaults - budget')
      BY DEF Lost
    <3> HIDE DEF N
    <3> QED BY <1>2, <1>3, <2>1, <3>1
  <2>3. ~NoFault
    BY <1>2, <1>5 DEF NoFault, Fault
  <2> QED BY <1>1, <1>5, <2>2, <2>3
<1> QED BY <1>4, <1>5

\* The numbers of the invariant.
LEMMA GuessNumbers ==
  ASSUME TypeOK, NEW u \in Users
  PROVE  /\ guesses[u] \in Nat /\ attempts[u] \in Nat /\ attempts[u] <= LockoutThreshold
         /\ Counted(u) \in Nat /\ Counted(u) <= LockoutThreshold - 1
BY ThresholdAssumption DEF TypeOK, Counted

\* A step that counts nothing, unlocks nobody and guesses nothing.
LEMMA GuessKept ==
  ASSUME TypeOK, budget <= MaxFaults, NoFault \/ Fault, NEW u \in Users, GuessInv(u),
         attempts'[u] = attempts[u], guesses'[u] = guesses[u],
         locked'[u] = locked[u],
         Guessing(u)' = Guessing(u),
         state'[u] = "none" => state[u] = "none",
         Exists(u)' => Exists(u) \/ state[u] = "none"
  PROVE  GuessInv(u)'
<1>1. Lost \in Nat /\ Lost' \in Nat /\ Lost <= Lost'
  BY LostType
<1>2. Counted(u)' = Counted(u)
  BY DEF Counted
<1>3. Cardinality(Guessing(u))' = Cardinality(Guessing(u))
  OBVIOUS
<1> HIDE DEF Lost
<1> QED
  BY <1>1, <1>2, <1>3, GuessNumbers, GuessingFinite, ThresholdAssumption DEF GuessInv

\* A step after which none is left to bound.
LEMMA GuessReset ==
  ASSUME TypeOK, TypeOK', budget <= MaxFaults, NoFault \/ Fault, NEW u \in Users,
         guesses'[u] = 0
  PROVE  GuessInv(u)'
<1>1. Lost' \in Nat
  BY LostType
<1>2. Counted(u)' \in Nat
  BY ThresholdAssumption DEF TypeOK, Counted
<1>3. Cardinality(Guessing(u))' \in Nat
  <2>1. Guessing(u)' \in SUBSET Sessions
    BY DEF Guessing
  <2> QED BY <2>1, SessionsAssumption, FS_Subset, FS_CardinalityType
<1> QED
  BY <1>1, <1>2, <1>3, GuessingFinite, ThresholdAssumption DEF GuessInv

\* A wrong password: one more guess, and one more request about to count it.
LEMMA LoginGuess ==
  ASSUME TypeOK, budget <= MaxFaults, NEW u \in Users, GuessInv(u),
         NEW s \in Sessions, NEW v \in Users, NEW right \in BOOLEAN, LoginReads(s, v, right)
  PROVE  GuessInv(u)'
<1> USE DEF account, lockout, sessions, request, At
<1>1. /\ NoFault /\ UNCHANGED <<state, attempts, locked>> /\ s \notin Guessing(u)
      /\ Lost \in Nat /\ Lost' = Lost
    BY LostType DEF LoginReads, Begin, Guessing
<1>2. CASE u = v /\ ~right
  <2>1. Guessing(u)' = Guessing(u) \cup {s}
    BY <1>2 DEF LoginReads, Begin, Guessing, TypeOK
  <2>2. Cardinality(Guessing(u))' = Cardinality(Guessing(u)) + 1
    BY <1>1, <2>1, GuessingFinite, FS_AddElement
  <2>3. Cardinality(Guessing(u)) + 1 <= Cardinality(Sessions)
    <3>1. Guessing(u) \cup {s} \in SUBSET Sessions
      BY DEF Guessing
    <3>2. Cardinality(Guessing(u) \cup {s}) <= Cardinality(Sessions)
      BY <3>1, FS_Subset, SessionsAssumption
    <3>3. Cardinality(Guessing(u) \cup {s}) = Cardinality(Guessing(u)) + 1
      BY <1>1, GuessingFinite, FS_AddElement
    <3> QED BY <3>2, <3>3
  <2>4. guesses'[u] = guesses[u] + 1 /\ Exists(u) /\ ~locked[u] /\ state[u] # "none"
    BY <1>2 DEF LoginReads, Exists, TypeOK
  <2>5. Counted(u)' = Counted(u)
    BY <1>1 DEF Counted
  <2> HIDE DEF Lost
  <2> QED
    BY <1>1, <2>2, <2>3, <2>4, <2>5, GuessNumbers, GuessingFinite, ThresholdAssumption
    DEF GuessInv
<1>3. CASE ~(u = v /\ ~right)
  <2>1. Guessing(u)' = Guessing(u)
    BY <1>1, <1>3 DEF LoginReads, Begin, Guessing, TypeOK
  <2>2. guesses'[u] = guesses[u]
    BY <1>3 DEF LoginReads, TypeOK
  <2> QED BY <1>1, <2>1, <2>2, GuessKept DEF Exists
<1> QED BY <1>2, <1>3

\* It is counted, and the count that reaches the threshold locks; or it is lost.
LEMMA CountGuess ==
  ASSUME TypeOK, budget <= MaxFaults, NEW u \in Users, GuessInv(u),
         NEW s \in Sessions, RecordFailedAttempt(s)
  PROVE  GuessInv(u)'
<1> USE DEF account, lockout, sessions, request, At
<1>1. /\ UNCHANGED <<state, guesses>> /\ who[s] \in Users
      /\ NoFault \/ Fault
  BY HasUser DEF RecordFailedAttempt
<1>2. /\ Lost \in Nat /\ Lost' \in Nat /\ Lost <= Lost'
      /\ Fault => Lost' = Lost + Cardinality(Sessions)
  BY <1>1, LostType
<1> DEFINE N == Cardinality(Sessions)
           G == Cardinality(Guessing(u))
<1>n. N \in Nat /\ G \in Nat /\ guesses[u] \in Nat /\ Counted(u) \in Nat
      /\ LockoutThreshold \in Nat
  BY GuessNumbers, GuessingFinite, ThresholdAssumption
<1>o. guesses'[u] = guesses[u] /\ state'[u] = state[u] /\ (Exists(u)' <=> Exists(u))
  BY <1>1 DEF Exists
<1>3. CASE u = who[s]
  <2>1. Guessing(u)' = Guessing(u) \ {s} /\ s \in Guessing(u)
    BY <1>1, <1>3 DEF RecordFailedAttempt, Finish, Guessing, TypeOK
  <2>2. Cardinality(Guessing(u))' = Cardinality(Guessing(u)) - 1
    BY <2>1, GuessingFinite, FS_RemoveElement
  <2>3. Cardinality(Sessions) >= 1
    <3>1. Sessions # {} /\ Cardinality(Sessions) # 0
      BY SessionsAssumption, FS_EmptySet
    <3> QED BY <3>1, GuessingFinite
  <2>4. CASE Fault /\ UNCHANGED <<attempts, locked, fresh>>
    <3>1. Counted(u)' = Counted(u) /\ locked'[u] = locked[u] /\ Lost' = Lost + N
      BY <1>2, <2>4 DEF Counted
    <3>2. G' = G - 1
      BY <2>2
    <3> HIDE DEF Lost, N, G
    <3>3. GuessInv(u) <=>
            /\ state[u] = "none" => guesses[u] = 0
            /\ Exists(u) /\ ~locked[u] => guesses[u] <= Counted(u) + G + Lost
            /\ guesses[u] <= LockoutThreshold - 1 + N + Lost
      BY DEF GuessInv, G, N
    <3>4. GuessInv(u)' <=>
            /\ state'[u] = "none" => guesses'[u] = 0
            /\ Exists(u)' /\ ~locked'[u] => guesses'[u] <= Counted(u)' + G' + Lost'
            /\ guesses'[u] <= LockoutThreshold - 1 + N + Lost'
      BY DEF GuessInv, G, N
    <3>5. N >= 1
      BY <2>3 DEF N
    <3> QED
      BY <1>2, <1>n, <1>o, <3>1, <3>2, <3>3, <3>4, <3>5
  <2>5. CASE CountFailure(u) /\ Exists(u)
    <3>1. ~locked'[u] => ~locked[u] /\ ~(attempts[u] + 1 >= LockoutThreshold)
      BY <2>5 DEF CountFailure, TypeOK
    <3>2. attempts[u] < LockoutThreshold => attempts'[u] = attempts[u] + 1
      BY <2>5 DEF CountFailure, TypeOK
    <3>3. ~locked'[u] => ~locked[u] /\ Counted(u)' = Counted(u) + 1
      <4>1. attempts[u] \in Nat /\ LockoutThreshold \in Nat
        BY GuessNumbers, ThresholdAssumption
      <4> QED BY <3>1, <3>2, <4>1 DEF Counted
    <3> HIDE DEF Lost
    <3> QED
      BY <1>1, <1>2, <2>2, <3>3, GuessNumbers, GuessingFinite, ThresholdAssumption
      DEF GuessInv, Exists
  <2>6. CASE ~Exists(u)
    <3> HIDE DEF Lost, N, G
    <3>1. guesses'[u] <= LockoutThreshold - 1 + N + Lost'
      BY <1>2, <1>n, <1>o DEF GuessInv, N
    <3> QED
      BY <1>o, <2>6, <3>1 DEF GuessInv, N
  <2> QED BY <1>3, <2>4, <2>5, <2>6 DEF RecordFailedAttempt
<1>4. CASE u # who[s]
  <2>1. Guessing(u)' = Guessing(u)
    BY <1>4 DEF RecordFailedAttempt, Finish, Guessing, TypeOK
  <2>2. attempts'[u] = attempts[u] /\ locked'[u] = locked[u]
    BY <1>1, <1>4 DEF RecordFailedAttempt, CountFailure, TypeOK
  <2> QED BY <1>1, <2>1, <2>2, GuessKept DEF Exists
<1> QED BY <1>3, <1>4

\* A password that is right, or a reset, clears the count.
LEMMA ClearGuess ==
  ASSUME TypeOK, TypeOK', budget <= MaxFaults, NEW u \in Users, GuessInv(u),
         NEW s \in Sessions, ClearLockout(s) \/ ClearAfterReset(s)
  PROVE  GuessInv(u)'
<1> USE DEF account, lockout, sessions, request, At
<1>1. UNCHANGED state /\ who[s] \in Users /\ (NoFault \/ Fault)
  BY HasUser DEF ClearLockout, ClearAfterReset
<1>2. Guessing(u)' = Guessing(u)
  BY DEF ClearLockout, ClearAfterReset, Goto, Finish, Guessing, TypeOK
<1>3. CASE u = who[s] /\ Unlock(u) /\ Exists(u)
  <2>1. guesses'[u] = 0
    BY <1>3 DEF Unlock, TypeOK
  <2> QED BY <1>1, <2>1, GuessReset
<1>4. CASE \/ UNCHANGED <<attempts, locked, guesses>>
           \/ (u # who[s] \/ ~Exists(u)) /\ Unlock(who[s])
  <2>1. attempts'[u] = attempts[u] /\ locked'[u] = locked[u] /\ guesses'[u] = guesses[u]
    BY <1>1, <1>4 DEF Unlock, TypeOK
  <2> QED BY <1>1, <1>2, <2>1, GuessKept DEF Exists
<1> QED BY <1>3, <1>4 DEF ClearLockout, ClearAfterReset

\* The other statements count nothing.
LEMMA ServeGuess ==
  ASSUME TypeOK, TypeOK', budget <= MaxFaults, NEW u \in Users, GuessInv(u),
         NEW s \in Sessions, Serve(s)
  PROVE  GuessInv(u)'
<1> USE DEF account, lockout, sessions, request, At
<1>1. CASE RecordFailedAttempt(s) \/ ClearLockout(s) \/ ClearAfterReset(s)
  BY <1>1, CountGuess, ClearGuess
<1>2. CASE ~(RecordFailedAttempt(s) \/ ClearLockout(s) \/ ClearAfterReset(s))
  <2>1. UNCHANGED <<attempts, locked, guesses>> /\ (NoFault \/ Fault)
    BY <1>2 DEF Serve, InsertLoginAuditLog, InsertRefreshToken, GetUserByUserID, SignJWT,
       RevokeRefreshTokens, CreateUser, DeleteUser, ResetUserPassword
  <2>2. /\ pc[s] # "RecordFailedAttempt"
        /\ Finish(s) \/ \E l \in Labels \ {"RecordFailedAttempt"} : Goto(s, l)
    BY <1>2 DEF Serve, InsertLoginAuditLog, InsertRefreshToken, GetUserByUserID, SignJWT,
       RevokeRefreshTokens, CreateUser, DeleteUser, ResetUserPassword, Labels
  <2>3. Guessing(u)' = Guessing(u)
    BY <2>2 DEF Finish, Goto, Guessing, TypeOK
  <2>4. state'[u] = state[u] \/ (state[u] = "none" /\ state'[u] = "active")
        \/ (Exists(u) /\ state'[u] = "gone")
    <3>1. pc[s] # "idle" => who[s] \in Users
      BY HasUser
    <3> QED
      BY <1>2, <3>1 DEF Serve, InsertLoginAuditLog, InsertRefreshToken, GetUserByUserID,
         SignJWT, RevokeRefreshTokens, CreateUser, InsertRow, DeleteUser, DeleteRow,
         ResetUserPassword, TypeOK
  <2>5. (state'[u] = "none" => state[u] = "none")
        /\ (Exists(u)' => Exists(u) \/ state[u] = "none")
    BY <2>4 DEF Exists
  <2> QED BY <2>1, <2>3, <2>5, GuessKept
<1> QED BY <1>1, <1>2

\* A request that arrives guesses only if it is a login.
LEMMA ArriveGuess ==
  ASSUME TypeOK, budget <= MaxFaults, NEW u \in Users, GuessInv(u),
         NEW s \in Sessions, NEW v \in Users, Arrive(s, v)
  PROVE  GuessInv(u)'
<1> USE DEF account, lockout, sessions, request
<1>1. CASE \E right \in BOOLEAN : LoginReads(s, v, right)
  BY <1>1, LoginGuess
<1>2. CASE GetRefreshToken(s, v) \/ \E caller \in Users \cup {OtherAdmin} : Authorize(s, caller, v)
  <2>1. UNCHANGED <<state, attempts, locked, guesses>> /\ NoFault
    BY <1>2 DEF GetRefreshToken, Authorize
  <2>2. pc[s] = "idle" /\ \E l \in Labels \ {"RecordFailedAttempt"} : Begin(s, v, l)
    BY <1>2 DEF GetRefreshToken, Authorize, Labels, Begin
  <2>3. Guessing(u)' = Guessing(u)
    BY <2>2 DEF Begin, Guessing, TypeOK
  <2> QED BY <2>1, <2>3, GuessKept DEF Exists
<1> QED BY <1>1, <1>2 DEF Arrive

\* dbtool and time: no guess is made, and a lockout that ends forgets them.
LEMMA OutsideGuess ==
  ASSUME TypeOK, TypeOK', budget <= MaxFaults, NEW u \in Users, GuessInv(u),
         NEW v \in Users, Outside(v)
  PROVE  GuessInv(u)'
<1> USE DEF account, lockout, sessions, request
<1>1. NoFault /\ Guessing(u)' = Guessing(u)
  BY DEF Outside, DbtoolInsert, DbtoolDelete, DbtoolDeactivate, DbtoolReset,
     LockoutExpires, RefreshExpires, AccessExpires, NoFault, Guessing
<1>2. CASE LockoutExpires(v) /\ u = v
  <2>1. guesses'[u] = 0
    BY <1>2 DEF LockoutExpires, TypeOK
  <2> QED BY <1>1, <2>1, GuessReset
<1>3. CASE ~(LockoutExpires(v) /\ u = v)
  <2>1. attempts'[u] = attempts[u] /\ locked'[u] = locked[u] /\ guesses'[u] = guesses[u]
    BY <1>3 DEF Outside, DbtoolInsert, DbtoolDelete, DbtoolDeactivate, DbtoolReset,
       LockoutExpires, RefreshExpires, AccessExpires, TypeOK
  <2>2. state'[u] = state[u] \/ (state[u] = "none" /\ state'[u] = "active")
        \/ (Exists(u) /\ state'[u] \in {"gone", "inactive"})
    BY DEF Outside, DbtoolInsert, InsertRow, DbtoolDelete, DeleteRow, DbtoolDeactivate,
       DbtoolReset, LockoutExpires, RefreshExpires, AccessExpires, TypeOK
  <2>3. (state'[u] = "none" => state[u] = "none")
        /\ (Exists(u)' => Exists(u) \/ state[u] = "none")
    BY <2>2 DEF Exists
  <2> QED BY <1>1, <2>1, <2>3, GuessKept
<1> QED BY <1>2, <1>3

\* A restart loses the counts of all requests in flight.
LEMMA RestartGuess ==
  ASSUME TypeOK, budget <= MaxFaults, NEW u \in Users, GuessInv(u), Restart
  PROVE  GuessInv(u)'
<1> USE DEF account, lockout, sessions, request
<1>1. UNCHANGED <<state, attempts, locked, guesses>> /\ Fault
  BY DEF Restart
<1>2. Lost \in Nat /\ Lost' = Lost + Cardinality(Sessions)
  BY <1>1, LostType
<1>3. Guessing(u)' = {}
  BY DEF Restart, Guessing
<1>4. Cardinality(Guessing(u))' = 0
  BY <1>3, FS_EmptySet
<1>5. Counted(u)' = Counted(u)
  BY <1>1 DEF Counted
<1> DEFINE N == Cardinality(Sessions)
           G == Cardinality(Guessing(u))
<1>6. /\ N \in Nat /\ G \in Nat /\ G <= N /\ G' = 0 /\ Lost' = Lost + N
      /\ guesses[u] \in Nat /\ Counted(u) \in Nat /\ LockoutThreshold \in Nat
  BY <1>2, <1>4, GuessNumbers, GuessingFinite, ThresholdAssumption
<1>7. /\ guesses'[u] = guesses[u] /\ state'[u] = state[u] /\ locked'[u] = locked[u]
      /\ Exists(u)' <=> Exists(u)
  BY <1>1 DEF Exists
<1> HIDE DEF Lost, N, G
<1>8. Exists(u) /\ ~locked[u] => guesses'[u] <= Counted(u)' + G' + Lost'
  BY <1>2, <1>5, <1>6, <1>7 DEF GuessInv, G
<1>9. guesses'[u] <= LockoutThreshold - 1 + N + Lost'
  BY <1>2, <1>6, <1>7 DEF GuessInv, N
<1> QED
  BY <1>7, <1>8, <1>9 DEF GuessInv, G, N

\* The bound for every user.
GuessesInv == budget <= MaxFaults /\ \A u \in Users : GuessInv(u)

\* Every step keeps the bound.
LEMMA GuessStep ==
  ASSUME TypeOK, TypeOK', GuessesInv, [Next]_vars
  PROVE  GuessesInv'
<1>1. budget <= MaxFaults /\ \A u \in Users : GuessInv(u)
  BY DEF GuessesInv
<1>2. budget' <= MaxFaults
  BY <1>1, FailuresStay
<1>3. ASSUME NEW u \in Users PROVE GuessInv(u)'
  <2>1. CASE UNCHANGED vars
    BY <1>1, <2>1, GuessKept DEF vars, account, lockout, request, Guessing, Exists, NoFault
  <2> QED
    BY <1>1, <2>1, ServeGuess, ArriveGuess, OutsideGuess, RestartGuess DEF Next, Outside
<1> QED BY <1>2, <1>3 DEF GuessesInv

\* The bound as the property states it.
LEMMA GuessBound ==
  ASSUME TypeOK, GuessesInv
  PROVE  BoundedGuesses
<1> DEFINE N == Cardinality(Sessions)
<1>1. N \in Nat /\ budget \in Nat /\ budget <= MaxFaults
  BY GuessingFinite DEF TypeOK, GuessesInv
<1>2. MaxFaults - budget \in Nat
  BY <1>1, FaultAssumption
<1>3. \A n \in Nat : N * (1 + n) = N + N * n
  BY <1>1
<1>4. N * (1 + MaxFaults - budget) = N + Lost
  <2>1. 1 + MaxFaults - budget = 1 + (MaxFaults - budget)
    BY <1>1, FaultAssumption
  <2> QED BY <1>2, <1>3, <2>1 DEF Lost
<1>5. Lost \in Nat
  <2>1. \A n \in Nat : N * n \in Nat
    BY <1>1
  <2> QED BY <1>2, <2>1 DEF Lost
<1>6. ASSUME NEW u \in Users
      PROVE  guesses[u] <= LockoutThreshold - 1 + N * (1 + MaxFaults - budget)
  <2>1. guesses[u] <= LockoutThreshold - 1 + N + Lost
    BY DEF GuessesInv, GuessInv
  <2> HIDE DEF N, Lost
  <2> QED BY <1>1, <1>4, <1>5, <2>1, GuessNumbers, ThresholdAssumption
<1> QED BY <1>6 DEF BoundedGuesses

\* However many requests read the row before any failure was counted, the wrong
\* passwords compared before a lockout, or between two, are bounded by the
\* threshold, the requests in flight and the failures (handleUserLogin,
\* RecordFailedAttempt).
THEOREM GuessesBounded == Spec => []BoundedGuesses
<1>1. Init => GuessesInv
  <2> SUFFICES ASSUME Init PROVE GuessesInv
    OBVIOUS
  <2>1. TypeOK /\ budget = MaxFaults
    BY TypeInit DEF Init
  <2>2. Lost \in Nat
    <3>1. \A n \in Nat : n * 0 = 0
      OBVIOUS
    <3> QED BY <2>1, <3>1, GuessingFinite, FaultAssumption DEF Lost
  <2>3. \A u \in Users : guesses[u] = 0 /\ state[u] = "none"
    BY DEF Init
  <2>4. budget <= MaxFaults
    BY <2>1, FaultAssumption
  <2> QED
    BY <2>1, <2>2, <2>3, <2>4, GuessingFinite, ThresholdAssumption
    DEF GuessesInv, GuessInv, Exists
<1> QED BY <1>1, TypeCorrect, GuessStep, GuessBound, PTL DEF Spec
=================================================================================
