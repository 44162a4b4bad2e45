------------------------------- MODULE UserAuth -------------------------------
(***************************************************************************)
(* The UI users of a tenant: login with lockout, access and refresh        *)
(* tokens, logout, and user management by the REST handlers (src/apis) and *)
(* by dbtool (src/db).                                                     *)
(*                                                                         *)
(* Every handler is a goroutine that issues SQL statements one at a time,  *)
(* with no transaction around them: a statement is a step, and requests    *)
(* interleave between any two.  A handler acts on the row it read at its   *)
(* first statement.                                                        *)
(*                                                                         *)
(* A password is right or wrong for the row a login reads.  A user has, or *)
(* has not, a refresh token that is neither revoked nor expired, and an    *)
(* access JWT that has not expired: how many does not matter.  Requests    *)
(* that are refused before they write anything (401, 403, 404; a locked or *)
(* inactive account) leave no trace but an audit row and are no step.      *)
(***************************************************************************)
EXTENDS Integers, FiniteSets

CONSTANTS
  Users,             \* user_ids; each has an e-mail of its own
  Sessions,          \* requests that may be in flight at once
  NoUser,            \* no user: a request that has ended
  OtherAdmin,        \* an administrator of the tenant who is not among Users
  LockoutThreshold,  \* lockoutThreshold
  MaxFaults          \* bound on failed statements and server restarts

ASSUME SessionsAssumption  == IsFiniteSet(Sessions)
ASSUME NoUserAssumption    == NoUser \notin Users
ASSUME AdminAssumption     == OtherAdmin \notin Users
ASSUME ThresholdAssumption == LockoutThreshold \in Nat \ {0}
ASSUME FaultAssumption     == MaxFaults \in Nat

VARIABLES
  state,     \* the users row: not inserted, is_active or not, deleted
  admin,     \* role = system_admin
  attempts,  \* failed_attempts, counted up to the threshold
  locked,    \* lockout_until is in the future
  tokens,    \* has a refresh token neither revoked nor expired
  access,    \* has an access JWT that has not expired
  audited,   \* login_audit_log has a success row
  guesses,   \* wrong passwords compared since the lockout last ended
  fresh,     \* a reset has ended, and no failure been counted since
  budget,    \* failures that may still happen
  pc,        \* the statement each request is about to issue
  who        \* the user it issues it for

account  == <<state, admin>>
lockout  == <<attempts, locked, guesses, fresh>>
sessions == <<tokens, access>>
request  == <<pc, who>>
vars     == <<account, lockout, sessions, audited, budget, request>>

States == {"none", "active", "inactive", "gone"}
Labels == {"idle", "RecordFailedAttempt", "ClearLockout", "InsertLoginAuditLog",
           "InsertRefreshToken", "GetUserByUserID", "signJWT",
           "RevokeRefreshTokens", "InsertAdmin", "InsertAnalyst", "DeleteUser",
           "ResetUserPassword", "ClearAfterReset"}

Init ==
  /\ state    = [u \in Users |-> "none"]
  /\ admin    = [u \in Users |-> FALSE]
  /\ attempts = [u \in Users |-> 0]
  /\ locked   = [u \in Users |-> FALSE]
  /\ tokens   = [u \in Users |-> FALSE]
  /\ access   = [u \in Users |-> FALSE]
  /\ audited  = [u \in Users |-> FALSE]
  /\ guesses  = [u \in Users |-> 0]
  /\ fresh    = [u \in Users |-> FALSE]
  /\ budget   = MaxFaults
  /\ pc       = [s \in Sessions |-> "idle"]
  /\ who      = [s \in Sessions |-> NoUser]

(***************************************************************************)
(* Helpers                                                                 *)
(***************************************************************************)

Exists(u) == state[u] \in {"active", "inactive"}

Fault   == budget > 0 /\ budget' = budget - 1
NoFault == UNCHANGED budget

\* The next statement of a request; a request that ends forgets its user.
Goto(s, l) == pc' = [pc EXCEPT ![s] = l] /\ UNCHANGED who
Finish(s)  == /\ pc'  = [pc EXCEPT ![s] = "idle"]
              /\ who' = [who EXCEPT ![s] = NoUser]
Begin(s, u, l) == /\ pc[s] = "idle"
                  /\ pc'  = [pc EXCEPT ![s] = l]
                  /\ who' = [who EXCEPT ![s] = u]

At(s, l) == pc[s] = l

\* Mutant: the threshold is compared with the count before the increment.
CountFailureLate(u) ==
  IF Exists(u)
    THEN /\ attempts' = [attempts EXCEPT ![u] = IF @ < LockoutThreshold THEN @ + 1 ELSE @]
         /\ locked'   = [locked EXCEPT ![u] = @ \/ attempts[u] >= LockoutThreshold]
         /\ fresh'    = [fresh EXCEPT ![u] = FALSE]
    ELSE UNCHANGED <<attempts, locked, fresh>>

\* The UPDATEs of RecordFailedAttempt and ClearLockout; of a row that is gone
\* they change nothing.
CountFailure(u) ==
  IF Exists(u)
    THEN /\ attempts' = [attempts EXCEPT ![u] = IF @ < LockoutThreshold THEN @ + 1 ELSE @]
         /\ locked'   = [locked EXCEPT ![u] = @ \/ attempts[u] + 1 >= LockoutThreshold]
         /\ fresh'    = [fresh EXCEPT ![u] = FALSE]
    ELSE UNCHANGED <<attempts, locked, fresh>>

Unlock(u) ==
  IF Exists(u)
    THEN /\ attempts' = [attempts EXCEPT ![u] = 0]
         /\ locked'   = [locked EXCEPT ![u] = FALSE]
         /\ guesses'  = [guesses EXCEPT ![u] = 0]
    ELSE UNCHANGED <<attempts, locked, guesses>>

(***************************************************************************)
(* handleUserLogin                                                         *)
(***************************************************************************)

\* GetUserByEmail, the checks of is_active and of lockout_until on the row it
\* returned, and bcrypt's comparison with that row's hash.
LoginReads(s, u, right) ==
  /\ state[u] = "active"
  /\ ~locked[u]
  /\ Begin(s, u, IF right THEN "ClearLockout" ELSE "RecordFailedAttempt")
  /\ guesses' = [guesses EXCEPT ![u] = IF right THEN @ ELSE @ + 1]
  /\ NoFault
  /\ UNCHANGED <<account, attempts, locked, fresh, sessions, audited>>

\* Its error is not looked at.
RecordFailedAttempt(s) ==
  /\ At(s, "RecordFailedAttempt")
  /\ \/ CountFailure(who[s]) /\ NoFault
     \/ Fault /\ UNCHANGED <<attempts, locked, fresh>>
  /\ Finish(s)
  /\ UNCHANGED <<account, guesses, sessions, audited>>

\* Nor is this one's.
ClearLockout(s) ==
  /\ At(s, "ClearLockout")
  /\ \/ Unlock(who[s]) /\ UNCHANGED fresh /\ NoFault
     \/ Fault /\ UNCHANGED lockout
  /\ Goto(s, "InsertLoginAuditLog")
  /\ UNCHANGED <<account, sessions, audited>>

\* Mutant: success is not audited.
InsertLoginAuditLogSkipped(s) ==
  /\ At(s, "InsertLoginAuditLog")
  /\ Goto(s, "InsertRefreshToken")
  /\ NoFault
  /\ UNCHANGED <<account, lockout, sessions, audited>>

\* The success row; an error is only logged.
InsertLoginAuditLog(s) ==
  /\ At(s, "InsertLoginAuditLog")
  /\ \/ audited' = [audited EXCEPT ![who[s]] = TRUE] /\ NoFault
     \/ Fault /\ UNCHANGED audited
  /\ Goto(s, "InsertRefreshToken")
  /\ UNCHANGED <<account, lockout, sessions>>

\* Mutant: refresh_tokens.user_id references nothing.
InsertRefreshTokenUnreferenced(s) ==
  /\ At(s, "InsertRefreshToken")
  /\ tokens' = [tokens EXCEPT ![who[s]] = TRUE]
  /\ access' = [access EXCEPT ![who[s]] = TRUE]
  /\ NoFault
  /\ Finish(s)
  /\ UNCHANGED <<account, lockout, audited>>

\* The foreign key refuses a user deleted meanwhile (500), and the JWT signed
\* before is handed out only with the refresh token.
InsertRefreshToken(s) ==
  /\ At(s, "InsertRefreshToken")
  /\ \/ /\ Exists(who[s])
        /\ tokens' = [tokens EXCEPT ![who[s]] = TRUE]
        /\ access' = [access EXCEPT ![who[s]] = TRUE]
        /\ NoFault
     \/ ~Exists(who[s]) /\ NoFault /\ UNCHANGED sessions
     \/ Fault /\ UNCHANGED sessions
  /\ Finish(s)
  /\ UNCHANGED <<account, lockout, audited>>

(***************************************************************************)
(* handleAccessTokenRefresh                                                *)
(***************************************************************************)

\* GetRefreshToken, and the checks of revoked and expires_at.
GetRefreshToken(s, u) ==
  /\ tokens[u]
  /\ Begin(s, u, "GetUserByUserID")
  /\ NoFault
  /\ UNCHANGED <<account, lockout, sessions, audited>>

\* Mutants: is_active is not looked at; the return after a missing user is
\* forgotten.
GetUserByUserIDUnchecked(s) ==
  /\ At(s, "GetUserByUserID") /\ Goto(s, "signJWT")
  /\ NoFault
  /\ UNCHANGED <<account, lockout, sessions, audited>>
GetUserByUserIDGoesOn(s) ==
  /\ At(s, "GetUserByUserID")
  /\ pc' = [pc EXCEPT ![s] = "signJWT"]
  /\ who' = [who EXCEPT ![s] = IF state[@] = "active" THEN @ ELSE NoUser]
  /\ NoFault
  /\ UNCHANGED <<account, lockout, sessions, audited>>

\* GetUserByUserID and the check of is_active.
GetUserByUserID(s) ==
  /\ At(s, "GetUserByUserID")
  /\ IF state[who[s]] = "active" THEN Goto(s, "signJWT") ELSE Finish(s)
  /\ NoFault
  /\ UNCHANGED <<account, lockout, sessions, audited>>

\* UpdateRefreshTokenLastUsed and signJWT, from the row just read.
SignJWT(s) ==
  /\ At(s, "signJWT")
  /\ access' = [access EXCEPT ![who[s]] = TRUE]
  /\ Finish(s)
  /\ NoFault
  /\ UNCHANGED <<account, lockout, tokens, audited>>

(***************************************************************************)
(* Handlers behind requireJWT                                              *)
(***************************************************************************)

\* Whose access JWT has not expired, and who is an administrator by it.
SignedIn(caller) == IF caller = OtherAdmin THEN TRUE ELSE access[caller]
IsAdmin(caller)  == IF caller = OtherAdmin THEN TRUE ELSE admin[caller]

\* The role checks of handleCreateUser, handleDeleteUser and
\* handleResetPassword, on the claims of the JWT: the caller's row is not read.
Allowed(caller, u, l) ==
  CASE l = "RevokeRefreshTokens" -> caller = u
    [] l \in {"InsertAdmin", "InsertAnalyst"} -> IsAdmin(caller)
    [] l = "DeleteUser" -> IsAdmin(caller) /\ caller # u
    [] l = "ResetUserPassword" -> IsAdmin(caller) \/ caller = u

\* requireJWT, then the handler up to its first statement.
Authorize(s, caller, u) ==
  /\ SignedIn(caller)
  /\ \E l \in {"RevokeRefreshTokens", "InsertAdmin", "InsertAnalyst", "DeleteUser",
               "ResetUserPassword"} :
       Allowed(caller, u, l) /\ Begin(s, u, l)
  /\ NoFault
  /\ UNCHANGED <<account, lockout, sessions, audited>>

\* handleUserLogout.
RevokeRefreshTokens(s) ==
  /\ At(s, "RevokeRefreshTokens")
  /\ \/ tokens' = [tokens EXCEPT ![who[s]] = FALSE] /\ NoFault
     \/ Fault /\ UNCHANGED tokens
  /\ Finish(s)
  /\ UNCHANGED <<account, lockout, access, audited>>

\* The rows the statements write.
InsertRow(u, isAdmin) ==
  /\ state[u] = "none"
  /\ state' = [state EXCEPT ![u] = "active"]
  /\ admin' = [admin EXCEPT ![u] = isAdmin]

\* ON DELETE CASCADE takes the refresh tokens.  The JWT and its role live on.
DeleteRow(u) ==
  /\ state'  = [state EXCEPT ![u] = IF Exists(u) THEN "gone" ELSE @]
  /\ tokens' = [tokens EXCEPT ![u] = FALSE]

\* handleCreateUser: a taken e-mail is refused by the unique index (409).
CreateUser(s) ==
  /\ pc[s] \in {"InsertAdmin", "InsertAnalyst"}
  /\ \/ InsertRow(who[s], At(s, "InsertAdmin")) /\ NoFault
     \/ state[who[s]] # "none" /\ NoFault /\ UNCHANGED account
     \/ Fault /\ UNCHANGED account
  /\ Finish(s)
  /\ UNCHANGED <<lockout, sessions, audited>>

\* handleDeleteUser.
DeleteUser(s) ==
  /\ At(s, "DeleteUser")
  /\ \/ DeleteRow(who[s]) /\ NoFault
     \/ Fault /\ UNCHANGED <<state, tokens>>
  /\ Finish(s)
  /\ UNCHANGED <<admin, lockout, access, audited>>

\* handleResetPassword, its UPDATE: no such user is a 404.
ResetUserPassword(s) ==
  /\ At(s, "ResetUserPassword")
  /\ \/ Exists(who[s]) /\ Goto(s, "ClearAfterReset") /\ NoFault
     \/ ~Exists(who[s]) /\ Finish(s) /\ NoFault
     \/ Fault /\ Finish(s)
  /\ UNCHANGED <<account, lockout, sessions, audited>>

\* handleResetPassword, its ClearLockout, whose error is not looked at.
ClearAfterReset(s) ==
  /\ At(s, "ClearAfterReset")
  /\ \/ Unlock(who[s]) /\ NoFault
     \/ Fault /\ UNCHANGED <<attempts, locked, guesses>>
  /\ fresh' = [fresh EXCEPT ![who[s]] = Exists(who[s])]
  /\ Finish(s)
  /\ UNCHANGED <<account, sessions, audited>>

(***************************************************************************)
(* dbtool, time and the server                                             *)
(***************************************************************************)

\* dbtool insert-user, delete-user, deactivate-user, reset-user-password: one
\* statement each, on the database itself.
DbtoolInsert(u) ==
  /\ \E isAdmin \in BOOLEAN : InsertRow(u, isAdmin)
  /\ UNCHANGED <<lockout, sessions, audited, budget, request>>

DbtoolDelete(u) ==
  /\ Exists(u) /\ DeleteRow(u)
  /\ UNCHANGED <<admin, lockout, access, audited, budget, request>>

DbtoolDeactivate(u) ==
  /\ Exists(u)
  /\ state' = [state EXCEPT ![u] = "inactive"]
  /\ UNCHANGED <<admin, lockout, sessions, audited, budget, request>>

\* ResetUserPassword and nothing else: the new hash is all that changes.
DbtoolReset(u) ==
  /\ Exists(u)
  /\ fresh' = [fresh EXCEPT ![u] = TRUE]
  /\ UNCHANGED <<account, attempts, locked, guesses, sessions, audited, budget, request>>

\* lockout_until passes; failed_attempts stays.
LockoutExpires(u) ==
  /\ locked[u]
  /\ locked'  = [locked EXCEPT ![u] = FALSE]
  /\ guesses' = [guesses EXCEPT ![u] = 0]
  /\ UNCHANGED <<account, attempts, fresh, sessions, audited, budget, request>>

\* The last refresh token, or access JWT, of a user expires.
RefreshExpires(u) ==
  /\ tokens[u]
  /\ tokens' = [tokens EXCEPT ![u] = FALSE]
  /\ UNCHANGED <<account, lockout, access, audited, budget, request>>

AccessExpires(u) ==
  /\ access[u]
  /\ access' = [access EXCEPT ![u] = FALSE]
  /\ UNCHANGED <<account, lockout, tokens, audited, budget, request>>

\* The server is restarted: requests in flight end between two statements.
Restart ==
  /\ Fault
  /\ \E s \in Sessions : pc[s] # "idle"
  /\ pc'  = [s \in Sessions |-> "idle"]
  /\ who' = [s \in Sessions |-> NoUser]
  /\ UNCHANGED <<account, lockout, sessions, audited>>

(***************************************************************************)
(* Specification                                                           *)
(***************************************************************************)

\* A request in flight issues its next statement.
Serve(s) ==
  \/ RecordFailedAttempt(s) \/ ClearLockout(s)      \/ InsertLoginAuditLog(s)
  \/ InsertRefreshToken(s)  \/ GetUserByUserID(s)   \/ SignJWT(s)
  \/ RevokeRefreshTokens(s) \/ CreateUser(s)        \/ DeleteUser(s)
  \/ ResetUserPassword(s)   \/ ClearAfterReset(s)

Arrive(s, u) ==
  \/ \E right \in BOOLEAN : LoginReads(s, u, right)
  \/ GetRefreshToken(s, u)
  \/ \E caller \in Users \cup {OtherAdmin} : Authorize(s, caller, u)

Next ==
  \/ \E s \in Sessions : Serve(s) \/ \E u \in Users : Arrive(s, u)
  \/ \E u \in Users : \/ DbtoolInsert(u) \/ DbtoolDelete(u) \/ DbtoolDeactivate(u)
                      \/ DbtoolReset(u)  \/ LockoutExpires(u)
                      \/ RefreshExpires(u) \/ AccessExpires(u)
  \/ Restart

Spec == Init /\ [][Next]_vars

\* The Go runtime runs every handler on, and time passes: an access JWT
\* expires.  Nobody is obliged to send a request.
FairSpec ==
  /\ Spec
  /\ \A s \in Sessions : WF_vars(Serve(s))
  /\ \A u \in Users : WF_vars(AccessExpires(u))

(***************************************************************************)
(* Properties                                                              *)
(***************************************************************************)

\* The types of the accounts' state.
TypeOK ==
  /\ state \in [Users -> States]
  /\ admin \in [Users -> BOOLEAN]
  /\ attempts \in [Users -> 0..LockoutThreshold]
  /\ locked \in [Users -> BOOLEAN]
  /\ fresh \in [Users -> BOOLEAN]
  /\ guesses \in [Users -> Nat]
  /\ tokens \in [Users -> BOOLEAN]
  /\ access \in [Users -> BOOLEAN]
  /\ audited \in [Users -> BOOLEAN]
  /\ budget \in Nat
  /\ pc \in [Sessions -> Labels]
  /\ who \in [Sessions -> Users \cup {NoUser}]
  /\ \A s \in Sessions : pc[s] # "idle" => who[s] \in Users

\* How many wrong passwords are compared before a lockout, or between two, when
\* every request may have read the row before any failure was counted: one
\* more than the threshold allows for each other request in flight, and what
\* the requests lose whose count fails or is cut short.
BoundedGuesses ==
  \A u \in Users :
    guesses[u] <= LockoutThreshold - 1
                  + Cardinality(Sessions) * (1 + MaxFaults - budget)

\* No refresh token outlives its user, whichever request was issuing one when
\* the user was deleted.
TokensHaveUsers == \A u \in Users : tokens[u] => Exists(u)

\* Who is signed in has a success row in login_audit_log, unless a statement
\* failed: the row comes before the tokens.
SignInsAudited ==
  budget = MaxFaults => \A u \in Users : tokens[u] \/ access[u] => audited[u]

\* Logout, deactivation and deletion take hold: once a user has no usable
\* refresh token, or is not active, for good, the requests in flight end, the
\* last access JWT expires and no other is issued.
SignOutTakesHold ==
  \A u \in Users : <>[](~tokens[u] \/ state[u] # "active") => <>[]~access[u]

\* docs/hndr-api.yaml:29-30 says "After 3 consecutive failures the account is
\* locked for 10 minutes": only their passing, or a password reset, ends a
\* lockout.
LockoutLasts ==
  [][\A u \in Users :
       locked[u] /\ ~locked'[u] =>
         LockoutExpires(u) \/ \E s \in Sessions : ClearAfterReset(s)]_vars

\* handlers_auth.go:362-363 says ClearLockout clears lockout_until "on successful
\* authentication or an admin password reset": after a reset, and until another
\* failure is counted, the user is not locked out.
ResetUnlocks == \A u \in Users : fresh[u] => ~locked[u]
===============================================================================
