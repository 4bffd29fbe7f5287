------------------------ MODULE AuthSessions_proofs ------------------------
(***************************************************************************)
(* Proofs about AuthSessions, for any sets of requests, accounts and       *)
(* organizations.                                                          *)
(***************************************************************************)
EXTENDS AuthSessions, TLAPS

-----------------------------------------------------------------------------
(* What each handler knows at each of its points.                          *)

\* Before it arrives a request has issued nothing, and a reply ends a handler.
IdleInv == \A r \in Requests :
    /\ pc[r] = "idle" => kind[r] = None /\ tokens[r] = None
    /\ pc[r] # "done" => reply[r] = "none"

\* A registration knows its account, and the role once the row is inserted.
RegisterInv == \A r \in Requests :
    (kind[r] = "register" \/ pc[r] = "inserted") =>
        /\ user[r] \in Users
        /\ org[r] \in Orgs
        /\ kind[r] = "register"
        /\ pc[r] \in {"begun", "inserted", "done"}
        /\ pc[r] = "inserted" =>
              /\ role[r] \in Roles
              /\ users[user[r]] = None
              /\ \A q \in Requests : (pc[q] = "inserted" /\ user[q] = user[r]) => q = r

\* A login that passed its checks found the account in its organization.
LoginInv == \A r \in Requests :
    kind[r] = "login" =>
        /\ user[r] \in Users
        /\ org[r] \in Orgs
        /\ pc[r] \in {"begun", "selected", "done"}
        /\ pc[r] = "selected" => /\ users[user[r]] # None
                                 /\ users[user[r]].org = org[r]

\* A refresh or logout presents a token that exists; once a refresh selected
\* it, the handler works on its account and the organization of the payload.
PresentInv == \A r \in Requests :
    kind[r] \in {"refresh", "logout"} =>
        /\ arg[r] \in Requests
        /\ tokens[arg[r]] # None
        /\ org[r] \in Orgs
        /\ (kind[r] = "refresh" /\ (pc[r] \in {"selected", "updated"} \/ tokens[r] # None)) =>
              tokens[arg[r]].org = org[r] /\ tokens[arg[r]].user = user[r]

\* An enrollment acts for the account of the claims it presents.
EnrollInv == \A r \in Requests :
    kind[r] = "enroll" =>
        /\ arg[r] \in Requests
        /\ kind[arg[r]] \in Issuers
        /\ tokens[arg[r]] # None
        /\ user[r] = user[arg[r]]
        /\ pc[r] \in {"begun", "updated", "done"}

\* A token exists exactly when the issuing transaction has committed, and
\* names the account of its request, which exists.
IssuedInv == \A r \in Requests :
    tokens[r] # None =>
        /\ pc[r] = "done"
        /\ kind[r] \in Issuers
        /\ user[r] \in Users
        /\ tokens[r].org = org[r]
        /\ tokens[r].user = user[r]
        /\ users[user[r]] # None
        /\ users[user[r]].org = org[r]
        /\ tokens[r].from = IF kind[r] = "refresh" THEN arg[r] ELSE None

\* What a client holds was committed.
HeldInv == \A r \in HeldTokens : tokens[r] # None

\* A secret was generated for the account that has it.
SecretInv == \A u \in Users :
    (users[u] # None /\ users[u].secret # None) =>
        kind[users[u].secret] = "enroll" /\ user[users[u].secret] = u

\* A rotation or a logout that took effect leaves its token revoked.
EffectInv == \A r \in Requests : TookEffect(r) => tokens[arg[r]].revoked

\* A refresh that arrived after one of them never gets past its SELECT.
BeforeInv == \A q \in Requests : \A r \in before[q] :
    /\ pc[r] = "done"
    /\ kind[r] \in {"refresh", "logout"}
    /\ arg[r] = arg[q]
    /\ (kind[q] = "refresh" /\ TookEffect(r)) =>
          pc[q] \in {"begun", "done"} /\ tokens[q] = None

LocalInv == IdleInv /\ RegisterInv /\ LoginInv /\ PresentInv /\ EnrollInv
TableInv == IssuedInv /\ HeldInv /\ SecretInv
HistoryInv == EffectInv /\ BeforeInv

\* The inductive invariant.
IInv == TypeOK /\ LocalInv /\ TableInv /\ HistoryInv


USE NoneAssumption DEF NoneAssumption

\* Revoking a row leaves a row with the same identity.
LEMMA RowRevoked ==
    ASSUME NEW row \in Row
    PROVE  LET new == Revoke(row) IN
           /\ new \in Row
           /\ new # None
           /\ new.user = row.user /\ new.org = row.org /\ new.from = row.from
           /\ new.revoked
  BY DEF Revoke, Row

\* So does expiring it.
LEMMA RowExpired ==
    ASSUME NEW row \in Row
    PROVE  LET new == [row EXCEPT !.expired = TRUE] IN
           /\ new \in Row
           /\ new # None
           /\ new.user = row.user /\ new.org = row.org /\ new.from = row.from
           /\ new.revoked = row.revoked
  BY DEF Row

\* Changing the secret or the role of an account keeps the rest.
LEMMA SecretUpdate ==
    ASSUME NEW acct \in Account, NEW s \in Requests
    PROVE  LET new == [acct EXCEPT !.secret = s] IN
           new \in Account /\ new # None /\ new.org = acct.org /\ new.secret = s
  BY DEF Account

LEMMA RoleUpdate ==
    ASSUME NEW acct \in Account, NEW ro \in Roles
    PROVE  LET new == [acct EXCEPT !.role = ro] IN
           new \in Account /\ new # None /\ new.org = acct.org /\ new.secret = acct.secret
  BY DEF Account

\* The claims an enrollment presents are those of an existing account.
LEMMA EnrolledAccount ==
    ASSUME IInv, NEW r \in Requests, kind[r] = "enroll"
    PROVE  user[r] \in Users /\ users[user[r]] \in Account
  <1>1. /\ arg[r] \in Requests
        /\ tokens[arg[r]] \in Row
        /\ user[r] = user[arg[r]]
    BY DEF IInv, LocalInv, TableInv, HistoryInv, TypeOK, EnrollInv
  <1>2. user[r] = tokens[arg[r]].user /\ users[user[r]] # None
    BY <1>1 DEF IInv, LocalInv, TableInv, HistoryInv, IssuedInv
  <1> QED
    BY <1>1, <1>2 DEF IInv, LocalInv, TableInv, HistoryInv, TypeOK, Row

LEMMA InitInv == Init => IInv
  <1> SUFFICES ASSUME Init PROVE IInv
    OBVIOUS
  <1> USE DEF Init
  <1>1. TypeOK
    BY DEF TypeOK
  <1>2. IdleInv /\ RegisterInv /\ LoginInv /\ PresentInv /\ EnrollInv
    BY DEF IdleInv, RegisterInv, LoginInv, PresentInv, EnrollInv, Kinds
  <1>3. IssuedInv /\ HeldInv /\ SecretInv
    BY DEF IssuedInv, HeldInv, HeldTokens, Held, SecretInv, Issuers, Kinds
  <1>4. EffectInv /\ BeforeInv
    BY DEF EffectInv, BeforeInv, TookEffect, Rotated, Kinds
  <1> QED
    BY <1>1, <1>2, <1>3, <1>4 DEF IInv, LocalInv, TableInv, HistoryInv

LEMMA TypeStep == TypeOK /\ IInv /\ [Next]_vars => TypeOK'
  <1> SUFFICES ASSUME IInv, [Next]_vars PROVE TypeOK'
    OBVIOUS
  <1> USE DEF IInv, LocalInv, TableInv, HistoryInv, TypeOK, payload, Account, Row, Kinds, Roles, Finish, Committed
  <1>1. ASSUME NEW r \in Requests, ArriveRegister(r) PROVE TypeOK'
    BY <1>1 DEF ArriveRegister, Arrive, AnsweredFor
  <1>2. ASSUME NEW r \in Requests, ArriveLogin(r) PROVE TypeOK'
    BY <1>2 DEF ArriveLogin, Arrive, AnsweredFor, HeldSecrets
  <1>3. ASSUME NEW r \in Requests, ArriveRefresh(r) PROVE TypeOK'
    BY <1>3 DEF ArriveRefresh, Arrive, AnsweredFor, HeldTokens
  <1>4. ASSUME NEW r \in Requests, ArriveLogout(r) PROVE TypeOK'
    BY <1>4 DEF ArriveLogout, Arrive, AnsweredFor, HeldTokens
  <1>5. ASSUME NEW r \in Requests, ArriveEnroll(r) PROVE TypeOK'
    BY <1>5 DEF ArriveEnroll, Arrive, AnsweredFor, HeldTokens
  <1>6. ASSUME NEW r \in Requests, Fail(r) PROVE TypeOK'
    BY <1>6 DEF Fail
  <1>7. ASSUME NEW r \in Requests, RegisterInsert(r) PROVE TypeOK'
    BY <1>7 DEF RegisterInsert
  <1>8. ASSUME NEW r \in Requests, RegisterConflict(r) PROVE TypeOK'
    BY <1>8 DEF RegisterConflict
  <1>9. ASSUME NEW r \in Requests, RegisterCommit(r) PROVE TypeOK'
    BY <1>9 DEF RegisterCommit, RegisterInv, NewRow
  <1>10. ASSUME NEW r \in Requests, LoginSelect(r) PROVE TypeOK'
    BY <1>10 DEF LoginSelect, LoginInv
  <1>11. ASSUME NEW r \in Requests, LoginIssue(r) PROVE TypeOK'
    BY <1>11 DEF LoginIssue, LoginInv, NewRow
  <1>12. ASSUME NEW r \in Requests, RefreshSelect(r) PROVE TypeOK'
    BY <1>12 DEF RefreshSelect, PresentInv, IssuedInv
  <1>13. ASSUME NEW r \in Requests, RefreshUpdate(r) PROVE TypeOK'
    BY <1>13 DEF RefreshUpdate
  <1>14. ASSUME NEW r \in Requests, RefreshCommit(r) PROVE TypeOK'
    <2>1. arg[r] \in Requests /\ tokens[arg[r]] \in Row
      BY <1>14 DEF RefreshCommit, PresentInv
    <2>2. Revoke(tokens[arg[r]]) \in Row
      BY <2>1, RowRevoked
    <2>3. NewRow(user[r], tokens[arg[r]].org, arg[r]) \in Row
      BY <1>14, <2>1 DEF RefreshCommit, PresentInv, NewRow
    <2> QED
      BY <1>14, <2>1, <2>2, <2>3 DEF RefreshCommit
  <1>15. ASSUME NEW r \in Requests, LogoutUpdate(r) PROVE TypeOK'
    BY <1>15 DEF LogoutUpdate
  <1>16. ASSUME NEW r \in Requests, LogoutCommit(r) PROVE TypeOK'
    <2>1. arg[r] \in Requests /\ tokens[arg[r]] \in Row
      BY <1>16 DEF LogoutCommit, PresentInv
    <2>2. Revoke(tokens[arg[r]]) \in Row
      BY <2>1, RowRevoked
    <2> QED
      BY <1>16, <2>1, <2>2 DEF LogoutCommit
  <1>17. ASSUME NEW r \in Requests, LogoutNoEffect(r) PROVE TypeOK'
    BY <1>17 DEF LogoutNoEffect
  <1>18. ASSUME NEW r \in Requests, EnrollUpdate(r) PROVE TypeOK'
    BY <1>18 DEF EnrollUpdate
  <1>19. ASSUME NEW r \in Requests, EnrollCommit(r) PROVE TypeOK'
    BY <1>19, EnrolledAccount, SecretUpdate DEF EnrollCommit
  <1>20. ASSUME NEW t \in Requests, ExpireRefresh(t) PROVE TypeOK'
    <2>1. tokens[t] \in Row
      BY <1>20 DEF ExpireRefresh
    <2>2. [tokens[t] EXCEPT !.expired = TRUE] \in Row
      BY <2>1, RowExpired
    <2> QED
      BY <1>20, <2>1, <2>2 DEF ExpireRefresh
  <1>21. ASSUME NEW t \in Requests, ExpireAccess(t) PROVE TypeOK'
    BY <1>21 DEF ExpireAccess
  <1>22. ASSUME NEW u \in Users, SetRole(u) PROVE TypeOK'
    BY <1>22 DEF SetRole
  <1>23. ASSUME UNCHANGED vars PROVE TypeOK'
    BY <1>23 DEF vars
  <1> QED
    BY <1>1, <1>2, <1>3, <1>4, <1>5, <1>6, <1>7, <1>8, <1>9, <1>10, <1>11, <1>12,
       <1>13, <1>14, <1>15, <1>16, <1>17, <1>18, <1>19, <1>20, <1>21, <1>22, <1>23
    DEF Next, Arrival, Step, Register, Login, Refresh, Logout, Enroll, Environment
\* The transaction that writes is open, so its request has issued nothing yet.
LEMMA RowsKept == IInv /\ [Next]_vars => RowsAreKept
  <1> SUFFICES ASSUME IInv, [Next]_vars PROVE RowsAreKept
    OBVIOUS
  <1> USE DEF RowsAreKept, IInv, LocalInv, TableInv, HistoryInv, TypeOK, Finish, Committed
  <1>1. ASSUME NEW r \in Requests, RegisterCommit(r) PROVE RowsAreKept
    BY <1>1 DEF RegisterCommit, RegisterInv, IssuedInv
  <1>2. ASSUME NEW r \in Requests, LoginIssue(r) PROVE RowsAreKept
    BY <1>2 DEF LoginIssue, IssuedInv
  <1>3. ASSUME NEW r \in Requests, RefreshCommit(r) PROVE RowsAreKept
    <2>1. arg[r] \in Requests /\ tokens[arg[r]] \in Row /\ tokens[r] = None
      BY <1>3 DEF RefreshCommit, PresentInv, IssuedInv
    <2>2. ASSUME NEW t \in Requests, tokens[t] # None
          PROVE  tokens'[t] \in {tokens[t], Revoke(tokens[t])}
      BY <1>3, <2>1, <2>2 DEF RefreshCommit
    <2> QED
      BY <1>3, <2>2, RowRevoked DEF RefreshCommit
  <1>4. ASSUME NEW r \in Requests, LogoutCommit(r) PROVE RowsAreKept
    <2>1. arg[r] \in Requests /\ tokens[arg[r]] \in Row
      BY <1>4 DEF LogoutCommit, PresentInv
    <2>2. ASSUME NEW t \in Requests, tokens[t] # None
          PROVE  tokens'[t] \in {tokens[t], Revoke(tokens[t])}
      BY <1>4, <2>1, <2>2 DEF LogoutCommit
    <2> QED
      BY <1>4, <2>2, RowRevoked DEF LogoutCommit
  <1>5. ASSUME NEW r \in Requests, EnrollCommit(r) PROVE RowsAreKept
    <2>1. user[r] \in Users /\ users[user[r]] \in Account
      BY <1>5, EnrolledAccount DEF EnrollCommit
    <2> QED
      BY <1>5, <2>1, SecretUpdate DEF EnrollCommit
  <1>6. ASSUME NEW t \in Requests, ExpireRefresh(t) PROVE RowsAreKept
    <2>1. tokens[t] \in Row
      BY <1>6 DEF ExpireRefresh
    <2> QED
      BY <1>6, <2>1, RowExpired DEF ExpireRefresh
  <1>7. ASSUME NEW u \in Users, SetRole(u) PROVE RowsAreKept
    <2>1. users[u] \in Account
      BY <1>7 DEF SetRole
    <2>2. PICK ro \in Roles : users' = [users EXCEPT ![u].role = ro]
      BY <1>7 DEF SetRole
    <2> QED
      BY <1>7, <2>1, <2>2, RoleUpdate DEF SetRole
  <1>8. UNCHANGED <<users, tokens>> => RowsAreKept
    OBVIOUS
  <1> QED
    BY <1>1, <1>2, <1>3, <1>4, <1>5, <1>6, <1>7, <1>8
    DEF Next, Arrival, Step, Register, Login, Refresh, Logout, Enroll, Environment,
        ArriveRegister, ArriveLogin, ArriveRefresh, ArriveLogout, ArriveEnroll, Arrive,
        Fail, RegisterInsert, RegisterConflict, LoginSelect, RefreshSelect,
        RefreshUpdate, LogoutUpdate, LogoutNoEffect, EnrollUpdate, ExpireAccess, vars

LEMMA HandlerStep == IInv /\ [Next]_vars => LocalInv'
  <1> SUFFICES ASSUME IInv, [Next]_vars PROVE LocalInv'
    OBVIOUS
  <1> USE DEF IInv, LocalInv, TableInv, HistoryInv, TypeOK, payload, Kinds, Issuers, Held, HeldTokens, HeldInv, IdleInv, RegisterInv, LoginInv, PresentInv, EnrollInv, IssuedInv
  <1>1. ASSUME NEW r \in Requests, ArriveRegister(r) PROVE LocalInv'
    BY <1>1 DEF ArriveRegister, Arrive, AnsweredFor
  <1>2. ASSUME NEW r \in Requests, ArriveLogin(r) PROVE LocalInv'
    BY <1>2 DEF ArriveLogin, Arrive, AnsweredFor, HeldSecrets
  <1>3. ASSUME NEW r \in Requests, ArriveRefresh(r) PROVE LocalInv'
    BY <1>3 DEF ArriveRefresh, Arrive, AnsweredFor
  <1>4. ASSUME NEW r \in Requests, ArriveLogout(r) PROVE LocalInv'
    BY <1>4 DEF ArriveLogout, Arrive, AnsweredFor
  <1>5. ASSUME NEW r \in Requests, ArriveEnroll(r) PROVE LocalInv'
    BY <1>5 DEF ArriveEnroll, Arrive, AnsweredFor
  <1>6. ASSUME NEW r \in Requests, Fail(r) PROVE LocalInv'
    BY <1>6 DEF Fail, Finish
  <1>7. ASSUME NEW r \in Requests, RegisterInsert(r) PROVE LocalInv'
    <2>1. /\ pc' = [pc EXCEPT ![r] = "inserted"]
          /\ role' = [role EXCEPT ![r] = "member"]
          /\ kind[r] = "register"
          /\ pc[r] = "begun"
          /\ users[user[r]] = None
          /\ \A q \in Requests : pc[q] = "inserted" => user[q] # user[r]
          /\ UNCHANGED <<users, tokens, kind, org, user, arg, before, reply, lapsed>>
      BY <1>7 DEF RegisterInsert, EmailLocked
    <2>2. RegisterInv'
      BY <2>1 DEF Roles
    <2> QED
      BY <2>1, <2>2
  <1>8. ASSUME NEW r \in Requests, RegisterConflict(r) PROVE LocalInv'
    BY <1>8 DEF RegisterConflict, Finish
  <1>9. ASSUME NEW r \in Requests, RegisterCommit(r) PROVE LocalInv'
    BY <1>9 DEF RegisterCommit, Committed, Finish, NewRow
  <1>10. ASSUME NEW r \in Requests, LoginSelect(r) PROVE LocalInv'
    BY <1>10 DEF LoginSelect
  <1>11. ASSUME NEW r \in Requests, LoginIssue(r) PROVE LocalInv'
    BY <1>11 DEF LoginIssue, Committed, Finish, NewRow
  <1>12. ASSUME NEW r \in Requests, RefreshSelect(r) PROVE LocalInv'
    BY <1>12 DEF RefreshSelect, Refreshable
  <1>13. ASSUME NEW r \in Requests, RefreshUpdate(r) PROVE LocalInv'
    BY <1>13 DEF RefreshUpdate
  <1>14. ASSUME NEW r \in Requests, RefreshCommit(r) PROVE LocalInv'
    <2>1. /\ tokens[r] = None /\ arg[r] # r /\ arg[r] \in Requests
          /\ tokens[arg[r]] # None
          /\ tokens[arg[r]].org = org[r] /\ tokens[arg[r]].user = user[r]
      BY <1>14 DEF RefreshCommit
    <2>2. /\ RowsAreKept
          /\ \A t \in Requests \ {r} : tokens[t] = None => tokens'[t] = None
      BY <1>14, <2>1, RowsKept DEF RefreshCommit
    <2>3. /\ kind[r] = "refresh"
          /\ pc' = [pc EXCEPT ![r] = "done"]
          /\ reply' \in {[reply EXCEPT ![r] = "ok"], [reply EXCEPT ![r] = "lost"]}
          /\ UNCHANGED <<users, kind, org, user, arg, before, role, lapsed>>
      BY <1>14 DEF RefreshCommit, Committed, Finish
    <2>4. IdleInv' /\ RegisterInv' /\ LoginInv'
      BY <2>1, <2>2, <2>3 DEF RowsAreKept
    <2>5. PresentInv'
      BY <2>1, <2>2, <2>3 DEF RowsAreKept
    <2>6. EnrollInv'
      BY <2>2, <2>3 DEF RowsAreKept
    <2> QED
      BY <2>4, <2>5, <2>6
  <1>15. ASSUME NEW r \in Requests, LogoutUpdate(r) PROVE LocalInv'
    BY <1>15 DEF LogoutUpdate
  <1>16. ASSUME NEW r \in Requests, LogoutCommit(r) PROVE LocalInv'
    <2>1. /\ RowsAreKept
          /\ \A t \in Requests : tokens[t] = None => tokens'[t] = None
      BY <1>16, RowsKept DEF LogoutCommit
    <2>2. /\ kind[r] = "logout"
          /\ pc' = [pc EXCEPT ![r] = "done"]
          /\ reply' \in {[reply EXCEPT ![r] = "ok"], [reply EXCEPT ![r] = "lost"]}
          /\ UNCHANGED <<users, kind, org, user, arg, before, role, lapsed>>
      BY <1>16 DEF LogoutCommit, Committed, Finish
    <2> QED
      BY <2>1, <2>2 DEF RowsAreKept
  <1>17. ASSUME NEW r \in Requests, LogoutNoEffect(r) PROVE LocalInv'
    BY <1>17 DEF LogoutNoEffect, Finish
  <1>18. ASSUME NEW r \in Requests, EnrollUpdate(r) PROVE LocalInv'
    BY <1>18 DEF EnrollUpdate
  <1>19. ASSUME NEW r \in Requests, EnrollCommit(r) PROVE LocalInv'
    <2>1. /\ RowsAreKept
          /\ \A v \in Users : users[v] = None => users'[v] = None
      BY <1>19, RowsKept, EnrolledAccount DEF EnrollCommit
    <2>2. /\ kind[r] = "enroll"
          /\ pc' = [pc EXCEPT ![r] = "done"]
          /\ reply' \in {[reply EXCEPT ![r] = "ok"], [reply EXCEPT ![r] = "lost"]}
          /\ UNCHANGED <<tokens, kind, org, user, arg, before, role, lapsed>>
      BY <1>19 DEF EnrollCommit, Committed, Finish
    <2> QED
      BY <2>1, <2>2 DEF RowsAreKept
  <1>20. ASSUME NEW t \in Requests, ExpireRefresh(t) PROVE LocalInv'
    <2>1. /\ RowsAreKept
          /\ \A x \in Requests : tokens[x] = None => tokens'[x] = None
          /\ UNCHANGED <<users, pc, kind, org, arg, before, user, role, reply, lapsed>>
      BY <1>20, RowsKept DEF ExpireRefresh
    <2> QED
      BY <2>1 DEF RowsAreKept
  <1>21. ASSUME NEW t \in Requests, ExpireAccess(t) PROVE LocalInv'
    BY <1>21 DEF ExpireAccess
  <1>22. ASSUME NEW u \in Users, SetRole(u) PROVE LocalInv'
    <2>1. /\ RowsAreKept
          /\ \A v \in Users : users[v] = None => users'[v] = None
          /\ UNCHANGED <<tokens, pc, kind, org, arg, before, user, role, reply, lapsed>>
      BY <1>22, RowsKept DEF SetRole
    <2> QED
      BY <2>1 DEF RowsAreKept
  <1>23. ASSUME UNCHANGED vars PROVE LocalInv'
    BY <1>23 DEF vars
  <1> QED
    BY <1>1, <1>2, <1>3, <1>4, <1>5, <1>6, <1>7, <1>8, <1>9, <1>10, <1>11, <1>12, <1>13, <1>14, <1>15, <1>16, <1>17, <1>18, <1>19, <1>20, <1>21, <1>22, <1>23
    DEF Next, Arrival, Step, Register, Login, Refresh, Logout, Enroll, Environment

LEMMA IssuedStep == IInv /\ [Next]_vars => TableInv'
  <1> SUFFICES ASSUME IInv, [Next]_vars PROVE TableInv'
    OBVIOUS
  <1> USE DEF IInv, LocalInv, TableInv, HistoryInv, TypeOK, payload, Kinds, Issuers, Held, HeldTokens, IdleInv, RegisterInv, LoginInv, PresentInv, EnrollInv, IssuedInv, HeldInv, SecretInv
  <1>1. ASSUME NEW r \in Requests, ArriveRegister(r) PROVE TableInv'
    BY <1>1 DEF ArriveRegister, Arrive, AnsweredFor
  <1>2. ASSUME NEW r \in Requests, ArriveLogin(r) PROVE TableInv'
    BY <1>2 DEF ArriveLogin, Arrive, AnsweredFor, HeldSecrets
  <1>3. ASSUME NEW r \in Requests, ArriveRefresh(r) PROVE TableInv'
    BY <1>3 DEF ArriveRefresh, Arrive, AnsweredFor
  <1>4. ASSUME NEW r \in Requests, ArriveLogout(r) PROVE TableInv'
    BY <1>4 DEF ArriveLogout, Arrive, AnsweredFor
  <1>5. ASSUME NEW r \in Requests, ArriveEnroll(r) PROVE TableInv'
    BY <1>5 DEF ArriveEnroll, Arrive, AnsweredFor
  <1>6. ASSUME NEW r \in Requests, Fail(r) PROVE TableInv'
    BY <1>6 DEF Fail, Finish
  <1>7. ASSUME NEW r \in Requests, RegisterInsert(r) PROVE TableInv'
    BY <1>7 DEF RegisterInsert, EmailLocked
  <1>8. ASSUME NEW r \in Requests, RegisterConflict(r) PROVE TableInv'
    BY <1>8 DEF RegisterConflict, Finish
  <1>9. ASSUME NEW r \in Requests, RegisterCommit(r) PROVE TableInv'
    <2>1. /\ user[r] \in Users /\ org[r] \in Orgs /\ role[r] \in Roles
          /\ kind[r] = "register" /\ users[user[r]] = None
      BY <1>9 DEF RegisterCommit
    <2>2. /\ tokens'[r] \in Row
          /\ tokens'[r].user = user[r]
          /\ tokens'[r].org = org[r]
          /\ tokens'[r].from = None
          /\ \A t \in Requests \ {r} : tokens'[t] = tokens[t]
      BY <1>9, <2>1 DEF RegisterCommit, NewRow, Row
    <2>3. /\ users'[user[r]] \in Account
          /\ users'[user[r]].org = org[r]
          /\ users'[user[r]].secret = None
          /\ \A v \in Users \ {user[r]} : users'[v] = users[v]
      BY <1>9, <2>1 DEF RegisterCommit, Account
    <2>4. /\ pc' = [pc EXCEPT ![r] = "done"]
          /\ reply' \in {[reply EXCEPT ![r] = "ok"], [reply EXCEPT ![r] = "lost"]}
          /\ UNCHANGED <<kind, org, user, arg, before, role, lapsed>>
      BY <1>9 DEF RegisterCommit, Committed, Finish
    <2>5. IssuedInv'
      BY <2>1, <2>2, <2>3, <2>4
    <2>6. HeldInv'
      BY <2>2, <2>4
    <2>7. SecretInv'
      BY <2>1, <2>3, <2>4
    <2> QED
      BY <2>5, <2>6, <2>7
  <1>10. ASSUME NEW r \in Requests, LoginSelect(r) PROVE TableInv'
    BY <1>10 DEF LoginSelect
  <1>11. ASSUME NEW r \in Requests, LoginIssue(r) PROVE TableInv'
    <2>1. /\ user[r] \in Users /\ org[r] \in Orgs /\ kind[r] = "login"
          /\ users[user[r]] # None /\ users[user[r]].org = org[r]
      BY <1>11 DEF LoginIssue
    <2>2. /\ tokens'[r] \in Row
          /\ tokens'[r].user = user[r]
          /\ tokens'[r].org = org[r]
          /\ tokens'[r].from = None
          /\ \A t \in Requests \ {r} : tokens'[t] = tokens[t]
      BY <1>11, <2>1 DEF LoginIssue, NewRow, Row
    <2>3. /\ pc' = [pc EXCEPT ![r] = "done"]
          /\ reply' \in {[reply EXCEPT ![r] = "ok"], [reply EXCEPT ![r] = "lost"]}
          /\ UNCHANGED <<users, kind, org, user, arg, before, role, lapsed>>
      BY <1>11 DEF LoginIssue, Committed, Finish
    <2> QED
      BY <2>1, <2>2, <2>3
  <1>12. ASSUME NEW r \in Requests, RefreshSelect(r) PROVE TableInv'
    BY <1>12 DEF RefreshSelect, Refreshable
  <1>13. ASSUME NEW r \in Requests, RefreshUpdate(r) PROVE TableInv'
    BY <1>13 DEF RefreshUpdate
  <1>14. ASSUME NEW r \in Requests, RefreshCommit(r) PROVE TableInv'
    <2>1. /\ arg[r] \in Requests /\ arg[r] # r /\ tokens[arg[r]] \in Row
          /\ tokens[r] = None
          /\ user[r] = tokens[arg[r]].user /\ tokens[arg[r]].org = org[r]
          /\ user[r] \in Users /\ users[user[r]] # None /\ users[user[r]].org = org[r]
      BY <1>14 DEF RefreshCommit
    <2>2. /\ tokens'[r] \in Row
          /\ tokens'[r].user = user[r]
          /\ tokens'[r].org = org[r]
          /\ tokens'[r].from = arg[r]
      BY <1>14, <2>1 DEF RefreshCommit, NewRow, Row
    <2>3. /\ RowsAreKept
          /\ \A t \in Requests \ {r} : tokens[t] = None => tokens'[t] = None
      BY <1>14, <2>1, RowsKept DEF RefreshCommit
    <2>4. /\ kind[r] = "refresh"
          /\ pc' = [pc EXCEPT ![r] = "done"]
          /\ reply' \in {[reply EXCEPT ![r] = "ok"], [reply EXCEPT ![r] = "lost"]}
          /\ UNCHANGED <<users, kind, org, user, arg, before, role, lapsed>>
      BY <1>14 DEF RefreshCommit, Committed, Finish
    <2> QED
      BY <2>1, <2>2, <2>3, <2>4 DEF RowsAreKept
  <1>15. ASSUME NEW r \in Requests, LogoutUpdate(r) PROVE TableInv'
    BY <1>15 DEF LogoutUpdate
  <1>16. ASSUME NEW r \in Requests, LogoutCommit(r) PROVE TableInv'
    <2>1. /\ RowsAreKept
          /\ \A t \in Requests : tokens[t] = None => tokens'[t] = None
      BY <1>16, RowsKept DEF LogoutCommit
    <2>2. /\ kind[r] = "logout" /\ pc[r] = "updated"
          /\ pc' = [pc EXCEPT ![r] = "done"]
          /\ reply' \in {[reply EXCEPT ![r] = "ok"], [reply EXCEPT ![r] = "lost"]}
          /\ UNCHANGED <<users, kind, org, user, arg, before, role, lapsed>>
      BY <1>16 DEF LogoutCommit, Committed, Finish
    <2>3. IssuedInv'
      BY <2>1, <2>2 DEF RowsAreKept
    <2>4. HeldInv' /\ SecretInv'
      BY <2>1, <2>2 DEF RowsAreKept
    <2> QED
      BY <2>3, <2>4
  <1>17. ASSUME NEW r \in Requests, LogoutNoEffect(r) PROVE TableInv'
    BY <1>17 DEF LogoutNoEffect, Finish
  <1>18. ASSUME NEW r \in Requests, EnrollUpdate(r) PROVE TableInv'
    BY <1>18 DEF EnrollUpdate
  <1>19. ASSUME NEW r \in Requests, EnrollCommit(r) PROVE TableInv'
    <2>1. /\ user[r] \in Users
          /\ users'[user[r]].secret = r
          /\ \A v \in Users \ {user[r]} : users'[v] = users[v]
      BY <1>19, EnrolledAccount, SecretUpdate DEF EnrollCommit
    <2>2. RowsAreKept
      BY <1>19, RowsKept
    <2>3. /\ kind[r] = "enroll" /\ pc[r] = "updated"
          /\ pc' = [pc EXCEPT ![r] = "done"]
          /\ reply' \in {[reply EXCEPT ![r] = "ok"], [reply EXCEPT ![r] = "lost"]}
          /\ UNCHANGED <<tokens, kind, org, user, arg, before, role, lapsed>>
      BY <1>19 DEF EnrollCommit, Committed, Finish
    <2>4. IssuedInv' /\ HeldInv'
      BY <2>2, <2>3 DEF RowsAreKept
    <2>5. SecretInv'
      BY <2>1, <2>3
    <2> QED
      BY <2>4, <2>5
  <1>20. ASSUME NEW t \in Requests, ExpireRefresh(t) PROVE TableInv'
    <2>1. /\ RowsAreKept
          /\ \A x \in Requests : tokens[x] = None => tokens'[x] = None
          /\ UNCHANGED <<users, pc, kind, org, arg, before, user, role, reply, lapsed>>
      BY <1>20, RowsKept DEF ExpireRefresh
    <2> QED
      BY <2>1 DEF RowsAreKept
  <1>21. ASSUME NEW t \in Requests, ExpireAccess(t) PROVE TableInv'
    BY <1>21 DEF ExpireAccess
  <1>22. ASSUME NEW u \in Users, SetRole(u) PROVE TableInv'
    <2>1. users[u] \in Account
      BY <1>22 DEF SetRole
    <2>2. PICK ro \in Roles : users' = [users EXCEPT ![u].role = ro]
      BY <1>22 DEF SetRole
    <2>3. /\ RowsAreKept
          /\ users'[u].secret = users[u].secret
          /\ \A v \in Users \ {u} : users'[v] = users[v]
      BY <1>22, <2>1, <2>2, RowsKept, RoleUpdate
    <2>4. UNCHANGED <<tokens, pc, kind, org, arg, before, user, role, reply, lapsed>>
      BY <1>22 DEF SetRole
    <2>5. IssuedInv' /\ HeldInv'
      BY <2>3, <2>4 DEF RowsAreKept
    <2>6. SecretInv'
      BY <2>1, <2>3, <2>4
    <2> QED
      BY <2>5, <2>6
  <1>23. ASSUME UNCHANGED vars PROVE TableInv'
    BY <1>23 DEF vars
  <1> QED
    BY <1>1, <1>2, <1>3, <1>4, <1>5, <1>6, <1>7, <1>8, <1>9, <1>10, <1>11, <1>12, <1>13, <1>14, <1>15, <1>16, <1>17, <1>18, <1>19, <1>20, <1>21, <1>22, <1>23
    DEF Next, Arrival, Step, Register, Login, Refresh, Logout, Enroll, Environment

LEMMA EffectStep == IInv /\ [Next]_vars => HistoryInv'
  <1> SUFFICES ASSUME IInv, [Next]_vars PROVE HistoryInv'
    OBVIOUS
  <1> USE DEF IInv, LocalInv, TableInv, HistoryInv, TypeOK, payload, Kinds, Issuers, Held, HeldTokens, IdleInv, PresentInv, IssuedInv, RegisterInv, LoginInv, EffectInv, BeforeInv, TookEffect, Rotated
  <1>1. ASSUME NEW r \in Requests, ArriveRegister(r) PROVE HistoryInv'
    BY <1>1 DEF ArriveRegister, Arrive, AnsweredFor
  <1>2. ASSUME NEW r \in Requests, ArriveLogin(r) PROVE HistoryInv'
    BY <1>2 DEF ArriveLogin, Arrive, AnsweredFor, HeldSecrets
  <1>3. ASSUME NEW r \in Requests, ArriveRefresh(r) PROVE HistoryInv'
    BY <1>3 DEF ArriveRefresh, Arrive, AnsweredFor
  <1>4. ASSUME NEW r \in Requests, ArriveLogout(r) PROVE HistoryInv'
    BY <1>4 DEF ArriveLogout, Arrive, AnsweredFor
  <1>5. ASSUME NEW r \in Requests, ArriveEnroll(r) PROVE HistoryInv'
    BY <1>5 DEF ArriveEnroll, Arrive, AnsweredFor
  <1>6. ASSUME NEW r \in Requests, Fail(r) PROVE HistoryInv'
    BY <1>6 DEF Fail, Finish
  <1>7. ASSUME NEW r \in Requests, RegisterInsert(r) PROVE HistoryInv'
    BY <1>7 DEF RegisterInsert, EmailLocked
  <1>8. ASSUME NEW r \in Requests, RegisterConflict(r) PROVE HistoryInv'
    BY <1>8 DEF RegisterConflict, Finish
  <1>9. ASSUME NEW r \in Requests, RegisterCommit(r) PROVE HistoryInv'
    BY <1>9 DEF RegisterCommit, Committed, Finish, NewRow
  <1>10. ASSUME NEW r \in Requests, LoginSelect(r) PROVE HistoryInv'
    BY <1>10 DEF LoginSelect
  <1>11. ASSUME NEW r \in Requests, LoginIssue(r) PROVE HistoryInv'
    BY <1>11 DEF LoginIssue, Committed, Finish, NewRow
  <1>12. ASSUME NEW r \in Requests, RefreshSelect(r) PROVE HistoryInv'
    BY <1>12 DEF RefreshSelect, Refreshable
  <1>13. ASSUME NEW r \in Requests, RefreshUpdate(r) PROVE HistoryInv'
    BY <1>13 DEF RefreshUpdate
  <1>14. ASSUME NEW r \in Requests, RefreshCommit(r) PROVE HistoryInv'
    <2>1. /\ kind[r] = "refresh" /\ pc[r] = "updated"
          /\ arg[r] \in Requests /\ arg[r] # r /\ tokens[arg[r]] \in Row
          /\ tokens[r] = None
      BY <1>14 DEF RefreshCommit
    <2>2. /\ RowsAreKept
          /\ \A t \in Requests \ {r} : tokens[t] = None => tokens'[t] = None
          /\ tokens'[arg[r]].revoked
      BY <1>14, <2>1, RowsKept, RowRevoked DEF RefreshCommit
    <2>3. /\ pc' = [pc EXCEPT ![r] = "done"]
          /\ reply' \in {[reply EXCEPT ![r] = "ok"], [reply EXCEPT ![r] = "lost"]}
          /\ UNCHANGED <<users, kind, org, user, arg, before, role, lapsed>>
      BY <1>14 DEF RefreshCommit, Committed, Finish
    <2>4. EffectInv'
      BY <2>1, <2>2, <2>3 DEF RowsAreKept
    <2>5. BeforeInv'
      BY <2>1, <2>2, <2>3 DEF RowsAreKept
    <2> QED
      BY <2>4, <2>5
  <1>15. ASSUME NEW r \in Requests, LogoutUpdate(r) PROVE HistoryInv'
    BY <1>15 DEF LogoutUpdate
  <1>16. ASSUME NEW r \in Requests, LogoutCommit(r) PROVE HistoryInv'
    BY <1>16 DEF LogoutCommit, Committed, Finish, Revoke
  <1>17. ASSUME NEW r \in Requests, LogoutNoEffect(r) PROVE HistoryInv'
    BY <1>17 DEF LogoutNoEffect, Finish
  <1>18. ASSUME NEW r \in Requests, EnrollUpdate(r) PROVE HistoryInv'
    BY <1>18 DEF EnrollUpdate
  <1>19. ASSUME NEW r \in Requests, EnrollCommit(r) PROVE HistoryInv'
    BY <1>19 DEF EnrollCommit, Committed, Finish
  <1>20. ASSUME NEW t \in Requests, ExpireRefresh(t) PROVE HistoryInv'
    BY <1>20 DEF ExpireRefresh
  <1>21. ASSUME NEW t \in Requests, ExpireAccess(t) PROVE HistoryInv'
    BY <1>21 DEF ExpireAccess
  <1>22. ASSUME NEW u \in Users, SetRole(u) PROVE HistoryInv'
    BY <1>22 DEF SetRole
  <1>23. ASSUME UNCHANGED vars PROVE HistoryInv'
    BY <1>23 DEF vars
  <1> QED
    BY <1>1, <1>2, <1>3, <1>4, <1>5, <1>6, <1>7, <1>8, <1>9, <1>10, <1>11, <1>12, <1>13, <1>14, <1>15, <1>16, <1>17, <1>18, <1>19, <1>20, <1>21, <1>22, <1>23
    DEF Next, Arrival, Step, Register, Login, Refresh, Logout, Enroll, Environment

THEOREM Invariance == Spec => []IInv
  <1>1. Init => IInv
    BY InitInv
  <1>2. IInv /\ [Next]_vars => IInv'
    BY TypeStep, HandlerStep, IssuedStep, EffectStep DEF IInv, LocalInv, TableInv, HistoryInv
  <1> QED
    BY <1>1, <1>2, PTL DEF Spec

-----------------------------------------------------------------------------
(* The properties.                                                         *)

\* Every variable keeps its type, whatever the interleaving of the handlers.
THEOREM TypeCorrectness == Spec => []TypeOK
  <1>1. IInv => TypeOK
    BY DEF IInv, LocalInv, TableInv, HistoryInv
  <1> QED
    BY <1>1, Invariance, PTL

\* A token that records a predecessor exists only with its revocation, and
\* stays within one account (RefreshHandler's transaction).
THEOREM AtomicRotation == Spec => []RotationIsAtomic
  <1>1. IInv => RotationIsAtomic
    <2> SUFFICES ASSUME IInv, NEW t \in Requests, tokens[t] # None, tokens[t].from # None
                 PROVE  LET parent == tokens[tokens[t].from] IN
                        /\ parent # None
                        /\ parent.revoked
                        /\ parent.user = tokens[t].user
                        /\ parent.org = tokens[t].org
      BY DEF RotationIsAtomic
    <2>1. kind[t] = "refresh" /\ tokens[t].from = arg[t]
      BY DEF IInv, LocalInv, TableInv, HistoryInv, IssuedInv
    <2>2. tokens[arg[t]] # None /\ tokens[arg[t]].revoked
      BY <2>1 DEF IInv, LocalInv, TableInv, HistoryInv, PresentInv, EffectInv, TookEffect, Rotated
    <2>3. /\ tokens[arg[t]].user = tokens[t].user
          /\ tokens[arg[t]].org = tokens[t].org
      BY <2>1 DEF IInv, LocalInv, TableInv, HistoryInv, PresentInv, IssuedInv
    <2> QED
      BY <2>1, <2>2, <2>3
  <1> QED
    BY <1>1, Invariance, PTL

\* A refresh that arrives after an answered refresh or logout of the same
\* token issues nothing.
THEOREM LaterRefreshRefused == Spec => []RevocationRefusesLaterRefresh
  <1>1. IInv => RevocationRefusesLaterRefresh
    BY DEF IInv, LocalInv, TableInv, HistoryInv, BeforeInv, RevocationRefusesLaterRefresh, Rotated
  <1> QED
    BY <1>1, Invariance, PTL

\* Tokens, claims and secrets stay in the account and organization of the
\* requests that created them.
THEOREM Isolation == Spec => []TenantIsolation
  <1>1. IInv => TenantIsolation
    BY DEF IInv, LocalInv, TableInv, HistoryInv, IssuedInv, SecretInv, TenantIsolation
  <1> QED
    BY <1>1, Invariance, PTL

\* No step reassigns a row or undoes a revocation.
THEOREM FinalRevocation == Spec => RevocationIsFinal
  <1>1. IInv /\ [Next]_vars => [RowsAreKept]_vars
    BY RowsKept
  <1> QED
    BY <1>1, Invariance, PTL DEF Spec, RevocationIsFinal

-----------------------------------------------------------------------------
(* Where a second factor comes from.                                       *)

\* Privileged claims of account u have been issued by a refresh.
Bought(u) == \E c \in Requests : Rotated(c) /\ user[c] = u /\ privilegedRole(role[c])

\* A registration issues unprivileged claims; a privileged login and an
\* enrollment that passed their checks belong to accounts of the kind above.
PrivilegeInv == \A r \in Requests :
    /\ (kind[r] = "register" /\ (pc[r] = "inserted" \/ tokens[r] # None)) =>
          role[r] = "member"
    /\ (kind[r] = "login" /\ (pc[r] = "selected" \/ tokens[r] # None) /\ privilegedRole(role[r])) =>
          Bought(user[r])
    /\ (kind[r] = "enroll" /\ pc[r] = "updated") => Bought(user[r])

\* The same for the accounts themselves, in the words of the property.
SecretsBought == \A u \in Users : (users[u] # None /\ users[u].secret # None) => Bought(u)

FactorInv == PrivilegeInv /\ SecretsBought

\* The handler of a token's request has ended: no step changes what it knew.
LEMMA ClaimsKept ==
    ASSUME IInv, [Next]_vars, NEW c \in Requests, tokens[c] # None
    PROVE  UNCHANGED <<kind[c], user[c], role[c]>>
  <1>1. pc[c] = "done"
    BY DEF IInv, TableInv, IssuedInv
  <1> USE DEF IInv, TypeOK, payload, Finish
  <1>2. ASSUME NEW r \in Requests, Arrival(r)
        PROVE  UNCHANGED <<kind[c], user[c], role[c]>>
    BY <1>1, <1>2 DEF Arrival, ArriveRegister, ArriveLogin, ArriveRefresh, ArriveLogout,
                      ArriveEnroll, Arrive
  <1>3. ASSUME NEW r \in Requests, Register(r) \/ Login(r) \/ Fail(r)
        PROVE  UNCHANGED <<kind[c], user[c], role[c]>>
    BY <1>1, <1>3 DEF Register, RegisterInsert, RegisterConflict, RegisterCommit, Login,
                      LoginSelect, LoginIssue, Fail
  <1>4. ASSUME NEW r \in Requests, Refresh(r) \/ Logout(r) \/ Enroll(r)
        PROVE  UNCHANGED <<kind[c], user[c], role[c]>>
    BY <1>1, <1>4 DEF Refresh, RefreshSelect, RefreshUpdate, RefreshCommit, Logout,
                      LogoutUpdate, LogoutCommit, LogoutNoEffect, Enroll, EnrollUpdate,
                      EnrollCommit
  <1>5. Environment => UNCHANGED <<kind[c], user[c], role[c]>>
    BY DEF Environment, ExpireRefresh, ExpireAccess, SetRole
  <1> QED
    BY <1>2, <1>3, <1>4, <1>5 DEF Next, Step, vars

\* So an account that was served once stays served.
LEMMA BoughtKept ==
    ASSUME IInv, [Next]_vars, NEW u, Bought(u)
    PROVE  Bought(u)'
  <1>1. PICK c \in Requests : Rotated(c) /\ user[c] = u /\ privilegedRole(role[c])
    BY DEF Bought
  <1>2. tokens[c] # None /\ tokens'[c] # None
    BY <1>1, RowsKept DEF Rotated, RowsAreKept
  <1>3. UNCHANGED <<kind[c], user[c], role[c]>>
    BY <1>2, ClaimsKept
  <1>4. Rotated(c)' /\ user'[c] = u /\ privilegedRole(role'[c])
    BY <1>1, <1>2, <1>3 DEF Rotated, privilegedRole
  <1> QED
    BY <1>4 DEF Bought, privilegedRole

\* Privileged claims, however they were issued, lead back to a refresh.
LEMMA PrivilegedClaims ==
    ASSUME IInv, FactorInv, NEW c \in Requests, tokens[c] # None, privilegedRole(role[c])
    PROVE  Bought(user[c])
  <1>1. CASE kind[c] = "register"
    BY <1>1 DEF FactorInv, PrivilegeInv, privilegedRole
  <1>2. CASE kind[c] = "login"
    BY <1>2 DEF FactorInv, PrivilegeInv
  <1>3. CASE kind[c] = "refresh"
    BY <1>3 DEF Bought, Rotated
  <1> QED
    BY <1>1, <1>2, <1>3 DEF IInv, TableInv, IssuedInv, Issuers

LEMMA SecretsStep ==
    ASSUME IInv, FactorInv, [Next]_vars
    PROVE  SecretsBought'
  <1>1. SUFFICES ASSUME NEW u \in Users, users'[u] # None, users'[u].secret # None
                 PROVE  Bought(u)'
    BY DEF SecretsBought
  <1>2. SUFFICES Bought(u)
    BY BoughtKept
  <1>3. users[u] # None /\ users[u].secret # None => Bought(u)
    BY DEF FactorInv, SecretsBought
  <1>4. ASSUME NEW r \in Requests, RegisterCommit(r) PROVE Bought(u)
    BY <1>1, <1>3, <1>4 DEF RegisterCommit, IInv, TypeOK
  <1>5. ASSUME NEW r \in Requests, EnrollCommit(r) PROVE Bought(u)
    <2>1. user[r] \in Users /\ Bought(user[r])
      BY <1>5, EnrolledAccount DEF EnrollCommit, FactorInv, PrivilegeInv
    <2> QED
      BY <1>1, <1>3, <1>5, <2>1 DEF EnrollCommit, IInv, TypeOK
  <1>6. ASSUME NEW v \in Users, SetRole(v) PROVE Bought(u)
    <2>1. PICK ro \in Roles : users' = [users EXCEPT ![v].role = ro]
      BY <1>6 DEF SetRole
    <2>2. users[v] \in Account
      BY <1>6 DEF SetRole, IInv, TypeOK
    <2> QED
      BY <1>1, <1>3, <2>1, <2>2, RoleUpdate DEF IInv, TypeOK
  <1>7. UNCHANGED users => Bought(u)
    BY <1>1, <1>3
  <1> QED
    BY <1>4, <1>5, <1>6, <1>7
    DEF Next, Arrival, Step, Register, Login, Refresh, Logout, Enroll, Environment, vars,
        ArriveRegister, ArriveLogin, ArriveRefresh, ArriveLogout, ArriveEnroll, Arrive,
        Fail, RegisterInsert, RegisterConflict, LoginSelect, LoginIssue, RefreshSelect,
        RefreshUpdate, RefreshCommit, LogoutUpdate, LogoutCommit, LogoutNoEffect,
        EnrollUpdate, ExpireRefresh, ExpireAccess

LEMMA PrivilegeStep ==
    ASSUME IInv, FactorInv, [Next]_vars
    PROVE  PrivilegeInv'
  <1> USE DEF PrivilegeInv, FactorInv, IInv, TypeOK, LocalInv, IdleInv, RegisterInv, payload,
              Kinds, Finish, Committed
  <1>0. \A u : Bought(u) => Bought(u)'
    BY BoughtKept
  <1>1. ASSUME NEW r \in Requests, Arrival(r) PROVE PrivilegeInv'
    BY <1>0, <1>1 DEF Arrival, ArriveRegister, ArriveLogin, ArriveRefresh, ArriveLogout,
                      ArriveEnroll, Arrive
  <1>2. ASSUME NEW r \in Requests, Register(r) PROVE PrivilegeInv'
    BY <1>0, <1>2 DEF Register, RegisterInsert, RegisterConflict, RegisterCommit
  <1>3. ASSUME NEW r \in Requests, LoginSelect(r) PROVE PrivilegeInv'
    <2>1. /\ user[r] \in Users /\ users[user[r]] # None
          /\ privilegedRole(users[user[r]].role) => users[user[r]].secret # None
          /\ role' = [role EXCEPT ![r] = users[user[r]].role]
          /\ pc' = [pc EXCEPT ![r] = "selected"]
          /\ kind[r] = "login" /\ pc[r] = "begun"
          /\ UNCHANGED <<tokens, kind, user>>
      BY <1>3 DEF LoginSelect, LoginInv, SecondFactor
    <2>2. privilegedRole(role'[r]) => Bought(user[r])
      BY <2>1 DEF SecretsBought
    <2> QED
      BY <1>0, <2>1, <2>2
  <1>4. ASSUME NEW r \in Requests, LoginIssue(r) PROVE PrivilegeInv'
    BY <1>0, <1>4 DEF LoginIssue
  <1>5. ASSUME NEW r \in Requests, Refresh(r) PROVE PrivilegeInv'
    <2>1. RefreshSelect(r) \/ RefreshUpdate(r) => PrivilegeInv'
      BY <1>0 DEF RefreshSelect, RefreshUpdate
    <2>2. CASE RefreshCommit(r)
      <3>1. /\ \A t \in Requests \ {r} : tokens[t] = None => tokens'[t] = None
            /\ kind[r] = "refresh"
            /\ pc' = [pc EXCEPT ![r] = "done"]
            /\ UNCHANGED <<kind, user, role>>
        BY <2>2 DEF RefreshCommit, PresentInv
      <3> QED
        BY <1>0, <3>1
    <2> QED
      BY <1>5, <2>1, <2>2 DEF Refresh
  <1>6. ASSUME NEW r \in Requests, Logout(r) PROVE PrivilegeInv'
    <2>1. /\ \A t \in Requests : tokens[t] = None => tokens'[t] = None
          /\ kind[r] = "logout"
          /\ pc' \in {[pc EXCEPT ![r] = "done"], [pc EXCEPT ![r] = "updated"]}
          /\ UNCHANGED <<kind, user, role>>
      BY <1>6 DEF Logout, LogoutUpdate, LogoutCommit, LogoutNoEffect, PresentInv
    <2> QED
      BY <1>0, <2>1
  <1>7. ASSUME NEW r \in Requests, EnrollUpdate(r) PROVE PrivilegeInv'
    <2>1. Bought(user[r])
      BY <1>7, PrivilegedClaims DEF EnrollUpdate, EnrollInv
    <2> QED
      BY <1>0, <1>7, <2>1 DEF EnrollUpdate
  <1>8. ASSUME NEW r \in Requests, EnrollCommit(r) \/ Fail(r) PROVE PrivilegeInv'
    BY <1>0, <1>8 DEF EnrollCommit, Fail
  <1>9. Environment => PrivilegeInv'
    BY <1>0 DEF Environment, ExpireRefresh, ExpireAccess, SetRole
  <1>10. UNCHANGED vars => PrivilegeInv'
    BY <1>0 DEF vars
  <1> QED
    BY <1>1, <1>2, <1>3, <1>4, <1>5, <1>6, <1>7, <1>8, <1>9, <1>10
    DEF Next, Step, Login, Enroll

THEOREM FactorInvariance == Spec => []FactorInv
  <1>1. Init => FactorInv
    BY DEF Init, FactorInv, PrivilegeInv, SecretsBought, Kinds
  <1>2. IInv /\ FactorInv /\ [Next]_vars => FactorInv'
    BY SecretsStep, PrivilegeStep DEF FactorInv
  <1> QED
    BY <1>1, <1>2, Invariance, PTL DEF Spec

\* The first second factor of any account is bought with claims that
\* RefreshHandler issued: LoginHandler asks a privileged account for a code,
\* MFAEnrollHandler serves privileged claims only.
THEOREM FirstFactorFromARefresh == Spec => []EnrollmentStartsFromARefresh
  <1>1. FactorInv => EnrollmentStartsFromARefresh
    BY DEF FactorInv, SecretsBought, Bought, EnrollmentStartsFromARefresh
  <1> QED
    BY <1>1, FactorInvariance, PTL

-----------------------------------------------------------------------------
(* What the locks are for.                                                 *)

\* Handlers between their UPDATE and their commit.
Revoking(r) == pc[r] = "updated" /\ kind[r] \in {"refresh", "logout"}
Enrolling(r) == pc[r] = "updated" /\ kind[r] = "enroll"

\* Two transactions never write one row at a time: of the refreshes and logouts
\* of a token, of the enrollments of an account and of the registrations of an
\* address, one at most is past its statement and short of its commit.
OneWriterPerRow ==
    \A q, r \in Requests :
        \/ Revoking(q) /\ Revoking(r) /\ arg[q] = arg[r]
        \/ Enrolling(q) /\ Enrolling(r) /\ user[q] = user[r]
        \/ pc[q] = "inserted" /\ pc[r] = "inserted" /\ user[q] = user[r]
        => q = r

\* A step after which nobody has become a writer.
LEMMA NoNewWriter ==
    ASSUME IInv, OneWriterPerRow,
           \A r \in Requests :
               pc'[r] \in {"updated", "inserted"} =>
                   /\ pc'[r] = pc[r] /\ kind'[r] = kind[r]
                   /\ arg'[r] = arg[r] /\ user'[r] = user[r]
    PROVE  OneWriterPerRow'
  BY DEF OneWriterPerRow, Revoking, Enrolling

LEMMA WriterStep == ASSUME IInv, OneWriterPerRow, [Next]_vars PROVE OneWriterPerRow'
  <1> USE DEF IInv, TypeOK, payload
  <1>1. ASSUME NEW r \in Requests, Arrival(r) PROVE OneWriterPerRow'
    <2>1. \A q \in Requests : pc'[q] \in {"updated", "inserted"} =>
              /\ pc'[q] = pc[q] /\ kind'[q] = kind[q] /\ arg'[q] = arg[q] /\ user'[q] = user[q]
      BY <1>1 DEF Arrival, ArriveRegister, ArriveLogin, ArriveRefresh, ArriveLogout,
                  ArriveEnroll, Arrive
    <2> QED
      BY <2>1, NoNewWriter
  <1>2. ASSUME NEW r \in Requests, RegisterInsert(r) PROVE OneWriterPerRow'
    BY <1>2 DEF RegisterInsert, EmailLocked, OneWriterPerRow, Revoking, Enrolling
  <1>3. ASSUME NEW r \in Requests, RefreshUpdate(r) \/ LogoutUpdate(r) PROVE OneWriterPerRow'
    BY <1>3 DEF RefreshUpdate, LogoutUpdate, RowLocked, OneWriterPerRow, Revoking, Enrolling
  <1>4. ASSUME NEW r \in Requests, EnrollUpdate(r) PROVE OneWriterPerRow'
    BY <1>4 DEF EnrollUpdate, AccountLocked, OneWriterPerRow, Revoking, Enrolling
  <1>5. ASSUME NEW r \in Requests, LoginSelect(r) \/ RefreshSelect(r) PROVE OneWriterPerRow'
    <2>1. \A q \in Requests : pc'[q] \in {"updated", "inserted"} =>
              /\ pc'[q] = pc[q] /\ kind'[q] = kind[q] /\ arg'[q] = arg[q] /\ user'[q] = user[q]
      BY <1>5 DEF LoginSelect, RefreshSelect
    <2> QED
      BY <2>1, NoNewWriter
  <1>6. ASSUME NEW r \in Requests,
               \/ RegisterConflict(r) \/ RegisterCommit(r) \/ LoginIssue(r) \/ RefreshCommit(r)
               \/ LogoutCommit(r) \/ LogoutNoEffect(r) \/ EnrollCommit(r) \/ Fail(r)
        PROVE  OneWriterPerRow'
    <2>1. /\ pc' = [pc EXCEPT ![r] = "done"] /\ UNCHANGED <<kind, arg, user>>
      BY <1>6 DEF RegisterConflict, RegisterCommit, LoginIssue, RefreshCommit, LogoutCommit,
                  LogoutNoEffect, EnrollCommit, Fail, Committed, Finish
    <2>2. \A q \in Requests : pc'[q] \in {"updated", "inserted"} =>
              /\ pc'[q] = pc[q] /\ kind'[q] = kind[q] /\ arg'[q] = arg[q] /\ user'[q] = user[q]
      BY <2>1
    <2> QED
      BY <2>2, NoNewWriter
  <1>7. CASE Environment \/ UNCHANGED vars
    <2>1. UNCHANGED <<pc, kind, arg, user>>
      BY <1>7 DEF Environment, ExpireRefresh, ExpireAccess, SetRole, vars
    <2> QED
      BY <2>1, NoNewWriter
  <1> QED
    BY <1>1, <1>2, <1>3, <1>4, <1>5, <1>6, <1>7
    DEF Next, Step, Register, Login, Refresh, Logout, Enroll

LEMMA WritersTakeTurns == Spec => []OneWriterPerRow
  <1>1. Init => OneWriterPerRow
    BY DEF Init, OneWriterPerRow, Revoking, Enrolling
  <1>2. IInv /\ OneWriterPerRow /\ [Next]_vars => OneWriterPerRow'
    BY WriterStep
  <1> QED
    BY <1>1, <1>2, Invariance, PTL DEF Spec

\* What a transaction has written nobody changes before it commits: not the
\* revocation of a token, nor the account of an enrollment, nor the account
\* that a registration is about to create.
WrittenRowsAreKept ==
    \A r \in Requests :
        /\ Revoking(r) /\ Revoking(r)' => tokens'[arg[r]].revoked = tokens[arg[r]].revoked
        /\ Enrolling(r) /\ Enrolling(r)' => users'[user[r]] = users[user[r]]
        /\ pc[r] = "inserted" /\ pc'[r] = "inserted" => users'[user[r]] = None

LEMMA WrittenRowsStep == ASSUME IInv, OneWriterPerRow, [Next]_vars PROVE WrittenRowsAreKept
  <1>1. /\ \A r \in Requests : Revoking(r) => arg[r] \in Requests /\ tokens[arg[r]] # None
        /\ \A r \in Requests : pc[r] = "inserted" => user[r] \in Users /\ users[user[r]] = None
        /\ \A r \in Requests : tokens[r] # None => pc[r] = "done"
    BY DEF IInv, LocalInv, TableInv, PresentInv, RegisterInv, IssuedInv, Revoking
  <1> USE DEF WrittenRowsAreKept, IInv, TypeOK
  <1>2. ASSUME UNCHANGED <<users, tokens>> PROVE WrittenRowsAreKept
    BY <1>1, <1>2
  <1>3. ASSUME NEW q \in Requests, RegisterCommit(q) PROVE WrittenRowsAreKept
    <2>1. /\ pc' = [pc EXCEPT ![q] = "done"] /\ pc[q] = "inserted"
          /\ \A u \in Users \ {user[q]} : users'[u] = users[u]
          /\ \A t \in Requests \ {q} : tokens'[t] = tokens[t]
      BY <1>3 DEF RegisterCommit, Committed, Finish
    <2>2. \A r \in Requests : Revoking(r) => arg[r] # q
      BY <1>1, <2>1
    <2>3. users[user[q]] = None
      BY <1>1, <2>1
    <2>4. \A r \in Requests : Enrolling(r) => user[r] \in Users /\ users[user[r]] # None
      BY DEF LocalInv, TableInv, EnrollInv, IssuedInv, Enrolling
    <2>5. \A r \in Requests \ {q} : pc[r] = "inserted" => user[r] # user[q]
      BY <2>1 DEF OneWriterPerRow
    <2> QED
      BY <1>1, <2>1, <2>2, <2>3, <2>4, <2>5
  <1>4. ASSUME NEW q \in Requests, LoginIssue(q) PROVE WrittenRowsAreKept
    <2>1. /\ UNCHANGED users /\ pc[q] = "selected"
          /\ \A t \in Requests \ {q} : tokens'[t] = tokens[t]
      BY <1>4 DEF LoginIssue
    <2>2. \A r \in Requests : Revoking(r) => arg[r] # q
      BY <1>1, <2>1
    <2> QED
      BY <1>1, <2>1, <2>2
  <1>5. ASSUME NEW q \in Requests, RefreshCommit(q) \/ LogoutCommit(q) PROVE WrittenRowsAreKept
    <2>1. /\ UNCHANGED users /\ Revoking(q) /\ pc' = [pc EXCEPT ![q] = "done"]
          /\ \A t \in Requests \ {q, arg[q]} : tokens'[t] = tokens[t]
      BY <1>5 DEF RefreshCommit, LogoutCommit, Committed, Finish, Revoking
    <2>2. \A r \in Requests : Revoking(r) => arg[r] # q
      BY <1>1, <2>1 DEF Revoking
    <2>3. \A r \in Requests : Revoking(r) /\ Revoking(r)' => arg[r] # arg[q]
      BY <2>1 DEF OneWriterPerRow, Revoking
    <2> QED
      BY <1>1, <2>1, <2>2, <2>3
  <1>6. ASSUME NEW q \in Requests, EnrollCommit(q) PROVE WrittenRowsAreKept
    <2>1. /\ UNCHANGED tokens /\ Enrolling(q) /\ pc' = [pc EXCEPT ![q] = "done"]
          /\ \A u \in Users \ {user[q]} : users'[u] = users[u]
      BY <1>6 DEF EnrollCommit, Committed, Finish, Enrolling
    <2>2. \A r \in Requests : Enrolling(r) /\ Enrolling(r)' => user[r] # user[q]
      BY <2>1 DEF OneWriterPerRow, Enrolling
    <2>3. \A r \in Requests : Enrolling(r) => user[r] \in Users /\ users[user[r]] # None
      BY DEF LocalInv, TableInv, EnrollInv, IssuedInv, Enrolling
    <2> QED
      BY <1>1, <2>1, <2>2, <2>3
  <1>7. ASSUME NEW t \in Requests, ExpireRefresh(t) PROVE WrittenRowsAreKept
    BY <1>1, <1>7 DEF ExpireRefresh, Row
  <1>8. ASSUME NEW u \in Users, SetRole(u) PROVE WrittenRowsAreKept
    BY <1>1, <1>8 DEF SetRole, AccountLocked, Enrolling
  <1>9. CASE \/ \E r \in Requests : Arrival(r) \/ RegisterInsert(r) \/ RegisterConflict(r)
                  \/ LoginSelect(r) \/ RefreshSelect(r) \/ RefreshUpdate(r) \/ LogoutUpdate(r)
                  \/ LogoutNoEffect(r) \/ EnrollUpdate(r) \/ Fail(r) \/ ExpireAccess(r)
             \/ UNCHANGED vars
    <2>1. UNCHANGED <<users, tokens>>
      BY <1>9 DEF Arrival, ArriveRegister, ArriveLogin, ArriveRefresh, ArriveLogout,
                  ArriveEnroll, Arrive, RegisterInsert, RegisterConflict, LoginSelect,
                  RefreshSelect, RefreshUpdate, LogoutUpdate, LogoutNoEffect, EnrollUpdate,
                  Fail, ExpireAccess, vars
    <2> QED
      BY <1>2, <2>1
  <1> QED
    BY <1>3, <1>4, <1>5, <1>6, <1>7, <1>8, <1>9
    DEF Next, Step, Register, Login, Refresh, Logout, Enroll, Environment

\* Of the refreshes and logouts of a token, the enrollments of an account and
\* the registrations of an address none overwrites what another has written
\* and not committed, although RefreshHandler reads without a lock
\* (auth_http.go:165-433).
THEOREM NoLostUpdate == Spec => [][WrittenRowsAreKept]_vars
  <1>1. IInv /\ OneWriterPerRow /\ [Next]_vars => [WrittenRowsAreKept]_vars
    BY WrittenRowsStep
  <1> QED
    BY <1>1, Invariance, WritersTakeTurns, PTL DEF Spec

-----------------------------------------------------------------------------
(* How far privileged claims without a second factor go.                   *)

HasFactor(u) == users[u] # None /\ users[u].secret # None

\* A login that goes on with a privileged role found a second factor.
LoginFactorInv == \A r \in Requests :
    (kind[r] = "login" /\ (pc[r] = "selected" \/ tokens[r] # None) /\ privilegedRole(role[r])) =>
        HasFactor(user[r])

\* Who holds privileged claims of an account without a second factor got them
\* from a refresh.
OnlyRefreshesSkipIt == \A r \in HeldTokens :
    (privilegedRole(role[r]) /\ users[user[r]].secret = None) => kind[r] = "refresh"

\* MFAEnrollHandler replaces secrets, and nothing removes one.
LEMMA FactorsStay ==
    ASSUME IInv, [Next]_vars, NEW u \in Users, HasFactor(u)
    PROVE  HasFactor(u)'
  <1> USE DEF IInv, TypeOK, HasFactor
  <1>1. users[u] \in Account
    OBVIOUS
  <1>2. ASSUME NEW r \in Requests, RegisterCommit(r) PROVE HasFactor(u)'
    <2>1. user[r] \in Users /\ users[user[r]] = None
      BY <1>2 DEF RegisterCommit, LocalInv, RegisterInv
    <2> QED
      BY <1>2, <2>1 DEF RegisterCommit
  <1>3. ASSUME NEW r \in Requests, EnrollCommit(r) PROVE HasFactor(u)'
    <2>1. users'[u] = users[u] \/ users'[u] = [users[u] EXCEPT !.secret = r]
      BY <1>3 DEF EnrollCommit
    <2>2. CASE users'[u] = [users[u] EXCEPT !.secret = r]
      <3> DEFINE new == [users[u] EXCEPT !.secret = r]
      <3>1. new # None /\ new.secret = r /\ r # None
        BY <1>1, SecretUpdate
      <3> QED
        BY <2>2, <3>1
    <2> QED
      BY <2>1, <2>2
  <1>4. ASSUME NEW v \in Users, SetRole(v) PROVE HasFactor(u)'
    <2>1. PICK ro \in Roles : users' = [users EXCEPT ![v].role = ro]
      BY <1>4 DEF SetRole
    <2> QED
      BY <1>1, <2>1, RoleUpdate
  <1>5. UNCHANGED users => HasFactor(u)'
    OBVIOUS
  <1> QED
    BY <1>2, <1>3, <1>4, <1>5
    DEF Next, Arrival, Step, Register, Login, Refresh, Logout, Enroll, Environment, vars,
        ArriveRegister, ArriveLogin, ArriveRefresh, ArriveLogout, ArriveEnroll, Arrive,
        Fail, RegisterInsert, RegisterConflict, LoginSelect, LoginIssue, RefreshSelect,
        RefreshUpdate, RefreshCommit, LogoutUpdate, LogoutCommit, LogoutNoEffect,
        EnrollUpdate, ExpireRefresh, ExpireAccess

LEMMA LoginFactorStep ==
    ASSUME IInv, LoginFactorInv, [Next]_vars
    PROVE  LoginFactorInv'
  <1> USE DEF LoginFactorInv, IInv, TypeOK, LocalInv, IdleInv, LoginInv, payload, Finish
  <1>1. \A u \in Users : HasFactor(u) => HasFactor(u)'
    BY FactorsStay
  <1>2. ASSUME NEW r \in Requests, LoginSelect(r) PROVE LoginFactorInv'
    <2>1. /\ user[r] \in Users /\ users[user[r]] # None
          /\ privilegedRole(users[user[r]].role) => HasFactor(user[r])
          /\ role' = [role EXCEPT ![r] = users[user[r]].role]
          /\ pc' = [pc EXCEPT ![r] = "selected"]
          /\ UNCHANGED <<tokens, kind, user>>
      BY <1>2 DEF LoginSelect, SecondFactor, HasFactor
    <2> QED
      BY <1>1, <2>1
  <1>3. ASSUME NEW r \in Requests, LoginIssue(r) PROVE LoginFactorInv'
    BY <1>1, <1>3 DEF LoginIssue, Committed
  <1>4. ASSUME NEW r \in Requests, kind'[r] # "login",
               \A q \in Requests \ {r} : /\ pc'[q] = pc[q] /\ kind'[q] = kind[q]
                                         /\ user'[q] = user[q] /\ role'[q] = role[q]
                                         /\ tokens[q] = None => tokens'[q] = None
        PROVE  LoginFactorInv'
    BY <1>1, <1>4
  <1>5. ASSUME NEW r \in Requests, Arrival(r) PROVE LoginFactorInv'
    BY <1>1, <1>5 DEF Arrival, ArriveRegister, ArriveLogin, ArriveRefresh, ArriveLogout,
                      ArriveEnroll, Arrive, Kinds
  <1>6. ASSUME NEW r \in Requests, Register(r) PROVE LoginFactorInv'
    <2>1. kind'[r] # "login"
      BY <1>6 DEF Register, RegisterInsert, RegisterConflict, RegisterCommit, RegisterInv
    <2> QED
      BY <1>4, <1>6, <2>1 DEF Register, RegisterInsert, RegisterConflict, RegisterCommit, Committed
  <1>7. ASSUME NEW r \in Requests, Refresh(r) PROVE LoginFactorInv'
    BY <1>4, <1>7 DEF Refresh, RefreshSelect, RefreshUpdate, RefreshCommit, Committed, PresentInv
  <1>8. ASSUME NEW r \in Requests, Logout(r) \/ Enroll(r) PROVE LoginFactorInv'
    BY <1>4, <1>8 DEF Logout, LogoutUpdate, LogoutCommit, LogoutNoEffect, Enroll, EnrollUpdate,
                      EnrollCommit, Committed, PresentInv
  <1>9. ASSUME NEW r \in Requests, Fail(r) PROVE LoginFactorInv'
    BY <1>1, <1>9 DEF Fail
  <1>10. CASE Environment \/ UNCHANGED vars
    BY <1>1, <1>10 DEF Environment, ExpireRefresh, ExpireAccess, SetRole, vars
  <1> QED
    BY <1>2, <1>3, <1>5, <1>6, <1>7, <1>8, <1>9, <1>10 DEF Next, Step, Login

\* LoginHandler and RegisterHandler never hand out privileged claims without a
\* second factor: RefreshHandler, which reads the role and asks for no code, is
\* the only way to them (auth_http.go:331).
THEOREM OnlyRefreshesSkipTheSecondFactor == Spec => []OnlyRefreshesSkipIt
  <1>1. Init => LoginFactorInv
    BY DEF Init, LoginFactorInv, Kinds
  <1>2. IInv /\ LoginFactorInv /\ [Next]_vars => LoginFactorInv'
    BY LoginFactorStep
  <1>3. IInv /\ FactorInv /\ LoginFactorInv => OnlyRefreshesSkipIt
    <2> SUFFICES ASSUME IInv, FactorInv, LoginFactorInv, NEW r \in HeldTokens,
                        privilegedRole(role[r]), users[user[r]].secret = None
                 PROVE  kind[r] = "refresh"
      BY DEF OnlyRefreshesSkipIt
    <2>1. r \in Requests /\ tokens[r] # None /\ kind[r] \in Issuers
      BY DEF IInv, TableInv, HeldInv, HeldTokens
    <2>2. kind[r] # "register"
      BY <2>1 DEF FactorInv, PrivilegeInv, privilegedRole
    <2>3. kind[r] # "login"
      BY <2>1 DEF LoginFactorInv, HasFactor
    <2> QED
      BY <2>1, <2>2, <2>3 DEF Issuers
  <1> QED
    BY <1>1, <1>2, <1>3, Invariance, FactorInvariance, PTL DEF Spec
=============================================================================
