---------------------------- MODULE AuthSessions ----------------------------
(***************************************************************************)
(* The account and session endpoints of internal/ports/auth_http.go over   *)
(* PostgreSQL at its default isolation level, READ COMMITTED: a statement  *)
(* reads the rows committed when it starts, an UPDATE keeps a lock on its  *)
(* row until the transaction ends, and an UPDATE that waited for that lock *)
(* re-evaluates its own WHERE clause only.                                 *)
(*                                                                         *)
(* A member of Requests is one HTTP request.  What a request can issue at  *)
(* most once is named after it: token r is the opaque refresh token issued *)
(* by request r, claims r the access token of the same reply, secret r the *)
(* TOTP secret generated by request r.                                     *)
(***************************************************************************)
EXTENDS FiniteSets

CONSTANTS Requests,   \* HTTP requests; the bound on how many there ever are
          Users,      \* e-mail addresses, UNIQUE over all organizations
          Orgs,       \* organizations (tenants)
          None        \* SQL NULL, an absent row, an absent payload field

VARIABLES users,      \* committed rows of table users, by e-mail
          tokens,     \* committed rows of table refresh_tokens, by token
          pc,         \* where each handler is
          kind,       \* which handler serves each request
          org,        \* organization_id of the payload (of the claims, for enroll)
          user,       \* the account the handler works on, once it knows it
          arg,        \* presented refresh token, access token or TOTP secret
          role,       \* role the handler read: the Role of the claims it issues
          reply,      \* what the client received ("void": a 204 that revoked nothing)
          before,     \* revocations of arg answered before this arrival (history)
          lapsed      \* access tokens older than accessTokenTTL

payload == <<kind, org, arg, before>>
vars == <<users, tokens, pc, kind, org, user, arg, role, reply, before, lapsed>>

Kinds == {"register", "login", "refresh", "logout", "enroll"}
Issuers == {"register", "login", "refresh"}
Roles == {"member", "tenant_admin"}

\* privilegedRole: the roles that need a second factor.
privilegedRole(ro) == ro \in {"admin", "tenant_admin", "super_admin"}

\* A row of users.  mfa_secret and mfa_enabled are only ever written together.
Account == [org : Orgs, role : Roles, secret : Requests \cup {None}]

\* A row of refresh_tokens.
Row == [user : Users, org : Orgs, revoked : BOOLEAN, expired : BOOLEAN,
        from : Requests \cup {None}]

ASSUME NoneAssumption ==
    /\ None \notin Requests \cup Users \cup Orgs \cup Kinds \cup Roles
    /\ None \notin Account \cup Row

TypeOK ==
    /\ users \in [Users -> Account \cup {None}]
    /\ tokens \in [Requests -> Row \cup {None}]
    /\ pc \in [Requests -> {"idle", "begun", "inserted", "selected", "updated", "done"}]
    /\ kind \in [Requests -> Kinds \cup {None}]
    /\ org \in [Requests -> Orgs \cup {None}]
    /\ user \in [Requests -> Users \cup {None}]
    /\ arg \in [Requests -> Requests \cup {None}]
    /\ role \in [Requests -> Roles \cup {None}]
    /\ reply \in [Requests -> {"none", "ok", "void", "err", "lost"}]
    /\ before \in [Requests -> SUBSET Requests]
    /\ lapsed \in SUBSET Requests

Init ==
    /\ users = [u \in Users |-> None]
    /\ tokens = [r \in Requests |-> None]
    /\ pc = [r \in Requests |-> "idle"]
    /\ kind = [r \in Requests |-> None]
    /\ org = [r \in Requests |-> None]
    /\ user = [r \in Requests |-> None]
    /\ arg = [r \in Requests |-> None]
    /\ role = [r \in Requests |-> None]
    /\ reply = [r \in Requests |-> "none"]
    /\ before = [r \in Requests |-> {}]
    /\ lapsed = {}
-----------------------------------------------------------------------------
(* What a client can present: it holds what a reply brought it.            *)

Held(r) == pc[r] = "done" /\ reply[r] = "ok"
HeldTokens == {r \in Requests : Held(r) /\ kind[r] \in Issuers}
HeldSecrets == {r \in Requests : Held(r) /\ kind[r] = "enroll"}

\* The refreshes and logouts of token t that have been answered.
AnsweredFor(t) == {q \in Requests : /\ pc[q] = "done"
                                    /\ kind[q] \in {"refresh", "logout"}
                                    /\ arg[q] = t}

(* Locks of the transactions in progress.                                  *)
\* Mutant: the transaction is not closed when the handler returns.
RowLockedForever(t) == \E r \in Requests : /\ pc[r] \in {"updated", "done"}
                                           /\ kind[r] \in {"refresh", "logout"}
                                           /\ arg[r] = t

RowLocked(t) == \E r \in Requests : /\ pc[r] = "updated"
                                    /\ kind[r] \in {"refresh", "logout"}
                                    /\ arg[r] = t

AccountLocked(u) == \E r \in Requests : /\ pc[r] = "updated"
                                        /\ kind[r] = "enroll"
                                        /\ user[r] = u

\* Another transaction has inserted this e-mail and has not ended yet.
EmailLocked(u) == \E r \in Requests : pc[r] = "inserted" /\ user[r] = u

\* storeRefreshToken: the row an issuing handler inserts.
NewRow(u, o, parent) == [user |-> u, org |-> o, revoked |-> FALSE,
                         expired |-> FALSE, from |-> parent]

Revoke(row) == [row EXCEPT !.revoked = TRUE]
\* Mutants: a conjunct of that WHERE clause is missing.
RefreshableIfRevoked(t, o) == tokens[t] # None /\ tokens[t].org = o /\ ~tokens[t].expired
RefreshableAnywhere(t, o) == tokens[t] # None /\ ~tokens[t].revoked /\ ~tokens[t].expired

\* The WHERE clause of RefreshHandler's SELECT.
Refreshable(t, o) == /\ tokens[t] # None
                     /\ tokens[t].org = o
                     /\ ~tokens[t].revoked
                     /\ ~tokens[t].expired

Finish(r, answer) == /\ pc' = [pc EXCEPT ![r] = "done"]
                     /\ reply' = [reply EXCEPT ![r] = answer]

\* After a commit the reply reaches the client, or the connection breaks first.
Committed(r) == \E answer \in {"ok", "lost"} : Finish(r, answer)
-----------------------------------------------------------------------------
(* Arrivals: the payload is decoded and the handler's transaction opened.  *)

Arrive(r, k, u, o, a) ==
    /\ pc[r] = "idle"
    /\ pc' = [pc EXCEPT ![r] = "begun"]
    /\ kind' = [kind EXCEPT ![r] = k]
    /\ user' = [user EXCEPT ![r] = u]
    /\ org' = [org EXCEPT ![r] = o]
    /\ arg' = [arg EXCEPT ![r] = a]
    /\ before' = [before EXCEPT ![r] = AnsweredFor(a)]
    /\ UNCHANGED <<users, tokens, role, reply, lapsed>>

ArriveRegister(r) == \E u \in Users, o \in Orgs : Arrive(r, "register", u, o, None)

\* A login may carry a code computed from a secret its client was given.
ArriveLogin(r) == \E u \in Users, o \in Orgs, s \in HeldSecrets \cup {None} :
                      Arrive(r, "login", u, o, s)

ArriveRefresh(r) == \E t \in HeldTokens, o \in Orgs : Arrive(r, "refresh", None, o, t)

ArriveLogout(r) == \E t \in HeldTokens, o \in Orgs : Arrive(r, "logout", None, o, t)

\* RBACMiddleware lets an unexpired access token through; its claims alone
\* decide who the caller is.
ArriveEnroll(r) == \E c \in HeldTokens \ lapsed :
    /\ Arrive(r, "enroll", user[c], org[c], c)

(* Any statement or the commit fails, the context is cancelled, the        *)
(* password is wrong or the payload is refused: deferred Rollback, error.  *)

Fail(r) ==
    /\ pc[r] \in {"begun", "inserted", "selected", "updated"}
    /\ kind[r] = "logout" => pc[r] = "begun"
    /\ Finish(r, "err")
    /\ UNCHANGED <<users, tokens, payload, user, role, lapsed>>
-----------------------------------------------------------------------------
(* RegisterHandler: one transaction inserts the account and its token.     *)

RegisterInsert(r) ==
    /\ pc[r] = "begun" /\ kind[r] = "register"
    /\ ~EmailLocked(user[r])
    /\ users[user[r]] = None
    /\ pc' = [pc EXCEPT ![r] = "inserted"]
    /\ role' = [role EXCEPT ![r] = "member"]
    /\ UNCHANGED <<users, tokens, payload, user, reply, lapsed>>

RegisterConflict(r) ==
    /\ pc[r] = "begun" /\ kind[r] = "register"
    /\ users[user[r]] # None
    /\ Finish(r, "err")
    /\ UNCHANGED <<users, tokens, payload, user, role, lapsed>>

RegisterCommit(r) ==
    /\ pc[r] = "inserted"
    /\ users' = [users EXCEPT ![user[r]] =
                    [org |-> org[r], role |-> role[r], secret |-> None]]
    /\ tokens' = [tokens EXCEPT ![r] = NewRow(user[r], org[r], None)]
    /\ Committed(r)
    /\ UNCHANGED <<payload, user, role, lapsed>>
-----------------------------------------------------------------------------
(* LoginHandler: reads the account in one transaction, then issues the     *)
(* token in a second one (issueRefreshToken).                              *)
\* Mutant: mfa_enabled is not tested, NULL secrets compare equal.
SecondFactorOptional(acct, s) == acct.secret = s

SecondFactor(acct, s) == acct.secret # None /\ acct.secret = s

LoginSelect(r) ==
    /\ pc[r] = "begun" /\ kind[r] = "login"
    /\ LET acct == users[user[r]] IN
         /\ acct # None
         /\ acct.org = org[r]
         /\ privilegedRole(acct.role) => SecondFactor(acct, arg[r])
         /\ role' = [role EXCEPT ![r] = acct.role]
    /\ pc' = [pc EXCEPT ![r] = "selected"]
    /\ UNCHANGED <<users, tokens, payload, user, reply, lapsed>>

LoginIssue(r) ==
    /\ pc[r] = "selected" /\ kind[r] = "login"
    /\ tokens' = [tokens EXCEPT ![r] = NewRow(user[r], org[r], None)]
    /\ Committed(r)
    /\ UNCHANGED <<users, payload, user, role, lapsed>>
-----------------------------------------------------------------------------
(* RefreshHandler: SELECT without a lock, UPDATE by id, INSERT, commit.    *)

RefreshSelect(r) ==
    /\ pc[r] = "begun" /\ kind[r] = "refresh"
    /\ Refreshable(arg[r], org[r])
    /\ pc' = [pc EXCEPT ![r] = "selected"]
    /\ user' = [user EXCEPT ![r] = tokens[arg[r]].user]
    /\ role' = [role EXCEPT ![r] = users[tokens[arg[r]].user].role]
    /\ UNCHANGED <<users, tokens, payload, reply, lapsed>>

\* WHERE id = $1: a row revoked since the SELECT matches all the same.
RefreshUpdate(r) ==
    /\ pc[r] = "selected" /\ kind[r] = "refresh"
    /\ ~RowLocked(arg[r])
    /\ pc' = [pc EXCEPT ![r] = "updated"]
    /\ UNCHANGED <<users, tokens, payload, user, role, reply, lapsed>>

\* Mutant: the row is written back as the SELECT found it.
RefreshCommitWriteBack(r) ==
    /\ pc[r] = "updated" /\ kind[r] = "refresh"
    /\ tokens' = [tokens EXCEPT ![arg[r]].revoked = FALSE,
                                ![r] = NewRow(user[r], tokens[arg[r]].org, arg[r])]
    /\ Committed(r)
    /\ UNCHANGED <<users, payload, user, role, lapsed>>

\* Mutant: the successor is inserted, the predecessor is not revoked.
RefreshCommitInsertOnly(r) ==
    /\ pc[r] = "updated" /\ kind[r] = "refresh"
    /\ tokens' = [tokens EXCEPT ![r] = NewRow(user[r], tokens[arg[r]].org, arg[r])]
    /\ Committed(r)
    /\ UNCHANGED <<users, payload, user, role, lapsed>>

RefreshCommit(r) ==
    /\ pc[r] = "updated" /\ kind[r] = "refresh"
    /\ tokens' = [tokens EXCEPT ![arg[r]] = Revoke(@),
                                ![r] = NewRow(user[r], tokens[arg[r]].org, arg[r])]
    /\ Committed(r)
    /\ UNCHANGED <<users, payload, user, role, lapsed>>
-----------------------------------------------------------------------------
(* LogoutHandler: the results of UPDATE and commit are both discarded and  *)
(* the reply is 204 in any case.                                           *)

LogoutUpdate(r) ==
    /\ pc[r] = "begun" /\ kind[r] = "logout"
    /\ tokens[arg[r]].org = org[r]
    /\ ~RowLocked(arg[r])
    /\ pc' = [pc EXCEPT ![r] = "updated"]
    /\ UNCHANGED <<users, tokens, payload, user, role, reply, lapsed>>

LogoutCommit(r) ==
    /\ pc[r] = "updated" /\ kind[r] = "logout"
    /\ tokens' = [tokens EXCEPT ![arg[r]] = Revoke(@)]
    /\ Committed(r)
    /\ UNCHANGED <<users, payload, user, role, lapsed>>

\* No row matched (another organization's token), or a statement failed.
LogoutNoEffect(r) ==
    /\ pc[r] \in {"begun", "updated"} /\ kind[r] = "logout"
    /\ Finish(r, "void")
    /\ UNCHANGED <<users, tokens, payload, user, role, lapsed>>
-----------------------------------------------------------------------------
(* MFAEnrollHandler: authorized by the role in the claims, it overwrites   *)
(* whatever secret the account had.                                        *)

EnrollUpdate(r) ==
    /\ pc[r] = "begun" /\ kind[r] = "enroll"
    /\ privilegedRole(role[arg[r]])
    /\ ~AccountLocked(user[r])
    /\ pc' = [pc EXCEPT ![r] = "updated"]
    /\ UNCHANGED <<users, tokens, payload, user, role, reply, lapsed>>

EnrollCommit(r) ==
    /\ pc[r] = "updated" /\ kind[r] = "enroll"
    /\ users' = [users EXCEPT ![user[r]].secret = r]
    /\ Committed(r)
    /\ UNCHANGED <<tokens, payload, user, role, lapsed>>
-----------------------------------------------------------------------------
(* The environment: time passes, and an operator changes a role in the     *)
(* database (no handler of this program does).                             *)

ExpireRefresh(t) ==
    /\ tokens[t] # None
    /\ ~tokens[t].expired
    /\ tokens' = [tokens EXCEPT ![t].expired = TRUE]
    /\ UNCHANGED <<users, pc, payload, user, role, reply, lapsed>>

ExpireAccess(c) ==
    /\ c \in HeldTokens \ lapsed
    /\ lapsed' = lapsed \cup {c}
    /\ UNCHANGED <<users, tokens, pc, payload, user, role, reply>>

SetRole(u) ==
    /\ users[u] # None
    /\ ~AccountLocked(u)
    /\ \E ro \in Roles \ {users[u].role} : users' = [users EXCEPT ![u].role = ro]
    /\ UNCHANGED <<tokens, pc, payload, user, role, reply, lapsed>>
-----------------------------------------------------------------------------
Register(r) == RegisterInsert(r) \/ RegisterConflict(r) \/ RegisterCommit(r)
Login(r) == LoginSelect(r) \/ LoginIssue(r)
Refresh(r) == RefreshSelect(r) \/ RefreshUpdate(r) \/ RefreshCommit(r)
Logout(r) == LogoutUpdate(r) \/ LogoutCommit(r) \/ LogoutNoEffect(r)
Enroll(r) == EnrollUpdate(r) \/ EnrollCommit(r)

\* One step of the handler of request r.
Step(r) == Register(r) \/ Login(r) \/ Refresh(r) \/ Logout(r) \/ Enroll(r) \/ Fail(r)

Arrival(r) == \/ ArriveRegister(r) \/ ArriveLogin(r) \/ ArriveRefresh(r)
              \/ ArriveLogout(r) \/ ArriveEnroll(r)

Environment == \/ \E t \in Requests : ExpireRefresh(t) \/ ExpireAccess(t)
               \/ \E u \in Users : SetRole(u)

Next == (\E r \in Requests : Arrival(r) \/ Step(r)) \/ Environment

Spec == Init /\ [][Next]_vars

\* The next statement of r is inside PostgreSQL, waiting for another transaction.
Waits(r) ==
    \/ pc[r] = "begun" /\ kind[r] = "register" /\ EmailLocked(user[r])
    \/ pc[r] = "selected" /\ kind[r] = "refresh" /\ RowLocked(arg[r])
    \/ pc[r] = "begun" /\ kind[r] = "logout" /\ RowLocked(arg[r])
    \/ pc[r] = "begun" /\ kind[r] = "enroll" /\ AccountLocked(user[r])

\* A statement that does not wait completes or fails.  Nothing ends a wait but
\* the other transaction: no lock_timeout is set, and the client may be patient.
FairSpec == Spec /\ \A r \in Requests : WF_vars(Step(r) /\ ~Waits(r))
-----------------------------------------------------------------------------
(* Properties.                                                             *)

\* Request r consumed the token it presented and issued a successor.
Rotated(r) == kind[r] = "refresh" /\ tokens[r] # None

\* Request r revoked the token it presented.
TookEffect(r) == \/ Rotated(r)
                 \/ kind[r] = "logout" /\ reply[r] \in {"ok", "lost"}

\* RefreshHandler's transaction is all or nothing: a token that records a
\* predecessor exists only together with the revocation of that predecessor,
\* and belongs to the same account.
RotationIsAtomic ==
    \A t \in Requests :
        (tokens[t] # None /\ tokens[t].from # None) =>
            LET parent == tokens[tokens[t].from] IN
            /\ parent # None
            /\ parent.revoked
            /\ parent.user = tokens[t].user
            /\ parent.org = tokens[t].org

\* Rows of refresh_tokens are never reassigned and a revocation is never
\* undone, by any interleaving of rotations and logouts of one token; accounts
\* never move to another organization.
RowsAreKept ==
    /\ \A t \in Requests : tokens[t] # None =>
          /\ tokens'[t] # None
          /\ tokens'[t].user = tokens[t].user
          /\ tokens'[t].org = tokens[t].org
          /\ tokens'[t].from = tokens[t].from
          /\ tokens[t].revoked => tokens'[t].revoked
    /\ \A u \in Users : users[u] # None =>
          users'[u] # None /\ users'[u].org = users[u].org

RevocationIsFinal == [][RowsAreKept]_vars

\* A refresh that arrives after a refresh or a logout of the same token has
\* been answered issues nothing, whatever runs in between (the races are
\* only among requests that overlap).
RevocationRefusesLaterRefresh ==
    \A q \in Requests : Rotated(q) => \A r \in before[q] : ~TookEffect(r)

\* Whatever organization_id a client presents, a token and the claims issued
\* with it are those of an account of that very organization, and a TOTP
\* secret was generated for the account that holds it.
TenantIsolation ==
    /\ \A r \in Requests : tokens[r] # None =>
          /\ tokens[r].org = org[r]
          /\ tokens[r].user = user[r]
          /\ users[user[r]] # None
          /\ users[user[r]].org = org[r]
    /\ \A u \in Users : (users[u] # None /\ users[u].secret # None) =>
          user[users[u].secret] = u

\* LoginHandler refuses a privileged account without a second factor and
\* MFAEnrollHandler only serves privileged claims, so the first secret of any
\* account is bought with claims that RefreshHandler issued: an account that
\* never held a session before it became privileged cannot enroll.
EnrollmentStartsFromARefresh ==
    \A u \in Users : (users[u] # None /\ users[u].secret # None) =>
        \E c \in Requests : /\ Rotated(c)
                            /\ user[c] = u
                            /\ privilegedRole(role[c])

\* Every handler ends: the row locks of concurrent rotations, logouts and
\* enrollments are never waited for forever.
EveryRequestIsAnswered ==
    \A r \in Requests : (pc[r] # "idle") ~> (pc[r] = "done")

(* What a document says and the code does not do.                          *)

\* SF-architecture.md: MFA is structurally mandatory for Tenant_Admin and
\* Super_Admin, so privileged claims go to accounts with a second factor only.
PrivilegedClaimsNeedMFA ==
    \A r \in HeldTokens : privilegedRole(role[r]) => users[user[r]].secret # None
=============================================================================
