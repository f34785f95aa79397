------------------------------ MODULE Sessions ------------------------------
(***************************************************************************)
(* Sign-in sessions: chains of refresh tokens in PostgreSQL, the access      *)
(* tokens minted from them, and the marks in Valkey that cut access tokens   *)
(* off early.  Requests run concurrently and interleave between their        *)
(* statements; a request may fail or its server may die at any point.        *)
(*                                                                         *)
(* Three locks with different meanings meet here: the lease on a refresh     *)
(* token (Valkey, expires under a slow holder), the per-user sessions lock   *)
(* (an advisory lock held to the end of the transaction) and the row fence   *)
(* of Rotate (WHERE revoked IS FALSE).                                       *)
(*                                                                         *)
(* A revocation is one UPDATE: it acts on the rows its snapshot contains,    *)
(* not on a row committed while it runs.  A password change revokes inside   *)
(* its own transaction, so there the marks are written before the commit.    *)
(***************************************************************************)
EXTENDS Integers, Sequences, FiniteSets

CONSTANTS
  Users,
  Families,          \* session ids
  Tokens,            \* refresh tokens
  Requests,          \* requests that run at the same time
  BreakGlass,        \* the users whose account is the break-glass one
  BreakGlassAccessTokenTTL,
  BreakGlassSessionLifetime,
  AccessTokenTTL,
  RevokedSessionSkew,
  GracePeriod,
  InactiveLifetime,
  MaxLifetime,
  RefreshTokenTTL,
  Retention,         \* how long past its expiry a row is kept
  LockTTL,           \* lease of the lock on a refresh token
  MaxDelay,          \* longest run of a request
  MaxTime,           \* bound on the clock
  Offered            \* bound: the requests that clients make, besides sign-in

ASSUME TTLAssumption ==
  /\ {AccessTokenTTL, GracePeriod, InactiveLifetime, MaxLifetime, RefreshTokenTTL, LockTTL,
      BreakGlassAccessTokenTTL, BreakGlassSessionLifetime} \subseteq Nat \ {0}
  /\ {RevokedSessionSkew, Retention, MaxDelay, MaxTime} \subseteq Nat
  /\ AccessTokenTTL < InactiveLifetime
  /\ InactiveLifetime <= MaxLifetime
  /\ MaxLifetime <= RefreshTokenTTL
  /\ MaxDelay <= Retention
  /\ 2 * MaxDelay <= RevokedSessionSkew

VARIABLES
  rt,        \* table refresh_tokens
  lease,     \* Valkey: the lock on each refresh token
  userLock,  \* the sessions lock of each user: the request that holds it
  marked,    \* Valkey: until when the mark of a revoked session lasts
  access,    \* access tokens that verify and are not blacklisted by their id
  blocked,   \* users: blocked_at is set
  req,       \* the requests under way
  now,
  begun,     \* history: when each session began
  ended,     \* history: the sessions some committed revocation has ended
  unmarked,  \* history: ended sessions whose mark could not be written
  cutOff     \* history: the refresh tokens a blocked user had when BlockUser answered success

history == <<begun, ended, unmarked, cutOff>>
vars == <<rt, lease, userLock, marked, access, blocked, req, now, begun, ended, unmarked, cutOff>>

Nil == -1
None == "none"

NoRow == [state |-> "unused"]
Free == [by |-> None, until |-> 0]
Idle == [pc |-> "idle"]

Stored == {t \in Tokens : rt[t].state = "stored"}
Live(t) == t \in Stored /\ ~ rt[t].revoked

Row(user, family, expiresAt, startedAt) ==
  [ state      |-> "stored",
    user       |-> user,
    family     |-> family,
    expiresAt  |-> expiresAt,
    startedAt  |-> startedAt,
    createdAt  |-> now,
    revoked    |-> FALSE,
    replacedBy |-> None,
    graceTTL   |-> Nil ]

Least(a, b) == IF a < b THEN a ELSE b

\* The lifetimes of an access token and of a session: never longer than the
\* configured ones for the break-glass account.
SessionTTLs(user) ==
  IF user \in BreakGlass
  THEN [access |-> Least(AccessTokenTTL, BreakGlassAccessTokenTTL),
        maxLifetime |-> Least(MaxLifetime, BreakGlassSessionLifetime)]
  ELSE [access |-> AccessTokenTTL, maxLifetime |-> MaxLifetime]

\* Hashes of random tokens and session ids never repeat; which unused one is
\* taken makes no difference.  Tokens and Families bound how many there are.
HasUnusedToken == \E s \in Tokens : rt[s] = NoRow
NewToken == CHOOSE s \in Tokens : rt[s] = NoRow
UnusedFamilies ==
  {f \in Families : begun[f] = Nil /\ \A q \in Requests : req[q].pc = "save" => req[q].family # f}

\* An access token carries its session and its expiry.
IssueAccessToken(user, family, at) ==
  [user |-> user, family |-> family, exp |-> at + SessionTTLs(user).access]

-----------------------------------------------------------------------------
(* The lock on a refresh token.                                            *)

Acquire(r, t) ==
  /\ lease[t] = Free
  /\ lease' = [lease EXCEPT ![t] = [by |-> r, until |-> now + LockTTL]]

\* Only the holder's own key is deleted.
Release(r) == lease' = [t \in Tokens |-> IF lease[t].by = r THEN Free ELSE lease[t]]

Goto(r, pc) == req' = [req EXCEPT ![r].pc = pc]

\* Mutant: the sessions lock outlives its transaction.
Unlock_Kept(r) == UNCHANGED userLock

\* The sessions lock goes with its transaction.
Unlock(r) == userLock' = [u \in Users |-> IF userLock[u] = r THEN None ELSE userLock[u]]

\* The request answers; the deferred release runs.
Answer(r) ==
  /\ req' = [req EXCEPT ![r] = Idle]
  /\ Release(r)

-----------------------------------------------------------------------------
(* Sign-in.  The user is read and the access token signed before the row of  *)
(* the refresh token is stored; the sessions lock is not taken.              *)

IssueTokenPair(r, user) ==
  /\ req[r] = Idle
  /\ ~ blocked[user]
  /\ UnusedFamilies # {}
  /\ req' = [req EXCEPT ![r] = [pc |-> "save", at |-> now, user |-> user, family |-> CHOOSE f \in UnusedFamilies : TRUE]]
  /\ UNCHANGED <<rt, lease, userLock, marked, access, blocked, now, history>>

SaveRefreshToken(r) ==
  /\ req[r].pc = "save"
  /\ HasUnusedToken
  /\ rt' = [rt EXCEPT ![NewToken] = Row(req[r].user, req[r].family, now + RefreshTokenTTL, now)]
  /\ access' = access \cup {IssueAccessToken(req[r].user, req[r].family, req[r].at)}
  /\ begun' = [begun EXCEPT ![req[r].family] = now]
  /\ Answer(r)
  /\ UNCHANGED <<userLock, marked, blocked, now, ended, unmarked, cutOff>>

-----------------------------------------------------------------------------
(* Refresh.                                                                *)

Refresh(r, t) ==
  /\ req[r] = Idle
  /\ rt[t].state # "unused"
  /\ Acquire(r, t)
  /\ req' = [req EXCEPT ![r] = [pc |-> "fetch", at |-> now, token |-> t]]
  /\ UNCHANGED <<rt, userLock, marked, access, blocked, now, history>>

\* Both limits of a session, at the time the request came in.
PastLimits(row, at) ==
  at - row.createdAt > InactiveLifetime \/ at - row.startedAt > SessionTTLs(row.user).maxLifetime

\* The revocation of "scope" is still to be run.
RevokeReq(op, user, todo, jti) ==
  [pc |-> "revoke", at |-> now, op |-> op, user |-> user, todo |-> todo, rows |-> {}, fams |-> {}, jti |-> jti]

FamilyScope(family) == [kind |-> "family", family |-> family]

\* What the row of the presented token decides.
FetchToken(r) ==
  LET t == req[r].token
      row == rt[t]
  IN
  /\ req[r].pc = "fetch"
  /\ \/ /\ \/ t \notin Stored
           \/ row.revoked /\ row.replacedBy = None
           \/ ~ row.revoked /\ (PastLimits(row, req[r].at) \/ blocked[row.user])
        /\ Answer(r)
     \/ /\ t \in Stored /\ row.revoked /\ row.replacedBy # None
        /\ IF req[r].at < row.graceTTL
           THEN Goto(r, "grace")
           ELSE req' = [req EXCEPT ![r] = [RevokeReq("reuse", row.user, <<FamilyScope(row.family)>>, {})
                                           EXCEPT !.at = req[r].at]]
        /\ UNCHANGED lease
     \/ /\ Live(t) /\ ~ PastLimits(row, req[r].at) /\ ~ blocked[row.user]
        /\ req' = [req EXCEPT ![r] = [pc |-> "rotate", at |-> req[r].at, token |-> t, iat |-> now]]
        /\ UNCHANGED lease
  /\ UNCHANGED <<rt, userLock, marked, access, blocked, now, history>>

\* The grace answer: only while some token of the session is live.
HasLiveToken(r) ==
  /\ req[r].pc = "grace"
  /\ IF \E s \in Tokens : Live(s) /\ rt[s].family = rt[req[r].token].family /\ rt[s].expiresAt > now
     THEN Goto(r, "issue") /\ UNCHANGED lease
     ELSE Answer(r)
  /\ UNCHANGED <<rt, userLock, marked, access, blocked, now, history>>

RefreshWithinGrace(r) ==
  /\ req[r].pc = "issue"
  /\ LET row == rt[req[r].token]
     IN  IF ~ blocked[row.user]
         THEN access' = access \cup {IssueAccessToken(row.user, row.family, now)}
         ELSE UNCHANGED access
  /\ Answer(r)
  /\ UNCHANGED <<rt, userLock, marked, blocked, now, history>>

\* Mutant: no sessions lock.
LockUserSessions_Skipped(r, user) == UNCHANGED userLock

\* The rotation's transaction starts with the sessions lock.
LockUserSessions(r, user) ==
  /\ userLock[user] = None
  /\ userLock' = [userLock EXCEPT ![user] = r]

RotateBegin(r) ==
  /\ req[r].pc = "rotate"
  /\ LockUserSessions(r, rt[req[r].token].user)
  /\ Goto(r, "rotating")
  /\ UNCHANGED <<rt, lease, marked, access, blocked, now, history>>

\* Mutant: the row need not be live.
Rotate_Unfenced(r) ==
  LET t == req[r].token
      old == rt[t]
  IN
  /\ req[r].pc = "rotating"
  /\ IF t \in Stored
     THEN /\ HasUnusedToken
          /\ rt' = [rt EXCEPT ![t].revoked = TRUE, ![t].replacedBy = NewToken, ![t].graceTTL = req[r].at + GracePeriod,
                              ![NewToken] = Row(old.user, old.family, req[r].at + RefreshTokenTTL, old.startedAt)]
          /\ access' = access \cup {IssueAccessToken(old.user, old.family, req[r].iat)}
     ELSE UNCHANGED <<rt, access>>
  /\ Unlock(r)
  /\ Answer(r)
  /\ UNCHANGED <<marked, blocked, now, history>>

\* Mutant: every rotation starts the session anew.
Rotate_Restarted(r) ==
  LET t == req[r].token
      old == rt[t]
  IN
  /\ req[r].pc = "rotating"
  /\ IF Live(t)
     THEN /\ HasUnusedToken
          /\ rt' = [rt EXCEPT ![t].revoked = TRUE, ![t].replacedBy = NewToken, ![t].graceTTL = req[r].at + GracePeriod,
                              ![NewToken] = Row(old.user, old.family, req[r].at + RefreshTokenTTL, now)]
          /\ access' = access \cup {IssueAccessToken(old.user, old.family, req[r].iat)}
     ELSE UNCHANGED <<rt, access>>
  /\ Unlock(r)
  /\ Answer(r)
  /\ UNCHANGED <<marked, blocked, now, history>>

\* The row is revoked in favour of its successor only while it is still live.
Rotate(r) ==
  LET t == req[r].token
      old == rt[t]
  IN
  /\ req[r].pc = "rotating"
  /\ IF Live(t)
     THEN /\ HasUnusedToken
          /\ rt' = [rt EXCEPT ![t].revoked = TRUE, ![t].replacedBy = NewToken, ![t].graceTTL = req[r].at + GracePeriod,
                              ![NewToken] = Row(old.user, old.family, req[r].at + RefreshTokenTTL, old.startedAt)]
          /\ access' = access \cup {IssueAccessToken(old.user, old.family, req[r].iat)}
     ELSE UNCHANGED <<rt, access>>
  /\ Unlock(r)
  /\ Answer(r)
  /\ UNCHANGED <<marked, blocked, now, history>>

-----------------------------------------------------------------------------
(* Revocation.                                                             *)

UserScope == [kind |-> "user"]
ExceptScope(family) == [kind |-> "except", family |-> family]
TokenScope(t, sid) == [kind |-> "token", token |-> t, family |-> sid]

\* The rows that the WHERE clause of a revocation selects.
Selected(user, scope) ==
  {t \in Stored : CASE scope.kind = "user"   -> rt[t].user = user
                    [] scope.kind = "except" -> rt[t].user = user /\ rt[t].family # scope.family
                    [] scope.kind = "family" -> rt[t].family = scope.family
                    [] scope.kind = "token"  -> rt[t].family = rt[scope.token].family}

FamiliesOf(S) == {rt[t].family : t \in S}

\* A logout by refresh token is refused unless the row is there and its own.
Refused(user, scope) ==
  scope.kind = "token" /\ (scope.token \notin Stored \/ rt[scope.token].user # user)

\* The sessions lock, then the UPDATE with the rows it can see.
WithUserSessionsLocked(r) ==
  LET user == req[r].user
      scope == Head(req[r].todo)
      rows == Selected(user, scope)
  IN
  /\ req[r].pc = "revoke"
  /\ IF Refused(user, scope)
     THEN userLock[user] = None /\ Answer(r) /\ UNCHANGED userLock
     ELSE /\ LockUserSessions(r, user)
          /\ req' = [req EXCEPT ![r].pc = IF req[r].op = "password" THEN "mark" ELSE "revoking",
                                ![r].rows = rows,
                                ![r].fams = FamiliesOf(rows) \cup IF scope.kind = "family" THEN {scope.family} ELSE {}]
          /\ UNCHANGED lease
  /\ UNCHANGED <<rt, marked, access, blocked, now, history>>

RevokeRows(r) ==
  /\ rt' = [t \in Tokens |-> IF t \in req[r].rows \cap Stored THEN [rt[t] EXCEPT !.revoked = TRUE] ELSE rt[t]]
  /\ ended' = ended \cup req[r].fams
  /\ Unlock(r)

\* The transaction of a revocation commits; the access tokens come next.
RevokeCommit(r) ==
  /\ req[r].pc = "revoking"
  /\ RevokeRows(r)
  /\ Goto(r, "mark")
  /\ UNCHANGED <<lease, marked, access, blocked, now, begun, unmarked, cutOff>>

\* Mutant: the mark does not outlast the delay of both requests.
RevokeSessionAccessTokens_OneDelay(r) ==
  /\ req[r].pc = "mark"
  /\ \/ /\ marked' = [f \in Families |-> IF f \in req[r].fams THEN now + AccessTokenTTL + MaxDelay
                                         ELSE marked[f]]
        /\ unmarked' = unmarked \ req[r].fams
     \/ unmarked' = unmarked \cup req[r].fams /\ UNCHANGED marked
  /\ Goto(r, IF req[r].op = "password" THEN "commit" ELSE "conclude")
  /\ UNCHANGED <<rt, lease, userLock, access, blocked, now, begun, ended, cutOff>>

\* The marks are best-effort.  Inside a password change they precede the commit.
RevokeSessionAccessTokens(r) ==
  /\ req[r].pc = "mark"
  /\ \/ /\ marked' = [f \in Families |-> IF f \in req[r].fams THEN now + AccessTokenTTL + RevokedSessionSkew
                                         ELSE marked[f]]
        /\ unmarked' = unmarked \ req[r].fams
     \/ unmarked' = unmarked \cup req[r].fams /\ UNCHANGED marked
  /\ Goto(r, IF req[r].op = "password" THEN "commit" ELSE "conclude")
  /\ UNCHANGED <<rt, lease, userLock, access, blocked, now, begun, ended, cutOff>>

\* The transaction that holds the new password and the revocation.
InstallPassword(r) ==
  /\ req[r].pc = "commit"
  /\ RevokeRows(r)
  /\ Answer(r)
  /\ UNCHANGED <<marked, access, blocked, now, begun, unmarked, cutOff>>

\* Mutant: a logout by refresh token leaves the session of the access token.
Conclude_OneSession(r) ==
  /\ req[r].pc = "conclude"
  /\ Answer(r)
  /\ access' \in {access, access \ req[r].jti}
  /\ cutOff' = IF req[r].op = "block" THEN cutOff \cup req[r].rows ELSE cutOff
  /\ UNCHANGED <<rt, userLock, marked, blocked, now, begun, ended, unmarked>>

\* What follows the last revocation of a request: a logout goes on to the
\* session of its access token if that is another one, then blacklists the
\* access token, best-effort; a block has now cut the user off.  Every access
\* token minted by this version names its session: logout.go:57 passes over the
\* ones that do not.
Conclude(r) ==
  LET scope == Head(req[r].todo) IN
  /\ req[r].pc = "conclude"
  /\ IF scope.kind = "token" /\ scope.family \notin req[r].fams
     THEN /\ req' = [req EXCEPT ![r].pc = "revoke", ![r].todo = <<FamilyScope(scope.family)>>]
          /\ UNCHANGED <<lease, access, cutOff>>
     ELSE /\ Answer(r)
          /\ access' \in {access, access \ req[r].jti}
          /\ cutOff' = IF req[r].op = "block" THEN cutOff \cup req[r].rows ELSE cutOff
  /\ UNCHANGED <<rt, userLock, marked, blocked, now, begun, ended, unmarked>>

\* With a refresh token the session it belongs to ends, and the one of the access
\* token; without, the session of the access token.
Logout(r, a) ==
  /\ req[r] = Idle
  /\ \E scope \in {TokenScope(t, a.family) : t \in {s \in Tokens : rt[s].state # "unused"}}
                  \cup {FamilyScope(a.family)} :
       req' = [req EXCEPT ![r] = RevokeReq("logout", a.user, <<scope>>, {a})]
  /\ UNCHANGED <<rt, lease, userLock, marked, access, blocked, now, history>>

LogoutAll(r, a) ==
  /\ req[r] = Idle
  /\ req' = [req EXCEPT ![r] = RevokeReq("logout", a.user, <<UserScope>>, {a})]
  /\ UNCHANGED <<rt, lease, userLock, marked, access, blocked, now, history>>

\* A change spares the session of a live refresh token, if one is presented.
ChangePassword(r, user) ==
  /\ req[r] = Idle
  /\ user \notin BreakGlass
  /\ \E scope \in {ExceptScope(rt[t].family) : t \in {s \in Tokens : Live(s) /\ rt[s].user = user}}
                  \cup {UserScope} :
       req' = [req EXCEPT ![r] = RevokeReq("password", user, <<scope>>, {})]
  /\ UNCHANGED <<rt, lease, userLock, marked, access, blocked, now, history>>

\* A reset, by a one-time code, spares nothing.
ResetPassword(r, user) ==
  /\ req[r] = Idle
  /\ ~ blocked[user]
  /\ req' = [req EXCEPT ![r] = RevokeReq("password", user, <<UserScope>>, {})]
  /\ UNCHANGED <<rt, lease, userLock, marked, access, blocked, now, history>>

\* The block commits first; a second call finds nothing to change.
BlockUser(r, user) ==
  /\ req[r] = Idle
  /\ IF blocked[user]
     THEN cutOff' = cutOff \cup {t \in Stored : rt[t].user = user} /\ UNCHANGED <<blocked, req>>
     ELSE /\ blocked' = [blocked EXCEPT ![user] = TRUE]
          /\ req' = [req EXCEPT ![r] = RevokeReq("block", user, <<UserScope>>, {})]
          /\ UNCHANGED cutOff
  /\ UNCHANGED <<rt, lease, userLock, marked, access, now, begun, ended, unmarked>>

UnblockUser(user) ==
  /\ blocked[user]
  /\ blocked' = [blocked EXCEPT ![user] = FALSE]
  /\ cutOff' = {t \in cutOff : rt[t].user # user}
  /\ UNCHANGED <<rt, lease, userLock, marked, access, req, now, begun, ended, unmarked>>

-----------------------------------------------------------------------------
(* Failures, the retention sweep and the clock.                            *)

\* A statement fails or the server dies: an open transaction is rolled back.
\* The lease is released by the deferred call, or left to expire.
Abort(r) ==
  /\ req[r] # Idle
  /\ Unlock(r)
  /\ unmarked' = IF req[r].pc = "mark" /\ req[r].op # "password" THEN unmarked \cup req[r].fams ELSE unmarked
  /\ req' = [req EXCEPT ![r] = Idle]
  /\ \/ Release(r)
     \/ lease' = [t \in Tokens |-> IF lease[t].by = r THEN [lease[t] EXCEPT !.by = "crashed"] ELSE lease[t]]
  /\ UNCHANGED <<rt, marked, access, blocked, now, begun, ended, cutOff>>

\* Mutant: rows are pruned by their age.
PruneExpiredBefore_ByAge(cutoff) ==
  /\ \E t \in Stored :
       /\ rt[t].createdAt < cutoff
       /\ rt' = [rt EXCEPT ![t].state = "pruned"]
  /\ UNCHANGED <<lease, userLock, marked, access, blocked, req, now, history>>

\* The oldest rows go first, whether revoked or not.
PruneExpiredBefore(cutoff) ==
  /\ \E t \in Stored :
       /\ rt[t].expiresAt < cutoff
       /\ \A s \in Stored : rt[t].expiresAt <= rt[s].expiresAt
       /\ rt' = [rt EXCEPT ![t].state = "pruned"]
  /\ UNCHANGED <<lease, userLock, marked, access, blocked, req, now, history>>

PruneRefreshTokens == PruneExpiredBefore(now - Retention)

\* No request runs longer than MaxDelay.  What has expired is gone: a lease, a
\* mark, an access token.
Tick ==
  /\ now < MaxTime
  /\ \A r \in Requests : req[r] # Idle => now - req[r].at < MaxDelay
  /\ now' = now + 1
  /\ lease' = [t \in Tokens |-> IF lease[t].until <= now + 1 THEN Free ELSE lease[t]]
  /\ marked' = [f \in Families |-> IF marked[f] <= now + 1 THEN 0 ELSE marked[f]]
  /\ access' = {a \in access : a.exp > now + 1}
  /\ UNCHANGED <<rt, userLock, blocked, req, history>>

-----------------------------------------------------------------------------
Init ==
  /\ rt = [t \in Tokens |-> NoRow]
  /\ lease = [t \in Tokens |-> Free]
  /\ userLock = [u \in Users |-> None]
  /\ marked = [f \in Families |-> 0]
  /\ access = {}
  /\ blocked = [u \in Users |-> FALSE]
  /\ req = [r \in Requests |-> Idle]
  /\ now = 0
  /\ begun = [f \in Families |-> Nil]
  /\ ended = {}
  /\ unmarked = {}
  /\ cutOff = {}

Start(r) ==
  \/ \E u \in Users : IssueTokenPair(r, u)
  \/ "refresh" \in Offered /\ \E t \in Tokens : Refresh(r, t)
  \/ "logout" \in Offered /\ \E a \in access : Logout(r, a)
  \/ "logout_all" \in Offered /\ \E a \in access : LogoutAll(r, a)
  \/ "change" \in Offered /\ \E u \in Users : ChangePassword(r, u)
  \/ "reset" \in Offered /\ \E u \in Users : ResetPassword(r, u)
  \/ "block" \in Offered /\ \E u \in Users : BlockUser(r, u)

Step(r) ==
  \/ SaveRefreshToken(r)
  \/ FetchToken(r)
  \/ HasLiveToken(r)
  \/ RefreshWithinGrace(r)
  \/ RotateBegin(r)
  \/ Rotate(r)
  \/ WithUserSessionsLocked(r)
  \/ RevokeCommit(r)
  \/ RevokeSessionAccessTokens(r)
  \/ InstallPassword(r)
  \/ Conclude(r)

Next ==
  \/ \E r \in Requests : Start(r) \/ Step(r) \/ Abort(r)
  \/ \E u \in Users : UnblockUser(u)
  \/ PruneRefreshTokens
  \/ Tick

Spec == Init /\ [][Next]_vars

-----------------------------------------------------------------------------
(* Properties.                                                             *)

RowType ==
  [ state : {"stored", "pruned"}, user : Users, family : Families, expiresAt : Nat, startedAt : Nat,
    createdAt : Nat, revoked : BOOLEAN, replacedBy : Tokens \cup {None}, graceTTL : Nat \cup {Nil} ]

\* The tables, the Valkey keys and the requests keep their shape.
SessionsTypeOK ==
  /\ rt \in [Tokens -> RowType \cup {NoRow}]
  /\ lease \in [Tokens -> [by : Requests \cup {None, "crashed"}, until : Nat]]
  /\ userLock \in [Users -> Requests \cup {None}]
  /\ marked \in [Families -> Nat]
  /\ \A a \in access : a.user \in Users /\ a.family \in Families /\ a.exp \in Nat
  /\ blocked \in [Users -> BOOLEAN]
  /\ now \in Nat
  /\ begun \in [Families -> Nat \cup {Nil}]
  /\ ended \subseteq Families /\ unmarked \subseteq Families /\ cutOff \subseteq Tokens
  /\ \A u \in Users : userLock[u] # None => req[userLock[u]].pc \in {"rotating", "revoking", "mark", "commit"}

\* A session never has two live refresh tokens: a refresh that outlives its
\* lease while another one takes the token over does not fork the chain.
OneLiveToken ==
  \A s, t \in Tokens : Live(s) /\ Live(t) /\ rt[s].family = rt[t].family => s = t

\* A session that a committed revocation has ended has no live refresh token,
\* now or later, although a rotation of it may have been under way.
EndedStaysEnded == \A t \in Tokens : Live(t) => rt[t].family \notin ended

MarkPending(f) == \E r \in Requests : req[r].pc = "mark" /\ f \in req[r].fams

\* Every access token of an ended session is refused by its mark for as long as
\* it would verify, even one minted by a refresh that raced the revocation:
\* unless the mark is about to be written or could not be.
EndedIsCutOff ==
  \A a \in access : a.family \in ended => marked[a.family] > now \/ MarkPending(a.family) \/ a.family \in unmarked

\* A logout that blacklists its access token has ended the session of that token
\* for good, also when the refresh token it presented names another session.
LogoutEndsItsSession == [][now' = now => \A a \in access \ access' : a.family \in ended]_vars

\* No chain of refreshes carries a session past its maximum lifetime, but for
\* the last access token and the grace window it may have been issued in.
SessionEnds ==
  \A a \in access :
    a.exp < begun[a.family] + SessionTTLs(a.user).maxLifetime + GracePeriod + MaxDelay + SessionTTLs(a.user).access

\* As long as a session can be refreshed, none of its rotated tokens has been
\* pruned: a replay of any of them is recognised.
ReuseIsDetectable ==
  \A s, t \in Tokens : Live(s) /\ ~ PastLimits(rt[s], now) /\ rt[t].state = "pruned" => rt[t].family # rt[s].family

Revoking(f) == \E r \in Requests : req[r].pc \in {"mark", "commit"} /\ f \in req[r].fams

\* A session whose access tokens are cut off can not be refreshed either, unless
\* its revocation is still under way.
MarkedIsOver == \A t \in Tokens : Live(t) => marked[rt[t].family] <= now \/ Revoking(rt[t].family)

\* Once BlockUser has answered success, no refresh token that the blocked user
\* had by then is live.
BlockedIsCutOff == \A t \in cutOff : ~ Live(t)
=============================================================================
