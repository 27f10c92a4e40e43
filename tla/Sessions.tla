------------------------------ MODULE Sessions ------------------------------
(***************************************************************************)
(* The server-side sessions of questr: SessionService and the routes of    *)
(* domains/users/api.py that open, use and close sessions, running as      *)
(* concurrent database transactions.                                       *)
(*                                                                         *)
(* One HTTP request is one PostgreSQL transaction at READ COMMITTED, which *)
(* orm/base.py commits after the handler has returned and rolls back when  *)
(* it raises.  Between two statements of a request, statements and commits *)
(* of other requests happen.  A request reads the committed rows overlaid  *)
(* with its own; an UPDATE waits for the row's lock, then works on the     *)
(* latest committed row.  So a row version a request has written (write)   *)
(* is also the lock it holds, and it becomes visible at Commit.            *)
(*                                                                         *)
(* The sessions table is the variable session; user holds the columns of   *)
(* the users table that sessions depend on.  Rows of the audit log are     *)
(* counted per impersonation session; of the ROLE_GRANTED and ROLE_REVOKED *)
(* rows the role in the last one is kept.  stamp is a history variable.    *)
(***************************************************************************)
EXTENDS Naturals, FiniteSets

CONSTANTS
  Sid,          \* session ids (uuid7): as many as are ever created
  Users,
  Superusers,   \* the users that start with role SUPERUSER
  Requests,     \* requests that run at the same time, over all workers
  Kinds,        \* the kinds of request the environment sends (a bound)
  None,         \* SQL NULL
  MAX_CONCURRENT_SESSIONS,
  Idle,         \* SESSION_IDLE_MINUTES
  Lifetimes,    \* SESSION_ABSOLUTE_HOURS and SESSION_REMEMBER_DAYS
  TimeBox,      \* the hour of an impersonation session
  MaxTime,      \* bound on the clock
  MaxPassword   \* bound on the password changes of a user

ASSUME NoneAssumption == None \notin Sid \cup Users
ASSUME UsersAssumption == Superusers \subseteq Users
ASSUME FiniteAssumption == IsFiniteSet(Sid) /\ IsFiniteSet(Requests)
ASSUME BoundsAssumption ==
  /\ MAX_CONCURRENT_SESSIONS \in Nat \ {0}
  /\ Idle \in Nat \ {0}
  /\ Lifetimes \subseteq Nat \ {0}
  /\ TimeBox \in Nat \ {0}
  /\ MaxTime \in Nat
  /\ MaxPassword \in Nat

VARIABLES
  now,      \* the clock the handlers read
  user,     \* users: role, status, number of password changes; and history
  session,  \* sessions: the committed rows
  audit,    \* committed IMPERSONATION_START and _END rows, per session
  request,  \* the requests in progress: program counter and locals
  write,    \* uncommitted row versions of each request, i.e. its row locks
  stamp     \* history: the password a session stands on

vars == <<now, user, session, audit, request, write, stamp>>

-----------------------------------------------------------------------------
(* Rows and requests *)

Role == {"USER", "SUPERUSER"}
Status == {"PENDING", "ACTIVE", "SUSPENDED", "BANNED"}

\* logged is the new_role of the user's last audit row; stale (history) says
\* that this change was decided on a role that had changed since.
UserRow ==
  [role : Role, status : Status, pw : Nat, logged : Role, stale : BOOLEAN]

\* is_active is TRUE in state "active"; "absent" is no row at all.
SessionRow ==
  [state : {"absent", "active", "inactive"},
   user_id : Users \cup {None},
   expires_at : Nat,
   absolute_expires_at : Nat,
   impersonator_id : Users \cup {None},
   impersonator_session_id : Sid \cup {None}]

NoRow ==
  [state |-> "absent", user_id |-> None, expires_at |-> 0,
   absolute_expires_at |-> 0, impersonator_id |-> None,
   impersonator_session_id |-> None]

Authenticated ==
  {"me", "logout", "logout_all", "password", "impersonate", "stop", "roles"}

Steps ==
  {"idle", "expire", "slide", "logout", "logout_all", "revoke", "password",
   "impersonate", "stop", "stop_expire", "stop_finish", "login", "roles",
   "roles_write", "commit"}

Stamp == [pw : Nat, raced : BOOLEAN]

\* The role a request gives to whom; sets: it differs from the role read;
\* raced (history): see stale.
Grant ==
  [uid : Users \cup {None}, role : Role, sets : BOOLEAN, raced : BOOLEAN]

RequestState ==
  [pc : Steps,
   kind : Authenticated \cup {"none", "login", "reset"},
   sid : Sid \cup {None},       \* the session cookie
   uid : Users \cup {None},     \* the user it authenticates, or acts on
   role : Role,                 \* the role that was read with it
   at : Nat,                    \* the time it read
   todo : SUBSET Sid,           \* rows its revocation has still to update
   opens : Users \cup {None},   \* the user it opens a session for
   ends : Sid \cup {None},      \* the impersonation it ends
   grant : Grant,               \* the change of a role
   stamp : Stamp]

NoRequest ==
  [pc |-> "idle", kind |-> "none", sid |-> None, uid |-> None,
   role |-> "USER", at |-> 0, todo |-> {}, opens |-> None,
   ends |-> None,
   grant |-> [uid |-> None, role |-> "USER", sets |-> FALSE, raced |-> FALSE],
   stamp |-> [pw |-> 0, raced |-> FALSE]]

View(r, s) == IF write[r][s].state = "absent" THEN session[s] ELSE write[r][s]

\* r can lock the row of s: no other transaction has an open version of it.
CanLock(r, s) == \A q \in Requests \ {r} : write[q][s].state = "absent"

\* The transactions that hold the lock of u's row in users: they have
\* updated its password_hash.
HoldsUser(q, u) ==
  /\ request[q].kind \in {"password", "reset"}
  /\ request[q].uid = u
  /\ request[q].pc \in {"logout_all", "revoke", "commit"}

\* Mutant: update_role reads the row FOR SHARE before it updates it.
SetsRoleShared(q, u) ==
  /\ request[q].kind = "roles" /\ request[q].pc \in {"roles_write", "commit"}
  /\ request[q].grant.uid = u

\* ... or its role and updated_at (change_role).
SetsRole(q, u) ==
  request[q].kind = "roles" /\ request[q].pc = "commit" /\ request[q].grant.uid = u

CanLockUser(r, u) ==
  \A q \in Requests \ {r} : ~HoldsUser(q, u) /\ ~SetsRole(q, u)

\* Mutant: the idle window closes one tick late.
ExpiredLate(row, t) == t >= row.absolute_expires_at \/ t > row.expires_at

Expired(row, t) == t >= row.absolute_expires_at \/ t >= row.expires_at

\* Mutant: the window is cleared instead of moved.
RenewedForever(row, t) == [row EXCEPT !.expires_at = None]

\* Mutant: the whole row is written back as it was read before the lock.
RenewedRevives(row, t) == [row EXCEPT !.expires_at = t + Idle, !.state = "active"]

\* update_last_activity.
Renewed(row, t) == [row EXCEPT !.expires_at = t + Idle]

\* Rows count_active_for_user selects.
ActiveOf(u, t) ==
  {s \in Sid : /\ session[s].state = "active"
               /\ session[s].user_id = u
               /\ session[s].absolute_expires_at > t}

\* Mutant: is_active is set on a copy that is never flushed.
NotFlushed(row) == row

\* deactivate, and each row of revoke_all_for_user.
Deactivated(row) == [row EXCEPT !.state = "inactive"]

\* Mutant: the cap admits one session too many.
BelowCapOrAt(u) == Cardinality(ActiveOf(u, now)) <= MAX_CONCURRENT_SESSIONS

BelowCap(u) == Cardinality(ActiveOf(u, now)) < MAX_CONCURRENT_SESSIONS

\* Mutant: an id that an open transaction has inserted is drawn again.
FreshCommitted(s) == session[s].state = "absent"

\* No row and no INSERT in progress has this id.
Fresh(s) ==
  session[s].state = "absent" /\ \A q \in Requests : write[q][s].state = "absent"

\* A password change of u has run its revocation but is not committed.
ChangeUnderWay(u) ==
  \E q \in Requests : HoldsUser(q, u) /\ request[q].pc # "logout_all"

\* History: the password a session opened now for u stands on, and whether
\* its opening overlaps a change of it.
StampFor(u) == [pw |-> user[u].pw, raced |-> ChangeUnderWay(u)]

Init ==
  /\ now = 0
  /\ user = [u \in Users |->
               [role |-> IF u \in Superusers THEN "SUPERUSER" ELSE "USER",
                status |-> "ACTIVE", pw |-> 0,
                logged |-> IF u \in Superusers THEN "SUPERUSER" ELSE "USER",
                stale |-> FALSE]]
  /\ session = [s \in Sid |-> NoRow]
  /\ audit = [s \in Sid |-> [start |-> 0, end |-> 0]]
  /\ request = [r \in Requests |-> NoRequest]
  /\ write = [r \in Requests |-> [s \in Sid |-> NoRow]]
  /\ stamp = [s \in Sid |-> [pw |-> 0, raced |-> FALSE]]

-----------------------------------------------------------------------------
(* Authentication: get_current_user and validate_session *)

\* The SELECT of validate_session and its checks.  A missing or inactive row
\* answers 401 and leaves no trace.
Receive(r) ==
  /\ request[r].pc = "idle"
  /\ \E k \in Kinds \cap Authenticated, s \in Sid :
       /\ session[s].state = "active"
       /\ request' = [request EXCEPT ![r] =
            [NoRequest EXCEPT
               !.pc = IF Expired(session[s], now) THEN "expire" ELSE "slide",
               !.kind = k, !.sid = s, !.at = now]]
  /\ UNCHANGED <<now, user, session, audit, write, stamp>>

\* deactivate of an expired session; get_current_user commits it and
\* re-raises the 401.
Expire(r) ==
  /\ request[r].pc = "expire"
  /\ CanLock(r, request[r].sid)
  /\ session' = [session EXCEPT ![request[r].sid] = Deactivated(@)]
  /\ request' = [request EXCEPT ![r] = NoRequest]
  /\ UNCHANGED <<now, user, audit, write, stamp>>

\* update_last_activity, then the SELECT of the user; the handler follows.
Slide(r) ==
  LET s == request[r].sid IN
  /\ request[r].pc = "slide"
  /\ CanLock(r, s)
  /\ write' = [write EXCEPT ![r][s] = Renewed(session[s], request[r].at)]
  /\ request' = [request EXCEPT ![r] =
       [@ EXCEPT
          !.pc = IF request[r].kind = "me" THEN "commit" ELSE request[r].kind,
          !.uid = session[s].user_id,
          !.role = user[session[s].user_id].role]]
  /\ UNCHANGED <<now, user, session, audit, stamp>>

-----------------------------------------------------------------------------
(* Opening a session: login *)

\* get_by_email, the status check and verify_password: the client knows the
\* current password.
Login(r) ==
  /\ request[r].pc = "idle"
  /\ "login" \in Kinds
  /\ \E u \in Users :
       /\ user[u].status = "ACTIVE"
       /\ request' = [request EXCEPT ![r] =
            [NoRequest EXCEPT
               !.pc = "login", !.kind = "login", !.uid = u, !.opens = u,
               !.stamp = StampFor(u)]]
  /\ UNCHANGED <<now, user, session, audit, write, stamp>>

\* The cap and the INSERT.  At the cap the login raises (RollBack).
Create(r) ==
  /\ request[r].pc = "login"
  /\ BelowCap(request[r].uid)
  /\ \E s \in Sid, lifetime \in Lifetimes :
       /\ Fresh(s)
       /\ write' = [write EXCEPT ![r][s] =
            [NoRow EXCEPT
               !.state = "active", !.user_id = request[r].uid,
               !.expires_at = now + Idle,
               !.absolute_expires_at = now + lifetime]]
  /\ request' = [request EXCEPT ![r] = [@ EXCEPT !.pc = "commit"]]
  /\ UNCHANGED <<now, user, session, audit, stamp>>

-----------------------------------------------------------------------------
(* Closing sessions: logout, logout-all and the password routes *)

Logout(r) ==
  /\ request[r].pc = "logout"
  /\ write' = [write EXCEPT ![r][request[r].sid] = Deactivated(@)]
  /\ request' = [request EXCEPT ![r] = [@ EXCEPT !.pc = "commit"]]
  /\ UNCHANGED <<now, user, session, audit, stamp>>

\* change_password: the current password is right and the new one strong;
\* the UPDATE of users waits for the row.
ChangePassword(r) ==
  /\ request[r].pc = "password"
  /\ user[request[r].uid].pw < MaxPassword
  /\ CanLockUser(r, request[r].uid)
  /\ request' = [request EXCEPT ![r] = [@ EXCEPT !.pc = "logout_all"]]
  /\ UNCHANGED <<now, user, session, audit, write, stamp>>

\* reset_password: the holder of a reset token needs no session.
ResetPassword(r) ==
  /\ request[r].pc = "idle"
  /\ "reset" \in Kinds
  /\ \E u \in Users :
       /\ user[u].status = "ACTIVE"
       /\ user[u].pw < MaxPassword
       /\ CanLockUser(r, u)
       /\ request' = [request EXCEPT ![r] =
            [NoRequest EXCEPT !.pc = "logout_all", !.kind = "reset", !.uid = u]]
  /\ UNCHANGED <<now, user, session, audit, write, stamp>>

\* Mutant: revocation overlooks impersonations of the user.
RevocableOwn(r) ==
  {s \in Sid : /\ View(r, s).state = "active"
               /\ View(r, s).user_id = request[r].uid
               /\ View(r, s).impersonator_id = None
               /\ ~(request[r].kind = "password" /\ s = request[r].sid)}

\* The rows the UPDATE of revoke_all_for_user selects.
\* change_password_route keeps the current session.
Revocable(r) ==
  {s \in Sid : /\ View(r, s).state = "active"
               /\ View(r, s).user_id = request[r].uid
               /\ ~(request[r].kind = "password" /\ s = request[r].sid)}

\* Mutant: the row just updated is visited again and again.
RevisitAll(r, s) == request[r].todo

Remaining(r, s) == request[r].todo \ {s}

\* The UPDATE selects its rows, then updates them one by one.  A request
\* that is opening a session for the user meanwhile is marked as raced when
\* the revocation belongs to a password change.
RevokeAll(r) ==
  LET rows == Revocable(r)
      changes == request[r].kind \in {"password", "reset"}
  IN
  /\ request[r].pc = "logout_all"
  /\ request' = [q \in Requests |->
       IF q = r
         THEN [request[q] EXCEPT
                 !.todo = rows, !.pc = IF rows = {} THEN "commit" ELSE "revoke"]
       ELSE IF changes /\ request[q].opens = request[r].uid
         THEN [request[q] EXCEPT !.stamp.raced = TRUE]
       ELSE request[q]]
  /\ UNCHANGED <<now, user, session, audit, write, stamp>>

\* The WHERE is evaluated again on the row that was waited for.
RevokeOne(r) ==
  /\ request[r].pc = "revoke"
  /\ \E s \in request[r].todo :
       /\ CanLock(r, s)
       /\ write' = IF View(r, s).state = "active"
                     THEN [write EXCEPT ![r][s] = Deactivated(View(r, s))]
                     ELSE write
       /\ request' = [request EXCEPT ![r] =
            [@ EXCEPT
               !.todo = Remaining(r, s),
               !.pc = IF Remaining(r, s) = {} THEN "commit" ELSE "revoke"]]
  /\ UNCHANGED <<now, user, session, audit, stamp>>

-----------------------------------------------------------------------------
(* Impersonation *)

\* Mutant: an admin may impersonate himself and other superusers.
MayImpersonateAny(u, target) == user[target].status = "ACTIVE"

\* The three guards of start_impersonation.
MayImpersonate(u, target) ==
  /\ target # u
  /\ user[target].role # "SUPERUSER"
  /\ user[target].status = "ACTIVE"

\* require_permission, the SELECT of the target, the guards and the INSERT.
\* There is no cap here.
Impersonate(r) ==
  /\ request[r].pc = "impersonate"
  /\ request[r].role = "SUPERUSER"
  /\ \E s \in Sid, target \in Users :
       /\ MayImpersonate(request[r].uid, target)
       /\ Fresh(s)
       /\ write' = [write EXCEPT ![r][s] =
            [state |-> "active", user_id |-> target,
             expires_at |-> now + Idle,
             absolute_expires_at |-> now + TimeBox,
             impersonator_id |-> request[r].uid,
             impersonator_session_id |-> request[r].sid]]
       /\ request' = [request EXCEPT ![r] =
            [@ EXCEPT
               !.pc = "commit", !.opens = target,
               !.stamp = StampFor(target)]]
  /\ UNCHANGED <<now, user, session, audit, stamp>>

\* A target that does not exist, or the actor himself as the target of a role,
\* is answered by the route (404, 403) and not raised: what is left is a
\* request that slides its session.
Answer(r) ==
  /\ request[r].pc \in {"impersonate", "roles"}
  /\ request[r].role = "SUPERUSER"
  /\ request' = [request EXCEPT ![r] = [@ EXCEPT !.pc = "commit", !.kind = "me"]]
  /\ UNCHANGED <<now, user, session, audit, write, stamp>>

\* Mutant: the session is not read again.
TrustPrincipal(row) == TRUE

\* The SELECT of stop_impersonation finds the session still active.
StillActive(row) == row.state = "active"

\* stop_impersonation up to the SELECT of the admin's session.  Every
\* AuthenticationError becomes a 401 response, so the request still commits.
CheckStop(r) ==
  LET s == request[r].sid
      row == write[r][s]
      admin == View(r, row.impersonator_session_id)
      to(pc) == request' = [request EXCEPT ![r] = [@ EXCEPT !.pc = pc, !.at = now]]
  IN
  /\ request[r].pc = "stop"
  /\ \/ /\ ~StillActive(row)
        /\ to("commit")
        /\ UNCHANGED write
     \/ /\ StillActive(row)
        /\ Expired(row, now)
        /\ to("commit")
        /\ write' = [write EXCEPT ![r][s] = Deactivated(row)]
     \/ /\ StillActive(row)
        /\ ~Expired(row, now)
        /\ row.impersonator_session_id = None
        /\ to("commit")
        /\ UNCHANGED write
     \/ /\ StillActive(row)
        /\ ~Expired(row, now)
        /\ row.impersonator_session_id # None
        /\ to(IF admin.state # "active" THEN "commit"
              ELSE IF Expired(admin, now) THEN "stop_expire"
              ELSE "stop_finish")
        /\ UNCHANGED write
  /\ UNCHANGED <<now, user, session, audit, stamp>>

\* validate_session deactivates the admin's expired session.
ExpireAdmin(r) ==
  LET a == session[request[r].sid].impersonator_session_id IN
  /\ request[r].pc = "stop_expire"
  /\ CanLock(r, a)
  /\ write' = [write EXCEPT ![r][a] = Deactivated(View(r, a))]
  /\ request' = [request EXCEPT ![r] = [@ EXCEPT !.pc = "commit"]]
  /\ UNCHANGED <<now, user, session, audit, stamp>>

\* The admin's idle window slides; if the session is the impersonator's own,
\* the impersonation session is deactivated and the END row written.
FinishStop(r) ==
  LET s == request[r].sid
      a == session[s].impersonator_session_id
      slid == Renewed(View(r, a), request[r].at)
      own == slid.user_id = session[s].impersonator_id
  IN
  /\ request[r].pc = "stop_finish"
  /\ CanLock(r, a)
  /\ write' = [write EXCEPT
       ![r] = [write[r] EXCEPT
                 ![a] = slid,
                 ![s] = IF own THEN Deactivated(@) ELSE @]]
  /\ request' = [request EXCEPT ![r] =
       [@ EXCEPT !.pc = "commit", !.ends = IF own THEN s ELSE None]]
  /\ UNCHANGED <<now, user, session, audit, stamp>>

-----------------------------------------------------------------------------
(* Roles: change_role_route and RoleService.change_role *)

\* Mutant: one may change one's own role.
MayChangeAny(u, target) == TRUE

MayChange(u, target) == target # u

\* Mutant: the new role is compared with the actor's.
DiffersFromActor(r, target, role) == role # request[r].role

\* The ORM writes the column only when its value differs from the one loaded.
Differs(r, target, role) == role # user[target].role

\* require_permission, the guard against changing one's own role, and the
\* SELECT of update_role.  (The SELECTs before it feed only old_role and the
\* action of the audit row, which are left out.)
SelectRole(r) ==
  /\ request[r].pc = "roles"
  /\ request[r].role = "SUPERUSER"
  /\ \E target \in Users, role \in Role :
       /\ MayChange(request[r].uid, target)
       /\ request' = [request EXCEPT ![r] =
            [@ EXCEPT
               !.pc = "roles_write",
               !.grant = [uid |-> target, role |-> role,
                          sets |-> Differs(r, target, role),
                          raced |-> request[r].grant.raced]]]
  /\ UNCHANGED <<now, user, session, audit, write, stamp>>

\* The UPDATE, which sets updated_at in any case, and the audit row.
WriteRole(r) ==
  /\ request[r].pc = "roles_write"
  /\ CanLockUser(r, request[r].grant.uid)
  /\ request' = [request EXCEPT ![r] = [@ EXCEPT !.pc = "commit"]]
  /\ UNCHANGED <<now, user, session, audit, write, stamp>>

\* History: the role change of u that r commits invalidates what q has read:
\* the role q may act by, or the role of the same user.
Invalidates(q, u) ==
  /\ request[q].kind = "roles"
  /\ \/ request[q].uid = u
     \/ request[q].pc = "roles_write" /\ request[q].grant.uid = u

-----------------------------------------------------------------------------
(* The end of a transaction, and the environment *)

\* The row of u that r commits.
NewUser(r, u) ==
  LET g == request[r].grant IN
  CASE request[r].kind \in {"password", "reset"} /\ request[r].uid = u ->
         [user[u] EXCEPT !.pw = @ + 1]
    [] request[r].kind = "roles" /\ g.uid = u ->
         [user[u] EXCEPT !.role = IF g.sets THEN g.role ELSE @,
                         !.logged = g.role, !.stale = g.raced]
    [] OTHER -> user[u]

\* get_async_session commits after the handler returned.
Commit(r) ==
  LET q == request[r]
      new(s) == session[s].state = "absent" /\ write[r][s].state # "absent"
  IN
  /\ q.pc = "commit"
  /\ session' = [s \in Sid |-> View(r, s)]
  /\ user' = [u \in Users |-> NewUser(r, u)]
  /\ audit' = [s \in Sid |->
       [start |-> audit[s].start + IF new(s) /\ q.kind = "impersonate" THEN 1 ELSE 0,
        end |-> audit[s].end + IF q.ends = s THEN 1 ELSE 0]]
  /\ stamp' = [s \in Sid |->
       IF new(s) THEN q.stamp
       ELSE IF q.kind = "password" /\ s = q.sid
         THEN [pw |-> user[q.uid].pw + 1, raced |-> FALSE]
       ELSE stamp[s]]
  /\ request' = [p \in Requests |->
       IF p = r THEN NoRequest
       ELSE IF SetsRole(r, q.grant.uid) /\ Invalidates(p, q.grant.uid)
         THEN [request[p] EXCEPT !.grant.raced = TRUE]
       ELSE request[p]]
  /\ write' = [write EXCEPT ![r] = [s \in Sid |-> NoRow]]
  /\ UNCHANGED now

\* The handler raised (a guard refused, a connection was lost), the worker
\* died, or PostgreSQL chose the transaction as a deadlock victim.
RollBack(r) ==
  /\ request[r].pc # "idle"
  /\ request' = [request EXCEPT ![r] = NoRequest]
  /\ write' = [write EXCEPT ![r] = [s \in Sid |-> NoRow]]
  /\ UNCHANGED <<now, user, session, audit, stamp>>

Tick ==
  /\ now < MaxTime
  /\ now' = now + 1
  /\ UNCHANGED <<user, session, audit, request, write, stamp>>

\* An operator sets a status with the shell, which does not touch the user's
\* sessions.
Administer ==
  /\ "administer" \in Kinds
  /\ \E u \in Users, status \in {"ACTIVE", "SUSPENDED"} :
       /\ \A q \in Requests : ~HoldsUser(q, u) /\ ~SetsRole(q, u)
       /\ user' = [user EXCEPT ![u].status = status]
  /\ UNCHANGED <<now, session, audit, request, write, stamp>>

Step(r) ==
  \/ Expire(r) \/ Slide(r) \/ Create(r) \/ Logout(r) \/ ChangePassword(r)
  \/ RevokeAll(r) \/ RevokeOne(r) \/ Impersonate(r) \/ Answer(r) \/ CheckStop(r)
  \/ ExpireAdmin(r) \/ FinishStop(r) \/ SelectRole(r) \/ WriteRole(r)
  \/ Commit(r)

Arrive(r) == Receive(r) \/ Login(r) \/ ResetPassword(r)

Next ==
  \/ \E r \in Requests : Arrive(r) \/ Step(r) \/ RollBack(r)
  \/ Tick
  \/ Administer

Spec == Init /\ [][Next]_vars

-----------------------------------------------------------------------------
(* Fairness *)

\* r waits for a row lock that q holds.
WaitsFor(r, q) ==
  LET locked(s) == write[q][s].state # "absent" IN
  /\ q # r
  /\ \/ request[r].pc \in {"expire", "slide"} /\ locked(request[r].sid)
     \/ request[r].pc = "revoke" /\ \E s \in request[r].todo : locked(s)
     \/ /\ request[r].pc \in {"stop_expire", "stop_finish"}
        /\ locked(session[request[r].sid].impersonator_session_id)
     \/ /\ request[r].pc = "password"
        /\ HoldsUser(q, request[r].uid) \/ SetsRole(q, request[r].uid)
     \/ /\ request[r].pc = "roles_write"
        /\ \/ HoldsUser(q, request[r].grant.uid)
           \/ SetsRole(q, request[r].grant.uid)

Stuck(r) == request[r].pc # "idle" /\ ~ENABLED Step(r)

\* A guard of the handler raised, or a cycle of waiting transactions, which
\* PostgreSQL breaks by aborting one of them.
Refused(r) == Stuck(r) /\ ~\E q \in Requests : WaitsFor(r, q)
Deadlocked(r) ==
  \E C \in SUBSET Requests :
    /\ r \in C
    /\ \A p \in C : Stuck(p) /\ \E q \in C : WaitsFor(p, q)

\* A worker runs every handler on, lock waiters are served in turn (strong
\* fairness), and refused and deadlocked requests are rolled back.
FairSpec ==
  /\ Spec
  /\ \A r \in Requests :
       /\ SF_vars(Step(r))
       /\ WF_vars((Refused(r) \/ Deadlocked(r)) /\ RollBack(r))

-----------------------------------------------------------------------------
(* Properties *)

TypeOK ==
  /\ now \in Nat
  /\ user \in [Users -> UserRow]
  /\ session \in [Sid -> SessionRow]
  /\ audit \in [Sid -> [start : Nat, end : Nat]]
  /\ request \in [Requests -> RequestState]
  /\ write \in [Requests -> [Sid -> SessionRow]]
  /\ stamp \in [Sid -> Stamp]

\* The audit log agrees with the sessions (start_impersonation,
\* stop_impersonation): an impersonation session has exactly one START row
\* and no other session has one; it has at most one END row however many
\* stop requests, logouts and revocations race for it, and only when closed.
AuditMatchesSessions ==
  \A s \in Sid :
    /\ audit[s].start = IF session[s].impersonator_id = None THEN 0 ELSE 1
    /\ audit[s].end <= audit[s].start
    /\ audit[s].end = 1 => session[s].state = "inactive"

\* An impersonation session always leads back to a session row that its
\* impersonator opened for himself or as someone else, and nobody
\* impersonates himself: what stop_impersonation relies on.
ImpersonationLinked ==
  \A s \in Sid :
    LET row == session[s] IN
    row.impersonator_id # None =>
      /\ row.impersonator_id # row.user_id
      /\ row.impersonator_session_id \in Sid \ {s}
      /\ session[row.impersonator_session_id].state # "absent"
      /\ session[row.impersonator_session_id].user_id = row.impersonator_id

\* Sessions opened by login, and logins that have passed the cap check.
LoginSessions(u) ==
  {s \in ActiveOf(u, now) : session[s].impersonator_id = None}
PastCap(u) ==
  {r \in Requests : /\ request[r].kind = "login" /\ request[r].uid = u
                    /\ request[r].pc = "commit"}

\* login counts, then inserts, without a lock: concurrent logins may exceed
\* MAX_CONCURRENT_SESSIONS, but never by more than the other requests that
\* run at the same time.
CapOvershootBounded ==
  \A u \in Users :
    Cardinality(LoginSessions(u)) + Cardinality(PastCap(u))
      <= MAX_CONCURRENT_SESSIONS - 1 + Cardinality(Requests)

\* A change or reset of the password leaves no session of the user open but
\* the one that made the change, except a session whose login or
\* impersonation overlapped the change (change_password_route and
\* reset_password_route, "Gate 5").
PasswordChangeRevokes ==
  \A s \in Sid :
    session[s].state = "active" /\ ~stamp[s].raced =>
      stamp[s].pw = user[session[s].user_id].pw

\* The same without the exception, as the docstring of reset_password_route
\* says it: "all of the user's sessions are revoked".
NoSessionOnOldPassword ==
  \A s \in Sid :
    session[s].state = "active" => stamp[s].pw = user[session[s].user_id].pw

\* The audit log tells the role a user has (change_role), except when another
\* change of the same user committed between the SELECT and the UPDATE: the
\* ORM then leaves out a column that it believes to be set.
AuditTellsRole == \A u \in Users : user[u].role = user[u].logged \/ user[u].stale

\* Nobody but a superuser changes roles, and nobody his own ("blocks
\* self-demotion lockout", change_role_route): the last superuser can be lost
\* only when superusers demote each other at the same time, each on a
\* permission the other has just revoked.
SuperuserRemains ==
  \/ Superusers = {}
  \/ \E u \in Users : user[u].role = "SUPERUSER" \/ user[u].stale

Dead(s) ==
  \/ session[s].state = "inactive"
  \/ /\ session[s].state = "active"
     /\ now >= session[s].expires_at \/ now >= session[s].absolute_expires_at

\* A request that found s alive and has still to slide it, or to commit so.
Admitted(s) ==
  \E r \in Requests :
    \/ request[r].pc = "slide" /\ request[r].sid = s
    \/ /\ request[r].pc = "stop_finish"
       /\ session[request[r].sid].impersonator_session_id = s
    \/ write[r][s].state = "active"

\* A session that has expired or was closed, and on which no earlier request
\* is still running, is never admitted or extended again, although slides are
\* written after the check they rest on (validate_session).
DeadStaysDead ==
  [][\A s \in Sid : Dead(s) /\ ~Admitted(s) => Dead(s)' /\ ~Admitted(s)']_vars

\* The sessions table and the audit log as a reader of committed data sees
\* them implement SessionLifecycle: no slide, revocation, stop or commit,
\* however they interleave, reopens a session, moves its time-box or its
\* owner, or separates an audit row from the change that it tells of.
Life ==
  INSTANCE SessionLifecycle WITH
    life <- [s \in Sid |->
               [state |-> session[s].state,
                user_id |-> session[s].user_id,
                absolute_expires_at |-> session[s].absolute_expires_at,
                impersonator_id |-> session[s].impersonator_id,
                impersonator_session_id |-> session[s].impersonator_session_id]],
    log <- audit
Lifecycle == Life!Spec

\* Transactions that wait for each other in a cycle include a revocation: stops
\* of nested impersonations, changes of roles and of passwords alone, which
\* lock a second row while holding their own session's, never deadlock.
OnlyRevocationsDeadlock ==
  \A C \in SUBSET Requests :
    C # {} /\ (\A p \in C : \E q \in C : WaitsFor(p, q)) =>
      \E p \in C : request[p].pc = "revoke"

\* The statements that a request has at most before it, and its commit.
Work(r) ==
  LET pc == request[r].pc IN
  CASE pc = "idle" -> 0
    [] pc = "commit" -> 1
    [] pc = "revoke" -> 1 + Cardinality(request[r].todo)
    [] pc = "logout_all" -> 2 + Cardinality(Sid)
    [] pc \in {"password", "stop", "roles"} -> 3 + Cardinality(Sid)
    [] pc = "slide" -> 4 + Cardinality(Sid)
    [] OTHER -> 2

\* Each statement of a request brings it nearer to its end, and no other
\* request sets it back (revoke_all_for_user visits a row once, whatever is
\* opened meanwhile): a request that goes on forever must be waiting.
WorkShrinks ==
  [][\A r \in Requests :
       request[r].pc # "idle" =>
         /\ Work(r)' <= Work(r)
         /\ Step(r) => Work(r)' < Work(r)]_vars

\* Every request ends, although revocations (revoke_all_for_user) lock the
\* rows of a user's other sessions while holding their own and can deadlock.
RequestsEnd ==
  \A r \in Requests : request[r].pc # "idle" ~> request[r].pc = "idle"
=============================================================================
