---------------------------- MODULE SessionsRoles ----------------------------
(***************************************************************************)
(* Theorems about change_role: the audit log tells the roles, and changes  *)
(* of roles do not take the last superuser away, unless they race.  The    *)
(* inductive invariant is RolesInv of SessionsInv, on top of IInv.         *)
(***************************************************************************)
EXTENDS SessionsProofs

\* What RolesInv reads of a request, and of a user.
SameGrant(q) ==
  /\ request'[q].kind = request[q].kind
  /\ request'[q].pc = request[q].pc
  /\ request'[q].uid = request[q].uid
  /\ request'[q].role = request[q].role
  /\ request'[q].grant = request[q].grant
SameRoles ==
  \A u \in Users :
    /\ user'[u].role = user[u].role
    /\ user'[u].logged = user[u].logged
    /\ user'[u].stale = user[u].stale

LEMMA SameGrantOK ==
  ASSUME SameRoles, NEW q \in Requests, SameGrant(q), GrantOK(q)
  PROVE  GrantOK(q)'
<1>1. \A u \in Users : user'[u].role = user[u].role
  BY DEF SameRoles
<1>2. /\ request'[q].kind = request[q].kind /\ request'[q].pc = request[q].pc
      /\ request'[q].uid = request[q].uid /\ request'[q].role = request[q].role
      /\ request'[q].grant = request[q].grant
  BY DEF SameGrant
<1> QED BY <1>1, <1>2 DEF GrantOK

\* A step of one request that commits no role.
LEMMA RolesStep ==
  ASSUME RolesInv, NEW r \in Requests, SameRoles,
         \A q \in Requests \ {r} : SameGrant(q),
         GrantOK(r)',
         \A u \in Users : SetsRole(r, u)' =>
           \A q \in Requests \ {r} : ~SetsRole(q, u)
  PROVE  RolesInv'
<1>1. ASSUME NEW q \in Requests PROVE GrantOK(q)'
  BY SameGrantOK DEF RolesInv
<1>2. \A q \in Requests \ {r}, u \in Users : SetsRole(q, u)' <=> SetsRole(q, u)
  BY DEF SameGrant, SetsRole
<1>3. GrantsExclude'
  BY <1>2 DEF RolesInv, GrantsExclude
<1>4. AuditTellsRole' /\ SuperuserRemains'
  BY DEF RolesInv, AuditTellsRole, SuperuserRemains, SameRoles
<1> QED BY <1>1, <1>3, <1>4 DEF RolesInv

\* A step that changes neither requests nor roles.
LEMMA RolesStutter ==
  ASSUME RolesInv, SameRoles, \A q \in Requests : SameGrant(q)
  PROVE  RolesInv'
<1>1. ASSUME NEW q \in Requests PROVE GrantOK(q)'
  BY SameGrantOK DEF RolesInv
<1>2. \A q \in Requests, u \in Users : SetsRole(q, u)' <=> SetsRole(q, u)
  BY DEF SameGrant, SetsRole
<1>3. GrantsExclude'
  BY <1>2 DEF RolesInv, GrantsExclude
<1>4. AuditTellsRole' /\ SuperuserRemains'
  BY DEF RolesInv, AuditTellsRole, SuperuserRemains, SameRoles
<1> QED BY <1>1, <1>3, <1>4 DEF RolesInv

\* A step of a request that is of another kind, or idle, afterwards.
LEMMA OtherKind ==
  ASSUME RolesInv, NEW r \in Requests, UNCHANGED user,
         \A q \in Requests \ {r} : SameGrant(q),
         request'[r].kind # "roles", request'[r].pc \notin {"roles", "roles_write"}
  PROVE  RolesInv'
<1>1. SameRoles
  BY DEF SameRoles
<1>2. GrantOK(r)'
  BY DEF GrantOK
<1>3. \A u \in Users : ~SetsRole(r, u)'
  BY DEF SetsRole
<1> QED BY <1>1, <1>2, <1>3, RolesStep

\* The other requests are untouched.
LEMMA OthersSame ==
  ASSUME IInv, NEW r \in Requests, NEW new,
         request' = [request EXCEPT ![r] = new]
  PROVE  request'[r] = new /\ \A q \in Requests \ {r} : SameGrant(q)
  BY DEF IInv, TypeOK, SameGrant

\* A request arrives.
LEMMA ArriveRoles ==
  ASSUME IInv, RolesInv, NEW r \in Requests, Arrive(r) PROVE RolesInv'
<1>1. CASE Receive(r)
  <2>1. request'[r].pc \in {"expire", "slide"}
    BY <1>1 DEF Receive, NoRequest, IInv, TypeOK
  <2>2. \A q \in Requests \ {r} : SameGrant(q)
    BY <1>1 DEF Receive, IInv, TypeOK, SameGrant
  <2>3. SameRoles
    BY <1>1 DEF Receive, SameRoles
  <2>4. GrantOK(r)' /\ \A u \in Users : ~SetsRole(r, u)'
    BY <2>1, <2>2 DEF GrantOK, SetsRole
  <2> QED BY <2>2, <2>3, <2>4, RolesStep
<1>2. CASE Login(r)
  <2>1. request'[r].pc = "login" /\ request'[r].kind = "login"
    BY <1>2 DEF Login, NoRequest, IInv, TypeOK
  <2>3. \A q \in Requests \ {r} : SameGrant(q)
    BY <1>2 DEF Login, IInv, TypeOK, SameGrant
  <2>2. UNCHANGED user
    BY <1>2 DEF Login
  <2> QED BY <2>1, <2>2, <2>3, OtherKind
<1>3. CASE ResetPassword(r)
  <2>1. request'[r].pc = "logout_all" /\ request'[r].kind = "reset"
    BY <1>3 DEF ResetPassword, NoRequest, IInv, TypeOK
  <2>3. \A q \in Requests \ {r} : SameGrant(q)
    BY <1>3 DEF ResetPassword, IInv, TypeOK, SameGrant
  <2>2. UNCHANGED user
    BY <1>3 DEF ResetPassword
  <2> QED BY <2>1, <2>2, <2>3, OtherKind
<1> QED BY <1>1, <1>2, <1>3 DEF Arrive

\* The request ends without a change of roles.
LEMMA EndRoles ==
  ASSUME IInv, RolesInv, NEW r \in Requests, Expire(r) \/ RollBack(r)
  PROVE  RolesInv'
<1>1. request' = [request EXCEPT ![r] = NoRequest] /\ UNCHANGED user
  BY DEF Expire, RollBack
<1>2. NoRequest.kind = "none" /\ NoRequest.pc = "idle"
  BY DEF NoRequest
<1> QED BY <1>1, <1>2, OthersSame, OtherKind

\* The role is read with the session.
LEMMA SlideRoles ==
  ASSUME IInv, RolesInv, NEW r \in Requests, Slide(r) PROVE RolesInv'
<1> DEFINE u == session[request[r].sid].user_id
           pc == IF request[r].kind = "me" THEN "commit" ELSE request[r].kind
           new == [request[r] EXCEPT !.pc = pc, !.uid = u, !.role = user[u].role]
<1>1. /\ request' = [request EXCEPT ![r] = new] /\ UNCHANGED user
      /\ request[r] \in RequestState /\ request[r].kind \in Authenticated
      /\ request[r].pc = "slide" /\ u \in Users
  BY DEF Slide, IInv, TypeOK, RequestOK, RowsOK, RowOK, Exists
<1>2. /\ new.pc = pc /\ new.kind = request[r].kind /\ new.uid = u
      /\ new.role = user[u].role
  BY <1>1 DEF RequestState
<1>3. request'[r] = new /\ \A q \in Requests \ {r} : SameGrant(q)
  BY <1>1, OthersSame
<1> HIDE DEF new
<1>4. CASE request[r].kind = "roles"
  <2>1. pc = "roles"
    BY <1>4
  <2>2. GrantOK(r)' /\ \A x \in Users : ~SetsRole(r, x)'
    BY <1>1, <1>2, <1>3, <1>4, <2>1 DEF GrantOK, SetsRole
  <2> QED BY <1>1, <1>3, <2>2, RolesStep DEF SameRoles
<1>5. CASE request[r].kind # "roles"
  <2>1. pc \notin {"roles", "roles_write"}
    BY <1>1, <1>5 DEF Authenticated
  <2> QED BY <1>1, <1>2, <1>3, <1>5, <2>1, OtherKind
<1> QED BY <1>4, <1>5

\* The steps of the other kinds of request.
LEMMA OtherRoles ==
  ASSUME IInv, RolesInv, NEW r \in Requests,
         \/ Create(r) \/ Logout(r) \/ ChangePassword(r) \/ RevokeAll(r)
         \/ RevokeOne(r) \/ Impersonate(r) \/ CheckStop(r) \/ ExpireAdmin(r)
         \/ FinishStop(r)
  PROVE  RolesInv'
<1>1. request[r] \in RequestState /\ \A q \in Requests : request[q] \in RequestState
  BY DEF IInv, TypeOK
<1>2. request[r].kind # "roles" /\ UNCHANGED user
  <2>1. request[r].pc \notin {"expire", "slide", "roles", "roles_write", "commit"}
    BY DEF Create, Logout, ChangePassword, RevokeAll, RevokeOne, Impersonate,
           CheckStop, ExpireAdmin, FinishStop
  <2>2. request[r].kind # "roles"
    BY <2>1 DEF RolesInv, GrantOK
  <2> QED BY <2>2 DEF Create, Logout, ChangePassword, RevokeAll, RevokeOne,
                      Impersonate, CheckStop, ExpireAdmin, FinishStop
<1>3. CASE RevokeAll(r)
  <2> DEFINE rows == Revocable(r)
             own == [request[r] EXCEPT
                       !.todo = rows, !.pc = IF rows = {} THEN "commit" ELSE "revoke"]
             raced(q) == [request[q] EXCEPT !.stamp.raced = TRUE]
  <2>1. /\ request'[r] = own
        /\ \A q \in Requests \ {r} :
             request'[q] = request[q] \/ request'[q] = raced(q)
    BY <1>3 DEF RevokeAll
  <2>2. own.kind = request[r].kind /\ own.pc \in {"commit", "revoke"}
    BY <1>1 DEF RequestState
  <2>3. ASSUME NEW q \in Requests
        PROVE  /\ raced(q).kind = request[q].kind /\ raced(q).pc = request[q].pc
               /\ raced(q).uid = request[q].uid /\ raced(q).role = request[q].role
               /\ raced(q).grant = request[q].grant
    BY <1>1 DEF RequestState
  <2>4. \A q \in Requests \ {r} : SameGrant(q)
    BY <2>1, <2>3 DEF SameGrant
  <2> QED BY <1>2, <2>1, <2>2, <2>4, OtherKind
<1>4. CASE ~RevokeAll(r)
  <2> DEFINE Untouched == \A q \in Requests \ {r} : request'[q] = request[q]
             Moved == /\ request'[r].kind = request[r].kind
                      /\ request'[r].pc \in {"commit", "logout_all", "revoke",
                                             "stop_expire", "stop_finish"}
  <2>1. Untouched /\ Moved
    <3>1. CASE Create(r)
      BY <1>1, <3>1 DEF Create, RequestState, IInv, TypeOK
    <3>2. CASE Logout(r)
      BY <1>1, <3>2 DEF Logout, RequestState, IInv, TypeOK
    <3>3. CASE ExpireAdmin(r)
      BY <1>1, <3>3 DEF ExpireAdmin, RequestState, IInv, TypeOK
    <3>4. CASE ChangePassword(r)
      BY <1>1, <3>4 DEF ChangePassword, RequestState, IInv, TypeOK
    <3>5. CASE RevokeOne(r)
      <4>1. \E rest : request' = [request EXCEPT ![r] =
              [@ EXCEPT !.todo = rest, !.pc = IF rest = {} THEN "commit" ELSE "revoke"]]
        BY <3>5 DEF RevokeOne
      <4>2. PICK rest : request' = [request EXCEPT ![r] =
              [@ EXCEPT !.todo = rest, !.pc = IF rest = {} THEN "commit" ELSE "revoke"]]
        BY <4>1
      <4> QED BY <1>1, <4>2 DEF RequestState, IInv, TypeOK
    <3>6. CASE Impersonate(r)
      <4>1. PICK target \in Users :
              request' = [request EXCEPT ![r] =
                [@ EXCEPT !.pc = "commit", !.opens = target,
                          !.stamp = StampFor(target)]]
        BY <3>6 DEF Impersonate
      <4> QED BY <1>1, <4>1 DEF RequestState, IInv, TypeOK
    <3>7. CASE CheckStop(r)
      <4>1. PICK pc \in {"commit", "stop_expire", "stop_finish"} :
              request' = [request EXCEPT ![r] = [@ EXCEPT !.pc = pc, !.at = now]]
        BY <3>7 DEF CheckStop
      <4> QED BY <1>1, <4>1 DEF RequestState, IInv, TypeOK
    <3>8. CASE FinishStop(r)
      <4>1. \E ends : request' = [request EXCEPT ![r] =
                                   [@ EXCEPT !.pc = "commit", !.ends = ends]]
        BY <3>8 DEF FinishStop
      <4>2. PICK ends : request' = [request EXCEPT ![r] =
                                     [@ EXCEPT !.pc = "commit", !.ends = ends]]
        BY <4>1
      <4> QED BY <1>1, <4>2 DEF RequestState, IInv, TypeOK
    <3> QED BY <1>4, <3>1, <3>2, <3>3, <3>4, <3>5, <3>6, <3>7, <3>8
  <2> QED BY <1>2, <2>1, OtherKind DEF SameGrant
<1> QED BY <1>3, <1>4

\* The change is decided on the role that is read here.
LEMMA SelectRoles ==
  ASSUME IInv, RolesInv, NEW r \in Requests, SelectRole(r) PROVE RolesInv'
<1>1. PICK target \in Users, role \in Role :
        /\ MayChange(request[r].uid, target)
        /\ request' = [request EXCEPT ![r] =
             [request[r] EXCEPT
                !.pc = "roles_write",
                !.grant = [uid |-> target, role |-> role,
                           sets |-> Differs(r, target, role),
                           raced |-> request[r].grant.raced]]]
  BY DEF SelectRole
<1>2. /\ request[r].pc = "roles" /\ request[r].role = "SUPERUSER"
      /\ UNCHANGED user /\ request[r] \in RequestState
      /\ GrantOK(r)
  BY DEF SelectRole, IInv, TypeOK, RolesInv
<1> DEFINE new == [request[r] EXCEPT
                     !.pc = "roles_write",
                     !.grant = [uid |-> target, role |-> role,
                                sets |-> Differs(r, target, role),
                                raced |-> request[r].grant.raced]]
<1>3. request'[r] = new /\ \A q \in Requests \ {r} : SameGrant(q)
  BY <1>1, OthersSame
<1>4. /\ new.pc = "roles_write" /\ new.kind = request[r].kind
      /\ new.uid = request[r].uid
      /\ new.grant.uid = target /\ new.grant.role = role
      /\ new.grant.sets = (role # user[target].role)
      /\ new.grant.raced = request[r].grant.raced
  BY <1>2 DEF RequestState, Differs
<1> HIDE DEF new
<1>5. GrantOK(r)'
  BY <1>1, <1>2, <1>3, <1>4 DEF GrantOK, MayChange
<1>6. \A u \in Users : ~SetsRole(r, u)'
  BY <1>3, <1>4 DEF SetsRole
<1> QED BY <1>2, <1>3, <1>5, <1>6, RolesStep DEF SameRoles

\* The UPDATE takes the lock of the user's row.
LEMMA WriteRoles ==
  ASSUME IInv, RolesInv, NEW r \in Requests, WriteRole(r) PROVE RolesInv'
<1> DEFINE new == [request[r] EXCEPT !.pc = "commit"]
<1>1. /\ request' = [request EXCEPT ![r] = new]
      /\ request[r].pc = "roles_write" /\ CanLockUser(r, request[r].grant.uid)
      /\ UNCHANGED user /\ request[r] \in RequestState /\ GrantOK(r)
  BY DEF WriteRole, IInv, TypeOK, RolesInv
<1>2. request'[r] = new /\ \A q \in Requests \ {r} : SameGrant(q)
  BY <1>1, OthersSame
<1>3. /\ new.pc = "commit" /\ new.kind = request[r].kind
      /\ new.uid = request[r].uid /\ new.grant = request[r].grant
  BY <1>1 DEF RequestState
<1> HIDE DEF new
<1>4. GrantOK(r)'
  BY <1>1, <1>2, <1>3 DEF GrantOK
<1>5. \A u \in Users : SetsRole(r, u)' => \A q \in Requests \ {r} : ~SetsRole(q, u)
  BY <1>1, <1>2, <1>3 DEF SetsRole, CanLockUser
<1> QED BY <1>1, <1>2, <1>4, <1>5, RolesStep DEF SameRoles

\* A request that the route answers changes no role.
LEMMA AnswerRoles ==
  ASSUME IInv, RolesInv, NEW r \in Requests, Answer(r) PROVE RolesInv'
<1> DEFINE new == [request[r] EXCEPT !.pc = "commit", !.kind = "me"]
<1>1. /\ request' = [request EXCEPT ![r] = new]
      /\ UNCHANGED user /\ request[r] \in RequestState
  BY DEF Answer, IInv, TypeOK
<1>2. new.pc = "commit" /\ new.kind = "me"
  BY <1>1 DEF RequestState
<1> HIDE DEF new
<1> QED BY <1>1, <1>2, OthersSame, OtherKind

\* A change of roles is committed: what it invalidates is marked.
LEMMA CommitRoles ==
  ASSUME IInv, RolesInv, NEW r \in Requests, Commit(r) PROVE RolesInv'
<1> DEFINE g == request[r].grant
           mark(q) == [request[q] EXCEPT !.grant.raced = TRUE]
<1>1. /\ request[r].pc = "commit" /\ GrantOK(r)
      /\ user' = [u \in Users |-> NewUser(r, u)]
      /\ request' = [q \in Requests |->
           IF q = r THEN NoRequest
           ELSE IF SetsRole(r, g.uid) /\ Invalidates(q, g.uid)
             THEN mark(q)
           ELSE request[q]]
      /\ \A q \in Requests : request[q] \in RequestState
      /\ \A u \in Users : user[u] \in UserRow
  BY DEF Commit, RolesInv, IInv, TypeOK
<1>2. request'[r] = NoRequest /\ NoRequest.kind = "none" /\ NoRequest.pc = "idle"
  BY <1>1 DEF NoRequest
<1>3. ASSUME NEW q \in Requests
      PROVE  /\ mark(q).kind = request[q].kind /\ mark(q).pc = request[q].pc
             /\ mark(q).uid = request[q].uid /\ mark(q).role = request[q].role
             /\ mark(q).grant.uid = request[q].grant.uid
             /\ mark(q).grant.role = request[q].grant.role
             /\ mark(q).grant.sets = request[q].grant.sets
             /\ mark(q).grant.raced = TRUE
  BY <1>1 DEF RequestState, Grant
<1> HIDE DEF mark
<1>4. CASE request[r].kind # "roles"
  <2>1. SameRoles
    <3> SUFFICES ASSUME NEW u \in Users
                 PROVE  /\ NewUser(r, u).role = user[u].role
                        /\ NewUser(r, u).logged = user[u].logged
                        /\ NewUser(r, u).stale = user[u].stale
      BY <1>1 DEF SameRoles
    <3> QED BY <1>1, <1>4 DEF NewUser, UserRow
  <2>2. \A q \in Requests \ {r} : SameGrant(q)
    BY <1>1, <1>4 DEF SameGrant, SetsRole
  <2>3. GrantOK(r)' /\ \A u \in Users : ~SetsRole(r, u)'
    BY <1>2 DEF GrantOK, SetsRole
  <2> QED BY <2>1, <2>2, <2>3, RolesStep
<1>5. CASE request[r].kind = "roles"
  <2>1. /\ request[r].uid \in Users /\ g.uid \in Users \ {request[r].uid}
        /\ ~g.raced => /\ user[request[r].uid].role = "SUPERUSER"
                       /\ g.sets <=> g.role # user[g.uid].role
        /\ g.raced \in BOOLEAN /\ SetsRole(r, g.uid)
    BY <1>1, <1>5 DEF GrantOK, SetsRole, RequestState, Grant
  <2>2. /\ user'[g.uid].role = IF g.sets THEN g.role ELSE user[g.uid].role
        /\ user'[g.uid].logged = g.role
        /\ user'[g.uid].stale = g.raced
        /\ \A u \in Users \ {g.uid} : user'[u] = user[u]
    BY <1>1, <1>5, <2>1 DEF NewUser, UserRow
  <2>3. ASSUME NEW q \in Requests, q # r
        PROVE  /\ request'[q].kind = request[q].kind /\ request'[q].pc = request[q].pc
               /\ request'[q].uid = request[q].uid /\ request'[q].role = request[q].role
               /\ request'[q].grant.uid = request[q].grant.uid
               /\ request'[q].grant.role = request[q].grant.role
               /\ request'[q].grant.sets = request[q].grant.sets
               /\ ~request'[q].grant.raced =>
                    ~request[q].grant.raced /\ ~Invalidates(q, g.uid)
    BY <1>1, <1>3, <2>1, <2>3
  <2>4. ASSUME NEW q \in Requests PROVE GrantOK(q)'
    <3>1. CASE q = r
      BY <1>2, <3>1 DEF GrantOK
    <3>2. CASE q # r
      <4>1. GrantOK(q)
        BY DEF RolesInv
      <4>2. request[q].kind = "roles" /\ request[q].pc = "commit" =>
              request[q].grant.uid # g.uid
        BY <2>1, <3>2 DEF SetsRole, RolesInv, GrantsExclude
      <4> QED BY <2>2, <2>3, <3>2, <4>1, <4>2 DEF GrantOK, Invalidates
    <3> QED BY <3>1, <3>2
  <2>5. GrantsExclude'
    <3>1. \A q \in Requests, u \in Users : SetsRole(q, u)' => SetsRole(q, u)
      BY <1>2, <2>3 DEF SetsRole
    <3> QED BY <3>1 DEF RolesInv, GrantsExclude
  <2>6. AuditTellsRole'
    BY <2>1, <2>2 DEF RolesInv, AuditTellsRole
  <2>7. SuperuserRemains'
    BY <2>1, <2>2 DEF SuperuserRemains
  <2> QED BY <2>4, <2>5, <2>6, <2>7 DEF RolesInv
<1> QED BY <1>4, <1>5

\* A status changes, time passes, or nothing happens.
LEMMA EnvironmentRoles ==
  ASSUME IInv, RolesInv, Tick \/ Administer \/ UNCHANGED vars PROVE RolesInv'
<1>1. \A q \in Requests : SameGrant(q)
  BY DEF Tick, Administer, vars, SameGrant
<1>2. SameRoles
  <2>1. CASE Administer
    <3>1. PICK u \in Users, status \in {"ACTIVE", "SUSPENDED"} :
            user' = [user EXCEPT ![u].status = status]
      BY <2>1 DEF Administer
    <3>2. \A x \in Users : user[x] \in UserRow
      BY DEF IInv, TypeOK
    <3>3. \A x \in Users : user'[x] = user[x] \/ user'[x] = [user[x] EXCEPT !.status = status]
      BY <3>1 DEF IInv, TypeOK
    <3> QED BY <3>2, <3>3 DEF SameRoles, UserRow
  <2>2. CASE Tick \/ UNCHANGED vars
    BY <2>2 DEF Tick, vars, SameRoles
  <2> QED BY <2>1, <2>2
<1> QED BY <1>1, <1>2, RolesStutter

LEMMA InitRoles == ASSUME Init PROVE RolesInv
<1>1. /\ \A r \in Requests : request[r] = NoRequest
      /\ \A u \in Users :
           /\ user[u].role = IF u \in Superusers THEN "SUPERUSER" ELSE "USER"
           /\ user[u].logged = user[u].role
  BY DEF Init
<1>2. NoRequest.kind = "none" /\ NoRequest.pc = "idle"
  BY DEF NoRequest
<1>3. (\A r \in Requests : GrantOK(r)) /\ GrantsExclude
  BY <1>1, <1>2 DEF GrantOK, GrantsExclude, SetsRole
<1>4. AuditTellsRole /\ SuperuserRemains
  BY <1>1, UsersAssumption DEF AuditTellsRole, SuperuserRemains
<1> QED BY <1>3, <1>4 DEF RolesInv

-----------------------------------------------------------------------------
(* Theorems *)

\* Whoever is about to commit a change of roles still is a superuser, and
\* knows the role he replaces, unless a change that committed in between is
\* marked (change_role_route, RoleService.change_role, update_role).
THEOREM RolesInvariance == Spec => []RolesInv
<1>1. Init => RolesInv
  BY InitRoles
<1>2. ASSUME IInv, RolesInv, [Next]_vars PROVE RolesInv'
  <2>1. ASSUME NEW r \in Requests, Arrive(r) PROVE RolesInv'
    BY <1>2, <2>1, ArriveRoles
  <2>2. ASSUME NEW r \in Requests, Step(r) PROVE RolesInv'
    <3>1. CASE Expire(r) BY <1>2, <3>1, EndRoles
    <3>2. CASE Slide(r) BY <1>2, <3>2, SlideRoles
    <3>3. CASE SelectRole(r) BY <1>2, <3>3, SelectRoles
    <3>4. CASE WriteRole(r) BY <1>2, <3>4, WriteRoles
    <3>5. CASE Answer(r) BY <1>2, <3>5, AnswerRoles
    <3>6. CASE Commit(r) BY <1>2, <3>6, CommitRoles
    <3> QED BY <1>2, <2>2, <3>1, <3>2, <3>3, <3>4, <3>5, <3>6, OtherRoles DEF Step
  <2>3. ASSUME NEW r \in Requests, RollBack(r) PROVE RolesInv'
    BY <1>2, <2>3, EndRoles
  <2>4. CASE Tick \/ Administer \/ UNCHANGED vars
    BY <1>2, <2>4, EnvironmentRoles
  <2> QED BY <1>2, <2>1, <2>2, <2>3, <2>4 DEF Next
<1>3. IInv /\ RolesInv /\ [Next]_vars => RolesInv'
  BY <1>2
<1> QED BY <1>1, <1>3, Invariance, PTL DEF Spec

\* The audit log tells the role a user has, but for a change that overlapped
\* another of the same user (change_role and its audit row).
THEOREM RolesAudited == Spec => []AuditTellsRole
<1>1. RolesInv => AuditTellsRole
  BY DEF RolesInv
<1> QED BY <1>1, RolesInvariance, PTL

\* The last superuser can be lost only when changes of roles overlap (the
\* guard "Cannot change your own role" of change_role_route).
THEOREM NoLockout == Spec => []SuperuserRemains
<1>1. RolesInv => SuperuserRemains
  BY DEF RolesInv
<1> QED BY <1>1, RolesInvariance, PTL
=============================================================================
