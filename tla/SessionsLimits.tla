--------------------------- MODULE SessionsLimits ---------------------------
(***************************************************************************)
(* Theorems about the limits of sessions: the cap on a user's sessions can *)
(* be exceeded only by logins that run at the same time (CapInv of         *)
(* SessionsInv, on top of IInv), a session that has ended is never used    *)
(* again, a request has a limited number of statements (both from IInv     *)
(* alone), and only revocations deadlock (WaitInv).                        *)
(***************************************************************************)
EXTENDS SessionsProofs, FiniteSetTheorems

\* What a step of r leaves of the others.
LEMMA Others ==
  ASSUME IInv, NEW r \in Requests, Arrive(r) \/ Step(r) \/ RollBack(r),
         NEW q \in Requests, q # r
  PROVE  /\ request'[q].pc = request[q].pc /\ request'[q].kind = request[q].kind
         /\ request'[q].sid = request[q].sid
         /\ request'[q].uid = request[q].uid /\ request'[q].opens = request[q].opens
         /\ request'[q].todo = request[q].todo
         /\ write'[q] = write[q]
<1>1. request[q] \in RequestState
  BY DEF IInv, TypeOK
<1>2. CASE RevokeAll(r)
  <2> DEFINE m == [request[q] EXCEPT !.stamp.raced = TRUE]
  <2>1. (request'[q] = m \/ request'[q] = request[q]) /\ write' = write
    BY <1>2 DEF RevokeAll
  <2>2. /\ m.pc = request[q].pc /\ m.kind = request[q].kind /\ m.uid = request[q].uid
        /\ m.sid = request[q].sid /\ m.opens = request[q].opens
        /\ m.todo = request[q].todo
    BY <1>1 DEF RequestState
  <2> HIDE DEF m
  <2> QED BY <2>1, <2>2
<1>3. CASE Commit(r)
  <2> DEFINE m == [request[q] EXCEPT !.grant.raced = TRUE]
  <2>1. (request'[q] = m \/ request'[q] = request[q]) /\ write'[q] = write[q]
    BY <1>3 DEF Commit, IInv, TypeOK
  <2>2. /\ m.pc = request[q].pc /\ m.kind = request[q].kind /\ m.uid = request[q].uid
        /\ m.sid = request[q].sid /\ m.opens = request[q].opens
        /\ m.todo = request[q].todo
    BY <1>1 DEF RequestState
  <2> HIDE DEF m
  <2> QED BY <2>1, <2>2
<1>4. CASE Arrive(r) \/ RollBack(r)
  BY <1>4 DEF Arrive, Receive, Login, ResetPassword, RollBack, IInv, TypeOK
<1>5. CASE Step(r) /\ ~RevokeAll(r) /\ ~Commit(r)
  <2>1. CASE Expire(r) \/ Slide(r) \/ Create(r) \/ Logout(r) \/ ChangePassword(r)
    BY <2>1 DEF Expire, Slide, Create, Logout, ChangePassword, IInv, TypeOK
  <2>2. CASE RevokeOne(r) \/ Impersonate(r) \/ SelectRole(r) \/ WriteRole(r) \/ Answer(r)
    BY <2>2 DEF RevokeOne, Impersonate, SelectRole, WriteRole, Answer, IInv, TypeOK
  <2>3. CASE CheckStop(r) \/ ExpireAdmin(r) \/ FinishStop(r)
    BY <2>3 DEF CheckStop, ExpireAdmin, FinishStop, IInv, TypeOK
  <2> QED BY <1>5, <2>1, <2>2, <2>3 DEF Step
<1> QED BY <1>2, <1>3, <1>4, <1>5

\* What a step makes of the kind of its own request.
LEMMA OwnKind ==
  ASSUME IInv, NEW r \in Requests, Step(r)
  PROVE  request'[r].kind = request[r].kind \/ request'[r].kind \in {"none", "me"}
<1>1. request[r] \in RequestState /\ request \in [Requests -> RequestState]
  BY DEF IInv, TypeOK
<1>2. ASSUME NEW new, request'[r] = new, new.kind = request[r].kind
      PROVE  request'[r].kind = request[r].kind
  BY <1>2
<1>3. CASE Expire(r) \/ Commit(r)
  BY <1>1, <1>3 DEF Expire, Commit, NoRequest
<1>4. CASE Slide(r)
  BY <1>1, <1>4 DEF Slide, RequestState
<1>5. CASE Create(r) \/ Logout(r) \/ ChangePassword(r) \/ ExpireAdmin(r) \/ WriteRole(r)
  <2>1. \E pc : request'[r] = [request[r] EXCEPT !.pc = pc]
    BY <1>1, <1>5 DEF Create, Logout, ChangePassword, ExpireAdmin, WriteRole
  <2> QED BY <1>1, <2>1 DEF RequestState
<1>6. CASE RevokeAll(r)
  BY <1>1, <1>6 DEF RevokeAll, RequestState
<1>7. CASE RevokeOne(r)
  BY <1>1, <1>7 DEF RevokeOne, RequestState
<1>8. CASE Impersonate(r)
  BY <1>1, <1>8 DEF Impersonate, RequestState
<1>9. CASE CheckStop(r)
  <2>1. \E pc : request'[r] = [request[r] EXCEPT !.pc = pc, !.at = now]
    BY <1>1, <1>9 DEF CheckStop
  <2> QED BY <1>1, <2>1 DEF RequestState
<1>10. CASE FinishStop(r)
  BY <1>1, <1>10 DEF FinishStop, RequestState
<1>11. CASE SelectRole(r)
  BY <1>1, <1>11 DEF SelectRole, RequestState
<1>12. CASE Answer(r)
  BY <1>1, <1>12 DEF Answer, RequestState
<1> QED BY <1>3, <1>4, <1>5, <1>6, <1>7, <1>8, <1>9, <1>10, <1>11, <1>12 DEF Step

\* A login or impersonation comes to its commit by its INSERT only.
LEMMA OwnStep ==
  ASSUME IInv, CapInv, NEW r \in Requests, Arrive(r) \/ Step(r) \/ RollBack(r)
  PROVE  /\ CapOK(r)'
         /\ request'[r].kind \in {"login", "impersonate"} /\ request'[r].pc = "commit"
              => Create(r) \/ Impersonate(r)
<1>1. /\ request[r] \in RequestState /\ request \in [Requests -> RequestState]
      /\ CapOK(r) /\ RequestOK(r)
  BY DEF IInv, TypeOK, CapInv
<1>2. CASE RollBack(r) \/ Expire(r) \/ Commit(r)
  <2>1. request'[r].kind = "none"
    BY <1>1, <1>2 DEF RollBack, Expire, Commit, NoRequest
  <2> QED BY <2>1 DEF CapOK
<1>3. CASE Receive(r)
  <2>1. request'[r].pc \in {"expire", "slide"} /\ request'[r].kind \in Authenticated
    BY <1>1, <1>3 DEF Receive, NoRequest
  <2> QED BY <2>1 DEF CapOK, Authenticated
<1>4. CASE Login(r)
  <2>1. /\ request'[r].pc = "login" /\ request'[r].kind = "login"
        /\ request'[r].opens = request'[r].uid
    BY <1>1, <1>4 DEF Login, NoRequest
  <2> QED BY <2>1 DEF CapOK
<1>5. CASE ResetPassword(r)
  <2>1. request'[r].kind = "reset"
    BY <1>1, <1>5 DEF ResetPassword, NoRequest
  <2> QED BY <2>1 DEF CapOK
<1>6. CASE Slide(r)
  <2>1. /\ request'[r].kind = request[r].kind /\ request[r].kind \in Authenticated
        /\ request'[r].pc = IF request[r].kind = "me" THEN "commit" ELSE request[r].kind
    BY <1>1, <1>6 DEF Slide, RequestOK, RequestState
  <2> QED BY <2>1 DEF CapOK, Authenticated
<1>7. CASE Create(r)
  <2>1. /\ request'[r].kind = request[r].kind /\ request'[r].pc = "commit"
        /\ request'[r].opens = request[r].opens /\ request'[r].uid = request[r].uid
    BY <1>1, <1>7 DEF Create, RequestState
  <2> QED BY <1>1, <1>7, <2>1 DEF CapOK
<1>8. CASE Impersonate(r)
  <2>1. request[r].kind = "impersonate"
    BY <1>1, <1>8 DEF Impersonate, RequestOK
  <2>2. request'[r].kind = "impersonate" /\ request'[r].pc = "commit"
    BY <1>1, <1>8, <2>1 DEF Impersonate, RequestState
  <2> QED BY <1>8, <2>2 DEF CapOK
<1>9. CASE Step(r) /\ request[r].pc \notin {"expire", "slide", "login", "impersonate", "commit"}
  <2>1. request[r].kind \notin {"login", "impersonate"}
    BY <1>1, <1>9 DEF CapOK
  <2>2. request'[r].kind \notin {"login", "impersonate"}
    BY <1>9, <2>1, OwnKind
  <2> QED BY <2>2 DEF CapOK
<1>10. CASE Answer(r)
  <2>1. request'[r].kind = "me"
    BY <1>1, <1>10 DEF Answer, RequestState
  <2> QED BY <1>10, <2>1 DEF CapOK
<1>11. ASSUME Step(r), ~Expire(r), ~Slide(r), ~Create(r), ~Impersonate(r), ~Answer(r), ~Commit(r)
       PROVE  request[r].pc \notin {"expire", "slide", "login", "impersonate", "commit"}
  BY <1>11 DEF Step, Logout, ChangePassword, RevokeAll, RevokeOne, CheckStop,
               ExpireAdmin, FinishStop, SelectRole, WriteRole
<1> QED BY <1>2, <1>3, <1>4, <1>5, <1>6, <1>7, <1>8, <1>9, <1>10, <1>11 DEF Arrive

-----------------------------------------------------------------------------
(* Where open sessions come from *)

LEMMA Rows ==
  ASSUME IInv, [Next]_vars, NEW s \in Sid, session'[s].state = "active"
  PROVE  \/ /\ session[s].state = "active"
            /\ session'[s].user_id = session[s].user_id
            /\ session'[s].absolute_expires_at = session[s].absolute_expires_at
            /\ session'[s].impersonator_id = session[s].impersonator_id
         \/ \E r \in Requests :
              Commit(r) /\ s \in Inserts(r) /\ session'[s] = write[r][s]
<1>1. ASSUME NEW r \in Requests, Commit(r)
      PROVE  \/ Exists(s) /\ Keeps(session'[s], session[s])
             \/ ~Exists(s) /\ Written(r, s) /\ session'[s] = write[r][s]
  <2>1. session'[s] = View(r, s)
    BY <1>1 DEF Commit
  <2>2. CASE Exists(s)
    BY <2>1, <2>2 DEF IInv, WriteOK, View, Written, Keeps, Exists
  <2>3. CASE ~Exists(s)
    BY <2>1, <2>3 DEF View, Written, Exists
  <2> QED BY <2>2, <2>3
<1>2. ASSUME NEW r \in Requests, Expire(r) PROVE session' = session \/ session'[s] = session[s]
  <2>1. PICK k \in Sid : Exists(k) /\ session' = [session EXCEPT ![k] = Deactivated(@)]
    BY <1>2 DEF Expire, IInv, RequestOK
  <2>2. Deactivated(session[k]).state = "inactive"
    BY <2>1, DeactivatedRow DEF IInv, TypeOK, Exists
  <2> QED BY <2>1, <2>2 DEF IInv, TypeOK
<1>3. ASSUME NEW r \in Requests, Step(r), ~Commit(r), ~Expire(r) PROVE session' = session
  BY <1>3 DEF Step, Slide, Create, Logout, ChangePassword, RevokeAll, RevokeOne,
              Impersonate, CheckStop, ExpireAdmin, FinishStop, SelectRole, WriteRole, Answer
<1>4. ASSUME NEW r \in Requests, Arrive(r) \/ RollBack(r) PROVE session' = session
  BY <1>4 DEF Arrive, Receive, Login, ResetPassword, RollBack
<1>5. Tick \/ Administer \/ UNCHANGED vars => session' = session
  BY DEF Tick, Administer, vars
<1> QED BY <1>1, <1>2, <1>3, <1>4, <1>5 DEF Next, Keeps, Inserts

\* The clock does not go back.
LEMMA Clock ==
  ASSUME IInv, [Next]_vars
  PROVE  now \in Nat /\ now' \in Nat /\ now <= now'
<1>1. ASSUME NEW r \in Requests, Arrive(r) \/ RollBack(r) PROVE now' = now
  BY <1>1 DEF Arrive, Receive, Login, ResetPassword, RollBack
<1>2. ASSUME NEW r \in Requests, Step(r) PROVE now' = now
  <2>1. CASE Expire(r) \/ Slide(r) \/ Create(r) \/ Logout(r) \/ ChangePassword(r)
    BY <2>1 DEF Expire, Slide, Create, Logout, ChangePassword
  <2>2. CASE RevokeAll(r) \/ RevokeOne(r) \/ Impersonate(r) \/ CheckStop(r)
    BY <2>2 DEF RevokeAll, RevokeOne, Impersonate, CheckStop
  <2>3. CASE ExpireAdmin(r) \/ FinishStop(r) \/ SelectRole(r) \/ WriteRole(r) \/ Answer(r) \/ Commit(r)
    BY <2>3 DEF ExpireAdmin, FinishStop, SelectRole, WriteRole, Answer, Commit
  <2> QED BY <1>2, <2>1, <2>2, <2>3 DEF Step
<1>3. now \in Nat
  BY DEF IInv, TypeOK
<1>4. now' = now \/ now' = now + 1
  BY <1>1, <1>2 DEF Next, Tick, Administer, vars
<1> QED BY <1>3, <1>4

\* Closed sessions do not count again.
LEMMA SessionsCounted ==
  ASSUME IInv, [Next]_vars, NEW u \in Users, NEW s \in LoginSessions(u)',
         s \notin LoginSessions(u)
  PROVE  \E r \in Requests :
           /\ Commit(r) /\ s \in Inserts(r) /\ request[r].kind = "login"
           /\ request[r].opens = u
<1>1. /\ s \in Sid /\ session'[s].state = "active" /\ session'[s].user_id = u
      /\ session'[s].absolute_expires_at > now' /\ session'[s].impersonator_id = None
  BY DEF LoginSessions, ActiveOf
<1>2. now \in Nat /\ now' \in Nat /\ now <= now'
  BY Clock
<1>3. session'[s].absolute_expires_at \in Nat
  BY <1>1, StepInv DEF IInv, TypeOK, SessionRow
<1>4. CASE /\ session[s].state = "active"
           /\ session'[s].user_id = session[s].user_id
           /\ session'[s].absolute_expires_at = session[s].absolute_expires_at
           /\ session'[s].impersonator_id = session[s].impersonator_id
  BY <1>1, <1>2, <1>3, <1>4 DEF LoginSessions, ActiveOf
<1>5. CASE \E r \in Requests : Commit(r) /\ s \in Inserts(r) /\ session'[s] = write[r][s]
  <2>1. PICK r \in Requests : Commit(r) /\ s \in Inserts(r) /\ session'[s] = write[r][s]
    BY <1>5
  <2>2. /\ request[r].kind \in {"login", "impersonate"}
        /\ write[r][s].user_id = request[r].opens
        /\ write[r][s].impersonator_id # None <=> request[r].kind = "impersonate"
    BY <1>1, <2>1 DEF IInv, WriteOK, Inserts
  <2> QED BY <1>1, <2>1, <2>2
<1> QED BY <1>1, <1>4, <1>5, Rows

\* Logins that have passed the cap.
LEMMA LoginsCounted ==
  ASSUME IInv, CapInv, [Next]_vars, NEW u \in Users, NEW r \in PastCap(u)',
         r \notin PastCap(u)
  PROVE  Create(r) /\ request[r].uid = u
<1>1. r \in Requests /\ request'[r].kind = "login" /\ request'[r].uid = u
      /\ request'[r].pc = "commit"
  BY DEF PastCap
<1>2. request' # request
  BY <1>1 DEF PastCap
<1>3. PICK q \in Requests : Arrive(q) \/ Step(q) \/ RollBack(q)
  BY <1>2 DEF Next, Tick, Administer, vars
<1>4. q = r
  BY <1>1, <1>3, Others DEF PastCap
<1>5. Create(r) \/ Impersonate(r)
  BY <1>1, <1>3, <1>4, OwnStep
<1>6. CASE Create(r)
  <2>1. request'[r].uid = request[r].uid
    BY <1>1, <1>6 DEF Create, IInv, TypeOK, RequestState
  <2> QED BY <1>1, <1>6, <2>1
<1>7. CASE Impersonate(r)
  <2>1. request[r].kind = "impersonate"
    BY <1>1, <1>7 DEF Impersonate, IInv, RequestOK
  <2> QED BY <1>1, <1>7, <2>1, OwnKind DEF Step
<1> QED BY <1>5, <1>6, <1>7

\* A request inserts one session at most.
LEMMA InsertsOne ==
  ASSUME IInv, CapInv, [Next]_vars, NEW r \in Requests
  PROVE  \A s, t \in Inserts(r)' : s = t
<1> SUFFICES ASSUME NEW s \in Inserts(r)', NEW t \in Inserts(r)', s # t PROVE FALSE
  OBVIOUS
<1>1. s \in Sid /\ t \in Sid /\ Written(r, s)' /\ Written(r, t)'
      /\ ~Exists(s)' /\ ~Exists(t)'
  BY DEF Inserts
<1>2. /\ request'[r].pc = "commit" /\ request'[r].kind \in {"login", "impersonate"}
  BY <1>1, StepInv DEF IInv, WriteOK
<1>3. ~Exists(s) /\ ~Exists(t)
  <2>1. ASSUME NEW x \in Sid, Exists(x) PROVE Exists(x)'
    <3>1. ASSUME NEW q \in Requests, Commit(q) PROVE Exists(x)'
      BY <2>1, <3>1 DEF Commit, View, Exists
    <3>2. ASSUME NEW q \in Requests, Expire(q) PROVE Exists(x)'
      <4>1. PICK k \in Sid : Exists(k) /\ session' = [session EXCEPT ![k] = Deactivated(@)]
        BY <3>2 DEF Expire, IInv, RequestOK
      <4>2. Deactivated(session[k]).state = "inactive"
        BY <4>1, DeactivatedRow DEF IInv, TypeOK, Exists
      <4> QED BY <2>1, <4>1, <4>2 DEF IInv, TypeOK, Exists
    <3>3. ASSUME session' = session PROVE Exists(x)'
      BY <2>1, <3>3 DEF Exists
    <3>4. ASSUME NEW q \in Requests, Step(q), ~Commit(q), ~Expire(q) PROVE session' = session
      BY <3>4 DEF Step, Slide, Create, Logout, ChangePassword, RevokeAll, RevokeOne,
                  Impersonate, CheckStop, ExpireAdmin, FinishStop, SelectRole, WriteRole, Answer
    <3>5. ASSUME NEW q \in Requests, Arrive(q) \/ RollBack(q) PROVE session' = session
      BY <3>5 DEF Arrive, Receive, Login, ResetPassword, RollBack
    <3>6. Tick \/ Administer \/ UNCHANGED vars => session' = session
      BY DEF Tick, Administer, vars
    <3> QED BY <3>1, <3>2, <3>3, <3>4, <3>5, <3>6 DEF Next
  <2> QED BY <1>1, <2>1
<1>4. CASE write'[r] = write[r]
  BY <1>1, <1>3, <1>4 DEF CapInv, Inserts, Written
<1>5. CASE Create(r) \/ Impersonate(r)
  <2>1. request[r].pc \in {"login", "impersonate"}
    BY <1>5 DEF Create, Impersonate
  <2>2. ~Written(r, s) /\ ~Written(r, t)
    BY <1>1, <1>3, <2>1 DEF IInv, WriteOK
  <2>3. PICK k \in Sid : \A x \in Sid \ {k} : write'[r][x] = write[r][x]
    <3>1. write \in [Requests -> [Sid -> SessionRow]]
      BY DEF IInv, TypeOK
    <3>2. PICK k \in Sid : \E row : write' = [write EXCEPT ![r][k] = row]
      BY <1>5 DEF Create, Impersonate
    <3> QED BY <3>1, <3>2
  <2> QED BY <1>1, <2>2, <2>3 DEF Written
<1>6. CASE write'[r] # write[r] /\ ~Create(r) /\ ~Impersonate(r)
  <2>1. PICK q \in Requests : Arrive(q) \/ Step(q) \/ RollBack(q)
    BY <1>6 DEF Next, Tick, Administer, vars
  <2>2. q = r
    BY <1>6, <2>1, Others
  <2> QED BY <1>2, <1>6, <2>1, <2>2, OwnStep
<1> QED BY <1>4, <1>5, <1>6

\* A commit is a step of one request and of no other.
LEMMA CommitAlone ==
  ASSUME IInv, NEW r \in Requests, Commit(r), NEW q \in Requests, Step(q)
  PROVE  q = r
<1> SUFFICES ASSUME q # r PROVE FALSE
  OBVIOUS
<1>1. request'[r].pc = "idle" /\ request[r].pc = "commit"
  BY DEF Commit, NoRequest
<1>2. request'[r].pc = request[r].pc
  BY Others
<1> QED BY <1>1, <1>2

LEMMA FiniteCounts ==
  ASSUME NEW u \in Users
  PROVE  /\ IsFiniteSet(LoginSessions(u)) /\ IsFiniteSet(ActiveOf(u, now))
         /\ IsFiniteSet(PastCap(u)) /\ IsFiniteSet(Requests)
         /\ Cardinality(LoginSessions(u)) \in Nat
         /\ Cardinality(ActiveOf(u, now)) \in Nat
         /\ Cardinality(LoginSessions(u)) <= Cardinality(ActiveOf(u, now))
         /\ Cardinality(PastCap(u)) \in Nat /\ Cardinality(Requests) \in Nat
         /\ Cardinality(PastCap(u)) <= Cardinality(Requests)
<1>1. /\ LoginSessions(u) \subseteq ActiveOf(u, now) /\ ActiveOf(u, now) \subseteq Sid
      /\ PastCap(u) \subseteq Requests
  BY DEF LoginSessions, ActiveOf, PastCap
<1>2. IsFiniteSet(Sid) /\ IsFiniteSet(Requests)
  BY FiniteAssumption
<1>3. IsFiniteSet(ActiveOf(u, now)) /\ IsFiniteSet(PastCap(u))
  BY <1>1, <1>2, FS_Subset
<1> QED BY <1>1, <1>2, <1>3, FS_Subset, FS_CardinalityType

\* A login that passes the cap has counted fewer than MAX sessions, and there
\* are no more requests than there are; a commit turns a login into a session.
LEMMA StepCounts ==
  ASSUME IInv, CapInv, [Next]_vars, NEW u \in Users
  PROVE  Cardinality(LoginSessions(u)') + Cardinality(PastCap(u)')
           <= MAX_CONCURRENT_SESSIONS - 1 + Cardinality(Requests)
<1> DEFINE L == LoginSessions(u)
           P == PastCap(u)
<1>1. /\ IsFiniteSet(L) /\ Cardinality(L) \in Nat
      /\ IsFiniteSet(P) /\ Cardinality(P) \in Nat
      /\ IsFiniteSet(Requests) /\ Cardinality(Requests) \in Nat
  BY FiniteCounts
<1>2. LoginSessions(u)' \subseteq Sid /\ PastCap(u)' \subseteq Requests
  BY DEF LoginSessions, ActiveOf, PastCap
<1>3. /\ IsFiniteSet(LoginSessions(u)') /\ Cardinality(LoginSessions(u)') \in Nat
      /\ IsFiniteSet(PastCap(u)') /\ Cardinality(PastCap(u)') \in Nat
      /\ Cardinality(PastCap(u)') <= Cardinality(Requests)
  BY <1>2, FiniteAssumption, FS_Subset, FS_CardinalityType
<1>4. Cardinality(L) + Cardinality(P)
        <= MAX_CONCURRENT_SESSIONS - 1 + Cardinality(Requests)
  BY DEF CapInv, CapOvershootBounded
<1>5. MAX_CONCURRENT_SESSIONS \in Nat
  BY BoundsAssumption
<1>6. CASE \E r \in Requests : Create(r) /\ request[r].uid = u
  <2>1. PICK r \in Requests : Create(r) /\ request[r].uid = u
    BY <1>6
  <2>2. LoginSessions(u)' = L
    BY <2>1 DEF Create, LoginSessions, ActiveOf
  <2>3. Cardinality(ActiveOf(u, now)) < MAX_CONCURRENT_SESSIONS
    BY <2>1 DEF Create, BelowCap
  <2>4. Cardinality(L) <= Cardinality(ActiveOf(u, now)) /\ Cardinality(ActiveOf(u, now)) \in Nat
    BY FiniteCounts
  <2> HIDE DEF L, P
  <2> QED BY <1>1, <1>3, <1>5, <2>2, <2>3, <2>4
<1>7. CASE \E s \in LoginSessions(u)' : s \notin L
  <2>1. PICK s \in LoginSessions(u)' : s \notin L
    BY <1>7
  <2>2. PICK r \in Requests : /\ Commit(r) /\ s \in Inserts(r)
                              /\ request[r].kind = "login" /\ request[r].opens = u
    BY <2>1, SessionsCounted
  <2>3. LoginSessions(u)' \subseteq L \cup {s}
    <3> SUFFICES ASSUME NEW x \in LoginSessions(u)', x \notin L PROVE x = s
      OBVIOUS
    <3>1. PICK q \in Requests : Commit(q) /\ x \in Inserts(q)
      BY SessionsCounted
    <3>2. q = r
      BY <2>2, <3>1, CommitAlone DEF Step
    <3> QED BY <2>2, <3>1, <3>2 DEF CapInv
  <2>4. r \in P
    BY <2>2 DEF Commit, PastCap, CapInv, CapOK
  <2>5. PastCap(u)' \subseteq P \ {r}
    <3>1. r \notin PastCap(u)'
      BY <2>2 DEF Commit, PastCap, NoRequest
    <3> SUFFICES ASSUME NEW x \in PastCap(u)', x \notin P PROVE FALSE
      BY <3>1
    <3>2. x \in Requests /\ Create(x)
      BY LoginsCounted DEF PastCap
    <3>3. x = r
      BY <2>2, <3>2, CommitAlone DEF Step
    <3> QED BY <2>2, <3>2, <3>3 DEF Commit, Create
  <2> HIDE DEF L, P
  <2>6. IsFiniteSet(L \cup {s}) /\ Cardinality(L \cup {s}) = Cardinality(L) + 1
    BY <1>1, <2>1, FS_AddElement
  <2>7. IsFiniteSet(P \ {r}) /\ Cardinality(P \ {r}) = Cardinality(P) - 1
    BY <1>1, <2>4, FS_RemoveElement
  <2>8. Cardinality(LoginSessions(u)') <= Cardinality(L) + 1
    BY <2>3, <2>6, FS_Subset
  <2>9. Cardinality(PastCap(u)') <= Cardinality(P) - 1
    BY <2>5, <2>7, FS_Subset
  <2> QED BY <1>1, <1>3, <1>4, <1>5, <2>8, <2>9
<1>8. CASE /\ ~\E r \in Requests : Create(r) /\ request[r].uid = u
           /\ ~\E s \in LoginSessions(u)' : s \notin L
  <2>1. LoginSessions(u)' \subseteq L
    BY <1>8
  <2>2. PastCap(u)' \subseteq P
    <3> SUFFICES ASSUME NEW x \in PastCap(u)', x \notin P PROVE FALSE
      OBVIOUS
    <3>1. x \in Requests
      BY DEF PastCap
    <3> QED BY <1>8, <3>1, LoginsCounted
  <2> HIDE DEF L, P
  <2>3. Cardinality(LoginSessions(u)') <= Cardinality(L)
    BY <1>1, <2>1, FS_Subset
  <2>4. Cardinality(PastCap(u)') <= Cardinality(P)
    BY <1>1, <2>2, FS_Subset
  <2> QED BY <1>1, <1>3, <1>4, <1>5, <2>3, <2>4
<1> QED BY <1>6, <1>7, <1>8

LEMMA InitCap == Init => CapInv
<1> SUFFICES ASSUME Init PROVE CapInv
  OBVIOUS
<1>1. \A r \in Requests : CapOK(r)
  BY DEF Init, NoRequest, CapOK
<1>2. \A r \in Requests : Inserts(r) = {}
  BY DEF Init, Inserts, Written, NoRow
<1>3. ASSUME NEW u \in Users
      PROVE  Cardinality(LoginSessions(u)) + Cardinality(PastCap(u))
               <= MAX_CONCURRENT_SESSIONS - 1 + Cardinality(Requests)
  <2>1. LoginSessions(u) = {} /\ PastCap(u) = {}
    BY DEF Init, LoginSessions, ActiveOf, NoRow, PastCap, NoRequest
  <2>2. MAX_CONCURRENT_SESSIONS \in Nat \ {0} /\ Cardinality(Requests) \in Nat
    BY BoundsAssumption, FiniteAssumption, FS_CardinalityType
  <2>3. Cardinality({}) = 0
    BY FS_EmptySet
  <2> QED BY <2>1, <2>2, <2>3
<1> QED BY <1>1, <1>2, <1>3 DEF CapInv, CapOvershootBounded

LEMMA StepCap == IInv /\ CapInv /\ [Next]_vars => CapInv'
<1> SUFFICES ASSUME IInv, CapInv, [Next]_vars PROVE CapInv'
  OBVIOUS
<1>1. ASSUME NEW r \in Requests PROVE CapOK(r)'
  <2>1. CASE request' = request
    BY <2>1 DEF CapInv, CapOK
  <2>2. ASSUME NEW q \in Requests, Arrive(q) \/ Step(q) \/ RollBack(q)
        PROVE  CapOK(r)'
    <3>1. CASE q = r
      BY <2>2, <3>1, OwnStep
    <3>2. CASE q # r
      BY <2>2, <3>2, Others DEF CapInv, CapOK
    <3> QED BY <3>1, <3>2
  <2> QED BY <2>1, <2>2 DEF Next, Tick, Administer, vars
<1>2. \A r \in Requests : \A s, t \in Inserts(r)' : s = t
  BY InsertsOne
<1>3. \A u \in Users :
        Cardinality(LoginSessions(u)') + Cardinality(PastCap(u)')
          <= MAX_CONCURRENT_SESSIONS - 1 + Cardinality(Requests)
  BY StepCounts
<1> QED BY <1>1, <1>2, <1>3 DEF CapInv, CapOvershootBounded

\* For any numbers of users, sessions and concurrent requests: concurrent
\* logins exceed MAX_CONCURRENT_SESSIONS by no more than the other requests
\* that run (SessionService.login counts, then inserts, without a lock).
THEOREM CapSafe == Spec => []CapOvershootBounded
<1>1. Init => CapInv
  BY InitCap
<1>2. IInv /\ CapInv /\ [Next]_vars => CapInv'
  BY StepCap
<1>3. Spec => []IInv
  BY Invariance
<1>4. CapInv => CapOvershootBounded
  BY DEF CapInv
<1> QED BY <1>1, <1>2, <1>3, <1>4, PTL DEF Spec

-----------------------------------------------------------------------------
(* Sessions that have ended *)

\* Rows stay, and keep what they link to; a dead row changes by a
\* deactivation only.
LEMMA RowsStay ==
  ASSUME IInv, [Next]_vars, NEW s \in Sid, Exists(s)
  PROVE  /\ Exists(s)'
         /\ session'[s].impersonator_session_id = session[s].impersonator_session_id
         /\ \/ session'[s] = session[s]
            \/ session'[s].state = "inactive"
            \/ \E r \in Requests : write[r][s].state = "active"
<1>1. CASE session'[s] = session[s]
  BY <1>1 DEF Exists
<1>2. ASSUME NEW r \in Requests, Commit(r), session'[s] # session[s]
      PROVE  /\ session'[s] = write[r][s] /\ Keeps(write[r][s], session[s])
             /\ write[r][s].state \in {"active", "inactive"}
  <2>1. session'[s] = View(r, s)
    BY <1>2 DEF Commit
  <2>2. session'[s] = write[r][s] /\ Written(r, s)
    BY <1>2, <2>1 DEF View, Written
  <2>3. write[r][s] \in SessionRow
    BY DEF IInv, TypeOK
  <2> QED BY <2>2, <2>3 DEF IInv, WriteOK, Written, SessionRow
<1>3. ASSUME NEW r \in Requests, Expire(r), session'[s] # session[s]
      PROVE  session'[s].state = "inactive" /\ Keeps(session'[s], session[s])
  <2>1. PICK k \in Sid : Exists(k) /\ session' = [session EXCEPT ![k] = Deactivated(@)]
    BY <1>3 DEF Expire, IInv, RequestOK
  <2>2. /\ Deactivated(session[k]).state = "inactive"
        /\ Keeps(Deactivated(session[k]), session[k])
    BY <2>1, DeactivatedRow DEF IInv, TypeOK, Exists
  <2>3. session'[s] = Deactivated(session[k]) /\ s = k
    BY <1>3, <2>1 DEF IInv, TypeOK
  <2> QED BY <2>2, <2>3
<1>4. ASSUME NEW r \in Requests, Step(r), ~Commit(r), ~Expire(r) PROVE session' = session
  BY <1>4 DEF Step, Slide, Create, Logout, ChangePassword, RevokeAll, RevokeOne,
              Impersonate, CheckStop, ExpireAdmin, FinishStop, SelectRole, WriteRole, Answer
<1>5. ASSUME NEW r \in Requests, Arrive(r) \/ RollBack(r) PROVE session' = session
  BY <1>5 DEF Arrive, Receive, Login, ResetPassword, RollBack
<1>6. Tick \/ Administer \/ UNCHANGED vars => session' = session
  BY DEF Tick, Administer, vars
<1>7. CASE session'[s] # session[s]
  <2>1. PICK r \in Requests : Commit(r) \/ Expire(r)
    BY <1>4, <1>5, <1>6, <1>7 DEF Next
  <2>2. CASE Commit(r)
    BY <1>2, <1>7, <2>2 DEF Keeps, Exists
  <2>3. CASE Expire(r)
    BY <1>3, <1>7, <2>3 DEF Keeps, Exists
  <2> QED BY <2>1, <2>2, <2>3
<1> QED BY <1>1, <1>7

LEMMA Ends ==
  ASSUME IInv, [Next]_vars, NEW s \in Sid, Dead(s), ~Admitted(s)
  PROVE  Dead(s)'
<1>1. Exists(s) /\ session[s] \in SessionRow
  BY DEF Dead, Exists, IInv, TypeOK
<1>2. session'[s] = session[s] \/ session'[s].state = "inactive"
  BY <1>1, RowsStay DEF Admitted
<1>3. now \in Nat /\ now' \in Nat /\ now <= now'
  BY Clock
<1> QED BY <1>1, <1>2, <1>3 DEF Dead, SessionRow

\* The slides: a request starts one only on a session that it found alive.
LEMMA NoNewSlide ==
  ASSUME IInv, NEW s \in Sid, Dead(s), NEW r \in Requests,
         Arrive(r) \/ Step(r) \/ RollBack(r),
         request'[r].pc = "slide", request'[r].sid = s
  PROVE  FALSE
<1>1. request[r] \in RequestState /\ request \in [Requests -> RequestState]
  BY DEF IInv, TypeOK
<1>2. CASE Receive(r)
  <2>1. PICK k \in Sid :
          /\ session[k].state = "active"
          /\ request'[r].pc = IF Expired(session[k], now) THEN "expire" ELSE "slide"
          /\ request'[r].sid = k
    BY <1>1, <1>2 DEF Receive, NoRequest
  <2> QED BY <2>1 DEF Expired, Dead
<1>3. CASE Login(r) \/ ResetPassword(r) \/ RollBack(r) \/ Expire(r) \/ Commit(r)
  <2>1. CASE Login(r) \/ ResetPassword(r)
    BY <1>1, <2>1 DEF Login, ResetPassword, NoRequest
  <2>2. CASE RollBack(r) \/ Expire(r) \/ Commit(r)
    BY <1>1, <2>2 DEF RollBack, Expire, Commit, NoRequest
  <2> QED BY <1>3, <2>1, <2>2
<1>4. CASE Slide(r)
  <2>1. /\ request[r].kind \in Authenticated
        /\ request'[r].pc = IF request[r].kind = "me" THEN "commit" ELSE request[r].kind
    BY <1>1, <1>4 DEF Slide, IInv, RequestOK, RequestState
  <2> QED BY <2>1 DEF Authenticated
<1>5. CASE Create(r) \/ Logout(r) \/ ChangePassword(r) \/ ExpireAdmin(r) \/ WriteRole(r) \/ Answer(r)
  BY <1>1, <1>5 DEF Create, Logout, ChangePassword, ExpireAdmin, WriteRole, Answer, RequestState
<1>6. CASE RevokeAll(r)
  BY <1>1, <1>6 DEF RevokeAll, RequestState
<1>7. CASE RevokeOne(r)
  BY <1>1, <1>7 DEF RevokeOne, RequestState
<1>8. CASE Impersonate(r)
  BY <1>1, <1>8 DEF Impersonate, RequestState
<1>9. CASE CheckStop(r)
  BY <1>1, <1>9 DEF CheckStop, RequestState
<1>10. CASE FinishStop(r)
  BY <1>1, <1>10 DEF FinishStop, RequestState
<1>11. CASE SelectRole(r)
  BY <1>1, <1>11 DEF SelectRole, RequestState
<1> QED BY <1>2, <1>3, <1>4, <1>5, <1>6, <1>7, <1>8, <1>9, <1>10, <1>11 DEF Arrive, Step

\* ... also of the administrator's session in a stop.
LEMMA NoNewStop ==
  ASSUME IInv, NEW s \in Sid, Dead(s), ~Admitted(s), NEW r \in Requests,
         Arrive(r) \/ Step(r) \/ RollBack(r),
         request'[r].pc = "stop_finish",
         session'[request'[r].sid].impersonator_session_id = s
  PROVE  FALSE
<1>1. request[r] \in RequestState /\ request \in [Requests -> RequestState]
  BY DEF IInv, TypeOK
<1>2. CASE Arrive(r) \/ RollBack(r) \/ Expire(r) \/ Commit(r)
  <2>1. CASE Receive(r)
    BY <1>1, <2>1 DEF Receive, NoRequest
  <2>2. CASE Login(r) \/ ResetPassword(r)
    BY <1>1, <2>2 DEF Login, ResetPassword, NoRequest
  <2>3. CASE RollBack(r) \/ Expire(r) \/ Commit(r)
    BY <1>1, <2>3 DEF RollBack, Expire, Commit, NoRequest
  <2> QED BY <1>2, <2>1, <2>2, <2>3 DEF Arrive
<1>3. CASE Slide(r)
  <2>1. /\ request[r].kind \in Authenticated
        /\ request'[r].pc = IF request[r].kind = "me" THEN "commit" ELSE request[r].kind
    BY <1>1, <1>3 DEF Slide, IInv, RequestOK, RequestState
  <2> QED BY <2>1 DEF Authenticated
<1>4. CASE Create(r) \/ Logout(r) \/ ChangePassword(r) \/ ExpireAdmin(r) \/ WriteRole(r) \/ Answer(r)
  BY <1>1, <1>4 DEF Create, Logout, ChangePassword, ExpireAdmin, WriteRole, Answer, RequestState
<1>5. CASE RevokeAll(r)
  BY <1>1, <1>5 DEF RevokeAll, RequestState
<1>6. CASE RevokeOne(r)
  BY <1>1, <1>6 DEF RevokeOne, RequestState
<1>7. CASE Impersonate(r)
  BY <1>1, <1>7 DEF Impersonate, RequestState
<1>8. CASE FinishStop(r)
  BY <1>1, <1>8 DEF FinishStop, RequestState
<1>9. CASE SelectRole(r)
  BY <1>1, <1>9 DEF SelectRole, RequestState
<1>10. CASE CheckStop(r)
  <2>1. PICK k \in Sid : k = request[r].sid /\ Exists(k) /\ Written(r, k)
    BY <1>10 DEF CheckStop, IInv, RequestOK, Authenticated
  <2>2. request'[r].sid = k /\ session' = session
    BY <1>1, <1>10, <2>1 DEF CheckStop, RequestState
  <2>3. write[r][k].impersonator_session_id = s
    BY <2>1, <2>2 DEF IInv, WriteOK, Keeps
  <2>4. View(r, s).state = "active" /\ ~Expired(View(r, s), now)
    BY <1>1, <1>10, <2>1, <2>3 DEF CheckStop, RequestState
  <2>5. View(r, s) = session[s]
    BY <2>4 DEF View, Admitted
  <2> QED BY <2>4, <2>5 DEF Dead, Expired
<1> QED BY <1>2, <1>3, <1>4, <1>5, <1>6, <1>7, <1>8, <1>9, <1>10 DEF Step

\* No step writes an active version of a session that no one has found alive.
LEMMA NoNewWrite ==
  ASSUME IInv, NEW s \in Sid, Dead(s), ~Admitted(s), NEW r \in Requests,
         Arrive(r) \/ Step(r) \/ RollBack(r), write'[r][s].state = "active"
  PROVE  FALSE
<1>1. /\ write \in [Requests -> [Sid -> SessionRow]] /\ session \in [Sid -> SessionRow]
      /\ Exists(s) /\ write[r][s].state # "active"
  BY DEF IInv, TypeOK, Dead, Exists, Admitted
<1>2. ASSUME NEW row \in SessionRow, row.state # "absent"
      PROVE  Deactivated(row).state = "inactive"
  BY <1>2, DeactivatedRow
<1>3. CASE write'[r] = write[r]
  BY <1>1, <1>3
<1>4. CASE Commit(r) \/ RollBack(r)
  BY <1>1, <1>4 DEF Commit, RollBack, NoRow
<1>5. CASE Slide(r)
  <2>1. PICK k \in Sid : k = request[r].sid /\ request[r].pc = "slide"
    BY <1>5 DEF Slide, IInv, RequestOK
  <2>2. k # s
    BY <2>1 DEF Admitted
  <2> QED BY <1>1, <1>5, <2>1, <2>2 DEF Slide
<1>6. CASE Create(r) \/ Impersonate(r)
  <2>1. PICK k \in Sid : \E row : Fresh(k) /\ write' = [write EXCEPT ![r][k] = row]
    BY <1>6 DEF Create, Impersonate
  <2>2. k # s
    BY <1>1, <2>1 DEF Fresh, Exists
  <2> QED BY <1>1, <2>1, <2>2
<1>7. CASE Logout(r)
  <2>1. PICK k \in Sid : k = request[r].sid /\ Written(r, k)
    BY <1>7 DEF Logout, IInv, RequestOK, Authenticated
  <2>2. write' = [write EXCEPT ![r][k] = Deactivated(write[r][k])]
    BY <1>1, <1>7, <2>1 DEF Logout
  <2>3. Deactivated(write[r][k]).state = "inactive"
    BY <1>1, <1>2, <2>1 DEF Written
  <2> QED BY <1>1, <2>1, <2>2, <2>3
<1>8. CASE RevokeOne(r)
  <2>1. PICK k \in request[r].todo :
          \/ write' = write
          \/ View(r, k).state = "active" /\ write' = [write EXCEPT ![r][k] = Deactivated(View(r, k))]
    BY <1>8 DEF RevokeOne
  <2>2. k \in Sid
    BY DEF IInv, TypeOK, RequestState
  <2>3. View(r, k) \in SessionRow
    BY <1>1, <2>2 DEF View
  <2>4. View(r, k).state = "active" => Deactivated(View(r, k)).state = "inactive"
    BY <1>2, <2>3
  <2> QED BY <1>1, <2>1, <2>2, <2>4
<1>9. CASE CheckStop(r)
  <2>1. PICK k \in Sid : k = request[r].sid /\ Written(r, k)
    BY <1>9 DEF CheckStop, IInv, RequestOK, Authenticated
  <2>2. write' = write \/ write' = [write EXCEPT ![r][k] = Deactivated(write[r][k])]
    BY <1>9, <2>1 DEF CheckStop
  <2>3. Deactivated(write[r][k]).state = "inactive"
    BY <1>1, <1>2, <2>1 DEF Written
  <2> QED BY <1>1, <2>1, <2>2, <2>3
<1>10. CASE ExpireAdmin(r)
  <2>1. PICK a \in Sid : a = Link(request[r].sid) /\ Exists(a)
    BY <1>10 DEF ExpireAdmin, IInv, RequestOK
  <2>2. write' = [write EXCEPT ![r][a] = Deactivated(View(r, a))]
    BY <1>10, <2>1 DEF ExpireAdmin, Link
  <2>3. View(r, a) \in SessionRow /\ View(r, a).state # "absent"
    BY <1>1, <2>1 DEF View, Exists
  <2>4. Deactivated(View(r, a)).state = "inactive"
    BY <1>2, <2>3
  <2> QED BY <1>1, <2>1, <2>2, <2>4
<1>11. CASE FinishStop(r)
  <2>1. PICK k \in Sid, a \in Sid :
          /\ k = request[r].sid /\ a = Link(k) /\ a # k /\ Written(r, k)
          /\ request[r].pc = "stop_finish"
    BY <1>11 DEF FinishStop, IInv, RequestOK, Authenticated
  <2>2. a # s
    BY <2>1 DEF Admitted, Link
  <2>3. PICK row : write' = [write EXCEPT
          ![r] = [write[r] EXCEPT ![a] = row,
                    ![k] = IF row.user_id = session[k].impersonator_id
                             THEN Deactivated(@) ELSE @]]
    BY <1>11, <2>1 DEF FinishStop, Link
  <2>4. \/ write'[r][s] = write[r][s]
        \/ s = k /\ write'[r][s] = Deactivated(write[r][k])
    BY <1>1, <2>1, <2>2, <2>3
  <2>5. Deactivated(write[r][k]).state = "inactive"
    BY <1>1, <1>2, <2>1 DEF Written
  <2> QED BY <1>1, <2>4, <2>5
<1>12. CASE Arrive(r)
  BY <1>1, <1>12 DEF Arrive, Receive, Login, ResetPassword
<1>13. CASE Expire(r) \/ ChangePassword(r) \/ RevokeAll(r) \/ SelectRole(r) \/ WriteRole(r) \/ Answer(r)
  BY <1>1, <1>13 DEF Expire, ChangePassword, RevokeAll, SelectRole, WriteRole, Answer
<1> QED BY <1>4, <1>5, <1>6, <1>7, <1>8, <1>9, <1>10, <1>11, <1>12, <1>13 DEF Step

LEMMA NotAdmitted ==
  ASSUME IInv, [Next]_vars, NEW s \in Sid, Dead(s), ~Admitted(s)
  PROVE  ~Admitted(s)'
<1> SUFFICES ASSUME NEW r \in Requests,
                    \/ request'[r].pc = "slide" /\ request'[r].sid = s
                    \/ /\ request'[r].pc = "stop_finish"
                       /\ session'[request'[r].sid].impersonator_session_id = s
                    \/ write'[r][s].state = "active"
             PROVE  FALSE
  BY DEF Admitted
<1>1. ASSUME request'[r].pc = request[r].pc, request'[r].sid = request[r].sid,
             write'[r] = write[r]
      PROVE  FALSE
  <2>1. CASE request[r].pc = "stop_finish"
    <3>1. PICK k \in Sid : k = request[r].sid /\ Exists(k)
      BY <2>1 DEF IInv, RequestOK, Authenticated
    <3>2. session'[k].impersonator_session_id = session[k].impersonator_session_id
      BY <3>1, RowsStay
    <3> QED BY <1>1, <2>1, <3>1, <3>2 DEF Admitted
  <2>2. CASE request[r].pc # "stop_finish"
    BY <1>1, <2>2 DEF Admitted
  <2> QED BY <2>1, <2>2
<1>2. ASSUME NEW q \in Requests, Arrive(q) \/ Step(q) \/ RollBack(q) PROVE FALSE
  <2>1. CASE q = r
    BY <1>2, <2>1, NoNewSlide, NoNewStop, NoNewWrite
  <2>2. CASE q # r
    BY <1>1, <1>2, <2>2, Others
  <2> QED BY <2>1, <2>2
<1>3. CASE Tick \/ Administer \/ UNCHANGED vars
  BY <1>1, <1>3 DEF Tick, Administer, vars
<1> QED BY <1>2, <1>3 DEF Next

\* For any numbers of users, sessions and concurrent requests: a session that
\* has expired or was closed, and on which no earlier request still runs, is
\* never admitted or extended again (validate_session, stop_impersonation).
THEOREM EndedSafe == Spec => DeadStaysDead
<1>1. IInv /\ [Next]_vars =>
        [\A s \in Sid : Dead(s) /\ ~Admitted(s) => Dead(s)' /\ ~Admitted(s)']_vars
  BY Ends, NotAdmitted
<1>2. Spec => []IInv
  BY Invariance
<1> QED BY <1>1, <1>2, PTL DEF Spec, DeadStaysDead
-----------------------------------------------------------------------------
(* The end of requests *)

\* The work of r at each of its steps, before and after a step of the system.
LEMMA WorkAt ==
  ASSUME NEW r
  PROVE  /\ request[r].pc = "idle" => Work(r) = 0
         /\ request[r].pc = "commit" => Work(r) = 1
         /\ request[r].pc = "revoke" => Work(r) = 1 + Cardinality(request[r].todo)
         /\ request[r].pc = "logout_all" => Work(r) = 2 + Cardinality(Sid)
         /\ request[r].pc \in {"password", "stop", "roles"} => Work(r) = 3 + Cardinality(Sid)
         /\ request[r].pc = "slide" => Work(r) = 4 + Cardinality(Sid)
         /\ request[r].pc \in {"expire", "login", "logout", "impersonate", "roles_write",
                          "stop_expire", "stop_finish"} => Work(r) = 2
BY DEF Work

LEMMA WorkAfter ==
  ASSUME NEW r
  PROVE  /\ request'[r].pc = "idle" => Work(r)' = 0
         /\ request'[r].pc = "commit" => Work(r)' = 1
         /\ request'[r].pc = "revoke" => Work(r)' = 1 + Cardinality(request'[r].todo)
         /\ request'[r].pc = "logout_all" => Work(r)' = 2 + Cardinality(Sid)
         /\ request'[r].pc \in {"password", "stop", "roles"} => Work(r)' = 3 + Cardinality(Sid)
         /\ request'[r].pc = "slide" => Work(r)' = 4 + Cardinality(Sid)
         /\ request'[r].pc \in {"expire", "login", "logout", "impersonate", "roles_write",
                          "stop_expire", "stop_finish"} => Work(r)' = 2
BY DEF Work

LEMMA Sizes ==
  ASSUME NEW T \in SUBSET Sid
  PROVE  /\ IsFiniteSet(T)
         /\ Cardinality(T) \in Nat /\ Cardinality(Sid) \in Nat
         /\ Cardinality(T) <= Cardinality(Sid)
         /\ \A s \in T : Cardinality(T \ {s}) = Cardinality(T) - 1 /\ Cardinality(T) > 0
<1>1. IsFiniteSet(Sid)
  BY FiniteAssumption
<1>2. IsFiniteSet(T) /\ Cardinality(T) <= Cardinality(Sid)
  BY <1>1, FS_Subset
<1>3. Cardinality(T) \in Nat /\ Cardinality(Sid) \in Nat
  BY <1>1, <1>2, FS_CardinalityType
<1>4. ASSUME NEW s \in T
      PROVE  Cardinality(T \ {s}) = Cardinality(T) - 1 /\ Cardinality(T) > 0
  <2>1. Cardinality(T \ {s}) = Cardinality(T) - 1 /\ IsFiniteSet(T \ {s})
    BY <1>2, <1>4, FS_RemoveElement
  <2>2. Cardinality(T \ {s}) \in Nat
    BY <2>1, FS_CardinalityType
  <2> QED BY <1>3, <2>1, <2>2
<1> QED BY <1>2, <1>3, <1>4

\* Work is a number.
LEMMA WorkNat ==
  ASSUME IInv, NEW r \in Requests
  PROVE  Work(r) \in Nat
<1>1. request[r].pc \in Steps /\ request[r].todo \in SUBSET Sid
  BY DEF IInv, TypeOK, RequestState
<1>2. Cardinality(request[r].todo) \in Nat /\ Cardinality(Sid) \in Nat
  BY <1>1, Sizes
<1> QED BY <1>1, <1>2, WorkAt DEF Steps

LEMMA WorkNatAfter ==
  ASSUME IInv', NEW r \in Requests
  PROVE  Work(r)' \in Nat
<1>1. request'[r].pc \in Steps /\ request'[r].todo \in SUBSET Sid
  BY DEF IInv, TypeOK, RequestState
<1>2. Cardinality(request'[r].todo) \in Nat /\ Cardinality(Sid) \in Nat
  BY <1>1, Sizes
<1> QED BY <1>1, <1>2, WorkAfter DEF Steps

\* Where a step takes its request.
LEMMA Onward ==
  ASSUME IInv, NEW r \in Requests, Step(r)
  PROVE  LET p == request[r].pc
             n == request'[r].pc
         IN
         \/ p \notin {"idle"} /\ n = "idle"
         \/ p \notin {"idle", "commit"} /\ n = "commit"
         \/ p = "revoke" /\ n = "revoke"
              /\ \E s \in request[r].todo : request'[r].todo = request[r].todo \ {s}
         \/ p = "logout_all" /\ n = "revoke"
         \/ p = "password" /\ n = "logout_all"
         \/ p = "stop" /\ n \in {"stop_expire", "stop_finish"}
         \/ p = "roles" /\ n = "roles_write"
         \/ p = "slide" /\ n \in Authenticated
<1>1. request[r] \in RequestState /\ request \in [Requests -> RequestState] /\ RequestOK(r)
  BY DEF IInv, TypeOK
<1>2. CASE Expire(r) \/ Commit(r)
  BY <1>1, <1>2 DEF Expire, Commit, NoRequest
<1>3. CASE Slide(r)
  <2>1. /\ request[r].pc = "slide" /\ request[r].kind \in Authenticated
        /\ request'[r].pc = IF request[r].kind = "me" THEN "commit" ELSE request[r].kind
    BY <1>1, <1>3 DEF Slide, RequestOK, RequestState
  <2> QED BY <2>1
<1>4. CASE Create(r) \/ Logout(r) \/ ExpireAdmin(r) \/ WriteRole(r)
  BY <1>1, <1>4 DEF Create, Logout, ExpireAdmin, WriteRole, RequestState
<1>5. CASE ChangePassword(r)
  BY <1>1, <1>5 DEF ChangePassword, RequestState
<1>6. CASE RevokeAll(r)
  <2>1. /\ request[r].pc = "logout_all"
        /\ request'[r] = [request[r] EXCEPT !.todo = Revocable(r),
             !.pc = IF Revocable(r) = {} THEN "commit" ELSE "revoke"]
    BY <1>6 DEF RevokeAll
  <2>2. request'[r].pc \in {"commit", "revoke"}
    BY <1>1, <2>1 DEF RequestState
  <2> QED BY <2>1, <2>2
<1>7. CASE RevokeOne(r)
  <2>1. PICK s \in request[r].todo :
          request'[r] = [request[r] EXCEPT !.todo = request[r].todo \ {s},
            !.pc = IF request[r].todo \ {s} = {} THEN "commit" ELSE "revoke"]
    BY <1>1, <1>7 DEF RevokeOne, Remaining
  <2>2. /\ request'[r].pc \in {"commit", "revoke"}
        /\ request'[r].todo = request[r].todo \ {s}
    BY <1>1, <2>1 DEF RequestState
  <2>3. request[r].pc = "revoke"
    BY <1>7 DEF RevokeOne
  <2> QED BY <2>2, <2>3
<1>8. CASE Impersonate(r)
  BY <1>1, <1>8 DEF Impersonate, RequestState
<1>9. CASE CheckStop(r)
  <2>1. PICK pc \in {"commit", "stop_expire", "stop_finish"} :
          request'[r] = [request[r] EXCEPT !.pc = pc, !.at = now]
    BY <1>1, <1>9 DEF CheckStop
  <2>2. request'[r].pc = pc
    BY <1>1, <2>1 DEF RequestState
  <2>3. request[r].pc = "stop"
    BY <1>9 DEF CheckStop
  <2> QED BY <2>1, <2>2, <2>3
<1>10. CASE FinishStop(r)
  BY <1>1, <1>10 DEF FinishStop, RequestState
<1>11. CASE SelectRole(r)
  BY <1>1, <1>11 DEF SelectRole, RequestState
<1>12. CASE Answer(r)
  BY <1>1, <1>12 DEF Answer, RequestState
<1> QED BY <1>2, <1>3, <1>4, <1>5, <1>6, <1>7, <1>8, <1>9, <1>10, <1>11, <1>12 DEF Step

LEMMA StepWork ==
  ASSUME IInv, IInv', NEW r \in Requests, Step(r)
  PROVE  Work(r)' < Work(r)
<1> DEFINE p == request[r].pc
           n == request'[r].pc
           T == request[r].todo
           N == request'[r].todo
           Shorter == \E s \in T : N = T \ {s}
<1>1. /\ T \in SUBSET Sid /\ N \in SUBSET Sid
      /\ p \in Steps /\ n \in Steps
  BY DEF IInv, TypeOK, RequestState
<1>2. /\ p = "commit" => Work(r) = 1
      /\ p = "revoke" => Work(r) = 1 + Cardinality(T)
      /\ p = "logout_all" => Work(r) = 2 + Cardinality(Sid)
      /\ p \in {"password", "stop", "roles"} => Work(r) = 3 + Cardinality(Sid)
      /\ p = "slide" => Work(r) = 4 + Cardinality(Sid)
      /\ p \in {"expire", "login", "logout", "impersonate", "roles_write",
                "stop_expire", "stop_finish"} => Work(r) = 2
  BY <1>1, WorkAt
<1>3. /\ n = "idle" => Work(r)' = 0
      /\ n = "commit" => Work(r)' = 1
      /\ n = "revoke" => Work(r)' = 1 + Cardinality(N)
      /\ n = "logout_all" => Work(r)' = 2 + Cardinality(Sid)
      /\ n \in {"password", "stop", "roles"} => Work(r)' = 3 + Cardinality(Sid)
      /\ n \in {"expire", "login", "logout", "impersonate", "roles_write",
                "stop_expire", "stop_finish"} => Work(r)' = 2
  BY <1>1, WorkAfter
<1>4. /\ Cardinality(T) \in Nat /\ Cardinality(N) \in Nat /\ Cardinality(Sid) \in Nat
      /\ Cardinality(N) <= Cardinality(Sid)
      /\ \A s \in T : Cardinality(T \ {s}) = Cardinality(T) - 1
  BY <1>1, Sizes
<1>5. p = "revoke" => T # {}
  BY DEF IInv, Step, RevokeOne, Expire, Slide, Create, Logout, ChangePassword, RevokeAll,
         Impersonate, CheckStop, ExpireAdmin, FinishStop, SelectRole, WriteRole, Answer, Commit
<1>6. p = "revoke" => Cardinality(T) > 0
  BY <1>1, <1>5, Sizes
<1>7. \/ p # "idle" /\ n = "idle"
      \/ p \notin {"idle", "commit"} /\ n = "commit"
      \/ p = "revoke" /\ n = "revoke" /\ Shorter
      \/ p = "logout_all" /\ n = "revoke"
      \/ p = "password" /\ n = "logout_all"
      \/ p = "stop" /\ n \in {"stop_expire", "stop_finish"}
      \/ p = "roles" /\ n = "roles_write"
      \/ p = "slide" /\ n \in Authenticated
  BY Onward
<1>8. p = "slide" => n # "me"
  BY <1>1 DEF Steps
<1> HIDE DEF p, n, T, N, Shorter
<1>9. CASE p = "revoke" /\ n = "revoke" /\ Shorter
  BY <1>2, <1>3, <1>4, <1>9 DEF Shorter
<1>10. CASE n \in {"idle", "commit"}
  <2>1. p # "idle" => Work(r) \in Nat /\ Work(r) > 0 /\ (p # "commit" => Work(r) > 1)
    BY <1>1, <1>2, <1>4, <1>6 DEF Steps
  <2>2. p # "idle" /\ (n = "commit" => p # "commit")
    BY <1>7, <1>10 DEF Authenticated
  <2> QED BY <1>3, <1>10, <2>1, <2>2
<1>11. CASE \/ p = "logout_all" /\ n = "revoke"
            \/ p = "password" /\ n = "logout_all"
  BY <1>2, <1>3, <1>4, <1>11
<1>12. CASE \/ p = "stop" /\ n \in {"stop_expire", "stop_finish"}
            \/ p = "roles" /\ n = "roles_write"
  BY <1>2, <1>3, <1>4, <1>12
<1>13. CASE p = "slide" /\ n \in Authenticated
  BY <1>2, <1>3, <1>4, <1>8, <1>13 DEF Authenticated
<1> QED BY <1>7, <1>9, <1>10, <1>11, <1>12, <1>13

\* No other request sets r back.
LEMMA WorkStays ==
  ASSUME IInv, IInv', [Next]_vars, NEW r \in Requests, request[r].pc # "idle", ~Step(r)
  PROVE  Work(r)' <= Work(r)
<1> DEFINE T == request[r].todo
<1>1. /\ request[r] \in RequestState /\ request \in [Requests -> RequestState]
      /\ T \in SUBSET Sid /\ request[r].pc \in Steps
  BY DEF IInv, TypeOK, RequestState
<1>2. Work(r) \in Nat
  <2>1. Cardinality(T) \in Nat /\ Cardinality(Sid) \in Nat
    BY <1>1, Sizes
  <2> QED BY <1>1, <2>1, WorkAt DEF Steps
<1>3. CASE RollBack(r)
  <2>1. request'[r].pc = "idle" /\ request'[r].todo = {}
    BY <1>1, <1>3 DEF RollBack, NoRequest
  <2>2. Work(r)' = 0
    BY <2>1, WorkAfter
  <2> QED BY <1>2, <2>2
<1>4. CASE request'[r].pc = request[r].pc /\ request'[r].todo = request[r].todo
  <2>1. Work(r)' = Work(r)
    BY <1>4 DEF Work
  <2> QED BY <1>2, <2>1
<1>5. ASSUME NEW q \in Requests, q # r, Arrive(q) \/ Step(q) \/ RollBack(q)
      PROVE  request'[r].pc = request[r].pc /\ request'[r].todo = request[r].todo
  BY <1>5, Others
<1>6. ~Arrive(r)
  BY DEF Arrive, Receive, Login, ResetPassword
<1>7. Tick \/ Administer \/ UNCHANGED vars => request' = request
  BY DEF Tick, Administer, vars
<1> QED BY <1>3, <1>4, <1>5, <1>6, <1>7 DEF Next

\* For any numbers of users, sessions and concurrent requests: every statement
\* of a request brings it nearer to its end and no other request sets it back,
\* so it takes finitely many (revoke_all_for_user and the handlers around it).
THEOREM RequestsShrink == Spec => WorkShrinks
<1>1. ASSUME IInv, [Next]_vars
      PROVE  \A r \in Requests :
               request[r].pc # "idle" =>
                 /\ Work(r)' <= Work(r)
                 /\ Step(r) => Work(r)' < Work(r)
  <2>1. IInv'
    BY <1>1, StepInv
  <2>2. ASSUME NEW r \in Requests, Step(r)
        PROVE  Work(r)' < Work(r) /\ Work(r)' <= Work(r)
    <3>1. Work(r)' < Work(r)
      BY <1>1, <2>1, <2>2, StepWork
    <3>2. Work(r) \in Nat /\ Work(r)' \in Nat
      BY <1>1, <2>1, WorkNat, WorkNatAfter
    <3> QED BY <3>1, <3>2
  <2>3. ASSUME NEW r \in Requests, request[r].pc # "idle", ~Step(r)
        PROVE  Work(r)' <= Work(r)
    BY <1>1, <2>1, <2>3, WorkStays
  <2> QED BY <2>2, <2>3
<1>2. IInv /\ [Next]_vars =>
        [\A r \in Requests :
           request[r].pc # "idle" =>
             /\ Work(r)' <= Work(r)
             /\ Step(r) => Work(r)' < Work(r)]_vars
  BY <1>1
<1>3. Spec => []IInv
  BY Invariance
<1> QED BY <1>2, <1>3, PTL DEF Spec, WorkShrinks

-----------------------------------------------------------------------------
(* Deadlocks *)

\* A new row links to none or to a committed one.
LEMMA NewLinks ==
  ASSUME IInv, [Next]_vars, NEW s \in Sid, ~Exists(s)
  PROVE  LET a == session'[s].impersonator_session_id IN
         a = None \/ (a \in Sid /\ Exists(a))
<1>1. CASE session'[s] = session[s]
  BY <1>1 DEF IInv, RowsOK, RowOK, NoRow, Exists
<1>2. ASSUME NEW r \in Requests, Commit(r), session'[s] # session[s]
      PROVE  /\ session'[s] = write[r][s] /\ Written(r, s)
             /\ LinkedRow(write[r][s], s) /\ RowOK(write[r][s])
  <2>1. session'[s] = View(r, s)
    BY <1>2 DEF Commit
  <2>2. session'[s] = write[r][s] /\ Written(r, s)
    BY <1>2, <2>1 DEF View, Written
  <2> QED BY <2>2 DEF IInv, WriteOK, RowsOK
<1>3. ASSUME NEW r \in Requests, Expire(r) PROVE session'[s] = session[s]
  <2>1. PICK k \in Sid : Exists(k) /\ session' = [session EXCEPT ![k] = Deactivated(@)]
    BY <1>3 DEF Expire, IInv, RequestOK
  <2> QED BY <2>1 DEF IInv, TypeOK
<1>4. ASSUME NEW r \in Requests, Step(r), ~Commit(r), ~Expire(r) PROVE session' = session
  BY <1>4 DEF Step, Slide, Create, Logout, ChangePassword, RevokeAll, RevokeOne,
              Impersonate, CheckStop, ExpireAdmin, FinishStop, SelectRole, WriteRole, Answer
<1>5. ASSUME NEW r \in Requests, Arrive(r) \/ RollBack(r) PROVE session' = session
  BY <1>5 DEF Arrive, Receive, Login, ResetPassword, RollBack
<1>6. Tick \/ Administer \/ UNCHANGED vars => session' = session
  BY DEF Tick, Administer, vars
<1>7. CASE session'[s] # session[s]
  <2>1. PICK r \in Requests : Commit(r)
    BY <1>3, <1>4, <1>5, <1>6, <1>7 DEF Next
  <2>2. /\ session'[s] = write[r][s] /\ write[r][s].state # "absent"
        /\ LinkedRow(write[r][s], s) /\ RowOK(write[r][s])
    BY <1>2, <1>7, <2>1 DEF Written
  <2> QED BY <2>2 DEF LinkedRow, RowOK
<1> QED BY <1>1, <1>7

\* Links are set once, to rows that exist already.
LEMMA GroundedStep ==
  ASSUME IInv, Grounded, [Next]_vars
  PROVE  Grounded'
<1> DEFINE link(s) == session'[s].impersonator_session_id
<1> SUFFICES ASSUME NEW S \in SUBSET Sid, S # {}
             PROVE  \E s \in S : link(s) \notin S
  BY DEF Grounded, Link
<1> DEFINE E == {s \in S : Exists(s)}
<1>1. None \notin S
  BY NoneAssumption
<1>2. CASE E = {}
  <2>1. PICK s \in S : ~Exists(s)
    BY <1>2
  <2>2. link(s) = None \/ Exists(link(s))
    BY <2>1, NewLinks
  <2> QED BY <1>1, <1>2, <2>1, <2>2
<1>3. CASE E # {}
  <2>1. PICK s \in E : Link(s) \notin E
    BY <1>3 DEF Grounded
  <2>2. link(s) = Link(s)
    BY <2>1, RowsStay DEF Link
  <2>3. Link(s) = None \/ Exists(Link(s))
    BY <2>1 DEF IInv, LinkedRow, RowsOK, RowOK, Link, Exists
  <2> QED BY <1>1, <2>1, <2>2, <2>3
<1> QED BY <1>2, <1>3

\* Between its own slide and its last UPDATE a stop writes nothing.
LEMMA OwnRowStep ==
  ASSUME IInv, [Next]_vars, NEW r \in Requests, OwnRowOnly(r)
  PROVE  OwnRowOnly(r)'
<1> DEFINE stops == {"stop", "stop_expire", "stop_finish"}
<1>1. /\ request[r] \in RequestState /\ request \in [Requests -> RequestState]
      /\ write \in [Requests -> [Sid -> SessionRow]] /\ RequestOK(r)
  BY DEF IInv, TypeOK
<1>2. ASSUME request'[r].pc = request[r].pc, request'[r].sid = request[r].sid,
             write'[r] = write[r]
      PROVE  OwnRowOnly(r)'
  BY <1>2 DEF OwnRowOnly, Written
<1>3. ASSUME request'[r].pc \notin stops PROVE OwnRowOnly(r)'
  BY <1>3 DEF OwnRowOnly
<1>4. CASE Arrive(r) \/ RollBack(r)
  <2>1. CASE Receive(r)
    <3>1. request'[r].pc \in {"expire", "slide"}
      BY <1>1, <2>1 DEF Receive, NoRequest
    <3> QED BY <1>3, <3>1
  <2>2. CASE Login(r)
    <3>1. request'[r].pc = "login"
      BY <1>1, <2>2 DEF Login, NoRequest
    <3> QED BY <1>3, <3>1
  <2>3. CASE ResetPassword(r)
    <3>1. request'[r].pc = "logout_all"
      BY <1>1, <2>3 DEF ResetPassword, NoRequest
    <3> QED BY <1>3, <3>1
  <2>4. CASE RollBack(r)
    <3>1. request'[r].pc = "idle"
      BY <1>1, <2>4 DEF RollBack, NoRequest
    <3> QED BY <1>3, <3>1
  <2> QED BY <1>4, <2>1, <2>2, <2>3, <2>4 DEF Arrive
<1>5. CASE Slide(r)
  <2>1. /\ request[r].pc = "slide"
        /\ request'[r].sid = request[r].sid
        /\ \A s \in Sid : s # request[r].sid => write'[r][s] = write[r][s]
    BY <1>1, <1>5 DEF Slide, RequestState
  <2>2. \A s \in Sid : ~Written(r, s)
    BY <1>1, <2>1 DEF RequestOK
  <2> QED BY <2>1, <2>2 DEF OwnRowOnly, Written
<1>6. CASE CheckStop(r) /\ request'[r].pc \in stops
  <2>1. PICK pc \in {"commit", "stop_expire", "stop_finish"} :
          /\ request'[r] = [request[r] EXCEPT !.pc = pc, !.at = now]
          /\ pc = "commit" \/ write' = write
    BY <1>1, <1>6 DEF CheckStop
  <2>2. request'[r].pc = pc /\ request'[r].sid = request[r].sid
    BY <1>1, <2>1 DEF RequestState
  <2>3. write' = write /\ request[r].pc = "stop"
    BY <1>6, <2>1, <2>2 DEF CheckStop
  <2> QED BY <2>2, <2>3 DEF OwnRowOnly, Written
<1>7. CASE Step(r) /\ ~Slide(r) /\ ~CheckStop(r)
  <2>1. request[r].pc \notin {"slide", "stop"}
    BY <1>7 DEF Step, Expire, Create, Logout, ChangePassword, RevokeAll, RevokeOne,
                Impersonate, ExpireAdmin, FinishStop, SelectRole, WriteRole, Answer, Commit
  <2>2. request'[r].pc \notin stops
    BY <1>7, <2>1, Onward
  <2> QED BY <1>3, <2>2
<1>8. ASSUME NEW q \in Requests, q # r, Arrive(q) \/ Step(q) \/ RollBack(q)
      PROVE  OwnRowOnly(r)'
  BY <1>2, <1>8, Others
<1>9. CASE Tick \/ Administer \/ UNCHANGED vars
  BY <1>2, <1>9 DEF Tick, Administer, vars
<1> QED BY <1>3, <1>4, <1>5, <1>6, <1>7, <1>8, <1>9 DEF Next

\* A cycle without a revocation would consist of stops, each waiting for the
\* session that the next one was sent with: links would not be grounded.
LEMMA Deadlocks ==
  ASSUME IInv, WaitInv, NEW C \in SUBSET Requests, C # {},
         \A p \in C : \E q \in C : WaitsFor(p, q),
         \A p \in C : request[p].pc # "revoke"
  PROVE  FALSE
<1> DEFINE stops == {"stop_expire", "stop_finish"}
           W == {q \in C : request[q].pc \in stops}
           S == {request[q].sid : q \in W}
<1>1. \A p \in C : request[p].pc \in {"expire", "slide", "password", "roles_write"} \cup stops
  BY DEF WaitsFor
<1>2. \A q \in C : \A u : ~HoldsUser(q, u) /\ ~SetsRole(q, u)
  BY <1>1 DEF HoldsUser, SetsRole
<1>3. \A p \in C : request[p] \in RequestState /\ RequestOK(p)
  BY DEF IInv, TypeOK
<1>4. ASSUME NEW p \in C PROVE request[p].pc \notin {"password", "roles_write"}
  <2>1. PICK q \in C : WaitsFor(p, q)
    BY <1>4
  <2>2. \A u : ~HoldsUser(q, u) /\ ~SetsRole(q, u)
    BY <1>2
  <2> QED BY <2>1, <2>2 DEF WaitsFor
<1>5. \A p \in C : request[p].sid \in Sid
  BY <1>1, <1>3, <1>4 DEF RequestOK, Authenticated
<1>6. ASSUME NEW p \in C, NEW q \in C, WaitsFor(p, q)
      PROVE  q \in W /\ (p \in W => Link(request[p].sid) = request[q].sid)
  <2>1. CASE request[p].pc \in {"expire", "slide"}
    <3>1. Written(q, request[p].sid)
      BY <1>6, <2>1 DEF WaitsFor, Written
    <3>2. request[q].pc \notin {"expire", "slide"}
      BY <1>3, <1>5, <3>1 DEF RequestOK
    <3> QED BY <1>1, <1>4, <2>1, <3>2
  <2>2. CASE request[p].pc \in stops
    <3>1. Link(request[p].sid) \in Sid
      BY <1>3, <2>2 DEF RequestOK
    <3>2. Written(q, Link(request[p].sid))
      BY <1>6, <2>2 DEF WaitsFor, Written, Link
    <3>3. request[q].pc \notin {"expire", "slide"}
      BY <1>3, <3>1, <3>2 DEF RequestOK
    <3>4. q \in W /\ OwnRowOnly(q)
      BY <1>1, <1>4, <3>3 DEF WaitInv
    <3> QED BY <3>1, <3>2, <3>4 DEF OwnRowOnly
  <2> QED BY <1>1, <1>4, <2>1, <2>2
<1>7. S \in SUBSET Sid /\ S # {}
  <2>1. PICK p \in C : TRUE
    OBVIOUS
  <2>2. PICK q \in C : WaitsFor(p, q)
    BY <2>1
  <2>3. q \in W
    BY <1>6, <2>1, <2>2
  <2> QED BY <1>5, <2>3
<1>8. ASSUME NEW s \in S PROVE Link(s) \in S
  <2>1. PICK p \in W : s = request[p].sid
    BY <1>8
  <2>2. PICK q \in C : WaitsFor(p, q)
    BY <2>1
  <2> QED BY <1>6, <2>1, <2>2
<1> QED BY <1>7, <1>8 DEF WaitInv, Grounded

LEMMA InitWait == Init => WaitInv
<1> SUFFICES ASSUME Init PROVE WaitInv
  OBVIOUS
<1>1. \A s \in Sid : Link(s) = None
  BY DEF Init, Link, NoRow
<1>2. Grounded
  BY <1>1, NoneAssumption DEF Grounded
<1>3. \A r \in Requests : request[r].pc = "idle"
  BY DEF Init, NoRequest
<1> QED BY <1>2, <1>3 DEF WaitInv, OwnRowOnly

\* For any numbers of users, sessions and concurrent requests: transactions
\* that wait for each other in a cycle include a revocation, so that stops,
\* role and password changes alone never deadlock (revoke_all_for_user).
THEOREM DeadlockNeedsRevocation == Spec => []OnlyRevocationsDeadlock
<1>1. Init => WaitInv
  BY InitWait
<1>2. IInv /\ WaitInv /\ [Next]_vars => WaitInv'
  BY GroundedStep, OwnRowStep DEF WaitInv
<1>3. IInv /\ WaitInv => OnlyRevocationsDeadlock
  BY Deadlocks DEF OnlyRevocationsDeadlock
<1>4. Spec => []IInv
  BY Invariance
<1> QED BY <1>1, <1>2, <1>3, <1>4, PTL DEF Spec
=============================================================================
