------------------------- MODULE SessionsRefinement -------------------------
(***************************************************************************)
(* Sessions implements SessionLifecycle, for every number of users,        *)
(* sessions and requests: initial states map to initial states, and every  *)
(* step that does not commit rows maps to a stuttering step.               *)
(***************************************************************************)
EXTENDS SessionsProofs

\* A row that does not change in the part the abstraction sees.
LEMMA KeepsLife ==
  ASSUME NEW s \in Sid, session'[s].state = session[s].state,
         session'[s].user_id = session[s].user_id,
         session'[s].absolute_expires_at = session[s].absolute_expires_at,
         session'[s].impersonator_id = session[s].impersonator_id,
         session'[s].impersonator_session_id = session[s].impersonator_session_id,
         audit'[s] = audit[s]
  PROVE  Life!Keep(s)
  BY DEF Life!Keep

\* A committed UPDATE keeps its row or closes it; an END row comes only with
\* the closing of an impersonation that has none.
LEMMA UpdateLife ==
  ASSUME IInv, NEW s \in Sid, Exists(s), Keeps(session'[s], session[s]),
         \/ audit'[s] = audit[s]
         \/ /\ audit'[s].start = audit[s].start
            /\ audit'[s].end = audit[s].end + 1
            /\ audit'[s] \in [start : Nat, end : Nat]
            /\ session[s].state = "active" /\ session'[s].state = "inactive"
            /\ session[s].impersonator_id # None
  PROVE  Life!Close(s) \/ Life!Keep(s)
<1>1. /\ session[s].state \in {"active", "inactive"}
      /\ audit[s] \in [start : Nat, end : Nat]
      /\ audit[s].end <= audit[s].start
      /\ audit[s].start = IF session[s].impersonator_id = None THEN 0 ELSE 1
      /\ audit[s].end = 1 => session[s].state = "inactive"
  BY DEF IInv, TypeOK, SessionRow, Exists, AuditMatchesSessions
<1>2. CASE session'[s].state = session[s].state
  BY <1>2, KeepsLife DEF Keeps
<1>3. CASE session'[s].state # session[s].state
  <2>1. session[s].state = "active" /\ session'[s].state = "inactive"
    BY <1>1, <1>3 DEF Keeps
  <2>2. \/ audit'[s] = audit[s]
        \/ /\ session[s].impersonator_id # None
           /\ audit[s].end = 0
           /\ audit'[s] = [audit[s] EXCEPT !.end = 1]
    BY <1>1, <2>1
  <2> QED BY <2>1, <2>2 DEF Life!Close, Keeps
<1> QED BY <1>2, <1>3

\* The commit of a transaction opens, closes or keeps each session.
LEMMA CommitLife == ASSUME IInv, NEW r \in Requests, Commit(r) PROVE Life!Next
<1> SUFFICES ASSUME NEW s \in Sid
             PROVE  Life!Open(s) \/ Life!Close(s) \/ Life!Keep(s)
  BY DEF Life!Next
<1> DEFINE new(x) == session[x].state = "absent" /\ write[r][x].state # "absent"
<1>1. /\ \A x \in Sid : session'[x] = View(r, x)
      /\ RequestOK(r)
      /\ audit'[s] =
           [start |-> audit[s].start + IF new(s) /\ request[r].kind = "impersonate" THEN 1 ELSE 0,
            end |-> audit[s].end + IF request[r].ends = s THEN 1 ELSE 0]
      /\ audit[s] \in [start : Nat, end : Nat]
  BY DEF Commit, IInv, TypeOK
<1>2. request[r].ends = s =>
        /\ Exists(s) /\ session[s].state = "active"
        /\ session[s].impersonator_id # None
        /\ session'[s].state = "inactive"
  <2>1. None \notin Sid
    BY NoneAssumption
  <2> QED BY <1>1, <2>1 DEF RequestOK, View, Exists
<1>3. CASE Exists(s)
  <2>1. Keeps(session'[s], session[s])
    BY <1>1, <1>3 DEF IInv, WriteOK, View, Written, Keeps, Exists
  <2>2. ~new(s)
    BY <1>3 DEF Exists
  <2>3. /\ audit'[s].start = audit[s].start
        /\ audit'[s] \in [start : Nat, end : Nat]
        /\ request[r].ends = s => audit'[s].end = audit[s].end + 1
        /\ request[r].ends # s => audit'[s] = audit[s]
    BY <1>1, <2>2
  <2> QED BY <1>2, <1>3, <2>1, <2>3, UpdateLife
<1>4. CASE ~Exists(s) /\ Written(r, s)
  <2>1. /\ session'[s] = write[r][s] /\ write[r][s].state = "active"
        /\ write[r][s].impersonator_id # None <=> request[r].kind = "impersonate"
        /\ LinkedRow(write[r][s], s)
        /\ write[r][s].user_id \in Users
        /\ request[r].ends = None
    BY <1>1, <1>4 DEF IInv, WriteOK, RowsOK, RowOK, View, Written, Exists
  <2>2. new(s) /\ audit[s] = [start |-> 0, end |-> 0]
    BY <1>4 DEF Written, Exists, IInv, AuditOK
  <2>3. audit'[s] =
          [start |-> IF session'[s].impersonator_id = None THEN 0 ELSE 1, end |-> 0]
    BY <1>1, <2>1, <2>2, NoneAssumption
  <2> QED BY <1>4, <2>1, <2>3 DEF Life!Open, Life!Backed, LinkedRow, Exists
<1>5. CASE ~Exists(s) /\ ~Written(r, s)
  <2>1. session'[s] = session[s] /\ ~new(s) /\ request[r].ends # s
    BY <1>1, <1>2, <1>5 DEF View, Written
  <2>2. audit'[s] = audit[s]
    BY <1>1, <2>1
  <2> QED BY <2>1, <2>2, KeepsLife
<1> QED BY <1>3, <1>4, <1>5

\* The commit of an expired session closes it, or finds it closed.
LEMMA ExpireLife == ASSUME IInv, NEW r \in Requests, Expire(r) PROVE Life!Next
<1> SUFFICES ASSUME NEW s \in Sid
             PROVE  Life!Open(s) \/ Life!Close(s) \/ Life!Keep(s)
  BY DEF Life!Next
<1>1. PICK k \in Sid :
        /\ Exists(k) /\ audit' = audit
        /\ session' = [session EXCEPT ![k] = Deactivated(session[k])]
  BY DEF IInv, RequestOK, Expire
<1>2. /\ session'[k] = Deactivated(session[k])
      /\ \A x \in Sid \ {k} : session'[x] = session[x]
  BY <1>1 DEF IInv, TypeOK
<1>3. CASE s = k
  <2>1. Keeps(session'[s], session[s])
    BY <1>1, <1>2, <1>3, DeactivatedRow DEF IInv, TypeOK, Exists
  <2> QED BY <1>1, <1>3, <2>1, UpdateLife
<1>4. CASE s # k
  BY <1>1, <1>2, <1>4, KeepsLife
<1> QED BY <1>3, <1>4

\* Every other step leaves the committed rows of sessions and audit log alone.
LEMMA StepLife ==
  ASSUME IInv, [Next]_vars
  PROVE  Life!Next \/ UNCHANGED <<session, audit>>
<1>1. ASSUME NEW r \in Requests, Arrive(r) PROVE UNCHANGED <<session, audit>>
  BY <1>1 DEF Arrive, Receive, Login, ResetPassword
<1>2. ASSUME NEW r \in Requests, Step(r)
      PROVE  Life!Next \/ UNCHANGED <<session, audit>>
  <2>1. CASE Expire(r) BY <2>1, ExpireLife
  <2>2. CASE Commit(r) BY <2>2, CommitLife
  <2>3. CASE Slide(r) \/ Create(r) \/ Logout(r) \/ ChangePassword(r)
    BY <2>3 DEF Slide, Create, Logout, ChangePassword
  <2>4. CASE RevokeAll(r) \/ RevokeOne(r) \/ Impersonate(r)
    BY <2>4 DEF RevokeAll, RevokeOne, Impersonate
  <2>5. CASE CheckStop(r) \/ ExpireAdmin(r) \/ FinishStop(r)
    BY <2>5 DEF CheckStop, ExpireAdmin, FinishStop
  <2>6. CASE SelectRole(r) \/ WriteRole(r) \/ Answer(r)
    BY <2>6 DEF SelectRole, WriteRole, Answer
  <2> QED BY <1>2, <2>1, <2>2, <2>3, <2>4, <2>5, <2>6 DEF Step
<1>3. ASSUME NEW r \in Requests, RollBack(r) PROVE UNCHANGED <<session, audit>>
  BY <1>3 DEF RollBack
<1>4. CASE Tick \/ Administer \/ UNCHANGED vars
  BY <1>4 DEF Tick, Administer, vars
<1> QED BY <1>1, <1>2, <1>3, <1>4 DEF Next

\* The sessions of questr, as their transactions commit them, live the life
\* that SessionLifecycle describes (service.py and repository.py, the session
\* and audit log parts).
THEOREM Implements == Spec => Lifecycle
<1>1. Init => Life!Init
  BY DEF Init, NoRow, Life!Init, Life!Unborn
<1>2. IInv /\ [Next]_vars =>
        [Life!Next]_<<[s \in Sid |->
               [state |-> session[s].state,
                user_id |-> session[s].user_id,
                absolute_expires_at |-> session[s].absolute_expires_at,
                impersonator_id |-> session[s].impersonator_id,
                impersonator_session_id |-> session[s].impersonator_session_id]],
          audit>>
  BY StepLife
<1> QED BY <1>1, <1>2, Invariance, PTL DEF Spec, Lifecycle, Life!Spec
=============================================================================
