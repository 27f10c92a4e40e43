--------------------------- MODULE SessionsProofs ---------------------------
(***************************************************************************)
(* Proof that IInv is an invariant of Sessions for every value of the      *)
(* constants, and the safety properties that follow from it.               *)
(*                                                                         *)
(* The lemmas of the first part say what the four shapes of a step (one    *)
(* request reads, updates a row, inserts a row, ends its transaction) need *)
(* to preserve IInv; then there is one lemma per action.                   *)
(***************************************************************************)
EXTENDS SessionsInv, TLAPS

\* A step of one request that leaves the committed rows alone: IInv needs checking
\* for that request only, if it writes no row that another request has locked.
LEMMA LocalStep ==
  ASSUME IInv, TypeOK', NEW r \in Requests,
         session' = session, audit' = audit,
         \A q \in Requests \ {r} :
           /\ write'[q] = write[q]
           /\ request'[q].pc = request[q].pc /\ request'[q].kind = request[q].kind
           /\ request'[q].sid = request[q].sid /\ request'[q].uid = request[q].uid
           /\ request'[q].todo = request[q].todo
           /\ request'[q].opens = request[q].opens
           /\ request'[q].ends = request[q].ends,
         \A s \in Sid : Written(r, s)' => Written(r, s) \/ CanLock(r, s),
         \A s \in Sid : RowOK(write'[r][s]) /\ WriteOK(r, s)',
         RequestOK(r)'
  PROVE  IInv'
<1>1. RowsOK'
  BY DEF IInv, RowsOK
<1>2. (\A s \in Sid : LinkedRow(session[s], s))'
  BY DEF IInv, LinkedRow, Exists
<1>3. LocksExclude'
  BY DEF IInv, LocksExclude, Written, CanLock
<1>4. ASSUME NEW q \in Requests PROVE RequestOK(q)'
  <2>1. CASE q = r
    BY <2>1
  <2>2. CASE q # r
    BY <2>2 DEF IInv, RequestOK, Written, Exists, Link
  <2> QED BY <2>1, <2>2
<1>5. ASSUME NEW q \in Requests, NEW s \in Sid PROVE WriteOK(q, s)'
  <2>1. CASE q = r
    BY <2>1
  <2>2. CASE q # r
    BY <2>2 DEF IInv, WriteOK, Written, Exists, Link, LinkedRow
  <2> QED BY <2>1, <2>2
<1>6. AuditOK' /\ AuditMatchesSessions'
  BY DEF IInv, AuditOK, AuditMatchesSessions, Exists
<1> QED BY <1>1, <1>2, <1>3, <1>4, <1>5, <1>6 DEF IInv

\* update_last_activity yields a row of the same session in the same state.
LEMMA RenewedRow ==
  ASSUME NEW row \in SessionRow, row.state # "absent", NEW t \in Nat
  PROVE  /\ Renewed(row, t) \in SessionRow
         /\ Renewed(row, t).state = row.state
         /\ Keeps(Renewed(row, t), row)
BY BoundsAssumption DEF Renewed, SessionRow, Keeps

\* deactivate yields an inactive row of the same session.
LEMMA DeactivatedRow ==
  ASSUME NEW row \in SessionRow, row.state # "absent"
  PROVE  /\ Deactivated(row) \in SessionRow
         /\ Deactivated(row).state = "inactive"
         /\ Keeps(Deactivated(row), row)
BY DEF Deactivated, SessionRow, Keeps

\* Keeps is transitive, and preserves the shape of a row.
LEMMA KeepsRow ==
  ASSUME NEW row, NEW new, NEW last,
         RowOK(row), row.state # "absent", Keeps(new, row)
  PROVE  /\ RowOK(new)
         /\ new.state # "absent"
         /\ Keeps(row, last) => Keeps(new, last)
BY DEF RowOK, Keeps

\* The history value of a request that opens a session has its type.
LEMMA StampForType ==
  ASSUME TypeOK, NEW u \in Users
  PROVE  StampFor(u) \in Stamp
<1>1. user[u].pw \in Nat
  BY DEF TypeOK, UserRow
<1>2. ChangeUnderWay(u) \in BOOLEAN
  BY DEF ChangeUnderWay
<1> QED BY <1>1, <1>2 DEF StampFor, Stamp

\* What a step that writes one row and one request leaves and changes.
LEMMA OneRow ==
  ASSUME TypeOK, NEW r \in Requests, NEW k \in Sid, NEW row \in SessionRow,
         write' = [write EXCEPT ![r][k] = row]
  PROVE  /\ write' \in [Requests -> [Sid -> SessionRow]]
         /\ write'[r][k] = row
         /\ \A s \in Sid \ {k} : write'[r][s] = write[r][s]
         /\ \A q \in Requests \ {r} : write'[q] = write[q]
BY DEF TypeOK

\* What a step that changes one request leaves and changes.
LEMMA OneRequest ==
  ASSUME TypeOK, NEW r \in Requests, NEW new \in RequestState,
         request' = [request EXCEPT ![r] = new]
  PROVE  /\ request' \in [Requests -> RequestState]
         /\ request'[r] = new
         /\ \A q \in Requests \ {r} : request'[q] = request[q]
BY DEF TypeOK

\* A step that writes no row.
LEMMA ReadStep ==
  ASSUME IInv, NEW r \in Requests, NEW new \in RequestState,
         request' = [request EXCEPT ![r] = new],
         UNCHANGED <<now, user, session, audit, write, stamp>>,
         RequestOK(r)',
         \A s \in Sid : WriteOK(r, s)'
  PROVE  IInv'
<1>1. /\ request' \in [Requests -> RequestState]
      /\ \A q \in Requests \ {r} : request'[q] = request[q]
  BY OneRequest DEF IInv
<1>2. TypeOK'
  BY <1>1 DEF IInv, TypeOK
<1>3. \A s \in Sid : RowOK(write'[r][s])
  BY DEF IInv, RowsOK
<1>4. \A s \in Sid : Written(r, s)' => Written(r, s)
  BY DEF Written
<1> QED BY <1>1, <1>2, <1>3, <1>4, LocalStep

\* A step that updates one existing row, whose lock it has or takes.
LEMMA UpdateStep ==
  ASSUME IInv, NEW r \in Requests, NEW new \in RequestState,
         NEW k \in Sid, NEW row \in SessionRow,
         Exists(k), CanLock(r, k) \/ Written(r, k), Keeps(row, View(r, k)),
         \A s \in Sid : Written(r, s) => Exists(s),
         request' = [request EXCEPT ![r] = new],
         write' = [write EXCEPT ![r][k] = row],
         UNCHANGED <<now, user, session, audit, stamp>>,
         RequestOK(r)'
  PROVE  IInv'
<1>1. /\ request' \in [Requests -> RequestState]
      /\ \A q \in Requests \ {r} : request'[q] = request[q]
  BY OneRequest DEF IInv
<1>2. /\ write' \in [Requests -> [Sid -> SessionRow]]
      /\ write'[r][k] = row
      /\ \A s \in Sid \ {k} : write'[r][s] = write[r][s]
      /\ \A q \in Requests \ {r} : write'[q] = write[q]
  BY OneRow DEF IInv
<1>3. TypeOK'
  BY <1>1, <1>2 DEF IInv, TypeOK
<1>4. RowOK(View(r, k)) /\ View(r, k).state # "absent"
  BY DEF IInv, RowsOK, View, Exists
<1>5. RowOK(row) /\ row.state # "absent"
  BY <1>4, KeepsRow
<1>6. Keeps(row, session[k])
  <2>1. CASE Written(r, k)
    BY <1>4, <2>1, KeepsRow DEF IInv, WriteOK, View, Written
  <2>2. CASE ~Written(r, k)
    BY <2>2 DEF View, Written
  <2> QED BY <2>1, <2>2
<1>7. ASSUME NEW s \in Sid PROVE RowOK(write'[r][s]) /\ WriteOK(r, s)'
  <2>1. CASE s = k
    BY <1>2, <1>5, <1>6, <2>1 DEF WriteOK, Exists
  <2>2. CASE s # k
    BY <1>2, <2>2 DEF IInv, RowsOK, WriteOK, Written, Exists
  <2> QED BY <2>1, <2>2
<1>8. \A s \in Sid : Written(r, s)' => Written(r, s) \/ CanLock(r, s)
  BY <1>2 DEF Written
<1> QED BY <1>1, <1>2, <1>3, <1>7, <1>8, LocalStep

-----------------------------------------------------------------------------
(* One lemma per action *)

\* validate_session reads its row.
LEMMA ReceiveInv == ASSUME IInv, NEW r \in Requests, Receive(r) PROVE IInv'
<1>1. PICK kind \in Authenticated, k \in Sid :
        /\ session[k].state = "active"
        /\ request' = [request EXCEPT ![r] =
             [NoRequest EXCEPT
                !.pc = IF Expired(session[k], now) THEN "expire" ELSE "slide",
                !.kind = kind, !.sid = k, !.at = now]]
  BY DEF Receive
<1> DEFINE pc == IF Expired(session[k], now) THEN "expire" ELSE "slide"
           new == [NoRequest EXCEPT !.pc = pc, !.kind = kind, !.sid = k, !.at = now]
<1>2. pc \in {"expire", "slide"}
  OBVIOUS
<1>3. UNCHANGED <<now, user, session, audit, write, stamp>> /\ request[r].pc = "idle"
  BY DEF Receive
<1>4. request' = [request EXCEPT ![r] = new]
  BY <1>1
<1> HIDE DEF pc
<1>5. /\ new \in RequestState
      /\ new.pc = pc /\ new.kind = kind /\ new.sid = k
      /\ new.ends = None /\ new.todo = {}
  BY <1>2 DEF NoRequest, RequestState, Grant, Steps, Role, Stamp, IInv, TypeOK
<1>6. request'[r] = new
  BY <1>4, <1>5, OneRequest DEF IInv
<1>7. \A s \in Sid : ~Written(r, s) /\ ~Written(r, s)'
  BY <1>3 DEF IInv, RequestOK, Written
<1> HIDE DEF new
<1>8. RequestOK(r)'
  BY <1>1, <1>2, <1>3, <1>5, <1>6, <1>7 DEF RequestOK, Exists, Authenticated
<1>9. \A s \in Sid : WriteOK(r, s)'
  BY <1>7 DEF WriteOK
<1> QED BY <1>3, <1>4, <1>5, <1>8, <1>9, ReadStep

\* validate_session slides the idle window (update_last_activity).
LEMMA SlideInv == ASSUME IInv, NEW r \in Requests, Slide(r) PROVE IInv'
<1>1. PICK k \in Sid :
      /\ k = request[r].sid /\ Exists(k)
      /\ session[k] \in SessionRow /\ session[k].user_id \in Users
      /\ request[r] \in RequestState /\ request[r].at \in Nat
      /\ request[r].kind \in Authenticated
      /\ request[r].pc = "slide"
      /\ request[r].ends = None
      /\ \A s \in request[r].todo : Exists(s)
      /\ \A s \in Sid : ~Written(r, s)
      /\ CanLock(r, k)
  BY DEF IInv, TypeOK, RowsOK, RowOK, RequestOK, RequestState, Slide, Exists
<1> DEFINE pc == IF request[r].kind = "me" THEN "commit" ELSE request[r].kind
           u == session[request[r].sid].user_id
           role == user[u].role
           new == [request[r] EXCEPT !.pc = pc, !.uid = u, !.role = role]
           row == Renewed(session[k], request[r].at)
<1>2. role \in Role /\ u \in Users /\ u = session[k].user_id
  BY <1>1 DEF IInv, TypeOK, UserRow
<1>3. /\ pc \in {"logout", "logout_all", "password", "impersonate", "stop", "roles",
                "commit"}
      /\ pc # "commit" => pc = request[r].kind
  BY <1>1 DEF Authenticated
<1>4. request' = [request EXCEPT ![r] = new] /\ write' = [write EXCEPT ![r][k] = row]
  BY <1>1 DEF Slide
<1>5. UNCHANGED <<now, user, session, audit, stamp>>
  BY DEF Slide
<1>6. row \in SessionRow /\ row.state = session[k].state /\ Keeps(row, session[k])
  BY <1>1, RenewedRow DEF Exists
<1> HIDE DEF pc, u, role, row
<1>7. /\ new \in RequestState
      /\ new.pc = pc /\ new.uid = u /\ new.kind = request[r].kind
      /\ new.sid = k /\ new.ends = None /\ new.todo = request[r].todo
  <2>1. pc \in Steps
    BY <1>3 DEF Steps
  <2>2. request[r] \in RequestState
    BY <1>1
  <2> QED BY <1>1, <1>2, <2>1, <2>2 DEF RequestState
<1> HIDE DEF new
<1>8. request'[r] = new /\ write'[r][k] = row
  BY <1>4, <1>6, <1>7 DEF IInv, TypeOK
<1>9. RequestOK(r)'
  <2>1. Written(r, k)' /\ Exists(k)' /\ new.uid = session'[k].user_id
    BY <1>1, <1>2, <1>5, <1>6, <1>7, <1>8 DEF Written, Exists
  <2>2. \A s \in new.todo : Exists(s)'
    BY <1>1, <1>5, <1>7 DEF Exists
  <2> QED BY <1>1, <1>3, <1>7, <1>8, <2>1, <2>2 DEF RequestOK, Authenticated
<1>10. Keeps(row, View(r, k))
  BY <1>1, <1>6 DEF View, Written
<1> QED BY <1>1, <1>4, <1>5, <1>6, <1>7, <1>9, <1>10, UpdateStep

\* login verifies the password.
LEMMA LoginInv == ASSUME IInv, NEW r \in Requests, Login(r) PROVE IInv'
<1>1. PICK u \in Users :
        request' = [request EXCEPT ![r] =
          [NoRequest EXCEPT
             !.pc = "login", !.kind = "login", !.uid = u, !.opens = u,
             !.stamp = StampFor(u)]]
  BY DEF Login
<1> DEFINE new == [NoRequest EXCEPT
                     !.pc = "login", !.kind = "login", !.uid = u, !.opens = u,
                     !.stamp = StampFor(u)]
<1>2. UNCHANGED <<now, user, session, audit, write, stamp>> /\ request[r].pc = "idle"
  BY DEF Login
<1>3. StampFor(u) \in Stamp
  BY StampForType DEF IInv
<1>4. /\ new \in RequestState
      /\ new.pc = "login" /\ new.kind = "login" /\ new.sid = None
      /\ new.uid = u /\ new.opens = u /\ new.ends = None /\ new.todo = {}
  BY <1>3 DEF NoRequest, RequestState, Grant, Steps, Role
<1>5. request' = [request EXCEPT ![r] = new]
  BY <1>1
<1> HIDE DEF new
<1>6. request'[r] = new
  BY <1>4, <1>5 DEF IInv, TypeOK
<1>7. \A s \in Sid : ~Written(r, s) /\ ~Written(r, s)'
  BY <1>2 DEF IInv, RequestOK, Written
<1>8. RequestOK(r)'
  BY <1>4, <1>6, <1>7 DEF RequestOK, Authenticated
<1>9. \A s \in Sid : WriteOK(r, s)'
  BY <1>7 DEF WriteOK
<1> QED BY <1>2, <1>4, <1>5, <1>8, <1>9, ReadStep

\* reset_password locks its user.
LEMMA ResetPasswordInv ==
  ASSUME IInv, NEW r \in Requests, ResetPassword(r) PROVE IInv'
<1>1. PICK u \in Users :
        request' = [request EXCEPT ![r] =
          [NoRequest EXCEPT !.pc = "logout_all", !.kind = "reset", !.uid = u]]
  BY DEF ResetPassword
<1> DEFINE new == [NoRequest EXCEPT !.pc = "logout_all", !.kind = "reset", !.uid = u]
<1>2. UNCHANGED <<now, user, session, audit, write, stamp>> /\ request[r].pc = "idle"
  BY DEF ResetPassword
<1>3. /\ new \in RequestState
      /\ new.pc = "logout_all" /\ new.kind = "reset" /\ new.sid = None
      /\ new.uid = u /\ new.ends = None /\ new.todo = {}
  BY DEF NoRequest, RequestState, Grant, Steps, Role, Stamp
<1>4. request' = [request EXCEPT ![r] = new]
  BY <1>1
<1> HIDE DEF new
<1>5. request'[r] = new
  BY <1>3, <1>4 DEF IInv, TypeOK
<1>6. \A s \in Sid : ~Written(r, s) /\ ~Written(r, s)'
  BY <1>2 DEF IInv, RequestOK, Written
<1>7. RequestOK(r)'
  BY <1>3, <1>5, <1>6 DEF RequestOK, Authenticated
<1>8. \A s \in Sid : WriteOK(r, s)'
  BY <1>6 DEF WriteOK
<1> QED BY <1>2, <1>3, <1>4, <1>7, <1>8, ReadStep

\* change_password locks its user.
LEMMA ChangePasswordInv ==
  ASSUME IInv, NEW r \in Requests, ChangePassword(r) PROVE IInv'
<1> DEFINE new == [request[r] EXCEPT !.pc = "logout_all"]
<1>1. /\ request' = [request EXCEPT ![r] = new]
      /\ UNCHANGED <<now, user, session, audit, write, stamp>>
      /\ request[r].pc = "password"
  BY DEF ChangePassword
<1>2. request[r] \in RequestState /\ RequestOK(r)
  BY DEF IInv, TypeOK
<1>3. /\ new \in RequestState
      /\ new.pc = "logout_all" /\ new.kind = request[r].kind
      /\ new.sid = request[r].sid /\ new.uid = request[r].uid
      /\ new.ends = request[r].ends /\ new.todo = request[r].todo
  BY <1>2 DEF RequestState, Steps
<1> HIDE DEF new
<1>4. request'[r] = new
  BY <1>1, <1>3 DEF IInv, TypeOK
<1>5. request[r].kind = "password" /\ request[r].kind \in Authenticated
  BY <1>1, <1>2 DEF RequestOK, Authenticated
<1>6. RequestOK(r)'
  BY <1>1, <1>2, <1>3, <1>4, <1>5 DEF RequestOK, Authenticated, Written, Exists
<1>7. \A s \in Sid : WriteOK(r, s)'
  <2>1. \A s \in Sid : WriteOK(r, s) /\ (Written(r, s) => Exists(s))
    BY <1>1 DEF IInv, WriteOK
  <2> QED BY <1>1, <2>1 DEF WriteOK, Written, Exists
<1> QED BY <1>1, <1>3, <1>6, <1>7, ReadStep

\* logout deactivates the session of the request.
LEMMA LogoutInv == ASSUME IInv, NEW r \in Requests, Logout(r) PROVE IInv'
<1>1. request[r] \in RequestState /\ RequestOK(r) /\ request[r].pc = "logout"
  BY DEF IInv, TypeOK, Logout
<1>2. PICK k \in Sid : k = request[r].sid /\ Exists(k) /\ Written(r, k)
  BY <1>1 DEF RequestOK, Authenticated
<1> DEFINE new == [request[r] EXCEPT !.pc = "commit"]
           row == Deactivated(write[r][k])
<1>3. /\ request' = [request EXCEPT ![r] = new]
      /\ UNCHANGED <<now, user, session, audit, stamp>>
  BY DEF Logout
<1>4. write' = [write EXCEPT ![r][k] = row]
  BY <1>2 DEF Logout
<1>5. /\ new \in RequestState
      /\ new.pc = "commit" /\ new.kind = request[r].kind
      /\ new.sid = k /\ new.uid = request[r].uid
      /\ new.ends = request[r].ends /\ new.todo = request[r].todo
  BY <1>1, <1>2 DEF RequestState, Steps
<1>6. write[r][k] \in SessionRow /\ write[r][k].state # "absent" /\ View(r, k) = write[r][k]
  BY <1>2 DEF IInv, TypeOK, Written, View
<1>7. row \in SessionRow /\ row.state = "inactive" /\ Keeps(row, View(r, k))
  BY <1>6, DeactivatedRow
<1> HIDE DEF new, row
<1>8. request'[r] = new /\ write'[r][k] = row
  BY <1>3, <1>4, <1>5, <1>7 DEF IInv, TypeOK
<1>9. RequestOK(r)'
  <2>1. Written(r, k)' /\ Exists(k)' /\ request[r].uid = session'[k].user_id
    BY <1>1, <1>2, <1>3, <1>7, <1>8 DEF RequestOK, Written, Exists, Authenticated
  <2> QED BY <1>1, <1>2, <1>3, <1>5, <1>8, <2>1 DEF RequestOK, Authenticated, Exists
<1>10. \A s \in Sid : Written(r, s) => Exists(s)
  BY <1>1 DEF IInv, WriteOK
<1> QED BY <1>2, <1>3, <1>4, <1>5, <1>7, <1>9, <1>10, UpdateStep

\* revoke_all_for_user selects its rows.
LEMMA RevokeAllInv == ASSUME IInv, NEW r \in Requests, RevokeAll(r) PROVE IInv'
<1> DEFINE rows == Revocable(r)
           pc == IF rows = {} THEN "commit" ELSE "revoke"
           new == [request[r] EXCEPT !.todo = rows, !.pc = pc]
<1>1. /\ UNCHANGED <<now, user, session, audit, write, stamp>>
      /\ request[r].pc = "logout_all"
      /\ request' = [q \in Requests |->
           IF q = r THEN new
           ELSE IF /\ request[r].kind \in {"password", "reset"}
                   /\ request[q].opens = request[r].uid
             THEN [request[q] EXCEPT !.stamp.raced = TRUE]
           ELSE request[q]]
  BY DEF RevokeAll
<1>2. request[r] \in RequestState /\ RequestOK(r)
  BY DEF IInv, TypeOK
<1>3. rows \in SUBSET Sid /\ \A s \in rows : Exists(s)
  <2>1. ASSUME NEW s \in rows PROVE Exists(s)
    BY <1>1 DEF IInv, WriteOK, Revocable, View, Exists, Written
  <2> QED BY <2>1 DEF Revocable
<1> HIDE DEF rows
<1>4. pc \in {"commit", "revoke"}
  OBVIOUS
<1> HIDE DEF pc
<1>5. /\ new \in RequestState
      /\ new.pc = pc /\ new.kind = request[r].kind
      /\ new.sid = request[r].sid /\ new.uid = request[r].uid
      /\ new.ends = request[r].ends /\ new.todo = rows
  BY <1>2, <1>3, <1>4 DEF RequestState, Steps
<1> HIDE DEF new
<1>6. request'[r] = new
  BY <1>1
<1>7. ASSUME NEW q \in Requests \ {r}
      PROVE  /\ request'[q] \in RequestState
             /\ request'[q].pc = request[q].pc /\ request'[q].kind = request[q].kind
             /\ request'[q].sid = request[q].sid /\ request'[q].uid = request[q].uid
             /\ request'[q].todo = request[q].todo
             /\ request'[q].opens = request[q].opens
             /\ request'[q].ends = request[q].ends
  <2> DEFINE raced == [request[q] EXCEPT !.stamp.raced = TRUE]
  <2>1. request'[q] = request[q] \/ request'[q] = raced
    BY <1>1
  <2>2. request[q] \in RequestState
    BY DEF IInv, TypeOK
  <2>3. CASE request'[q] = request[q]
    BY <2>2, <2>3
  <2>4. CASE request'[q] = raced
    BY <2>2, <2>4 DEF RequestState, Stamp
  <2> QED BY <2>1, <2>3, <2>4
<1>8. TypeOK'
  <2>1. request' \in [Requests -> RequestState]
    BY <1>1, <1>5, <1>6, <1>7
  <2> QED BY <1>1, <2>1 DEF IInv, TypeOK
<1>9. RequestOK(r)'
  BY <1>1, <1>2, <1>3, <1>4, <1>5, <1>6 DEF RequestOK, Written, Exists, Authenticated
<1>10. ASSUME NEW s \in Sid PROVE RowOK(write'[r][s]) /\ WriteOK(r, s)'
  <2>1. WriteOK(r, s) /\ (Written(r, s) => Exists(s)) /\ RowOK(write[r][s])
    BY <1>1 DEF IInv, WriteOK, RowsOK
  <2> QED BY <1>1, <2>1 DEF WriteOK, Written, Exists
<1>11. \A s \in Sid : Written(r, s)' => Written(r, s)
  BY <1>1 DEF Written
<1> QED BY <1>1, <1>7, <1>8, <1>9, <1>10, <1>11, LocalStep

\* revoke_all_for_user updates one row.
LEMMA RevokeOneInv == ASSUME IInv, NEW r \in Requests, RevokeOne(r) PROVE IInv'
<1>1. request[r] \in RequestState /\ RequestOK(r) /\ request[r].pc = "revoke"
  BY DEF IInv, TypeOK, RevokeOne
<1>2. PICK k \in request[r].todo :
        /\ CanLock(r, k)
        /\ \/ write' = [write EXCEPT ![r][k] = Deactivated(View(r, k))]
           \/ write' = write
        /\ request' = [request EXCEPT ![r] =
             [@ EXCEPT
                !.todo = Remaining(r, k),
                !.pc = IF Remaining(r, k) = {} THEN "commit" ELSE "revoke"]]
  BY DEF RevokeOne
<1> DEFINE rest == Remaining(r, k)
           pc == IF rest = {} THEN "commit" ELSE "revoke"
           new == [request[r] EXCEPT !.todo = rest, !.pc = pc]
           row == Deactivated(View(r, k))
<1>3. /\ request' = [request EXCEPT ![r] = new]
      /\ write' = [write EXCEPT ![r][k] = row] \/ write' = write
      /\ UNCHANGED <<now, user, session, audit, stamp>>
  BY <1>2 DEF RevokeOne
<1>4. k \in Sid /\ Exists(k) /\ rest \subseteq request[r].todo
  BY <1>1 DEF RequestState, RequestOK, Remaining
<1>5. pc \in {"commit", "revoke"}
  OBVIOUS
<1>6. View(r, k) \in SessionRow /\ View(r, k).state # "absent"
  BY <1>4 DEF IInv, TypeOK, View, Exists
<1>7. row \in SessionRow /\ row.state = "inactive" /\ Keeps(row, View(r, k))
  BY <1>6, DeactivatedRow
<1> HIDE DEF rest, pc, row
<1>8. /\ new \in RequestState
      /\ new.pc = pc /\ new.kind = request[r].kind
      /\ new.sid = request[r].sid /\ new.uid = request[r].uid
      /\ new.ends = request[r].ends /\ new.todo = rest
  BY <1>1, <1>4, <1>5 DEF RequestState, Steps
<1> HIDE DEF new
<1>9. request'[r] = new
  BY <1>3, <1>8 DEF IInv, TypeOK
<1>10. RequestOK(r)'
  <2>1. \A s \in Sid : Written(r, s) => Written(r, s)'
    BY <1>3, <1>4, <1>7 DEF Written, IInv, TypeOK
  <2> QED BY <1>1, <1>3, <1>4, <1>5, <1>8, <1>9, <2>1 DEF RequestOK, Exists, Authenticated
<1>11. \A s \in Sid : Written(r, s) => Exists(s)
  BY <1>1 DEF IInv, WriteOK
<1>12. CASE write' = [write EXCEPT ![r][k] = row]
  BY <1>2, <1>3, <1>4, <1>7, <1>8, <1>10, <1>11, <1>12, UpdateStep
<1>13. CASE write' = write
  <2>1. \A s \in Sid : WriteOK(r, s)'
    BY <1>3, <1>11, <1>13 DEF IInv, WriteOK, Written, Exists
  <2> QED BY <1>3, <1>8, <1>10, <1>13, <2>1, ReadStep
<1> QED BY <1>3, <1>12, <1>13

\* A step that inserts a row.
LEMMA InsertStep ==
  ASSUME IInv, NEW r \in Requests, NEW new \in RequestState,
         NEW k \in Sid, NEW row \in SessionRow,
         Fresh(k), RowOK(row), row.state = "active", LinkedRow(row, k),
         row.user_id = new.opens,
         row.impersonator_id # None <=> new.kind = "impersonate",
         new.kind \in {"login", "impersonate"}, new.pc = "commit", new.ends = None,
         \A s \in Sid : Written(r, s) => Exists(s),
         request' = [request EXCEPT ![r] = new],
         write' = [write EXCEPT ![r][k] = row],
         UNCHANGED <<now, user, session, audit, stamp>>,
         RequestOK(r)'
  PROVE  IInv'
<1>1. /\ request' \in [Requests -> RequestState]
      /\ request'[r] = new
      /\ \A q \in Requests \ {r} : request'[q] = request[q]
  BY OneRequest DEF IInv
<1>2. /\ write' \in [Requests -> [Sid -> SessionRow]]
      /\ write'[r][k] = row
      /\ \A s \in Sid \ {k} : write'[r][s] = write[r][s]
      /\ \A q \in Requests \ {r} : write'[q] = write[q]
  BY OneRow DEF IInv
<1>3. TypeOK'
  BY <1>1, <1>2 DEF IInv, TypeOK
<1>4. ASSUME NEW s \in Sid PROVE RowOK(write'[r][s]) /\ WriteOK(r, s)'
  <2>1. CASE s = k
    BY <1>1, <1>2, <2>1 DEF WriteOK, Exists, Fresh, LinkedRow
  <2>2. CASE s # k
    BY <1>2, <2>2 DEF IInv, RowsOK, WriteOK, Written, Exists
  <2> QED BY <2>1, <2>2
<1>5. \A s \in Sid : Written(r, s)' => Written(r, s) \/ CanLock(r, s)
  BY <1>2 DEF Written, Fresh, CanLock
<1> QED BY <1>1, <1>2, <1>3, <1>4, <1>5, LocalStep

\* login inserts its session.
LEMMA CreateInv == ASSUME IInv, NEW r \in Requests, Create(r) PROVE IInv'
<1>1. request[r] \in RequestState /\ RequestOK(r) /\ request[r].pc = "login"
  BY DEF IInv, TypeOK, Create
<1>2. PICK k \in Sid, lifetime \in Lifetimes :
        /\ Fresh(k)
        /\ write' = [write EXCEPT ![r][k] =
             [NoRow EXCEPT
                !.state = "active", !.user_id = request[r].uid,
                !.expires_at = now + Idle,
                !.absolute_expires_at = now + lifetime]]
  BY DEF Create
<1> DEFINE new == [request[r] EXCEPT !.pc = "commit"]
           row == [NoRow EXCEPT
                     !.state = "active", !.user_id = request[r].uid,
                     !.expires_at = now + Idle,
                     !.absolute_expires_at = now + lifetime]
<1>3. /\ request' = [request EXCEPT ![r] = new]
      /\ UNCHANGED <<now, user, session, audit, stamp>>
  BY DEF Create
<1>4. write' = [write EXCEPT ![r][k] = row]
  BY <1>2
<1>5. request[r].kind = "login" /\ request[r].uid \in Users /\ request[r].opens = request[r].uid
  BY <1>1 DEF RequestOK
<1>6. /\ row \in SessionRow /\ row.state = "active" /\ row.user_id = request[r].uid
      /\ row.impersonator_id = None /\ row.impersonator_session_id = None
  <2>1. now \in Nat /\ Idle \in Nat /\ lifetime \in Nat
    BY BoundsAssumption DEF IInv, TypeOK
  <2>2. now + Idle \in Nat /\ now + lifetime \in Nat
    BY <2>1
  <2> QED BY <1>5, <2>2 DEF NoRow, SessionRow
<1>7. /\ new \in RequestState
      /\ new.pc = "commit" /\ new.kind = "login" /\ new.opens = request[r].uid
      /\ new.sid = request[r].sid /\ new.uid = request[r].uid
      /\ new.ends = request[r].ends /\ new.todo = request[r].todo
  BY <1>1, <1>5 DEF RequestState, Steps
<1> HIDE DEF new, row
<1>8. request'[r] = new
  BY <1>3, <1>7 DEF IInv, TypeOK
<1>9. RequestOK(r)' /\ new.ends = None
  BY <1>1, <1>3, <1>5, <1>7, <1>8 DEF RequestOK, Exists, Authenticated
<1>10. \A s \in Sid : ~Written(r, s)
  BY <1>1 DEF RequestOK
<1>11. RowOK(row) /\ LinkedRow(row, k)
  BY <1>5, <1>6 DEF RowOK, LinkedRow
<1> QED BY <1>2, <1>3, <1>4, <1>6, <1>7, <1>9, <1>10, <1>11, InsertStep

\* start_impersonation inserts its session.
LEMMA ImpersonateInv ==
  ASSUME IInv, NEW r \in Requests, Impersonate(r) PROVE IInv'
<1>1. request[r] \in RequestState /\ RequestOK(r) /\ request[r].pc = "impersonate"
  BY DEF IInv, TypeOK, Impersonate
<1>2. PICK k \in Sid, target \in Users :
        /\ MayImpersonate(request[r].uid, target)
        /\ Fresh(k)
        /\ write' = [write EXCEPT ![r][k] =
             [state |-> "active", user_id |-> target,
              expires_at |-> now + Idle,
              absolute_expires_at |-> now + TimeBox,
              impersonator_id |-> request[r].uid,
              impersonator_session_id |-> request[r].sid]]
        /\ request' = [request EXCEPT ![r] =
             [@ EXCEPT !.pc = "commit", !.opens = target, !.stamp = StampFor(target)]]
  BY DEF Impersonate
<1> DEFINE new == [request[r] EXCEPT !.pc = "commit", !.opens = target,
                                     !.stamp = StampFor(target)]
           row == [state |-> "active", user_id |-> target,
                   expires_at |-> now + Idle,
                   absolute_expires_at |-> now + TimeBox,
                   impersonator_id |-> request[r].uid,
                   impersonator_session_id |-> request[r].sid]
<1>3. /\ request' = [request EXCEPT ![r] = new]
      /\ write' = [write EXCEPT ![r][k] = row]
      /\ UNCHANGED <<now, user, session, audit, stamp>>
  BY <1>2 DEF Impersonate
<1>4. /\ request[r].kind = "impersonate" /\ request[r].sid \in Sid
      /\ Exists(request[r].sid) /\ request[r].ends = None
      /\ request[r].uid = session[request[r].sid].user_id
      /\ Written(r, request[r].sid)
  BY <1>1 DEF RequestOK, Authenticated
<1>5. request[r].uid \in Users
  BY <1>4 DEF IInv, RowsOK, RowOK, Exists
<1>6. row \in SessionRow
  BY <1>4, <1>5, BoundsAssumption DEF SessionRow, IInv, TypeOK
<1>7. StampFor(target) \in Stamp
  BY StampForType DEF IInv
<1>8. /\ new \in RequestState
      /\ new.pc = "commit" /\ new.kind = "impersonate" /\ new.opens = target
      /\ new.sid = request[r].sid /\ new.uid = request[r].uid
      /\ new.ends = None /\ new.todo = request[r].todo
  BY <1>1, <1>4, <1>7 DEF RequestState, Steps
<1> HIDE DEF new
<1>9. k # request[r].sid
  BY <1>2, <1>4 DEF Fresh, Exists
<1>10. request'[r] = new /\ \A s \in Sid \ {k} : write'[r][s] = write[r][s]
  BY <1>3, <1>8 DEF IInv, TypeOK
<1>11. RequestOK(r)'
  BY <1>1, <1>3, <1>4, <1>8, <1>9, <1>10 DEF RequestOK, Exists, Written, Authenticated
<1>12. \A s \in Sid : Written(r, s) => Exists(s)
  BY <1>1 DEF IInv, WriteOK
<1>13. RowOK(row) /\ LinkedRow(row, k)
  BY <1>2, <1>4, <1>5, <1>9, NoneAssumption DEF RowOK, LinkedRow, MayImpersonate
<1>14. row.impersonator_id # None
  BY <1>5, NoneAssumption
<1> QED BY <1>2, <1>3, <1>6, <1>8, <1>11, <1>12, <1>13, <1>14, InsertStep

\* stop_impersonation reads the two sessions; the administrator's is an existing
\* row other than the impersonation's.
LEMMA CheckStopInv == ASSUME IInv, NEW r \in Requests, CheckStop(r) PROVE IInv'
<1>1. request[r] \in RequestState /\ RequestOK(r) /\ request[r].pc = "stop"
  BY DEF IInv, TypeOK, CheckStop
<1>2. PICK k \in Sid :
        /\ k = request[r].sid /\ Exists(k) /\ Written(r, k)
        /\ request[r].kind = "stop" /\ request[r].ends = None
        /\ request[r].uid = session[k].user_id
        /\ \A s \in request[r].todo : Exists(s)
  BY <1>1 DEF RequestOK, Authenticated
<1>3. \A s \in Sid : Written(r, s) => Exists(s)
  BY <1>1 DEF IInv, WriteOK
<1>4. Keeps(write[r][k], session[k]) /\ write[r][k] \in SessionRow
  BY <1>2 DEF IInv, WriteOK, TypeOK
<1> DEFINE to(pc) == [request[r] EXCEPT !.pc = pc, !.at = now]
<1>5. ASSUME NEW pc \in {"commit", "stop_expire", "stop_finish"}
      PROVE  /\ to(pc) \in RequestState
             /\ to(pc).pc = pc /\ to(pc).kind = "stop" /\ to(pc).sid = k
             /\ to(pc).uid = session[k].user_id /\ to(pc).ends = None
             /\ to(pc).todo = request[r].todo
  BY <1>1, <1>2 DEF RequestState, Steps, IInv, TypeOK
<1> HIDE DEF to
<1>6. UNCHANGED <<now, user, session, audit, stamp>>
  BY DEF CheckStop
<1>7. ASSUME request' = [request EXCEPT ![r] = to("commit")],
             \A s \in Sid : Written(r, s) => Written(r, s)'
      PROVE  RequestOK(r)'
  <2>1. request'[r] = to("commit")
    BY <1>5, <1>7 DEF IInv, TypeOK
  <2> QED BY <1>2, <1>5, <1>6, <1>7, <2>1 DEF RequestOK, Authenticated, Exists
<1>8. CASE request' = [request EXCEPT ![r] = to("commit")] /\ write' = write
  <2>1. RequestOK(r)'
    BY <1>7, <1>8 DEF Written
  <2>2. \A s \in Sid : WriteOK(r, s)'
    BY <1>3, <1>6, <1>8 DEF IInv, WriteOK, Written, Exists
  <2> QED BY <1>5, <1>6, <1>8, <2>1, <2>2, ReadStep
<1>9. CASE /\ request' = [request EXCEPT ![r] = to("commit")]
           /\ write' = [write EXCEPT ![r][k] = Deactivated(write[r][k])]
  <2>1. /\ Deactivated(write[r][k]) \in SessionRow
        /\ Deactivated(write[r][k]).state = "inactive"
        /\ Keeps(Deactivated(write[r][k]), View(r, k))
    BY <1>2, <1>4, DeactivatedRow DEF Written, View
  <2>2. \A s \in Sid : Written(r, s) => Written(r, s)'
    BY <1>9, <2>1 DEF Written, IInv, TypeOK
  <2> QED BY <1>2, <1>3, <1>5, <1>6, <1>7, <1>9, <2>1, <2>2, UpdateStep
<1>10. ASSUME NEW pc \in {"stop_expire", "stop_finish"},
              request' = [request EXCEPT ![r] = to(pc)], write' = write,
              write[r][k].state = "active",
              write[r][k].impersonator_session_id # None,
              View(r, write[r][k].impersonator_session_id).state = "active"
       PROVE  IInv'
  <2>1. Link(k) = write[r][k].impersonator_session_id
    BY <1>4 DEF Keeps, Link
  <2>2. session[k].impersonator_id # None
    BY <1>2, <1>10, <2>1 DEF IInv, RowsOK, RowOK, Exists, Link
  <2>3. Link(k) \in Sid \ {k} /\ Exists(Link(k))
    BY <2>2 DEF IInv, LinkedRow, Link
  <2>4. request'[r] = to(pc)
    BY <1>5, <1>10 DEF IInv, TypeOK
  <2>5. RequestOK(r)'
    BY <1>2, <1>5, <1>6, <1>10, <2>3, <2>4 DEF RequestOK, Authenticated, Exists, Written, Link
  <2>6. \A s \in Sid : WriteOK(r, s)'
    BY <1>3, <1>6, <1>10 DEF IInv, WriteOK, Written, Exists
  <2> QED BY <1>5, <1>6, <1>10, <2>5, <2>6, ReadStep
<1> QED BY <1>2, <1>8, <1>9, <1>10 DEF CheckStop, StillActive, to

\* stop_impersonation deactivates the administrator's expired session.
LEMMA ExpireAdminInv == ASSUME IInv, NEW r \in Requests, ExpireAdmin(r) PROVE IInv'
<1>1. request[r] \in RequestState /\ RequestOK(r) /\ request[r].pc = "stop_expire"
  BY DEF IInv, TypeOK, ExpireAdmin
<1>2. PICK k \in Sid :
        /\ k = Link(request[r].sid) /\ Exists(k) /\ CanLock(r, k)
        /\ request[r].kind = "stop" /\ request[r].ends = None
  BY <1>1 DEF RequestOK, ExpireAdmin, Link
<1> DEFINE new == [request[r] EXCEPT !.pc = "commit"]
           row == Deactivated(View(r, k))
<1>3. /\ request' = [request EXCEPT ![r] = new]
      /\ write' = [write EXCEPT ![r][k] = row]
      /\ UNCHANGED <<now, user, session, audit, stamp>>
  BY <1>2 DEF ExpireAdmin, Link
<1>4. View(r, k) \in SessionRow /\ View(r, k).state # "absent"
  BY <1>2 DEF IInv, TypeOK, View, Exists
<1>5. row \in SessionRow /\ row.state = "inactive" /\ Keeps(row, View(r, k))
  BY <1>4, DeactivatedRow
<1>6. /\ new \in RequestState
      /\ new.pc = "commit" /\ new.kind = "stop"
      /\ new.sid = request[r].sid /\ new.uid = request[r].uid
      /\ new.ends = None /\ new.todo = request[r].todo
  BY <1>1, <1>2 DEF RequestState, Steps
<1> HIDE DEF new, row
<1>7. /\ request'[r] = new /\ write'[r][k] = row
      /\ \A s \in Sid \ {k} : write'[r][s] = write[r][s]
  BY <1>3, <1>5, <1>6 DEF IInv, TypeOK
<1>8. RequestOK(r)'
  <2>1. \A s \in Sid : Written(r, s) => Written(r, s)'
    BY <1>5, <1>7 DEF Written
  <2> QED BY <1>1, <1>2, <1>3, <1>6, <1>7, <2>1 DEF RequestOK, Exists, Authenticated
<1>9. \A s \in Sid : Written(r, s) => Exists(s)
  BY <1>1 DEF IInv, WriteOK
<1> QED BY <1>2, <1>3, <1>5, <1>6, <1>8, <1>9, UpdateStep

\* stop_impersonation slides the administrator's session and ends its own.
LEMMA FinishStopInv == ASSUME IInv, NEW r \in Requests, FinishStop(r) PROVE IInv'
<1>1. request[r] \in RequestState /\ RequestOK(r) /\ request[r].pc = "stop_finish"
  BY DEF IInv, TypeOK, FinishStop
<1>2. PICK k \in Sid, a \in Sid :
        /\ k = request[r].sid /\ a = Link(k) /\ a # k
        /\ Exists(k) /\ Exists(a) /\ CanLock(r, a) /\ Written(r, k)
        /\ request[r].kind = "stop" /\ request[r].ends = None
        /\ write[r][k].state = "active"
        /\ request[r].uid = session[k].user_id
        /\ request[r].at \in Nat
        /\ \A s \in request[r].todo : Exists(s)
  BY <1>1 DEF RequestOK, FinishStop, Link, RequestState, Authenticated
<1> DEFINE slid == Renewed(View(r, a), request[r].at)
           own == slid.user_id = session[k].impersonator_id
           row == IF own THEN Deactivated(write[r][k]) ELSE write[r][k]
           ends == IF own THEN k ELSE None
           new == [request[r] EXCEPT !.pc = "commit", !.ends = ends]
<1>3. /\ request' = [request EXCEPT ![r] = new]
      /\ UNCHANGED <<now, user, session, audit, stamp>>
  BY <1>2 DEF FinishStop, Link
<1>4. write' = [write EXCEPT ![r] = [write[r] EXCEPT ![a] = slid, ![k] = row]]
  BY <1>2 DEF FinishStop, Link, IInv, TypeOK
<1>5. /\ View(r, a) \in SessionRow /\ View(r, a).state # "absent" /\ RowOK(View(r, a))
      /\ write[r][k] \in SessionRow /\ write[r][k].state # "absent" /\ RowOK(write[r][k])
  BY <1>2 DEF IInv, TypeOK, RowsOK, View, Exists
<1>6. slid \in SessionRow /\ Keeps(slid, View(r, a))
  BY <1>2, <1>5, RenewedRow
<1>7. row \in SessionRow /\ Keeps(row, write[r][k]) /\ (own => row.state = "inactive")
  <2>1. CASE own
    BY <1>5, <2>1, DeactivatedRow
  <2>2. CASE ~own
    BY <1>5, <2>2 DEF Keeps
  <2> QED BY <2>1, <2>2
<1>8. own => session[k].impersonator_id # None /\ session[k].state = "active"
  <2>1. slid.user_id \in Users
    BY <1>5, <1>6, KeepsRow DEF RowOK
  <2>2. session[k].state = "active"
    BY <1>2 DEF IInv, WriteOK, Keeps, Exists
  <2> QED BY <2>1, <2>2, NoneAssumption
<1>9. /\ ends \in {k, None} /\ (ends # None => own)
  OBVIOUS
<1> HIDE DEF slid, own, row, ends
<1>10. /\ new \in RequestState
       /\ new.pc = "commit" /\ new.kind = "stop" /\ new.ends = ends
       /\ new.sid = k /\ new.uid = request[r].uid
       /\ new.todo = request[r].todo
  BY <1>1, <1>2, <1>9 DEF RequestState, Steps
<1> HIDE DEF new
<1>11. /\ request' \in [Requests -> RequestState] /\ request'[r] = new
       /\ \A q \in Requests \ {r} : request'[q] = request[q]
  BY <1>3, <1>10, OneRequest DEF IInv
<1>12. /\ write' \in [Requests -> [Sid -> SessionRow]]
       /\ write'[r][a] = slid /\ write'[r][k] = row
       /\ \A s \in Sid \ {a, k} : write'[r][s] = write[r][s]
       /\ \A q \in Requests \ {r} : write'[q] = write[q]
  BY <1>2, <1>4, <1>6, <1>7 DEF IInv, TypeOK
<1>13. TypeOK'
  BY <1>3, <1>11, <1>12 DEF IInv, TypeOK
<1>14. RowOK(slid) /\ slid.state # "absent" /\ RowOK(row) /\ row.state # "absent"
  BY <1>5, <1>6, <1>7, KeepsRow
<1>15. RequestOK(r)'
  BY <1>2, <1>3, <1>7, <1>8, <1>9, <1>10, <1>11, <1>12, <1>14
  DEF RequestOK, Exists, Written, Authenticated
<1>16. \A s \in Sid : Written(r, s) => Exists(s) /\ Keeps(write[r][s], session[s])
  BY <1>1 DEF IInv, WriteOK
<1>17. Keeps(slid, session[a]) /\ Keeps(row, session[k])
  <2>1. Keeps(row, session[k])
    BY <1>2, <1>5, <1>7, <1>16, KeepsRow
  <2>2. CASE Written(r, a)
    BY <1>2, <1>5, <1>6, <1>16, <2>1, <2>2, KeepsRow DEF View, Written
  <2>3. CASE ~Written(r, a)
    BY <1>6, <2>1, <2>3 DEF View, Written
  <2> QED BY <2>2, <2>3
<1>18. ASSUME NEW s \in Sid PROVE RowOK(write'[r][s]) /\ WriteOK(r, s)'
  <2>1. CASE s \in {a, k}
    BY <1>2, <1>3, <1>12, <1>14, <1>17, <2>1 DEF WriteOK, Exists
  <2>2. CASE s \notin {a, k}
    BY <1>3, <1>12, <1>16, <2>2 DEF IInv, RowsOK, WriteOK, Written, Exists
  <2> QED BY <2>1, <2>2
<1>19. \A s \in Sid : Written(r, s)' => Written(r, s) \/ CanLock(r, s)
  BY <1>2, <1>12 DEF Written
<1> QED BY <1>3, <1>11, <1>12, <1>13, <1>15, <1>18, <1>19, LocalStep

\* A step of an authenticated handler that only moves on and fills in grant.
LEMMA RoleStep ==
  ASSUME IInv, NEW r \in Requests, NEW new \in RequestState,
         request[r].pc \in {"roles", "roles_write"},
         new.pc \in {"roles_write", "commit"},
         new.kind = request[r].kind, new.sid = request[r].sid,
         new.uid = request[r].uid, new.ends = request[r].ends,
         new.todo = request[r].todo,
         request' = [request EXCEPT ![r] = new],
         UNCHANGED <<now, user, session, audit, write, stamp>>
  PROVE  IInv'
<1>1. request'[r] = new
  BY OneRequest DEF IInv
<1>2. RequestOK(r) /\ \A s \in Sid : WriteOK(r, s)
  BY DEF IInv
<1>3. \A s \in Sid : (Written(r, s)' <=> Written(r, s)) /\ (Exists(s)' <=> Exists(s))
  BY DEF Written, Exists
<1>4. RequestOK(r)'
  <2>1. request[r].kind \in Authenticated \cup {"none", "login", "reset"}
        /\ request[r].todo \subseteq Sid
    BY DEF IInv, TypeOK, RequestState
  <2> QED BY <1>1, <1>2, <1>3, <2>1 DEF RequestOK, Authenticated
<1>5. \A s \in Sid : WriteOK(r, s)'
  BY <1>2, <1>3 DEF WriteOK
<1> QED BY <1>4, <1>5, ReadStep

\* change_role decides.
LEMMA SelectRoleInv == ASSUME IInv, NEW r \in Requests, SelectRole(r) PROVE IInv'
<1>1. PICK target \in Users, role \in Role :
        request' = [request EXCEPT ![r] =
          [@ EXCEPT
             !.pc = "roles_write",
             !.grant = [uid |-> target, role |-> role,
                        sets |-> Differs(r, target, role),
                        raced |-> request[r].grant.raced]]]
  BY DEF SelectRole
<1> DEFINE grant == [uid |-> target, role |-> role, sets |-> Differs(r, target, role),
                     raced |-> request[r].grant.raced]
           new == [request[r] EXCEPT !.pc = "roles_write", !.grant = grant]
<1>2. request[r] \in RequestState
  BY DEF IInv, TypeOK
<1>3. /\ grant.uid \in Users /\ grant.role \in Role
      /\ grant.sets \in BOOLEAN /\ grant.raced \in BOOLEAN
      /\ grant = [uid |-> grant.uid, role |-> grant.role, sets |-> grant.sets,
                  raced |-> grant.raced]
  BY <1>2 DEF RequestState, Grant, Differs
<1>4. request' = [request EXCEPT ![r] = new]
  BY <1>1, <1>2 DEF IInv, TypeOK
<1> HIDE DEF grant
<1>5. /\ new \in RequestState /\ new.pc = "roles_write"
      /\ new.kind = request[r].kind /\ new.sid = request[r].sid
      /\ new.uid = request[r].uid /\ new.ends = request[r].ends
      /\ new.todo = request[r].todo
  BY <1>2, <1>3 DEF RequestState, Grant, Steps
<1> HIDE DEF new
<1> QED BY <1>4, <1>5, RoleStep DEF SelectRole

\* The UPDATE of change_role.
LEMMA WriteRoleInv == ASSUME IInv, NEW r \in Requests, WriteRole(r) PROVE IInv'
<1> DEFINE new == [request[r] EXCEPT !.pc = "commit"]
<1>1. request[r] \in RequestState
  BY DEF IInv, TypeOK
<1>2. request' = [request EXCEPT ![r] = new]
  BY <1>1 DEF WriteRole, IInv, TypeOK
<1>3. /\ new \in RequestState /\ new.pc = "commit"
      /\ new.kind = request[r].kind /\ new.sid = request[r].sid
      /\ new.uid = request[r].uid /\ new.ends = request[r].ends
      /\ new.todo = request[r].todo
  BY <1>1 DEF RequestState, Steps
<1> HIDE DEF new
<1> QED BY <1>2, <1>3, RoleStep DEF WriteRole

\* The route answers: nothing is left to do but to commit the slide.
LEMMA AnswerInv == ASSUME IInv, NEW r \in Requests, Answer(r) PROVE IInv'
<1> DEFINE new == [request[r] EXCEPT !.pc = "commit", !.kind = "me"]
<1>1. request[r] \in RequestState
  BY DEF IInv, TypeOK
<1>2. request' = [request EXCEPT ![r] = new]
  BY <1>1 DEF Answer, IInv, TypeOK
<1>3. /\ new \in RequestState /\ new.pc = "commit" /\ new.kind = "me"
      /\ new.sid = request[r].sid /\ new.uid = request[r].uid
      /\ new.ends = request[r].ends /\ new.todo = request[r].todo
  BY <1>1 DEF RequestState, Steps, Authenticated
<1> HIDE DEF new
<1>4. request'[r] = new
  BY <1>2, <1>3, OneRequest DEF IInv
<1>5. RequestOK(r) /\ \A s \in Sid : WriteOK(r, s)
  BY DEF IInv
<1>6. \A s \in Sid : (Written(r, s)' <=> Written(r, s)) /\ (Exists(s)' <=> Exists(s))
  BY DEF Answer, Written, Exists
<1>7. request[r].kind \in {"impersonate", "roles"} /\ request[r].pc \notin {"expire", "slide"}
  BY <1>5 DEF Answer, RequestOK
<1>8. RequestOK(r)'
  <2>1. request[r].ends = None /\ request[r].todo \subseteq Sid /\ UNCHANGED session
    BY <1>1, <1>5 DEF Answer, RequestOK, RequestState
  <2> QED BY <1>3, <1>4, <1>5, <1>6, <1>7, <2>1 DEF RequestOK, Authenticated
<1>9. ASSUME NEW s \in Sid PROVE WriteOK(r, s)'
  BY <1>5, <1>6 DEF WriteOK, Answer
<1> QED BY <1>2, <1>3, <1>8, <1>9, ReadStep DEF Answer

\* The end of a transaction: its rows become the committed ones or are
\* dropped, and its locks are released.
LEMMA TransactionEnds ==
  ASSUME IInv, TypeOK', NEW r \in Requests,
         request'[r] = NoRequest, \A s \in Sid : write'[r][s] = NoRow,
         \A q \in Requests \ {r} :
           /\ write'[q] = write[q]
           /\ request'[q].pc = request[q].pc /\ request'[q].kind = request[q].kind
           /\ request'[q].sid = request[q].sid /\ request'[q].uid = request[q].uid
           /\ request'[q].todo = request[q].todo
           /\ request'[q].opens = request[q].opens
           /\ request'[q].ends = request[q].ends,
         \A s \in Sid : Exists(s) => Keeps(session'[s], session[s]),
         \A s \in Sid, q \in Requests \ {r} : Written(q, s) => session'[s] = session[s],
         (\A s \in Sid : RowOK(session[s]) /\ LinkedRow(session[s], s))',
         AuditOK', AuditMatchesSessions'
  PROVE  IInv'
<1>1. RowsOK'
  BY DEF IInv, RowsOK, RowOK, NoRow
<1>2. (\A s \in Sid : LinkedRow(session[s], s))'
  OBVIOUS
<1>3. \A s \in Sid : ~Written(r, s)'
  BY DEF Written, NoRow
<1>4. LocksExclude'
  BY <1>3 DEF IInv, LocksExclude, Written
<1>5. \A s \in Sid : Exists(s) =>
        /\ Exists(s)' /\ session'[s].user_id = session[s].user_id
        /\ Link(s)' = Link(s) /\ session'[s].impersonator_id = session[s].impersonator_id
  BY DEF Keeps, Exists, Link
<1>6. ASSUME NEW q \in Requests PROVE RequestOK(q)'
  <2>1. CASE q = r
    <3>1. (q = r)' /\ (None \notin Sid \cup Users)
      BY <2>1, NoneAssumption
    <3> QED BY <1>3, <2>1 DEF RequestOK, NoRequest, Authenticated
  <2>2. CASE q # r
    <3>1. /\ RequestOK(q) /\ write'[q] = write[q] /\ request[q] \in RequestState
          /\ request'[q].pc = request[q].pc /\ request'[q].kind = request[q].kind
          /\ request'[q].sid = request[q].sid /\ request'[q].uid = request[q].uid
          /\ request'[q].todo = request[q].todo
          /\ request'[q].opens = request[q].opens
          /\ request'[q].ends = request[q].ends
      BY <2>2 DEF IInv, TypeOK
    <3>2. \A s \in Sid : Written(q, s)' <=> Written(q, s)
      BY <3>1 DEF Written
    <3>3. request[q].ends # None => request[q].sid \in Sid /\ Exists(request[q].sid)
      BY <3>1 DEF RequestOK, Authenticated
    <3>4. request[q].ends # None =>
            session'[request[q].sid] = session[request[q].sid]
      BY <2>2, <3>1, <3>3 DEF RequestOK, Written
    <3>5. request[q].todo \subseteq Sid
      BY <3>1 DEF RequestState
    <3> QED BY <1>5, <3>1, <3>2, <3>3, <3>4, <3>5 DEF RequestOK, Authenticated
  <2> QED BY <2>1, <2>2
<1>7. ASSUME NEW q \in Requests, NEW s \in Sid PROVE WriteOK(q, s)'
  <2>1. CASE q = r
    BY <1>3, <2>1 DEF WriteOK
  <2>2. CASE q # r /\ ~Written(q, s)
    BY <2>2 DEF WriteOK, Written
  <2>3. CASE q # r /\ Written(q, s)
    <3>1. /\ session'[s] = session[s] /\ write'[q] = write[q]
          /\ request'[q].pc = request[q].pc /\ request'[q].kind = request[q].kind
          /\ request'[q].opens = request[q].opens
          /\ request'[q].ends = request[q].ends
      BY <2>3
    <3>2. WriteOK(q, s)
      BY DEF IInv
    <3>3. LinkedRow(write[q][s], s) => LinkedRow(write[q][s], s)'
      BY <1>5, <3>1 DEF LinkedRow
    <3> QED BY <2>3, <3>1, <3>2, <3>3 DEF WriteOK, Written, Exists
  <2> QED BY <2>1, <2>2, <2>3
<1> QED BY <1>1, <1>2, <1>4, <1>6, <1>7 DEF IInv

\* The transaction is undone.
LEMMA RollBackInv == ASSUME IInv, NEW r \in Requests, RollBack(r) PROVE IInv'
<1>1. /\ request' = [request EXCEPT ![r] = NoRequest]
      /\ write' = [write EXCEPT ![r] = [s \in Sid |-> NoRow]]
      /\ UNCHANGED <<now, user, session, audit, stamp>>
  BY DEF RollBack
<1>2. NoRequest \in RequestState /\ NoRow \in SessionRow
  BY DEF NoRequest, RequestState, Grant, Steps, Role, Stamp, NoRow, SessionRow
<1>3. /\ request' \in [Requests -> RequestState] /\ request'[r] = NoRequest
      /\ \A q \in Requests \ {r} : request'[q] = request[q]
  BY <1>1, <1>2, OneRequest DEF IInv
<1>4. /\ write' \in [Requests -> [Sid -> SessionRow]]
      /\ \A s \in Sid : write'[r][s] = NoRow
      /\ \A q \in Requests \ {r} : write'[q] = write[q]
  BY <1>1, <1>2 DEF IInv, TypeOK
<1>5. TypeOK'
  BY <1>1, <1>3, <1>4 DEF IInv, TypeOK
<1>6. \A s \in Sid : Exists(s) => Keeps(session'[s], session[s])
  BY <1>1 DEF Keeps, Exists
<1>7. (\A s \in Sid : RowOK(session[s]) /\ LinkedRow(session[s], s))'
  BY <1>1 DEF IInv, RowsOK, LinkedRow, Exists
<1>8. AuditOK' /\ AuditMatchesSessions'
  BY <1>1 DEF IInv, AuditOK, AuditMatchesSessions, Exists
<1> QED BY <1>1, <1>3, <1>4, <1>5, <1>6, <1>7, <1>8, TransactionEnds

\* get_current_user commits the deactivation of an expired session.
LEMMA ExpireInv == ASSUME IInv, NEW r \in Requests, Expire(r) PROVE IInv'
<1>1. PICK k \in Sid :
        /\ k = request[r].sid /\ Exists(k) /\ CanLock(r, k)
        /\ \A s \in Sid : ~Written(r, s)
  BY DEF IInv, RequestOK, Expire
<1> DEFINE row == Deactivated(session[k])
<1>2. /\ request' = [request EXCEPT ![r] = NoRequest]
      /\ session' = [session EXCEPT ![k] = row]
      /\ UNCHANGED <<now, user, audit, write, stamp>>
  BY <1>1 DEF Expire
<1>3. NoRequest \in RequestState
  BY DEF NoRequest, RequestState, Grant, Steps, Role, Stamp
<1>4. /\ request' \in [Requests -> RequestState] /\ request'[r] = NoRequest
      /\ \A q \in Requests \ {r} : request'[q] = request[q]
  BY <1>2, <1>3, OneRequest DEF IInv
<1>5. row \in SessionRow /\ row.state = "inactive" /\ Keeps(row, session[k])
  BY <1>1, DeactivatedRow DEF IInv, TypeOK, Exists
<1> HIDE DEF row
<1>6. /\ session' \in [Sid -> SessionRow] /\ session'[k] = row
      /\ \A s \in Sid \ {k} : session'[s] = session[s]
  BY <1>2, <1>5 DEF IInv, TypeOK
<1>7. TypeOK'
  BY <1>2, <1>4, <1>6 DEF IInv, TypeOK
<1>8. \A s \in Sid : write'[r][s] = NoRow
  BY <1>1, <1>2 DEF IInv, RowsOK, RowOK, Written
<1>9. \A s \in Sid : Exists(s) => Keeps(session'[s], session[s])
  BY <1>5, <1>6 DEF Keeps, Exists
<1>10. \A s \in Sid, q \in Requests \ {r} : Written(q, s) => session'[s] = session[s]
  BY <1>1, <1>6 DEF Written, CanLock
<1>11. ASSUME NEW s \in Sid PROVE (RowOK(session[s]) /\ LinkedRow(session[s], s))'
  <2>1. RowOK(session'[s])
    BY <1>1, <1>5, <1>6, KeepsRow DEF IInv, RowsOK, Exists
  <2>2. /\ session'[s].user_id = session[s].user_id
        /\ session'[s].impersonator_id = session[s].impersonator_id
        /\ session'[s].impersonator_session_id = session[s].impersonator_session_id
    BY <1>5, <1>6 DEF Keeps
  <2>3. \A x \in Sid : Exists(x) => Exists(x)' /\ session'[x].user_id = session[x].user_id
    BY <1>9 DEF Exists, Keeps
  <2>4. LinkedRow(session[s], s)
    BY DEF IInv
  <2>5. LinkedRow(session[s], s)'
    BY <2>2, <2>3, <2>4 DEF LinkedRow
  <2> QED BY <2>1, <2>5
<1>12. AuditOK' /\ AuditMatchesSessions'
  <2>1. \A s \in Sid : /\ session'[s].impersonator_id = session[s].impersonator_id
                       /\ session[s].state = "inactive" => session'[s].state = "inactive"
                       /\ Exists(s)' <=> Exists(s)
    BY <1>1, <1>5, <1>6 DEF Exists, Keeps
  <2> QED BY <1>2, <2>1 DEF IInv, AuditOK, AuditMatchesSessions
<1> QED BY <1>2, <1>4, <1>7, <1>8, <1>9, <1>10, <1>11, <1>12, TransactionEnds

\* get_async_session commits: inserted and updated rows become visible, and the
\* audit rows with them.
LEMMA CommitInv == ASSUME IInv, NEW r \in Requests, Commit(r) PROVE IInv'
<1> DEFINE new(s) == session[s].state = "absent" /\ write[r][s].state # "absent"
           first(s) == new(s) /\ request[r].kind = "impersonate"
           late(q) == SetsRole(r, request[r].grant.uid) /\ Invalidates(q, request[r].grant.uid)
           last(s) == [pw |-> user[request[r].uid].pw + 1, raced |-> FALSE]
<1>1. /\ request[r].pc = "commit" /\ request[r] \in RequestState /\ RequestOK(r)
      /\ session' = [s \in Sid |-> View(r, s)]
      /\ user' = [u \in Users |-> NewUser(r, u)]
      /\ audit' = [s \in Sid |->
           [start |-> audit[s].start + IF first(s) THEN 1 ELSE 0,
            end |-> audit[s].end + IF request[r].ends = s THEN 1 ELSE 0]]
      /\ stamp' = [s \in Sid |->
           IF new(s) THEN request[r].stamp
           ELSE IF request[r].kind = "password" /\ s = request[r].sid
             THEN last(s) ELSE stamp[s]]
      /\ request' = [q \in Requests |->
           IF q = r THEN NoRequest
           ELSE IF late(q) THEN [request[q] EXCEPT !.grant.raced = TRUE]
           ELSE request[q]]
      /\ write' = [write EXCEPT ![r] = [s \in Sid |-> NoRow]]
      /\ now' = now
  BY DEF Commit, IInv, TypeOK
<1>2. NoRequest \in RequestState /\ NoRow \in SessionRow
  BY DEF NoRequest, RequestState, Grant, Steps, Role, Stamp, NoRow, SessionRow
<1>3. /\ request' \in [Requests -> RequestState] /\ request'[r] = NoRequest
      /\ \A q \in Requests \ {r} :
           /\ request'[q].pc = request[q].pc /\ request'[q].kind = request[q].kind
           /\ request'[q].sid = request[q].sid /\ request'[q].uid = request[q].uid
           /\ request'[q].todo = request[q].todo
           /\ request'[q].opens = request[q].opens
           /\ request'[q].ends = request[q].ends
  <2> HIDE DEF late
  <2>1. ASSUME NEW q \in Requests, q # r
        PROVE  LET marked == [request[q] EXCEPT !.grant.raced = TRUE]
               IN  /\ marked \in RequestState
                   /\ marked.pc = request[q].pc /\ marked.kind = request[q].kind
                   /\ marked.sid = request[q].sid /\ marked.uid = request[q].uid
                   /\ marked.todo = request[q].todo
                   /\ marked.opens = request[q].opens
                   /\ marked.ends = request[q].ends
    <3>1. request[q] \in RequestState
      BY DEF IInv, TypeOK
    <3> QED BY <3>1 DEF RequestState, Grant
  <2>2. \A q \in Requests : request[q] \in RequestState
    BY DEF IInv, TypeOK
  <2> QED BY <1>1, <1>2, <2>1, <2>2
<1>4. /\ write' \in [Requests -> [Sid -> SessionRow]]
      /\ \A s \in Sid : write'[r][s] = NoRow
      /\ \A q \in Requests \ {r} : write'[q] = write[q]
  BY <1>1, <1>2 DEF IInv, TypeOK
<1>5. session' \in [Sid -> SessionRow] /\ \A s \in Sid : session'[s] = View(r, s)
  BY <1>1 DEF IInv, TypeOK, View
<1>6. request[r].kind = "password" => request[r].uid \in Users /\ user[request[r].uid] \in UserRow
  BY <1>1 DEF RequestOK, Authenticated, IInv, TypeOK, RowsOK, RowOK, Exists
<1>7. user' \in [Users -> UserRow]
  <2>1. ASSUME NEW u \in Users PROVE NewUser(r, u) \in UserRow
    <3> DEFINE g == request[r].grant
    <3>1. user[u] \in UserRow /\ g.role \in Role /\ g.raced \in BOOLEAN
      BY <1>1 DEF IInv, TypeOK, RequestState, Grant
    <3>2. [user[u] EXCEPT !.pw = @ + 1] \in UserRow
      BY <3>1 DEF UserRow
    <3>3. [user[u] EXCEPT !.role = IF g.sets THEN g.role ELSE @,
                          !.logged = g.role, !.stale = g.raced] \in UserRow
      BY <3>1 DEF UserRow
    <3> QED BY <3>1, <3>2, <3>3 DEF NewUser
  <2> QED BY <1>1, <2>1
<1>8. stamp' \in [Sid -> Stamp]
  <2>1. request[r].kind = "password" => \A s \in Sid : last(s) \in Stamp
    BY <1>6 DEF Stamp, UserRow
  <2>2. request[r].stamp \in Stamp /\ stamp \in [Sid -> Stamp]
    BY <1>1 DEF RequestState, IInv, TypeOK
  <2> HIDE DEF last, new
  <2> QED BY <1>1, <2>1, <2>2
<1>9. audit' \in [Sid -> [start : Nat, end : Nat]]
  BY <1>1 DEF IInv, TypeOK
<1>10. TypeOK'
  BY <1>1, <1>3, <1>4, <1>5, <1>7, <1>8, <1>9 DEF IInv, TypeOK
<1>11. ASSUME NEW s \in Sid, Exists(s) PROVE Keeps(session'[s], session[s])
  <2>1. CASE Written(r, s)
    BY <1>5, <1>11, <2>1 DEF IInv, WriteOK, View, Written
  <2>2. CASE ~Written(r, s)
    BY <1>5, <1>11, <2>2 DEF View, Written, Keeps, Exists
  <2> QED BY <2>1, <2>2
<1>12. ASSUME NEW s \in Sid, NEW q \in Requests \ {r}, Written(q, s)
       PROVE session'[s] = session[s]
  BY <1>5, <1>12 DEF IInv, LocksExclude, View, Written
<1>13. ASSUME NEW s \in Sid, new(s)
       PROVE  /\ request[r].ends = None
              /\ session'[s] = write[r][s]
              /\ write[r][s].state = "active"
              /\ write[r][s].impersonator_id # None <=> request[r].kind = "impersonate"
              /\ LinkedRow(write[r][s], s)
  BY <1>5, <1>13 DEF IInv, WriteOK, Written, Exists, View
<1>14. ASSUME NEW s \in Sid, ~new(s), ~Exists(s) PROVE session'[s] = NoRow
  BY <1>5, <1>14 DEF IInv, RowsOK, RowOK, View, Exists
<1>15. ASSUME NEW s \in Sid PROVE (RowOK(session[s]) /\ LinkedRow(session[s], s))'
  <2>1. RowOK(session'[s])
    BY <1>5 DEF IInv, RowsOK, View
  <2>2. \A x \in Sid : Exists(x) => session'[x].state # "absent" /\ session'[x].user_id = session[x].user_id
    BY <1>11 DEF Exists, Keeps
  <2>3. LinkedRow(session[s], s)
    BY DEF IInv
  <2>4. CASE Exists(s)
    <3>1. /\ session'[s].user_id = session[s].user_id
          /\ session'[s].impersonator_id = session[s].impersonator_id
          /\ session'[s].impersonator_session_id = session[s].impersonator_session_id
      BY <1>11, <2>4 DEF Keeps
    <3> QED BY <2>1, <2>2, <2>3, <3>1 DEF LinkedRow, Exists
  <2>5. CASE new(s)
    BY <1>13, <2>1, <2>2, <2>5 DEF LinkedRow, Exists
  <2>6. CASE ~new(s) /\ ~Exists(s)
    BY <1>14, <2>1, <2>6 DEF LinkedRow, NoRow
  <2> QED BY <2>4, <2>5, <2>6
<1>16. \A s \in Sid : request[r].ends = s =>
         /\ Exists(s) /\ session[s].state = "active"
         /\ session[s].impersonator_id # None
         /\ session'[s].state = "inactive"
  <2>1. None \notin Sid
    BY NoneAssumption
  <2> QED BY <1>1, <1>5, <2>1 DEF RequestOK, View, Exists
<1>17. ASSUME NEW s \in Sid
       PROVE  /\ audit[s] \in [start : Nat, end : Nat]
              /\ audit'[s] \in [start : Nat, end : Nat]
              /\ audit'[s].start = audit[s].start + IF first(s) THEN 1 ELSE 0
              /\ audit'[s].end = audit[s].end + IF request[r].ends = s THEN 1 ELSE 0
  BY <1>1, <1>9 DEF IInv, TypeOK
<1>18. AuditOK' /\ AuditMatchesSessions'
  <2> SUFFICES ASSUME NEW s \in Sid
               PROVE  /\ session'[s].state = "absent" => audit'[s] = [start |-> 0, end |-> 0]
                      /\ audit'[s].start = IF session'[s].impersonator_id = None THEN 0 ELSE 1
                      /\ audit'[s].end <= audit'[s].start
                      /\ audit'[s].end = 1 => session'[s].state = "inactive"
    BY DEF AuditOK, AuditMatchesSessions, Exists
  <2> DEFINE row == audit[s]
             next == audit'[s]
  <2>0. /\ row.start \in Nat /\ row.end \in Nat
        /\ next \in [start : Nat, end : Nat]
        /\ first(s) => next.start = row.start + 1
        /\ ~first(s) => next.start = row.start
        /\ request[r].ends = s => next.end = row.end + 1
        /\ request[r].ends # s => next.end = row.end
    BY <1>17
  <2>1. CASE Exists(s)
    <3>1. /\ session'[s].impersonator_id = session[s].impersonator_id
          /\ session'[s].state # "absent"
          /\ session[s].state = "inactive" => session'[s].state = "inactive"
      BY <1>11, <2>1 DEF Keeps
    <3>2. /\ audit[s].start = IF session[s].impersonator_id = None THEN 0 ELSE 1
          /\ audit[s].end <= audit[s].start
          /\ audit[s].end = 1 => session[s].state = "inactive"
      BY DEF IInv, AuditMatchesSessions
    <3>3. ~first(s)
      BY <2>1 DEF Exists
    <3> HIDE DEF first, next
    <3>4. CASE request[r].ends = s
      BY <1>16, <2>0, <3>1, <3>2, <3>3, <3>4 DEF next
    <3>5. CASE request[r].ends # s
      BY <2>0, <3>1, <3>2, <3>3, <3>5 DEF next
    <3> QED BY <3>4, <3>5
  <2>2. CASE ~Exists(s)
    <3>1. audit[s] = [start |-> 0, end |-> 0] /\ request[r].ends # s
      BY <1>16, <2>2 DEF IInv, AuditOK
    <3>2. row.start = 0 /\ row.end = 0
      BY <3>1
    <3>3. next.end = 0 /\ next = [start |-> next.start, end |-> next.end]
      BY <2>0, <3>1, <3>2
    <3>4. CASE new(s)
      <4>1. /\ session'[s].impersonator_id # None <=> request[r].kind = "impersonate"
            /\ session'[s].state = "active"
        BY <1>13, <3>4
      <4>2. CASE request[r].kind = "impersonate"
        BY <2>0, <3>2, <3>3, <3>4, <4>1, <4>2
      <4>3. CASE request[r].kind # "impersonate"
        BY <2>0, <3>2, <3>3, <4>1, <4>3
      <4> QED BY <4>2, <4>3
    <3>5. CASE ~new(s)
      <4>1. session'[s] = NoRow
        BY <1>14, <2>2, <3>5
      <4> QED BY <2>0, <3>2, <3>3, <3>5, <4>1 DEF NoRow
    <3> QED BY <3>4, <3>5
  <2> QED BY <2>1, <2>2
<1> QED BY <1>3, <1>4, <1>10, <1>11, <1>12, <1>15, <1>18, TransactionEnds

\* A step that changes no request and no row of sessions or of the audit log.
LEMMA SameRows ==
  ASSUME IInv, TypeOK', UNCHANGED <<session, audit, request, write>>
  PROVE  IInv'
<1>1. \A s \in Sid : /\ Exists(s)' = Exists(s)
                     /\ \A r \in Requests : Written(r, s)' = Written(r, s)
  BY DEF Exists, Written
<1>2. RowsOK' /\ LocksExclude' /\ AuditOK' /\ AuditMatchesSessions'
  BY DEF IInv, RowsOK, LocksExclude, Written, AuditOK, Exists, AuditMatchesSessions
<1>3. (\A s \in Sid : LinkedRow(session[s], s))'
  BY DEF IInv, LinkedRow, Exists
<1>4. (\A r \in Requests : RequestOK(r))'
  BY DEF IInv, RequestOK, Exists, Written, Link
<1>5. (\A r \in Requests, s \in Sid : WriteOK(r, s))'
  BY DEF IInv, WriteOK, Exists, Written, LinkedRow
<1> QED BY <1>2, <1>3, <1>4, <1>5 DEF IInv

\* Time passes.
LEMMA TickInv == ASSUME IInv, Tick PROVE IInv'
<1>1. now' \in Nat /\ UNCHANGED <<user, session, audit, request, write, stamp>>
  BY DEF Tick, IInv, TypeOK
<1>2. TypeOK'
  BY <1>1 DEF IInv, TypeOK
<1> QED BY <1>1, <1>2, SameRows

\* A status changes.
LEMMA AdministerInv == ASSUME IInv, Administer PROVE IInv'
<1>1. PICK u \in Users, status \in {"ACTIVE", "SUSPENDED"} :
        user' = [user EXCEPT ![u].status = status]
  BY DEF Administer
<1>2. UNCHANGED <<now, session, audit, request, write, stamp>>
  BY DEF Administer
<1>3. user' \in [Users -> UserRow]
  <2> DEFINE row == [user[u] EXCEPT !.status = status]
  <2>1. user[u] \in UserRow /\ status \in Status
    BY DEF IInv, TypeOK, Status
  <2>2. row \in UserRow
    BY <2>1 DEF UserRow
  <2>3. user' = [user EXCEPT ![u] = row]
    BY <1>1 DEF IInv, TypeOK
  <2> HIDE DEF row
  <2> QED BY <2>2, <2>3 DEF IInv, TypeOK
<1>4. TypeOK'
  BY <1>2, <1>3 DEF IInv, TypeOK
<1> QED BY <1>2, <1>4, SameRows

\* The invariant holds of the empty database.
LEMMA InitInv == ASSUME Init PROVE IInv
<1>1. /\ now = 0
      /\ user \in [Users -> UserRow]
      /\ session = [s \in Sid |-> NoRow]
      /\ audit = [s \in Sid |-> [start |-> 0, end |-> 0]]
      /\ request = [r \in Requests |-> NoRequest]
      /\ write = [r \in Requests |-> [s \in Sid |-> NoRow]]
      /\ stamp \in [Sid -> Stamp]
  BY DEF Init, UserRow, Role, Status, Stamp
<1>2. NoRequest \in RequestState /\ NoRow \in SessionRow
  BY DEF NoRequest, RequestState, Grant, Steps, Role, Stamp, NoRow, SessionRow
<1>3. TypeOK
  BY <1>1, <1>2 DEF TypeOK
<1>4. \A s \in Sid : session[s] = NoRow /\ ~Exists(s)
  BY <1>1 DEF Exists, NoRow
<1>5. \A r \in Requests, s \in Sid : write[r][s] = NoRow /\ ~Written(r, s)
  BY <1>1 DEF Written, NoRow
<1>6. RowsOK
  BY <1>4, <1>5 DEF RowsOK, RowOK, NoRow
<1>7. \A s \in Sid : LinkedRow(session[s], s)
  BY <1>4 DEF LinkedRow, NoRow
<1>8. ASSUME NEW r \in Requests PROVE RequestOK(r)
  <2>1. request[r] = NoRequest
    BY <1>1
  <2> QED BY <1>5, <2>1, NoneAssumption DEF RequestOK, NoRequest, Authenticated
<1>9. LocksExclude /\ \A r \in Requests, s \in Sid : WriteOK(r, s)
  BY <1>5 DEF LocksExclude, WriteOK
<1>10. AuditOK /\ AuditMatchesSessions
  BY <1>1, <1>4 DEF AuditOK, AuditMatchesSessions, NoRow
<1> QED BY <1>3, <1>6, <1>7, <1>8, <1>9, <1>10 DEF IInv

\* A stuttering step.
LEMMA StutterInv == ASSUME IInv, UNCHANGED vars PROVE IInv'
<1>1. UNCHANGED <<now, user, session, audit, request, write, stamp>>
  BY DEF vars
<1>2. TypeOK'
  BY <1>1 DEF IInv, TypeOK
<1> QED BY <1>1, <1>2, SameRows

-----------------------------------------------------------------------------
(* Theorems *)

\* The invariant is inductive: one case per action.
LEMMA StepInv == ASSUME IInv, [Next]_vars PROVE IInv'
<1>1. ASSUME NEW r \in Requests, Arrive(r) PROVE IInv'
  BY <1>1, ReceiveInv, LoginInv, ResetPasswordInv DEF Arrive
<1>2. ASSUME NEW r \in Requests, Step(r) PROVE IInv'
  <2>1. CASE Expire(r) BY <2>1, ExpireInv
  <2>2. CASE Slide(r) BY <2>2, SlideInv
  <2>3. CASE Create(r) BY <2>3, CreateInv
  <2>4. CASE Logout(r) BY <2>4, LogoutInv
  <2>5. CASE ChangePassword(r) BY <2>5, ChangePasswordInv
  <2>6. CASE RevokeAll(r) BY <2>6, RevokeAllInv
  <2>7. CASE RevokeOne(r) BY <2>7, RevokeOneInv
  <2>8. CASE Impersonate(r) BY <2>8, ImpersonateInv
  <2>9. CASE CheckStop(r) BY <2>9, CheckStopInv
  <2>10. CASE ExpireAdmin(r) BY <2>10, ExpireAdminInv
  <2>11. CASE FinishStop(r) BY <2>11, FinishStopInv
  <2>12. CASE SelectRole(r) BY <2>12, SelectRoleInv
  <2>13. CASE WriteRole(r) BY <2>13, WriteRoleInv
  <2>14. CASE Answer(r) BY <2>14, AnswerInv
  <2>15. CASE Commit(r) BY <2>15, CommitInv
  <2> QED BY <1>2, <2>1, <2>2, <2>3, <2>4, <2>5, <2>6, <2>7, <2>8, <2>9,
             <2>10, <2>11, <2>12, <2>13, <2>14, <2>15 DEF Step
<1>3. ASSUME NEW r \in Requests, RollBack(r) PROVE IInv'
  BY <1>3, RollBackInv
<1>4. CASE Tick BY <1>4, TickInv
<1>5. CASE Administer BY <1>5, AdministerInv
<1>6. CASE UNCHANGED vars BY <1>6, StutterInv
<1> QED BY <1>1, <1>2, <1>3, <1>4, <1>5, <1>6 DEF Next

\* At every moment of every execution each request knows what its next statement
\* relies on, row locks exclude each other, and open row versions agree with the
\* committed rows (one transaction per request, orm/base.py).
THEOREM Invariance == Spec => []IInv
<1>1. Init => IInv
  BY InitInv
<1>2. IInv /\ [Next]_vars => IInv'
  BY StepInv
<1> QED BY <1>1, <1>2, PTL DEF Spec

\* Every variable keeps its type.
THEOREM TypeCorrect == Spec => []TypeOK
<1>1. IInv => TypeOK
  BY DEF IInv
<1> QED BY <1>1, Invariance, PTL

\* The audit log agrees with the sessions (start_impersonation, stop_impersonation):
\* one START row per impersonation, at most one END row, and only when closed.
THEOREM AuditSafe == Spec => []AuditMatchesSessions
<1>1. IInv => AuditMatchesSessions
  BY DEF IInv
<1> QED BY <1>1, Invariance, PTL

\* Every impersonation session leads back to a session of its impersonator, who is
\* never its own user (start_impersonation).
THEOREM LinkSafe == Spec => []ImpersonationLinked
<1>1. IInv => ImpersonationLinked
  BY DEF IInv, ImpersonationLinked, LinkedRow, Exists
<1> QED BY <1>1, Invariance, PTL
=============================================================================
