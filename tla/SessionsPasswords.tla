-------------------------- MODULE SessionsPasswords --------------------------
(***************************************************************************)
(* Theorem: a change or reset of the password leaves no older session of   *)
(* the user open, but for one whose opening overlapped it.  The inductive  *)
(* invariant is PwInv of SessionsInv, on top of IInv.                      *)
(***************************************************************************)
EXTENDS SessionsProofs

\* What PwInv reads of a request; a change of a password may mark it as raced.
SamePw(q) ==
  /\ request'[q].kind = request[q].kind /\ request'[q].pc = request[q].pc
  /\ request'[q].uid = request[q].uid /\ request'[q].sid = request[q].sid
  /\ request'[q].todo = request[q].todo /\ request'[q].opens = request[q].opens
  /\ request'[q].stamp.pw = request[q].stamp.pw
  /\ request[q].stamp.raced => request'[q].stamp.raced
  /\ write'[q] = write[q]

\* No session is opened or handed over, no password changed.
NoneOpened ==
  /\ \A s \in Sid : session'[s].state = "active" =>
       session[s].state = "active" /\ session'[s].user_id = session[s].user_id
  /\ stamp' = stamp
  /\ \A u \in Users : user'[u].pw = user[u].pw

LEMMA Known ==
  ASSUME IInv
  PROVE  /\ \A q \in Requests : request[q] \in RequestState
         /\ \A q \in Requests : request[q].opens \in Users \cup {None}
         /\ \A s \in Sid : session[s].state = "active" => session[s].user_id \in Users
         /\ \A q \in Requests, u \in Users : HoldsUser(q, u) => request[q].uid = u
         /\ None \notin Users
BY NoneAssumption DEF IInv, TypeOK, RequestState, RowsOK, RowOK, HoldsUser

\* A user whose row is locked is a user.
LEMMA HolderKnown ==
  ASSUME IInv, NEW q \in Requests, HoldsUser(q, request[q].uid)
  PROVE  request[q].uid \in Users
<1>1. RequestOK(q) /\ request[q].kind \in {"password", "reset"}
      /\ request[q].pc \in {"logout_all", "revoke", "commit"}
  BY DEF IInv, HoldsUser
<1>2. CASE request[q].kind = "reset"
  BY <1>1, <1>2 DEF RequestOK
<1>3. CASE request[q].kind = "password"
  <2>1. request[q].sid \in Sid /\ Exists(request[q].sid)
        /\ request[q].uid = session[request[q].sid].user_id
    BY <1>1, <1>3 DEF RequestOK, Authenticated
  <2> QED BY <2>1 DEF IInv, RowsOK, RowOK, Exists
<1> QED BY <1>1, <1>2, <1>3

\* A step of one request that neither commits a password nor opens a session.
LEMMA PwStep ==
  ASSUME IInv, PwInv, NEW r \in Requests, NoneOpened,
         \A q \in Requests \ {r} : SamePw(q),
         PasswordOK(r)',
         \A u \in Users : HoldsUser(r, u)' =>
           \A q \in Requests \ {r} : ~HoldsUser(q, u),
         \A q \in Requests \ {r} : Revoking(q) /\ request'[r].opens = request[q].uid =>
           request'[r].stamp.raced
  PROVE  PwInv'
<1>1. ASSUME NEW q \in Requests PROVE PasswordOK(q)'
  <2>1. CASE q = r
    BY <2>1
  <2>2. CASE q # r
    <3>1. PasswordOK(q) /\ SamePw(q)
      BY <2>2 DEF PwInv
    <3>2. request[q].opens # None => user'[request[q].opens].pw = user[request[q].opens].pw
      BY Known DEF NoneOpened
    <3>3. Revoking(q)' <=> Revoking(q)
      BY <3>1 DEF SamePw, Revoking, HoldsUser
    <3>4. ASSUME Revoking(q), NEW p \in Requests, request'[p].opens = request[q].uid
          PROVE  request'[p].stamp.raced
      <4>1. CASE p = r
        BY <2>2, <3>4, <4>1
      <4>2. CASE p # r
        <5>1. SamePw(p)
          BY <4>2
        <5> QED BY <3>1, <3>4, <5>1 DEF PasswordOK, SamePw
      <4> QED BY <4>1, <4>2
    <3>5. ASSUME Revoking(q), NEW s \in Sid, session'[s].state = "active",
                 session'[s].user_id = request[q].uid, ~stamp[s].raced,
                 ~(request[q].kind = "password" /\ s = request[q].sid)
          PROVE  s \in request[q].todo \/ write[q][s].state = "inactive"
      BY <3>1, <3>5 DEF PasswordOK, NoneOpened
    <3> QED BY <3>1, <3>2, <3>3, <3>4, <3>5 DEF PasswordOK, SamePw, NoneOpened
  <2> QED BY <2>1, <2>2
<1>2. HoldersExclude'
  <2>1. \A q \in Requests \ {r}, u \in Users : HoldsUser(q, u)' <=> HoldsUser(q, u)
    BY DEF SamePw, HoldsUser
  <2> QED BY <2>1 DEF PwInv, HoldersExclude
<1>3. PasswordChangeRevokes'
  BY Known DEF PwInv, PasswordChangeRevokes, NoneOpened
<1> QED BY <1>1, <1>2, <1>3 DEF PwInv

\* The step of a request that holds no users row and opens nothing new.
LEMMA Quiet ==
  ASSUME IInv, PwInv, NEW r \in Requests, NoneOpened,
         \A q \in Requests \ {r} : SamePw(q),
         \/ request'[r].opens = None
         \/ /\ request'[r].opens = request[r].opens
            /\ request'[r].stamp = request[r].stamp,
         request'[r].kind \in {"password", "reset"} =>
           request'[r].opens = None /\ request'[r].pc \in {"expire", "slide", "password"},
         request'[r].pc # "revoke" => request'[r].todo = {}
  PROVE  PwInv'
<1>1. \A u \in Users : ~HoldsUser(r, u)'
  BY DEF HoldsUser
<1>2. ~Revoking(r)'
  BY DEF Revoking, HoldsUser
<1>3. PasswordOK(r)'
  <2>1. PasswordOK(r)
    BY DEF PwInv
  <2>2. request[r].opens # None => user'[request[r].opens].pw = user[request[r].opens].pw
    BY Known DEF NoneOpened
  <2> QED BY <1>2, <2>1, <2>2 DEF PasswordOK
<1>4. ASSUME NEW q \in Requests \ {r}, Revoking(q), request'[r].opens = request[q].uid
      PROVE  request'[r].stamp.raced
  <2>1. request[q].uid \in Users /\ PasswordOK(q)
    BY <1>4, HolderKnown DEF Revoking, PwInv
  <2>2. request'[r].opens # None
    BY <1>4, <2>1, Known
  <2> QED BY <1>4, <2>1, <2>2 DEF PasswordOK
<1> QED BY <1>1, <1>3, <1>4, PwStep

\* The other requests are untouched, and so are their rows.
LEMMA OnlyOne ==
  ASSUME IInv, NEW r \in Requests, NEW new, request' = [request EXCEPT ![r] = new],
         \A q \in Requests \ {r} : write'[q] = write[q]
  PROVE  request'[r] = new /\ \A q \in Requests \ {r} : SamePw(q)
BY DEF IInv, TypeOK, SamePw

LEMMA ReceivePw ==
  ASSUME IInv, PwInv, NEW r \in Requests, Receive(r) PROVE PwInv'
<1>1. PICK k \in Authenticated, s \in Sid, pc \in {"expire", "slide"} :
        request' = [request EXCEPT ![r] =
          [NoRequest EXCEPT !.pc = pc, !.kind = k, !.sid = s, !.at = now]]
  BY DEF Receive
<1> DEFINE new == [NoRequest EXCEPT !.pc = pc, !.kind = k, !.sid = s, !.at = now]
<1>2. new.pc = pc /\ new.opens = None /\ new.todo = {}
  BY DEF NoRequest
<1>3. request' = [request EXCEPT ![r] = new] /\ write' = write /\ NoneOpened
  BY <1>1 DEF Receive, NoneOpened
<1> HIDE DEF new
<1>4. request'[r] = new /\ \A q \in Requests \ {r} : SamePw(q)
  BY <1>3, OnlyOne
<1> QED BY <1>2, <1>3, <1>4, Quiet

LEMMA EndPw ==
  ASSUME IInv, PwInv, NEW r \in Requests, Expire(r) \/ RollBack(r) PROVE PwInv'
<1>1. /\ request' = [request EXCEPT ![r] = NoRequest]
      /\ \A q \in Requests \ {r} : write'[q] = write[q]
  BY DEF Expire, RollBack, IInv, TypeOK
<1>2. NoRequest.kind = "none" /\ NoRequest.opens = None /\ NoRequest.todo = {}
  BY DEF NoRequest
<1>3. NoneOpened
  <2>1. CASE RollBack(r)
    BY <2>1 DEF RollBack, NoneOpened
  <2>2. CASE Expire(r)
    <3>1. PICK k \in Sid : Exists(k) /\ session' = [session EXCEPT ![k] = Deactivated(@)]
      BY <2>2 DEF Expire, IInv, RequestOK
    <3>2. Deactivated(session[k]).state = "inactive"
      BY <3>1, DeactivatedRow DEF IInv, TypeOK, Exists
    <3>3. \A s \in Sid : session'[s].state = "active" => session'[s] = session[s]
      BY <3>1, <3>2 DEF IInv, TypeOK
    <3> QED BY <2>2, <3>3 DEF Expire, NoneOpened
  <2> QED BY <2>1, <2>2
<1>4. request'[r] = NoRequest /\ \A q \in Requests \ {r} : SamePw(q)
  BY <1>1, OnlyOne
<1> QED BY <1>2, <1>3, <1>4, Quiet

\* The history value of a request that opens a session for u.
LEMMA Stamped ==
  ASSUME IInv, NEW u \in Users
  PROVE  /\ StampFor(u).pw = user[u].pw
         /\ StampFor(u).raced <=> \E q \in Requests : Revoking(q) /\ request[q].uid = u
<1>1. ChangeUnderWay(u) \in BOOLEAN
  BY DEF ChangeUnderWay
<1>2. ChangeUnderWay(u) <=> \E q \in Requests : Revoking(q) /\ request[q].uid = u
  BY DEF ChangeUnderWay, Revoking, HoldsUser
<1> QED BY <1>1, <1>2 DEF StampFor

\* The step of a request that opens a session.
LEMMA Opening ==
  ASSUME IInv, PwInv, NEW r \in Requests, NoneOpened,
         \A q \in Requests \ {r} : SamePw(q),
         request'[r].kind \in {"login", "impersonate"}, request'[r].todo = {},
         NEW u \in Users, request'[r].opens = u, request'[r].stamp = StampFor(u)
  PROVE  PwInv'
<1>1. ~Revoking(r)' /\ \A v \in Users : ~HoldsUser(r, v)'
  BY DEF Revoking, HoldsUser
<1>2. PasswordOK(r)'
  BY <1>1, Stamped DEF PasswordOK, NoneOpened
<1>3. ASSUME NEW q \in Requests \ {r}, Revoking(q), request'[r].opens = request[q].uid
      PROVE  request'[r].stamp.raced
  BY <1>3, Stamped
<1> QED BY <1>1, <1>2, <1>3, PwStep

\* What a step of another kind of request leaves: its rows may change.
LEMMA OtherKind ==
  ASSUME IInv, PwInv, NEW r \in Requests, UNCHANGED <<user, session, stamp>>,
         \A q \in Requests \ {r} : SamePw(q),
         request'[r].kind \notin {"password", "reset"}, request'[r].opens = request[r].opens,
         request'[r].stamp = request[r].stamp,
         request'[r].pc # "revoke" => request'[r].todo = {}
  PROVE  PwInv'
<1>1. NoneOpened
  BY DEF NoneOpened
<1> QED BY <1>1, Quiet

LEMMA SlidePw ==
  ASSUME IInv, PwInv, NEW r \in Requests, Slide(r) PROVE PwInv'
<1> DEFINE u == session[request[r].sid].user_id
           pc == IF request[r].kind = "me" THEN "commit" ELSE request[r].kind
           role == user[u].role
           new == [request[r] EXCEPT !.pc = pc, !.uid = u, !.role = role]
<1>1. /\ request[r].pc = "slide" /\ request' = [request EXCEPT ![r] = new]
      /\ \A q \in Requests \ {r} : write'[q] = write[q]
      /\ UNCHANGED <<user, session, stamp>>
  BY DEF Slide, IInv, TypeOK
<1>2. request[r] \in RequestState /\ PasswordOK(r) /\ request[r].kind \in Authenticated
  BY <1>1, Known DEF PwInv, IInv, RequestOK
<1>3. /\ new.pc = pc /\ new.kind = request[r].kind /\ new.opens = request[r].opens
      /\ new.stamp = request[r].stamp /\ new.todo = {}
  BY <1>1, <1>2 DEF RequestState, PasswordOK
<1> HIDE DEF new
<1>4. request'[r] = new /\ \A q \in Requests \ {r} : SamePw(q)
  BY <1>1, OnlyOne
<1>5. NoneOpened
  BY <1>1 DEF NoneOpened
<1>6. request[r].kind \in {"password", "reset"} =>
        pc = "password" /\ request[r].opens = None
  BY <1>2 DEF Authenticated, PasswordOK
<1> QED BY <1>3, <1>4, <1>5, <1>6, Quiet

\* What the requests that are not about passwords do after their slide.
LEMMA OtherSteps ==
  ASSUME IInv, PwInv, NEW r \in Requests,
         \/ Create(r) \/ Logout(r) \/ CheckStop(r) \/ ExpireAdmin(r)
         \/ FinishStop(r) \/ SelectRole(r) \/ WriteRole(r) \/ Answer(r)
  PROVE  PwInv'
<1>1. request[r] \in RequestState /\ PasswordOK(r) /\ RequestOK(r)
  BY Known DEF PwInv, IInv
<1>2. /\ request[r].kind \notin {"password", "reset"} /\ request[r].todo = {}
      /\ UNCHANGED <<user, session, stamp>>
  <2>1. request[r].pc \in {"login", "logout", "stop", "stop_expire", "stop_finish",
                          "roles", "roles_write", "impersonate"}
    BY DEF Create, Logout, CheckStop, ExpireAdmin, FinishStop, SelectRole, WriteRole, Answer
  <2> QED BY <1>1, <2>1 DEF PasswordOK, Create, Logout, CheckStop, ExpireAdmin,
                            FinishStop, SelectRole, WriteRole, Answer
<1>3. \A q \in Requests \ {r} : write'[q] = write[q]
  BY DEF Create, Logout, CheckStop, ExpireAdmin, FinishStop, SelectRole, WriteRole, Answer,
         IInv, TypeOK
<1> DEFINE Same(new) ==
      /\ new.kind \in {request[r].kind, "me"} /\ new.opens = request[r].opens
      /\ new.stamp = request[r].stamp /\ new.pc # "revoke" /\ new.todo = request[r].todo
<1>4. ASSUME NEW new, request' = [request EXCEPT ![r] = new], Same(new) PROVE PwInv'
  <2>1. request'[r] = new /\ \A q \in Requests \ {r} : SamePw(q)
    BY <1>3, <1>4, OnlyOne
  <2> QED BY <1>2, <1>4, <2>1, OtherKind
<1>5. CASE Create(r) \/ Logout(r) \/ ExpireAdmin(r) \/ WriteRole(r)
  <2> DEFINE new == [request[r] EXCEPT !.pc = "commit"]
  <2>1. request' = [request EXCEPT ![r] = new]
    BY <1>5 DEF Create, Logout, ExpireAdmin, WriteRole
  <2>2. Same(new)
    BY <1>1 DEF RequestState
  <2> HIDE DEF new, Same
  <2> QED BY <1>4, <2>1, <2>2
<1>6. CASE CheckStop(r)
  <2>1. PICK pc \in {"commit", "stop_expire", "stop_finish"} :
          request' = [request EXCEPT ![r] = [@ EXCEPT !.pc = pc, !.at = now]]
    BY <1>6 DEF CheckStop
  <2> DEFINE new == [request[r] EXCEPT !.pc = pc, !.at = now]
  <2>2. request' = [request EXCEPT ![r] = new]
    BY <2>1
  <2>3. Same(new)
    BY <1>1 DEF RequestState
  <2> HIDE DEF new, Same
  <2> QED BY <1>4, <2>2, <2>3
<1>7. CASE FinishStop(r)
  <2>1. \E ends : request' = [request EXCEPT ![r] =
                               [@ EXCEPT !.pc = "commit", !.ends = ends]]
    BY <1>7 DEF FinishStop
  <2>2. PICK ends : request' = [request EXCEPT ![r] =
                                 [@ EXCEPT !.pc = "commit", !.ends = ends]]
    BY <2>1
  <2> DEFINE new == [request[r] EXCEPT !.pc = "commit", !.ends = ends]
  <2>3. request' = [request EXCEPT ![r] = new]
    BY <2>2
  <2>4. Same(new)
    BY <1>1 DEF RequestState
  <2> HIDE DEF new, Same
  <2> QED BY <1>4, <2>3, <2>4
<1>8. CASE SelectRole(r)
  <2>1. \E g : request' = [request EXCEPT ![r] =
                            [@ EXCEPT !.pc = "roles_write", !.grant = g]]
    BY <1>8 DEF SelectRole
  <2>2. PICK g : request' = [request EXCEPT ![r] =
                              [@ EXCEPT !.pc = "roles_write", !.grant = g]]
    BY <2>1
  <2> DEFINE new == [request[r] EXCEPT !.pc = "roles_write", !.grant = g]
  <2>3. request' = [request EXCEPT ![r] = new]
    BY <2>2
  <2>4. Same(new)
    BY <1>1 DEF RequestState
  <2> HIDE DEF new, Same
  <2> QED BY <1>4, <2>3, <2>4
<1>9. CASE Answer(r)
  <2> DEFINE new == [request[r] EXCEPT !.pc = "commit", !.kind = "me"]
  <2>1. request' = [request EXCEPT ![r] = new]
    BY <1>9 DEF Answer
  <2>2. Same(new)
    BY <1>1 DEF RequestState
  <2> HIDE DEF new, Same
  <2> QED BY <1>4, <2>1, <2>2
<1> QED BY <1>5, <1>6, <1>7, <1>8, <1>9

LEMMA LoginPw ==
  ASSUME IInv, PwInv, NEW r \in Requests, Login(r) PROVE PwInv'
<1>1. PICK u \in Users :
        request' = [request EXCEPT ![r] =
          [NoRequest EXCEPT !.pc = "login", !.kind = "login", !.uid = u, !.opens = u,
                            !.stamp = StampFor(u)]]
  BY DEF Login
<1> DEFINE st == StampFor(u)
           new == [NoRequest EXCEPT !.pc = "login", !.kind = "login", !.uid = u,
                                    !.opens = u, !.stamp = st]
<1>2. request' = [request EXCEPT ![r] = new] /\ write' = write /\ NoneOpened
  BY <1>1 DEF Login, NoneOpened
<1> HIDE DEF st
<1>3. new.kind = "login" /\ new.todo = {} /\ new.opens = u /\ new.stamp = st
  BY DEF NoRequest
<1> HIDE DEF new
<1>4. request'[r] = new /\ \A q \in Requests \ {r} : SamePw(q)
  BY <1>2, OnlyOne
<1> QED BY <1>2, <1>3, <1>4, Opening DEF st

LEMMA ImpersonatePw ==
  ASSUME IInv, PwInv, NEW r \in Requests, Impersonate(r) PROVE PwInv'
<1>1. PICK u \in Users :
        request' = [request EXCEPT ![r] =
          [@ EXCEPT !.pc = "commit", !.opens = u, !.stamp = StampFor(u)]]
  BY DEF Impersonate
<1> DEFINE st == StampFor(u)
           new == [request[r] EXCEPT !.pc = "commit", !.opens = u, !.stamp = st]
<1>2. /\ request' = [request EXCEPT ![r] = new] /\ NoneOpened
      /\ \A q \in Requests \ {r} : write'[q] = write[q]
  BY <1>1 DEF Impersonate, NoneOpened, IInv, TypeOK
<1> HIDE DEF st
<1>3. /\ request[r] \in RequestState /\ request[r].kind = "impersonate"
      /\ request[r].todo = {}
  BY Known DEF Impersonate, PwInv, IInv, RequestOK, PasswordOK
<1>4. new.kind = "impersonate" /\ new.todo = {} /\ new.opens = u /\ new.stamp = st
  BY <1>3 DEF RequestState
<1> HIDE DEF new
<1>5. request'[r] = new /\ \A q \in Requests \ {r} : SamePw(q)
  BY <1>2, OnlyOne
<1> QED BY <1>2, <1>4, <1>5, Opening DEF st

\* A change takes the lock of its user's row.
LEMMA Locking ==
  ASSUME IInv, PwInv, NEW r \in Requests, NoneOpened,
         \A q \in Requests \ {r} : SamePw(q), NEW u \in Users, CanLockUser(r, u),
         request'[r].pc = "logout_all", request'[r].kind \in {"password", "reset"},
         request'[r].uid = u, request'[r].opens = None, request'[r].todo = {}
  PROVE  PwInv'
<1>1. PasswordOK(r)'
  BY DEF PasswordOK, Revoking
<1>2. \A v \in Users : HoldsUser(r, v)' => \A q \in Requests \ {r} : ~HoldsUser(q, v)
  BY DEF HoldsUser, CanLockUser
<1>3. \A q \in Requests \ {r} : Revoking(q) => request[q].uid # None
  BY HolderKnown, Known DEF Revoking
<1> QED BY <1>1, <1>2, <1>3, PwStep

LEMMA ChangePasswordPw ==
  ASSUME IInv, PwInv, NEW r \in Requests, ChangePassword(r) PROVE PwInv'
<1> DEFINE new == [request[r] EXCEPT !.pc = "logout_all"]
           u == request[r].uid
<1>1. /\ request[r].pc = "password" /\ CanLockUser(r, u) /\ write' = write
      /\ request' = [request EXCEPT ![r] = new] /\ NoneOpened
  BY DEF ChangePassword, NoneOpened
<1>2. request[r].kind = "password" /\ request[r].sid \in Sid /\ Exists(request[r].sid)
      /\ u = session[request[r].sid].user_id /\ PasswordOK(r)
  BY <1>1 DEF IInv, PwInv, RequestOK, Authenticated
<1>3. u \in Users
  BY <1>2 DEF IInv, RowsOK, RowOK, Exists
<1>4. /\ new.pc = "logout_all" /\ new.kind = "password" /\ new.uid = u
      /\ new.opens = None /\ new.todo = {}
  BY <1>1, <1>2, Known DEF RequestState, PasswordOK
<1> HIDE DEF new
<1>5. request'[r] = new /\ \A q \in Requests \ {r} : SamePw(q)
  BY <1>1, OnlyOne
<1> QED BY <1>1, <1>3, <1>4, <1>5, Locking

LEMMA ResetPasswordPw ==
  ASSUME IInv, PwInv, NEW r \in Requests, ResetPassword(r) PROVE PwInv'
<1>1. PICK u \in Users :
        /\ CanLockUser(r, u)
        /\ request' = [request EXCEPT ![r] =
             [NoRequest EXCEPT !.pc = "logout_all", !.kind = "reset", !.uid = u]]
  BY DEF ResetPassword
<1> DEFINE new == [NoRequest EXCEPT !.pc = "logout_all", !.kind = "reset", !.uid = u]
<1>2. request' = [request EXCEPT ![r] = new] /\ write' = write /\ NoneOpened
  BY <1>1 DEF ResetPassword, NoneOpened
<1>3. /\ new.pc = "logout_all" /\ new.kind = "reset" /\ new.uid = u
      /\ new.opens = None /\ new.todo = {}
  BY DEF NoRequest
<1> HIDE DEF new
<1>4. request'[r] = new /\ \A q \in Requests \ {r} : SamePw(q)
  BY <1>2, OnlyOne
<1> QED BY <1>1, <1>2, <1>3, <1>4, Locking

\* The selection of revoke_all_for_user: it sees every session of the user
\* that is open, and marks those that are being opened.
LEMMA RevokeAllPw ==
  ASSUME IInv, PwInv, NEW r \in Requests, RevokeAll(r) PROVE PwInv'
<1> DEFINE rows == Revocable(r)
           pc == IF rows = {} THEN "commit" ELSE "revoke"
           own == [request[r] EXCEPT !.todo = rows, !.pc = pc]
           changes == request[r].kind \in {"password", "reset"}
           marked(q) == [request[q] EXCEPT !.stamp.raced = TRUE]
<1>1. /\ request[r].pc = "logout_all" /\ UNCHANGED <<user, session, write, stamp>>
      /\ request' = [q \in Requests |->
           IF q = r THEN own
           ELSE IF changes /\ request[q].opens = request[r].uid THEN marked(q)
           ELSE request[q]]
  BY DEF RevokeAll
<1>2. \A q \in Requests : request[q] \in RequestState /\ PasswordOK(q)
  BY Known DEF PwInv
<1>3. /\ own.pc = pc /\ own.kind = request[r].kind /\ own.uid = request[r].uid
      /\ own.sid = request[r].sid /\ own.todo = rows /\ own.opens = request[r].opens
      /\ own.stamp = request[r].stamp
  BY <1>2 DEF RequestState
<1>4. request'[r] = own
  BY <1>1
<1>5. ASSUME NEW q \in Requests \ {r}
      PROVE  SamePw(q) /\ (changes /\ request[q].opens = request[r].uid =>
                             request'[q].stamp.raced)
  <2>1. request'[q] = IF changes /\ request[q].opens = request[r].uid
                        THEN marked(q) ELSE request[q]
    BY <1>1
  <2>2. write'[q] = write[q] /\ request[q].stamp \in Stamp
    BY <1>1, <1>2 DEF RequestState
  <2>3. marked(q).stamp = [request[q].stamp EXCEPT !.raced = TRUE]
    BY <1>2 DEF RequestState
  <2>4. marked(q).stamp.raced /\ marked(q).stamp.pw = request[q].stamp.pw
    BY <2>2, <2>3 DEF Stamp
  <2>5. /\ marked(q).pc = request[q].pc /\ marked(q).kind = request[q].kind
        /\ marked(q).uid = request[q].uid /\ marked(q).sid = request[q].sid
        /\ marked(q).todo = request[q].todo /\ marked(q).opens = request[q].opens
    BY <1>2 DEF RequestState
  <2> DEFINE m == marked(q)
  <2> HIDE DEF m
  <2>6. CASE changes /\ request[q].opens = request[r].uid
    <3>1. request'[q] = m
      BY <2>1, <2>6 DEF m
    <3> QED BY <2>2, <2>4, <2>5, <3>1 DEF SamePw, m
  <2>7. CASE ~(changes /\ request[q].opens = request[r].uid)
    BY <2>1, <2>2, <2>7 DEF SamePw
  <2> QED BY <2>6, <2>7
<1>6. NoneOpened
  BY <1>1 DEF NoneOpened
<1>7. pc \in {"commit", "revoke"} /\ (pc # "revoke" => rows = {})
  OBVIOUS
<1> HIDE DEF own, pc
<1>8. CASE ~changes
  <2>1. request'[r].kind \notin {"password", "reset"}
    BY <1>3, <1>4, <1>8
  <2> QED BY <1>3, <1>4, <1>5, <1>6, <1>7, <2>1, Quiet
<1>9. CASE changes
  <2>1. HoldsUser(r, request[r].uid) /\ request[r].uid \in Users /\ request[r].opens = None
    <3>1. HoldsUser(r, request[r].uid)
      BY <1>1, <1>9 DEF HoldsUser
    <3> QED BY <1>2, <1>9, <3>1, HolderKnown DEF PasswordOK
  <2>2. ASSUME NEW s \in Sid, session[s].state = "active",
               session[s].user_id = request[r].uid,
               ~(request[r].kind = "password" /\ s = request[r].sid)
        PROVE  s \in rows \/ write[r][s].state = "inactive"
    <3>1. CASE Written(r, s)
      <4>1. Keeps(write[r][s], session[s])
        BY <2>2, <3>1 DEF IInv, WriteOK, Exists
      <4>2. write[r][s].state \in {"active", "inactive"}
            /\ write[r][s].user_id = request[r].uid /\ View(r, s) = write[r][s]
        BY <2>2, <3>1, <4>1 DEF Keeps, View, Written
      <4> QED BY <2>2, <4>2 DEF Revocable
    <3>2. CASE ~Written(r, s)
      <4>1. View(r, s) = session[s]
        BY <3>2 DEF View, Written
      <4> QED BY <2>2, <4>1 DEF Revocable
    <3> QED BY <3>1, <3>2
  <2>3. \A p \in Requests : request'[p].opens = request[r].uid => request'[p].stamp.raced
    <3> SUFFICES ASSUME NEW p \in Requests, request'[p].opens = request[r].uid
                 PROVE  request'[p].stamp.raced
      OBVIOUS
    <3>1. p # r
      BY <1>3, <1>4, <2>1, Known
    <3> QED BY <1>5, <1>9, <3>1 DEF SamePw
  <2> HIDE DEF rows
  <2>4. PasswordOK(r)'
    BY <1>1, <1>3, <1>4, <1>7, <2>1, <2>2, <2>3 DEF PasswordOK
  <2>5. \A v \in Users : HoldsUser(r, v)' => \A q \in Requests \ {r} : ~HoldsUser(q, v)
    <3>1. \A v \in Users : HoldsUser(r, v)' => v = request[r].uid
      BY <1>3, <1>4 DEF HoldsUser
    <3> QED BY <2>1, <3>1 DEF PwInv, HoldersExclude
  <2>6. \A q \in Requests \ {r} : Revoking(q) => request[q].uid # None
    BY HolderKnown, Known DEF Revoking
  <2>7. request'[r].opens = None
    BY <1>3, <1>4, <2>1
  <2> QED BY <1>5, <1>6, <2>4, <2>5, <2>6, <2>7, PwStep
<1> QED BY <1>8, <1>9

\* One row of a revocation.
LEMMA RevokeOnePw ==
  ASSUME IInv, PwInv, NEW r \in Requests, RevokeOne(r) PROVE PwInv'
<1>1. PICK k \in request[r].todo :
        /\ write' = IF View(r, k).state = "active"
                      THEN [write EXCEPT ![r][k] = Deactivated(View(r, k))] ELSE write
        /\ request' = [request EXCEPT ![r] =
             [@ EXCEPT !.todo = Remaining(r, k),
                       !.pc = IF Remaining(r, k) = {} THEN "commit" ELSE "revoke"]]
  BY DEF RevokeOne
<1> DEFINE rest == Remaining(r, k)
           pc == IF rest = {} THEN "commit" ELSE "revoke"
           new == [request[r] EXCEPT !.todo = rest, !.pc = pc]
<1>2. /\ request[r] \in RequestState /\ PasswordOK(r) /\ RequestOK(r)
      /\ request[r].pc = "revoke" /\ k \in Sid
  BY Known DEF PwInv, IInv, RevokeOne, RequestState
<1>3. /\ new.pc = pc /\ new.kind = request[r].kind /\ new.uid = request[r].uid
      /\ new.sid = request[r].sid /\ new.todo = rest /\ new.opens = request[r].opens
      /\ new.stamp = request[r].stamp
  BY <1>2 DEF RequestState
<1>4. request' = [request EXCEPT ![r] = new] /\ UNCHANGED <<user, session, stamp>>
      /\ \A q \in Requests \ {r} : write'[q] = write[q]
  BY <1>1 DEF RevokeOne, IInv, TypeOK
<1>5. pc \in {"commit", "revoke"} /\ (pc # "revoke" => rest = {})
      /\ rest = request[r].todo \ {k}
  BY DEF Remaining
<1> HIDE DEF new, pc, rest
<1>6. request'[r] = new /\ \A q \in Requests \ {r} : SamePw(q)
  BY <1>4, OnlyOne
<1>7. NoneOpened
  BY <1>4 DEF NoneOpened
<1>8. CASE request[r].kind \notin {"password", "reset"}
  <2>1. request'[r].kind \notin {"password", "reset"}
    BY <1>3, <1>6, <1>8
  <2> QED BY <1>3, <1>5, <1>6, <1>7, <2>1, Quiet
<1>9. CASE request[r].kind \in {"password", "reset"}
  <2>1. Revoking(r) /\ HoldsUser(r, request[r].uid) /\ request[r].opens = None
    BY <1>2, <1>9 DEF HoldsUser, Revoking, PasswordOK
  <2>2. ASSUME NEW s \in Sid, session[s].state = "active", s \notin rest,
               s \in request[r].todo \/ write[r][s].state = "inactive"
        PROVE  write'[r][s].state = "inactive"
    <3>1. CASE s # k
      <4>1. write'[r][s] = write[r][s]
        BY <1>1, <1>2, <3>1 DEF IInv, TypeOK
      <4> QED BY <1>5, <2>2, <3>1, <4>1
    <3>2. CASE s = k /\ View(r, k).state = "active"
      <4>1. View(r, k) \in SessionRow
        BY <1>2 DEF IInv, TypeOK, View
      <4>2. write'[r][k] = Deactivated(View(r, k))
        BY <1>1, <1>2, <3>2 DEF IInv, TypeOK
      <4> QED BY <3>2, <4>1, <4>2, DeactivatedRow
    <3>3. CASE s = k /\ View(r, k).state # "active"
      <4>1. write' = write /\ Written(r, k)
        BY <1>1, <2>2, <3>3 DEF View, Written
      <4>2. Keeps(write[r][k], session[k])
        BY <1>2, <2>2, <3>3, <4>1 DEF IInv, WriteOK, Exists
      <4> QED BY <2>2, <3>3, <4>1, <4>2 DEF Keeps, View, Written
    <3> QED BY <3>1, <3>2, <3>3
  <2>3. \A p \in Requests : request'[p].opens = request[r].uid => request'[p].stamp.raced
    <3>1. \A p \in Requests : request[p].opens = request[r].uid => request[p].stamp.raced
      BY <1>2, <2>1 DEF PasswordOK
    <3>2. request'[r].opens = request[r].opens /\ request'[r].stamp = request[r].stamp
      BY <1>3, <1>6
    <3> QED BY <1>6, <3>1, <3>2 DEF SamePw
  <2>4. PasswordOK(r)'
    <3>1. ASSUME NEW s \in Sid, session[s].state = "active",
                 session[s].user_id = request[r].uid, ~stamp[s].raced,
                 ~(request[r].kind = "password" /\ s = request[r].sid)
          PROVE  s \in rest \/ write'[r][s].state = "inactive"
      <4>1. s \in request[r].todo \/ write[r][s].state = "inactive"
        BY <1>2, <2>1, <3>1 DEF PasswordOK
      <4> QED BY <2>2, <3>1, <4>1
    <3> QED BY <1>2, <1>3, <1>4, <1>5, <1>6, <1>9, <2>1, <2>3, <3>1 DEF PasswordOK
  <2>5. \A v \in Users : HoldsUser(r, v)' => \A q \in Requests \ {r} : ~HoldsUser(q, v)
    <3>1. \A v \in Users : HoldsUser(r, v)' => HoldsUser(r, v)
      BY <1>2, <1>3, <1>6 DEF HoldsUser
    <3> QED BY <3>1 DEF PwInv, HoldersExclude
  <2>6. \A q \in Requests \ {r} : Revoking(q) => request[q].uid # None
    BY HolderKnown, Known DEF Revoking
  <2>7. request'[r].opens = None
    BY <1>3, <1>6, <2>1
  <2> QED BY <1>6, <1>7, <2>4, <2>5, <2>6, <2>7, PwStep
<1> QED BY <1>8, <1>9

\* Where an open session and its history value come from at a commit.
LEMMA CommitSession ==
  ASSUME IInv, NEW r \in Requests, Commit(r), NEW s \in Sid,
         session'[s].state = "active"
  PROVE  \/ /\ session[s].state = "active" /\ session'[s].user_id = session[s].user_id
            /\ write[r][s].state # "inactive"
            /\ stamp'[s] = IF request[r].kind = "password" /\ s = request[r].sid
                             THEN [pw |-> user[request[r].uid].pw + 1, raced |-> FALSE]
                             ELSE stamp[s]
         \/ /\ request[r].kind \in {"login", "impersonate"}
            /\ request[r].opens = session'[s].user_id
            /\ stamp'[s] = request[r].stamp
<1>1. /\ session'[s] = View(r, s)
      /\ stamp'[s] =
           IF session[s].state = "absent" /\ write[r][s].state # "absent"
             THEN request[r].stamp
           ELSE IF request[r].kind = "password" /\ s = request[r].sid
             THEN [pw |-> user[request[r].uid].pw + 1, raced |-> FALSE]
           ELSE stamp[s]
  BY DEF Commit
<1>2. CASE Exists(s)
  <2>1. Written(r, s) => Keeps(write[r][s], session[s])
    BY <1>2 DEF IInv, WriteOK
  <2>2. /\ session[s].state = "active" /\ session'[s].user_id = session[s].user_id
        /\ write[r][s].state # "inactive"
    BY <1>1, <2>1 DEF Keeps, View, Written
  <2> QED BY <1>1, <1>2, <2>2 DEF Exists
<1>3. CASE ~Exists(s)
  <2>1. Written(r, s) /\ session'[s] = write[r][s]
    BY <1>1, <1>3 DEF View, Written, Exists
  <2>2. /\ request[r].kind \in {"login", "impersonate"}
        /\ write[r][s].user_id = request[r].opens
    BY <1>3, <2>1 DEF IInv, WriteOK
  <2> QED BY <1>1, <1>3, <2>1, <2>2 DEF Exists, Written
<1> QED BY <1>2, <1>3

\* The passwords and the other requests after a commit.
LEMMA CommitOthers ==
  ASSUME IInv, NEW r \in Requests, Commit(r)
  PROVE  /\ request'[r] = NoRequest
         /\ \A q \in Requests \ {r} : SamePw(q)
         /\ \A u \in Users :
              user'[u].pw = IF Revoking(r) /\ request[r].uid = u
                              THEN user[u].pw + 1 ELSE user[u].pw
<1>1. \A q \in Requests : request[q] \in RequestState
  BY Known
<1>2. request[r].pc = "commit" /\ write' = [write EXCEPT ![r] = [s \in Sid |-> NoRow]]
      /\ user' = [u \in Users |-> NewUser(r, u)]
      /\ request' = [p \in Requests |->
           IF p = r THEN NoRequest
           ELSE IF SetsRole(r, request[r].grant.uid) /\ Invalidates(p, request[r].grant.uid)
             THEN [request[p] EXCEPT !.grant.raced = TRUE]
           ELSE request[p]]
  BY DEF Commit
<1>3. \A q \in Requests \ {r} : write'[q] = write[q]
  BY <1>2 DEF IInv, TypeOK
<1>4. ASSUME NEW q \in Requests \ {r} PROVE SamePw(q)
  <2> DEFINE m == [request[q] EXCEPT !.grant.raced = TRUE]
  <2>1. /\ m.pc = request[q].pc /\ m.kind = request[q].kind /\ m.uid = request[q].uid
        /\ m.sid = request[q].sid /\ m.todo = request[q].todo
        /\ m.opens = request[q].opens /\ m.stamp = request[q].stamp
    BY <1>1 DEF RequestState
  <2>2. request'[q] = m \/ request'[q] = request[q]
    BY <1>2
  <2> HIDE DEF m
  <2> QED BY <1>3, <2>1, <2>2 DEF SamePw
<1>5. ASSUME NEW u \in Users
      PROVE  user'[u].pw = IF Revoking(r) /\ request[r].uid = u
                             THEN user[u].pw + 1 ELSE user[u].pw
  <2>1. user[u] \in UserRow /\ user'[u] = NewUser(r, u)
    BY <1>2 DEF IInv, TypeOK
  <2>2. Revoking(r) <=> request[r].kind \in {"password", "reset"}
    BY <1>2 DEF Revoking, HoldsUser
  <2>3. NewUser(r, u).pw =
          IF request[r].kind \in {"password", "reset"} /\ request[r].uid = u
            THEN user[u].pw + 1 ELSE user[u].pw
    BY <2>1 DEF NewUser, UserRow
  <2> QED BY <2>1, <2>2, <2>3
<1> QED BY <1>2, <1>4, <1>5

LEMMA CommitPw ==
  ASSUME IInv, PwInv, NEW r \in Requests, Commit(r) PROVE PwInv'
<1>1. /\ request'[r] = NoRequest /\ \A q \in Requests \ {r} : SamePw(q)
      /\ \A u \in Users :
           user'[u].pw = IF Revoking(r) /\ request[r].uid = u
                           THEN user[u].pw + 1 ELSE user[u].pw
  BY CommitOthers
<1>2. /\ NoRequest.kind = "none" /\ NoRequest.pc = "idle" /\ NoRequest.opens = None
      /\ NoRequest.todo = {}
  BY DEF NoRequest
<1>3. PasswordOK(r) /\ request[r].todo = {} /\ request[r].pc = "commit"
  BY DEF PwInv, PasswordOK, Commit
\* The user of a session that the password route keeps.
<1>4. request[r].kind = "password" =>
        Revoking(r) /\ request[r].uid = session[request[r].sid].user_id
  BY <1>3 DEF IInv, RequestOK, Authenticated, Revoking, HoldsUser
<1>5. Revoking(r) => request[r].uid \in Users /\ HoldsUser(r, request[r].uid)
                     /\ request[r].kind \in {"password", "reset"}
  BY HolderKnown DEF Revoking, HoldsUser
<1>6. PasswordOK(r)'
  BY <1>1, <1>2 DEF PasswordOK, Revoking, HoldsUser
<1>7. ASSUME NEW q \in Requests \ {r} PROVE PasswordOK(q)'
  <2>1. PasswordOK(q) /\ SamePw(q)
    BY <1>1 DEF PwInv
  <2>2. Revoking(q)' <=> Revoking(q)
    BY <2>1 DEF SamePw, Revoking, HoldsUser
  <2>3. ASSUME request[q].opens # None, ~request[q].stamp.raced
        PROVE  request[q].stamp.pw = user'[request[q].opens].pw
    <3>1. request[q].opens \in Users /\ request[q].stamp.pw = user[request[q].opens].pw
      BY <2>1, <2>3, Known DEF PasswordOK
    <3>2. ~(Revoking(r) /\ request[r].uid = request[q].opens)
      BY <1>3, <2>3 DEF PasswordOK
    <3> QED BY <1>1, <3>1, <3>2
  <2>4. ASSUME Revoking(q), NEW p \in Requests, request'[p].opens = request[q].uid
        PROVE  request'[p].stamp.raced
    <3>1. request[q].uid # None
      BY <2>4, HolderKnown, Known DEF Revoking
    <3>2. p # r
      BY <1>1, <1>2, <2>4, <3>1
    <3> QED BY <1>1, <2>1, <2>4, <3>2 DEF PasswordOK, SamePw
  <2>5. ASSUME Revoking(q), NEW s \in Sid, session'[s].state = "active",
               session'[s].user_id = request[q].uid, ~stamp'[s].raced,
               ~(request[q].kind = "password" /\ s = request[q].sid)
        PROVE  s \in request[q].todo \/ write[q][s].state = "inactive"
    <3>1. request[r].opens = request[q].uid => request[r].stamp.raced
      BY <2>1, <2>5 DEF PasswordOK
    <3>2. request[r].kind = "password" => request[r].uid # request[q].uid
      <4> SUFFICES ASSUME request[r].kind = "password", request[r].uid = request[q].uid
                   PROVE  FALSE
        OBVIOUS
      <4>1. /\ request[r].uid \in Users /\ HoldsUser(r, request[r].uid)
            /\ HoldsUser(q, request[r].uid)
        BY <1>4, <1>5, <2>5 DEF Revoking
      <4> QED BY <4>1 DEF PwInv, HoldersExclude
    <3>3. session[s].state = "active" /\ session[s].user_id = request[q].uid
          /\ stamp'[s] = stamp[s]
      BY <1>4, <2>5, <3>1, <3>2, CommitSession
    <3> QED BY <2>1, <2>5, <3>3 DEF PasswordOK
  <2> QED BY <2>1, <2>2, <2>3, <2>4, <2>5 DEF PasswordOK, SamePw
<1>8. HoldersExclude'
  <2>1. \A q \in Requests \ {r}, u \in Users : HoldsUser(q, u)' <=> HoldsUser(q, u)
    BY <1>1 DEF SamePw, HoldsUser
  <2>2. \A u \in Users : ~HoldsUser(r, u)'
    BY <1>1, <1>2 DEF HoldsUser
  <2> QED BY <2>1, <2>2 DEF PwInv, HoldersExclude
<1>9. PasswordChangeRevokes'
  <2> SUFFICES ASSUME NEW s \in Sid, session'[s].state = "active", ~stamp'[s].raced
               PROVE  stamp'[s].pw = user'[session'[s].user_id].pw
    BY DEF PasswordChangeRevokes
  <2> DEFINE u == session'[s].user_id
  <2>1. CASE /\ session[s].state = "active" /\ u = session[s].user_id
             /\ write[r][s].state # "inactive"
             /\ stamp'[s] = IF request[r].kind = "password" /\ s = request[r].sid
                              THEN [pw |-> user[request[r].uid].pw + 1, raced |-> FALSE]
                              ELSE stamp[s]
    <3>1. u \in Users
      BY <2>1, Known
    <3>2. CASE request[r].kind = "password" /\ s = request[r].sid
      BY <1>1, <1>4, <2>1, <3>1, <3>2
    <3>3. CASE ~(request[r].kind = "password" /\ s = request[r].sid)
      <4>1. stamp[s].pw = user[u].pw /\ stamp'[s] = stamp[s]
        BY <2>1, <3>3 DEF PwInv, PasswordChangeRevokes
      <4>2. ~(Revoking(r) /\ request[r].uid = u)
        BY <1>3, <2>1, <3>3, <4>1 DEF PasswordOK
      <4> QED BY <1>1, <3>1, <4>1, <4>2
    <3> QED BY <3>2, <3>3
  <2>2. CASE /\ request[r].kind \in {"login", "impersonate"} /\ request[r].opens = u
             /\ stamp'[s] = request[r].stamp
    <3>1. u \in Users
      <4>1. session'[s] \in SessionRow /\ RowOK(session'[s])
        BY DEF Commit, View, IInv, TypeOK, RowsOK
      <4> QED BY <4>1 DEF RowOK
    <3>2. ~Revoking(r) /\ request[r].stamp.pw = user[u].pw
      BY <1>3, <1>5, <2>2, <3>1, Known DEF PasswordOK
    <3> QED BY <1>1, <2>2, <3>1, <3>2
  <2> QED BY <2>1, <2>2, CommitSession
<1> QED BY <1>6, <1>7, <1>8, <1>9 DEF PwInv

\* Steps of nobody, and of an operator.
LEMMA StutterPw ==
  ASSUME IInv, PwInv, NoneOpened, UNCHANGED <<request, write>> PROVE PwInv'
<1>1. ASSUME NEW q \in Requests PROVE PasswordOK(q)'
  <2>1. PasswordOK(q)
    BY DEF PwInv
  <2>2. request[q].opens # None => user'[request[q].opens].pw = user[request[q].opens].pw
    BY Known DEF NoneOpened
  <2>3. Revoking(q)' <=> Revoking(q)
    BY DEF Revoking, HoldsUser
  <2> QED BY <2>1, <2>2, <2>3 DEF PasswordOK, NoneOpened
<1>2. HoldersExclude'
  BY DEF PwInv, HoldersExclude, HoldsUser
<1>3. PasswordChangeRevokes'
  BY Known DEF PwInv, PasswordChangeRevokes, NoneOpened
<1> QED BY <1>1, <1>2, <1>3 DEF PwInv

LEMMA StepPw ==
  ASSUME IInv, PwInv, [Next]_vars PROVE PwInv'
<1>1. ASSUME NEW r \in Requests, Arrive(r) PROVE PwInv'
  BY <1>1, ReceivePw, LoginPw, ResetPasswordPw DEF Arrive
<1>2. ASSUME NEW r \in Requests, Step(r) PROVE PwInv'
  BY <1>2, EndPw, SlidePw, OtherSteps, ImpersonatePw, ChangePasswordPw, RevokeAllPw,
     RevokeOnePw, CommitPw DEF Step
<1>3. ASSUME NEW r \in Requests, RollBack(r) PROVE PwInv'
  BY <1>3, EndPw
<1>4. ASSUME Tick \/ UNCHANGED vars PROVE PwInv'
  BY <1>4, StutterPw DEF Tick, vars, NoneOpened
<1>5. ASSUME Administer PROVE PwInv'
  <2>1. PICK u \in Users, status \in {"ACTIVE", "SUSPENDED"} :
          user' = [user EXCEPT ![u].status = status]
    BY <1>5 DEF Administer
  <2>2. \A v \in Users : user'[v].pw = user[v].pw
    BY <2>1 DEF IInv, TypeOK, UserRow
  <2> QED BY <1>5, <2>2, StutterPw DEF Administer, NoneOpened
<1> QED BY <1>1, <1>2, <1>3, <1>4, <1>5 DEF Next

\* "Gate 5" of change_password_route and reset_password_route: the other
\* sessions of the user are closed, but for one whose login or impersonation
\* overlapped the change.
THEOREM ChangeRevokes == Spec => []PasswordChangeRevokes
<1>1. Init => PwInv
  BY DEF Init, PwInv, PasswordOK, HoldersExclude, PasswordChangeRevokes, Revoking,
         HoldsUser, NoRequest, NoRow
<1>2. IInv /\ PwInv /\ [Next]_vars => PwInv'
  BY StepPw
<1>3. PwInv => PasswordChangeRevokes
  BY DEF PwInv
<1> QED BY <1>1, <1>2, <1>3, Invariance, PTL DEF Spec
=============================================================================
