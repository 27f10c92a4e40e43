---------------------------- MODULE SessionsInv -----------------------------
(***************************************************************************)
(* The inductive invariant behind the safety properties of Sessions: what  *)
(* every request knows at each of its steps, and how its uncommitted row   *)
(* versions relate to the committed rows.                                  *)
(***************************************************************************)
EXTENDS Sessions

Exists(s) == session[s].state # "absent"
Written(r, s) == write[r][s].state # "absent"
Link(s) == session[s].impersonator_session_id

\* A row has a user; it names an impersonator exactly when it names his
\* session.
RowOK(row) ==
  IF row.state = "absent" THEN row = NoRow
  ELSE /\ row.user_id \in Users
       /\ row.impersonator_id = None <=> row.impersonator_session_id = None

RowsOK ==
  /\ \A s \in Sid : RowOK(session[s])
  /\ \A r \in Requests, s \in Sid : RowOK(write[r][s])

\* An impersonation row leads to a committed row of its impersonator.
LinkedRow(row, s) ==
  row.impersonator_id # None =>
    /\ row.impersonator_id # row.user_id
    /\ row.impersonator_session_id \in Sid \ {s}
    /\ Exists(row.impersonator_session_id)
    /\ session[row.impersonator_session_id].user_id = row.impersonator_id

\* Row locks exclude each other.
LocksExclude ==
  \A s \in Sid, q, r \in Requests : Written(q, s) /\ Written(r, s) => q = r

\* An UPDATE keeps whose session a row is and its time-box; it never makes an
\* inactive row active.
Keeps(new, row) ==
  /\ new.state \in {row.state, "inactive"} \ {"absent"}
  /\ new.user_id = row.user_id
  /\ new.absolute_expires_at = row.absolute_expires_at
  /\ new.impersonator_id = row.impersonator_id
  /\ new.impersonator_session_id = row.impersonator_session_id

\* An INSERT is the last statement of a login or impersonation.
WriteOK(r, s) ==
  Written(r, s) =>
    IF Exists(s)
      THEN Keeps(write[r][s], session[s])
      ELSE /\ request[r].pc = "commit"
           /\ request[r].kind \in {"login", "impersonate"}
           /\ request[r].ends = None
           /\ write[r][s].state = "active"
           /\ write[r][s].user_id = request[r].opens
           /\ write[r][s].impersonator_id # None <=> request[r].kind = "impersonate"
           /\ LinkedRow(write[r][s], s)

\* What a request has established when it reaches each of its steps.
RequestOK(r) ==
  LET q == request[r] IN
  /\ q.pc \in {"idle", "expire", "slide", "login"} =>
       \A s \in Sid : ~Written(r, s)
  /\ q.kind = "none" <=> q.pc = "idle"
  /\ q.kind \in Authenticated => q.sid \in Sid /\ Exists(q.sid)
  /\ q.kind \in {"login", "reset"} => q.sid = None /\ q.uid \in Users
  /\ q.kind \in Authenticated /\ q.pc \notin {"expire", "slide"} =>
       Written(r, q.sid) /\ q.uid = session[q.sid].user_id
  /\ q.pc = "login" => q.kind = "login" /\ q.opens = q.uid
  /\ q.pc \in {"expire", "slide"} => q.kind \in Authenticated
  /\ q.pc \in {"logout", "password", "impersonate", "stop", "roles"} => q.kind = q.pc
  /\ q.pc \in {"stop_expire", "stop_finish"} =>
       /\ q.kind = "stop"
       /\ write[r][q.sid].state = "active"
       /\ Link(q.sid) \in Sid \ {q.sid}
       /\ Exists(Link(q.sid))
  /\ q.pc # "commit" => q.ends = None
  /\ q.ends # None =>
       /\ q.ends = q.sid /\ q.kind = "stop"
       /\ write[r][q.sid].state = "inactive"
       /\ session[q.sid].state = "active"
       /\ session[q.sid].impersonator_id # None
  /\ \A s \in q.todo : Exists(s)

\* Without a committed row there are no audit rows.
AuditOK == \A s \in Sid : ~Exists(s) => audit[s] = [start |-> 0, end |-> 0]

IInv ==
  /\ TypeOK
  /\ RowsOK
  /\ \A s \in Sid : LinkedRow(session[s], s)
  /\ LocksExclude
  /\ \A r \in Requests : RequestOK(r)
  /\ \A r \in Requests, s \in Sid : WriteOK(r, s)
  /\ AuditOK
  /\ AuditMatchesSessions

-----------------------------------------------------------------------------
(* Roles *)

\* A change of roles has its permission from a role that its actor still has
\* at the commit, and knows the role it replaces, unless it is marked as raced.
GrantOK(r) ==
  LET q == request[r]
      g == q.grant
  IN
  /\ q.pc \in {"roles", "roles_write"} => q.kind = "roles"
  /\ q.kind = "roles" =>
       q.pc \in {"expire", "slide", "roles", "roles_write", "commit"}
  /\ q.pc = "roles" =>
       /\ q.uid \in Users
       /\ q.role = "SUPERUSER" /\ ~g.raced => user[q.uid].role = "SUPERUSER"
  /\ q.kind = "roles" /\ q.pc \in {"roles_write", "commit"} =>
       /\ q.uid \in Users
       /\ g.uid \in Users \ {q.uid}
       /\ ~g.raced => /\ user[q.uid].role = "SUPERUSER"
                      /\ g.sets <=> g.role # user[g.uid].role

\* The lock of a users row has one holder.
GrantsExclude ==
  \A r, q \in Requests, u \in Users : SetsRole(r, u) /\ SetsRole(q, u) => r = q

RolesInv ==
  /\ \A r \in Requests : GrantOK(r)
  /\ GrantsExclude
  /\ AuditTellsRole
  /\ SuperuserRemains

-----------------------------------------------------------------------------
(* Passwords *)

\* The change of a password by r has selected the sessions it closes.
Revoking(r) ==
  HoldsUser(r, request[r].uid) /\ request[r].pc # "logout_all"

\* A request that opens a session stands on the present password; a change
\* accounts for every session of its user but the one that makes it, and for
\* every request that is opening one, unless marked as raced.
PasswordOK(r) ==
  LET q == request[r] IN
  /\ q.opens # None /\ ~q.stamp.raced => q.stamp.pw = user[q.opens].pw
  /\ q.kind \in {"password", "reset"} =>
       /\ q.opens = None
       /\ q.pc \in {"expire", "slide", "password", "logout_all", "revoke", "commit"}
  /\ q.pc # "revoke" => q.todo = {}
  /\ Revoking(r) =>
       /\ \A p \in Requests : request[p].opens = q.uid => request[p].stamp.raced
       /\ \A s \in Sid :
            /\ session[s].state = "active" /\ session[s].user_id = q.uid
            /\ ~stamp[s].raced
            /\ ~(q.kind = "password" /\ s = q.sid)
            => s \in q.todo \/ write[r][s].state = "inactive"

\* The lock of a users row has one holder.
HoldersExclude ==
  \A r, q \in Requests, u \in Users : HoldsUser(r, u) /\ HoldsUser(q, u) => r = q

PwInv ==
  /\ \A r \in Requests : PasswordOK(r)
  /\ HoldersExclude
  /\ PasswordChangeRevokes

-----------------------------------------------------------------------------
(* The cap *)

\* A login counts for the user that it opens a session for.
CapOK(r) ==
  LET q == request[r] IN
  /\ q.kind = "login" => q.opens = q.uid /\ q.pc \in {"login", "commit"}
  /\ q.kind = "impersonate" => q.pc \in {"expire", "slide", "impersonate", "commit"}

Inserts(r) == {s \in Sid : Written(r, s) /\ ~Exists(s)}

CapInv ==
  /\ \A r \in Requests : CapOK(r)
  /\ \A r \in Requests : \A s, t \in Inserts(r) : s = t
  /\ CapOvershootBounded

-----------------------------------------------------------------------------
(* Waiting                                                                   *)

\* A stop has locked its own session and nothing else.
OwnRowOnly(r) ==
  request[r].pc \in {"stop", "stop_expire", "stop_finish"} =>
    \A s \in Sid : Written(r, s) => s = request[r].sid

\* Whoever follows impersonations back comes to an end.
Grounded ==
  \A S \in SUBSET Sid : S # {} => \E s \in S : Link(s) \notin S

WaitInv == Grounded /\ \A r \in Requests : OwnRowOnly(r)
=============================================================================
