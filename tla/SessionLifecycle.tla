-------------------------- MODULE SessionLifecycle --------------------------
(***************************************************************************)
(* What the sessions of questr promise to a user, and to the reader of the *)
(* audit log, whatever requests, transactions and locks are behind it.     *)
(*                                                                         *)
(* A session is opened once, closed at most once and never reopened; whose *)
(* it is, who impersonates whom in it, and the moment at which it ends at  *)
(* the latest never change.  An impersonation and its IMPERSONATION_START  *)
(* row appear in the same instant; an IMPERSONATION_END row appears in the *)
(* instant that closes the session, or never.  Sessions.tla implements     *)
(* this module.                                                            *)
(***************************************************************************)
EXTENDS Naturals

CONSTANTS Sid, Users, None

VARIABLES
  life,  \* the sessions, without the window that slides
  log    \* the IMPERSONATION_START and _END rows of each

Unborn ==
  [state |-> "absent", user_id |-> None, absolute_expires_at |-> 0,
   impersonator_id |-> None, impersonator_session_id |-> None]

Init ==
  /\ life = [s \in Sid |-> Unborn]
  /\ log = [s \in Sid |-> [start |-> 0, end |-> 0]]

\* An impersonation is backed by a session that exists and that belongs to
\* the impersonator, who is not the user himself.
Backed(row, s) ==
  row.impersonator_id # None =>
    /\ row.impersonator_id # row.user_id
    /\ row.impersonator_session_id \in Sid \ {s}
    /\ life[row.impersonator_session_id].state # "absent"
    /\ life[row.impersonator_session_id].user_id = row.impersonator_id

Open(s) ==
  /\ life[s].state = "absent"
  /\ life'[s].state = "active"
  /\ life'[s].user_id \in Users
  /\ Backed(life'[s], s)
  /\ log'[s] =
       [start |-> IF life'[s].impersonator_id = None THEN 0 ELSE 1, end |-> 0]

Close(s) ==
  /\ life[s].state = "active"
  /\ life'[s] = [life[s] EXCEPT !.state = "inactive"]
  /\ \/ log'[s] = log[s]
     \/ /\ life[s].impersonator_id # None
        /\ log[s].end = 0
        /\ log'[s] = [log[s] EXCEPT !.end = 1]

Keep(s) == life'[s] = life[s] /\ log'[s] = log[s]

\* One transaction may open and close several sessions.
Next == \A s \in Sid : Open(s) \/ Close(s) \/ Keep(s)

Spec == Init /\ [][Next]_<<life, log>>
=============================================================================
