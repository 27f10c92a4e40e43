------------------------------- MODULE CsrfInv ------------------------------
(***************************************************************************)
(* The inductive invariants of CsrfCookies: IInv, which gives the types    *)
(* and TokenOfItsSession, and SerialInv, which gives Serial.               *)
(***************************************************************************)
EXTENDS CsrfCookies

\* Tokens are minted in order.
IssuedOK == \A t \in Token : issued[t] # None => t <= minted

\* A row holds a token minted for it.
RowOK(s) == session[s].state # "absent" => issued[session[s].token] = s

\* So does an open version of a row, which never reopens a closed session.
WriteOK(r, s) ==
  write[r][s].state # "absent" =>
    /\ issued[write[r][s].token] = s
    /\ write[r][s].state = "active" => session[s].state # "inactive"

\* What is known of a request at each of its steps.
RequestOK(r) ==
  LET q == request[r] IN
  /\ q.pc = "csrf" => q.sid \in Sid
  /\ q.pc = "authenticate" /\ q.kind \in Unsafe /\ q.sid \in Sid /\ ~q.unseen =>
       issued[q.header] = q.sid \/ session[q.sid].state = "inactive"
  /\ q.pc \in {"handle", "restore"} /\ q.kind \in Unsafe =>
       /\ q.sid \in Sid /\ session[q.sid].state # "absent"
       /\ issued[q.header] = q.sid \/ q.unseen
  /\ q.pc = "restore" => /\ q.kind = "stop"
                         /\ write[r][q.sid].state # "absent"
                         /\ session[q.sid].admin \in Sid

IInv ==
  /\ TypeOK
  /\ IssuedOK
  /\ \A s \in Sid : RowOK(s)
  /\ \A r \in Requests, s \in Sid : WriteOK(r, s)
  /\ \A r \in Requests : RequestOK(r)

-----------------------------------------------------------------------------
(* Serial: what a login leaves in the jar                                  *)

\* A row version is written between the route and the end of the transaction.
WritesInTime(r) ==
  request[r].pc \in {"idle", "csrf", "authenticate", "handle", "sent"} =>
    \A s \in Sid : write[r][s].state = "absent"

\* Neither a cookie nor a request nor the link of a row names session s.
Unheard(s) ==
  /\ jar.sid # s
  /\ \A r \in Requests : request[r].sid # s
  /\ \A t \in Sid : session[t].admin # s /\ \A r \in Requests : write[r][t].admin # s

\* All versions of session s are those of a login that got token t.
LoginRow(row, t) == row.admin = None /\ (row.state # "absent" => row.token = t)
LoginRows(s, t) ==
  LoginRow(session[s], t) /\ \A r \in Requests : LoginRow(write[r][s], t)

\* An id that has not been drawn is nowhere.
FreshUnheard(s) ==
  Fresh(s) => /\ Unheard(s)
              /\ \A r \in Requests : request[r].new.sid # s
              /\ LoginRows(s, 0)

\* The id a login has drawn is known to its answer only.
LoginAnswer(r) == request[r].kind = "login" /\ request[r].pc \in {"answer", "sent"}
LoginUnheard(r) ==
  LET new == request[r].new IN
  LoginAnswer(r) =>
    /\ new.sid \in Sid /\ new.token # 0 /\ issued[new.token] = new.sid
    /\ Unheard(new.sid)
    /\ \A q \in Others(r) : request[q].new.sid # new.sid
    /\ LoginRows(new.sid, new.token)

HeardInv ==
  /\ \A r \in Requests : WritesInTime(r) /\ LoginUnheard(r)
  /\ \A s \in Sid : FreshUnheard(s)

\* The token a page at / has, or gets with an answer on its way.
Expected(r) ==
  IF request[r].kind = "password" /\ request[r].ok /\ request[r].pc \in {"answer", "sent"}
    THEN request[r].new.token ELSE jar.root

\* The only request under way sees its session with that token.
InStep(r) ==
  LET row == View(r, jar.sid) IN
  jar.sid \in Sid =>
    /\ session[jar.sid].admin = None /\ row.admin = None
    /\ row.state = "active" => row.token = Expected(r) /\ row.token # 0

OwnSession(r) ==
  /\ request[r].pc # "restore"
  /\ request[r].pc \in {"csrf", "authenticate", "handle"} => request[r].sid = jar.sid

CleanInv ==
  clean => /\ \A r \in Requests : Alone(r) \/ request[r].pc = "idle"
           /\ \A r \in Requests : OwnSession(r)
           /\ \A r \in Requests : Alone(r) => InStep(r)

SerialInv == HeardInv /\ CleanInv
=============================================================================
