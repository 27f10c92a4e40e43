---------------------------- MODULE CsrfCookies -----------------------------
(***************************************************************************)
(* The CSRF protection of questr from end to end: the cookies a browser    *)
(* holds, the tabs that send requests with them, CsrfMiddleware, the       *)
(* routes that open, rotate and close sessions, and the answers that set   *)
(* the cookies again.                                                      *)
(*                                                                         *)
(* Two facts of the environment shape the model.  A browser keeps one      *)
(* cookie per name and path, and sends the one with the longer path first: *)
(* login sets csrf_token for path "/", impersonation for "/api/v1/auth".   *)
(* And FastAPI (uv.lock pins 0.135.1) runs what follows the yield of       *)
(* get_async_session after the response has been sent: the browser may use *)
(* new cookies before the transaction that goes with them is committed.    *)
(*                                                                         *)
(* The sessions are those opened by one browser, whose user is a           *)
(* superuser; write holds uncommitted row versions, i.e. row locks, as in  *)
(* Sessions.  A hash is equal exactly when the token is, so rows hold the  *)
(* token.  clean is a history variable.                                    *)
(***************************************************************************)
EXTENDS Naturals, FiniteSets

CONSTANTS
  Sid,       \* session ids
  Requests,  \* requests the browser's tabs have under way at the same time
  Kinds,     \* the kinds of request they send (a bound)
  Clients,   \* how cookies are sent: "browser", "script"
  None,      \* no session cookie
  MaxToken   \* bound on the number of tokens minted

ASSUME NoneAssumption == None \notin Sid
ASSUME MaxTokenAssumption == MaxToken \in Nat

VARIABLES
  session,  \* the committed rows: state, CSRF token, admin's session
  jar,      \* the browser's cookies
  request,  \* requests under way: program counter and locals
  write,    \* uncommitted row versions of each request
  minted,   \* how many tokens secrets.token_urlsafe has returned
  issued,   \* the session each token was minted for
  clean     \* history: see Serial

vars == <<session, jar, request, write, minted, issued, clean>>

-----------------------------------------------------------------------------
(* Rows, cookies and requests *)

\* 0 is no token.
Token == 0 .. MaxToken

Row == [state : {"absent", "active", "inactive"}, token : Token,
        admin : Sid \cup {None}]
NoRow == [state |-> "absent", token |-> 0, admin |-> None]

\* The cookies session_id (path /api/v1/auth), csrf_token for path / and
\* csrf_token for path /api/v1/auth.
Jar == [sid : Sid \cup {None}, root : Token, scoped : Token]

Unsafe == {"logout", "logout_all", "password", "email", "impersonate", "stop"}

ASSUME KindsAssumption == Kinds \subseteq Unsafe \cup {"login"}

RequestState ==
  [pc : {"idle", "csrf", "authenticate", "handle", "restore", "answer",
         "closing", "sent"},
   kind : Unsafe \cup {"none", "login"},
   sid : Sid \cup {None},                         \* session_id sent
   cookie : Token,                                \* csrf_token as parsed
   header : Token,                                \* X-CSRF-Token
   unseen : BOOLEAN,                              \* no row for the middleware
   ok : BOOLEAN,                                  \* the answer is a 200
   new : [sid : Sid \cup {None}, token : Token]]  \* cookies of the answer

NoCookies == [sid |-> None, token |-> 0]

NoRequest ==
  [pc |-> "idle", kind |-> "none", sid |-> None, cookie |-> 0, header |-> 0,
   unseen |-> FALSE, ok |-> FALSE, new |-> NoCookies]

View(r, s) == IF write[r][s].state = "absent" THEN session[s] ELSE write[r][s]

\* Mutant: no row locks.
CanLockAlways(r, s) == TRUE

\* No other transaction has an uncommitted version of the row.
CanLock(r, s) == \A q \in Requests \ {r} : write[q][s].state = "absent"

\* uuid7 never returns an id twice: every id drawn so far got a token.
Fresh(s) == \A t \in Token : issued[t] # s

\* Sessions of the same user as s: the browser's user opened those without
\* an administrator, the impersonated user owns the others.
SameUser(r, s) ==
  {t \in Sid : /\ View(r, t).state = "active"
               /\ View(r, t).admin = None <=> View(r, s).admin = None}

\* Mutant: of two cookies of one name the first counts.
ParsedFirst(c) == IF c.scoped # 0 THEN c.scoped ELSE c.root

\* Of two cookies of one name the last one counts, and the browser sends the
\* longer path first.
Parsed(c) == IF c.root # 0 THEN c.root ELSE c.scoped

\* A script (hurl's explicit Cookie header, the tests' cookie dict) sends the
\* cookie of its choice.
Sendable(c) ==
  (IF "browser" \in Clients THEN {Parsed(c)} ELSE {})
    \cup (IF "script" \in Clients THEN {c.root, c.scoped} \ {0} ELSE {})

\* Mutant: the double-submit check alone.
DoubleSubmitOnly(q, token) == q.header # 0 /\ q.header = q.cookie

\* Header and cookie are there and equal, and the stored hash is that of the
\* header.
TokensAgree(q, token) ==
  q.header # 0 /\ q.header = q.cookie /\ q.header = token

\* Mutant: a logout leaves the session cookie.
SetCookiesKeep(kind, new, c) ==
  CASE kind = "login" -> [c EXCEPT !.sid = new.sid, !.root = new.token]
    [] kind = "password" -> c
    [] kind \in {"impersonate", "stop"} ->
         [c EXCEPT !.sid = new.sid, !.scoped = new.token]
    [] kind \in {"logout", "logout_all"} -> [c EXCEPT !.sid = None, !.root = 0]
    [] OTHER -> c

\* set_cookie and delete_cookie of the routes.
SetCookies(kind, new, c) ==
  CASE kind = "login" -> [c EXCEPT !.sid = new.sid, !.root = new.token]
    [] kind = "password" -> [c EXCEPT !.root = new.token]
    [] kind \in {"impersonate", "stop"} ->
         [c EXCEPT !.sid = new.sid, !.scoped = new.token]
    [] kind \in {"logout", "logout_all"} -> [c EXCEPT !.sid = None, !.root = 0]
    [] OTHER -> c

Init ==
  /\ session = [s \in Sid |-> NoRow]
  /\ jar = [sid |-> None, root |-> 0, scoped |-> 0]
  /\ request = [r \in Requests |-> NoRequest]
  /\ write = [r \in Requests |-> [s \in Sid |-> NoRow]]
  /\ minted = 0
  /\ issued = [t \in Token |-> None]
  /\ clean = TRUE

-----------------------------------------------------------------------------
(* The browser *)

Others(r) == Requests \ {r}
Alone(r) == \A q \in Others(r) : request[q].pc = "idle"

\* A tab sends a request.  Its script takes the header from document.cookie
\* (pages at / and under /api/v1/auth see different cookies).
Send(r) ==
  /\ request[r].pc = "idle"
  /\ \E k \in Kinds :
       \/ /\ k \notin Unsafe
          /\ request' = [request EXCEPT ![r] =
               [NoRequest EXCEPT
                  !.pc = IF k = "login" THEN "handle" ELSE "authenticate",
                  !.kind = k, !.sid = jar.sid]]
       \/ /\ k \in Unsafe
          /\ \E c \in Sendable(jar), h \in {jar.root, jar.scoped} :
               request' = [request EXCEPT ![r] =
                 [NoRequest EXCEPT
                    !.pc = IF jar.sid = None THEN "authenticate" ELSE "csrf",
                    !.kind = k, !.sid = jar.sid, !.cookie = c, !.header = h]]
  /\ clean' = (clean /\ Alone(r))
  /\ UNCHANGED <<session, jar, write, minted, issued>>

-----------------------------------------------------------------------------
(* The server: middleware, authentication and routes *)

\* The response goes out; the transaction is still open.
Answer(r, ok, new) ==
  request' = [request EXCEPT ![r] =
    [NoRequest EXCEPT !.pc = "answer", !.kind = request[r].kind,
                      !.ok = ok, !.new = new]]

\* An error response, which sets no cookies; its transaction is rolled back.
Deny(r) == request' = [request EXCEPT ![r] = NoRequest]

Proceed(r, pc) ==
  request' = [request EXCEPT ![r] = [@ EXCEPT !.pc = pc]]

\* The 403 of CsrfMiddleware.
Refused(r) ==
  LET q == request[r] IN
  /\ q.pc = "csrf"
  /\ session[q.sid].state = "active"
  /\ ~TokensAgree(q, session[q.sid].token)

\* CsrfMiddleware reads the session in a transaction of its own.  A missing
\* or inactive session passes through to the authentication.
Middleware(r) ==
  /\ request[r].pc = "csrf"
  /\ IF Refused(r)
       THEN Deny(r)
       ELSE request' = [request EXCEPT ![r] =
              [@ EXCEPT !.unseen = session[request[r].sid].state = "absent",
                        !.cookie = 0, !.pc = "authenticate"]]
  /\ UNCHANGED <<session, jar, write, minted, issued, clean>>

\* get_current_user and the SELECT of validate_session.  (A session that has
\* expired is deactivated: see CloseElsewhere.)
Authenticate(r) ==
  LET s == request[r].sid IN
  /\ request[r].pc = "authenticate"
  /\ IF s # None /\ session[s].state = "active"
       THEN Proceed(r, "handle")
       ELSE Deny(r)
  /\ UNCHANGED <<session, jar, write, minted, issued, clean>>

\* A new token for session s.
Mint(s) ==
  /\ minted < MaxToken
  /\ minted' = minted + 1
  /\ issued' = [issued EXCEPT ![minted + 1] = s]

\* The route has its row versions and its cookies.
Done(r, rows, new) ==
  /\ write' = [write EXCEPT ![r] = rows]
  /\ Answer(r, TRUE, new)

\* The UPDATE of update_last_activity locks the request's own row.
Own(r, kind) ==
  /\ request[r].pc = "handle"
  /\ request[r].kind = kind
  /\ kind # "login" => CanLock(r, request[r].sid)

Login(r) ==
  /\ Own(r, "login")
  /\ \E s \in Sid :
       /\ Fresh(s)
       /\ Mint(s)
       /\ Done(r, [write[r] EXCEPT ![s] =
                     [state |-> "active", token |-> minted + 1, admin |-> None]],
               [sid |-> s, token |-> minted + 1])
  /\ UNCHANGED <<session, jar, clean>>

\* Routes that change neither cookies nor sessions (change_email_route).
Plain(r) ==
  /\ Own(r, "email")
  /\ Done(r, [write[r] EXCEPT ![request[r].sid] = session[request[r].sid]],
          NoCookies)
  /\ UNCHANGED <<session, jar, minted, issued, clean>>

Logout(r) ==
  LET s == request[r].sid IN
  /\ Own(r, "logout")
  /\ Done(r, [write[r] EXCEPT ![s] = [session[s] EXCEPT !.state = "inactive"]],
          NoCookies)
  /\ UNCHANGED <<session, jar, minted, issued, clean>>

\* Rows revoke_all_for_user deactivates, except the session kept.
Revoked(r, s, kept) ==
  [t \in Sid |-> IF t \in SameUser(r, s) \ kept
                   THEN [View(r, t) EXCEPT !.state = "inactive"]
                   ELSE IF t = s THEN View(r, t) ELSE write[r][t]]

LogoutAll(r) ==
  LET s == request[r].sid IN
  /\ Own(r, "logout_all")
  /\ \A t \in SameUser(r, s) : CanLock(r, t)
  /\ Done(r, Revoked(r, s, {}), NoCookies)
  /\ UNCHANGED <<session, jar, minted, issued, clean>>

\* change_password_route: the other sessions are revoked, the own one gets a
\* new token (rotate_csrf).
ChangePassword(r) ==
  LET s == request[r].sid IN
  /\ Own(r, "password")
  /\ \A t \in SameUser(r, s) : CanLock(r, t)
  /\ Mint(s)
  /\ Done(r, [Revoked(r, s, {s}) EXCEPT ![s].token = minted + 1],
          [sid |-> None, token |-> minted + 1])
  /\ UNCHANGED <<session, jar, clean>>

\* start_impersonation_route.  The impersonated user has no permission to
\* impersonate: the exception rolls the request back.
Impersonate(r) ==
  LET s == request[r].sid IN
  /\ Own(r, "impersonate")
  /\ \/ /\ session[s].admin = None
        /\ \E t \in Sid :
             /\ Fresh(t)
             /\ Mint(t)
             /\ Done(r, [write[r] EXCEPT
                           ![s] = session[s],
                           ![t] = [state |-> "active", token |-> minted + 1,
                                   admin |-> s]],
                     [sid |-> t, token |-> minted + 1])
     \/ /\ session[s].admin # None
        /\ Deny(r)
        /\ UNCHANGED <<write, minted, issued>>
  /\ UNCHANGED <<session, jar, clean>>

\* stop_impersonation_route up to the SELECT of the administrator's session.
\* Its errors become a 401 response.
Stop(r) ==
  LET s == request[r].sid
      a == session[s].admin
      linked == session[s].state = "active" /\ a # None
      live == linked /\ session[a].state = "active"
  IN
  /\ Own(r, "stop")
  /\ write' = [write EXCEPT ![r][s] = session[s]]
  /\ IF live THEN Proceed(r, "restore") ELSE Answer(r, FALSE, NoCookies)
  /\ UNCHANGED <<session, jar, minted, issued, clean>>

\* The administrator's row is updated, also when it was closed meanwhile; the
\* impersonation is deactivated and the administrator's token rotated.
Restore(r) ==
  LET s == request[r].sid
      a == session[s].admin
  IN
  /\ request[r].pc = "restore"
  /\ CanLock(r, a)
  /\ Mint(a)
  /\ Done(r, [write[r] EXCEPT ![s].state = "inactive",
                              ![a] = [session[a] EXCEPT !.token = minted + 1]],
          [sid |-> a, token |-> minted + 1])
  /\ UNCHANGED <<session, jar, clean>>

-----------------------------------------------------------------------------
(* The answer and the end of the transaction *)

\* "answer": the response is on its way and the transaction open; "closing":
\* the response has arrived; "sent": the transaction has ended.
NextPc(r, event) ==
  IF request[r].pc = "answer" THEN event ELSE "idle"

Finish(r, event) ==
  request' = [request EXCEPT ![r] =
    IF NextPc(r, event) = "idle" THEN NoRequest ELSE [@ EXCEPT !.pc = event]]

\* The browser takes the response and its cookies.
Deliver(r) ==
  LET q == request[r] IN
  /\ q.pc \in {"answer", "sent"}
  /\ jar' = IF q.ok THEN SetCookies(q.kind, q.new, jar) ELSE jar
  /\ clean' = CASE q.ok /\ q.kind = "login" -> clean \/ Alone(r)
                [] q.ok /\ q.kind \in {"impersonate", "stop"} -> FALSE
                [] OTHER -> clean
  /\ Finish(r, "closing")
  /\ UNCHANGED <<session, write, minted, issued>>

\* The response is lost.
Lose(r) ==
  /\ request[r].pc \in {"answer", "sent"}
  /\ clean' = FALSE
  /\ Finish(r, "closing")
  /\ UNCHANGED <<session, jar, write, minted, issued>>

Commit(r) ==
  /\ request[r].pc \in {"answer", "closing"}
  /\ session' = [s \in Sid |-> View(r, s)]
  /\ write' = [write EXCEPT ![r] = [s \in Sid |-> NoRow]]
  /\ Finish(r, "sent")
  /\ UNCHANGED <<jar, minted, issued, clean>>

\* The commit fails, or the worker dies, after the response was sent.
CommitFails(r) ==
  /\ request[r].pc \in {"answer", "closing"}
  /\ write' = [write EXCEPT ![r] = [s \in Sid |-> NoRow]]
  /\ clean' = FALSE
  /\ Finish(r, "sent")
  /\ UNCHANGED <<session, jar, minted, issued>>

\* The handler raises or the worker dies before there is a response.
RollBack(r) ==
  /\ request[r].pc \in {"csrf", "authenticate", "handle", "restore"}
  /\ write' = [write EXCEPT ![r] = [s \in Sid |-> NoRow]]
  /\ request' = [request EXCEPT ![r] = NoRequest]
  /\ UNCHANGED <<session, jar, minted, issued, clean>>

\* A session ends without the browser: it expires, or another device or a
\* password reset revokes it.
CloseElsewhere ==
  /\ \E s \in Sid :
       /\ session[s].state = "active"
       /\ \A r \in Requests : write[r][s].state = "absent"
       /\ session' = [session EXCEPT ![s].state = "inactive"]
  /\ UNCHANGED <<jar, request, write, minted, issued, clean>>

Route(r) ==
  \/ Login(r) \/ Plain(r) \/ Logout(r) \/ LogoutAll(r) \/ ChangePassword(r)
  \/ Impersonate(r) \/ Stop(r) \/ Restore(r)

Next ==
  \/ \E r \in Requests :
       \/ Send(r) \/ Middleware(r) \/ Authenticate(r) \/ Route(r)
       \/ Deliver(r) \/ Lose(r) \/ Commit(r) \/ CommitFails(r) \/ RollBack(r)
  \/ CloseElsewhere

Spec == Init /\ [][Next]_vars

-----------------------------------------------------------------------------
(* Properties *)

\* Types, and the row locks of PostgreSQL: a row has one writer at a time.
TypeOK ==
  /\ session \in [Sid -> Row]
  /\ jar \in Jar
  /\ request \in [Requests -> RequestState]
  /\ write \in [Requests -> [Sid -> Row]]
  /\ minted \in Token
  /\ issued \in [Token -> Sid \cup {None}]
  /\ clean \in BOOLEAN
  /\ \A r, q \in Requests, s \in Sid :
       write[r][s].state # "absent" /\ write[q][s].state # "absent" => r = q

\* A state-changing route runs for a live session only with a token minted
\* for that very session (CsrfMiddleware), whatever tabs, rotations, logins
\* and impersonations have left in the cookie jar.  One exception: the
\* session was inserted by a login whose response overtook its commit, so
\* that the middleware saw no session and let the request pass unchecked.
TokenOfItsSession ==
  \A r \in Requests :
    LET q == request[r] IN
    q.kind \in Unsafe /\ q.pc \in {"handle", "restore"} =>
      issued[q.header] = q.sid \/ q.unseen

\* clean: since its last login the browser has sent one request after the
\* other, each one committed and answered, and none that started or ended an
\* impersonation.  Then the token in its cookie is never refused: logins
\* repair the jar whatever was left in it, rotations keep it in step.
Serial ==
  \A r \in Requests :
    LET q == request[r] IN
    clean /\ q.header # 0 /\ q.header = q.cookie /\ q.header = Parsed(jar) =>
      ~Refused(r)

\* A stop request with the header a page at / reads from its cookie reaches
\* the route ("Stop impersonation and restore the admin session").
StopReachesRoute ==
  \A r \in Requests :
    LET q == request[r] IN
    q.kind = "stop" /\ q.header = jar.root /\ q.header = q.cookie /\ Alone(r) =>
      ~Refused(r)
=============================================================================
