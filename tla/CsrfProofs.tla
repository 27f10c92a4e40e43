----------------------------- MODULE CsrfProofs -----------------------------
(***************************************************************************)
(* Proofs about CsrfCookies for every value of the constants: types and    *)
(* row locks, that a state-changing route runs only with a token that was  *)
(* minted for its own session, and that a browser which sends one request  *)
(* after the other is not refused.                                         *)
(*                                                                         *)
(* The inductive invariant follows a token: the middleware compared the    *)
(* header with the row it read; the row may be closed or get another token *)
(* before the route runs, but it is never reopened, and a token never      *)
(* belongs to two sessions.  For Serial it follows the id of a session     *)
(* that a login has drawn: nobody names it before the answer is delivered, *)
(* so that no rotation can part the row from the token in the answer.      *)
(***************************************************************************)
EXTENDS CsrfInv, TLAPS

-----------------------------------------------------------------------------
(* Steps *)

\* Of the tokens nothing changes, or one more is minted.
Minting == UNCHANGED <<minted, issued>> \/ \E s \in Sid : Mint(s)

\* A new token is nobody's, the tokens of before keep their sessions.
LEMMA MintOK ==
  ASSUME TypeOK, IssuedOK, NEW s \in Sid, Mint(s)
  PROVE  /\ minted + 1 \in Token /\ minted' \in Token
         /\ issued' \in [Token -> Sid \cup {None}]
         /\ issued'[minted + 1] = s
         /\ IssuedOK'
         /\ \A t \in Token : issued[t] # None => issued'[t] = issued[t]
<1>1. /\ minted \in Nat /\ minted < MaxToken /\ minted' = minted + 1
      /\ issued' = [issued EXCEPT ![minted + 1] = s]
      /\ issued \in [Token -> Sid \cup {None}]
  BY MaxTokenAssumption DEF Mint, TypeOK, Token
<1>2. minted + 1 \in Token /\ minted' \in Token
  BY <1>1, MaxTokenAssumption DEF Token
<1>3. \A t \in Token : t # minted + 1 => issued'[t] = issued[t]
  BY <1>1
<1>4. issued'[minted + 1] = s /\ issued' \in [Token -> Sid \cup {None}]
  BY <1>1, <1>2
<1>5. \A t \in Token : issued[t] # None => t # minted + 1
  BY <1>1 DEF IssuedOK, Token
<1>6. IssuedOK'
  BY <1>1, <1>3, MaxTokenAssumption DEF IssuedOK, Token
<1> QED BY <1>2, <1>3, <1>4, <1>5, <1>6

LEMMA MintingOK ==
  ASSUME TypeOK, IssuedOK, Minting
  PROVE  /\ minted' \in Token /\ issued' \in [Token -> Sid \cup {None}]
         /\ IssuedOK'
         /\ \A t \in Token, s \in Sid : issued[t] = s => issued'[t] = s
<1>1. CASE UNCHANGED <<minted, issued>>
  BY <1>1 DEF TypeOK, IssuedOK
<1>2. CASE \E s \in Sid : Mint(s)
  BY <1>2, MintOK, NoneAssumption
<1> QED BY <1>1, <1>2 DEF Minting

\* New versions of rows nobody else has locked keep the row locks exclusive.
LEMMA LocksOK ==
  ASSUME TypeOK, NEW r \in Requests, NEW rows \in [Sid -> Row],
         write' = [write EXCEPT ![r] = rows],
         \A s \in Sid : rows[s].state # "absent" =>
           write[r][s].state # "absent" \/ CanLock(r, s)
  PROVE  /\ write' \in [Requests -> [Sid -> Row]]
         /\ \A p, q \in Requests, s \in Sid :
              write'[p][s].state # "absent" /\ write'[q][s].state # "absent" => p = q
<1>1. write' \in [Requests -> [Sid -> Row]] /\ write'[r] = rows
      /\ \A q \in Requests \ {r} : write'[q] = write[q]
  BY DEF TypeOK
<1>2. ASSUME NEW q \in Requests \ {r}, NEW s \in Sid, rows[s].state # "absent"
      PROVE  write[q][s].state = "absent"
  BY <1>2 DEF TypeOK, CanLock
<1> QED BY <1>1, <1>2 DEF TypeOK

\* A step of one request that leaves the committed rows alone.
LEMMA LocalStep ==
  ASSUME IInv, TypeOK', NEW r \in Requests, session' = session, Minting,
         \A q \in Requests \ {r} : request'[q] = request[q] /\ write'[q] = write[q],
         \A s \in Sid : WriteOK(r, s)',
         RequestOK(r)'
  PROVE  IInv'
<1>1. /\ IssuedOK'
      /\ \A t \in Token, s \in Sid : issued[t] = s => issued'[t] = s
  BY MintingOK DEF IInv
<1>2. \A s \in Sid : session[s] \in Row
  BY DEF IInv, TypeOK
<1>3. \A q \in Requests, s \in Sid : write[q][s] \in Row
  BY DEF IInv, TypeOK
<1>4. \A q \in Requests : request[q] \in RequestState
  BY DEF IInv, TypeOK
<1>5. ASSUME NEW s \in Sid PROVE RowOK(s)'
  BY <1>1, <1>2 DEF IInv, RowOK, Row
<1>6. ASSUME NEW q \in Requests, NEW s \in Sid PROVE WriteOK(q, s)'
  <2>1. CASE q = r BY <2>1
  <2>2. CASE q # r
    BY <1>1, <1>3, <2>2 DEF IInv, WriteOK, Row
  <2> QED BY <2>1, <2>2
<1>7. ASSUME NEW q \in Requests PROVE RequestOK(q)'
  <2>1. CASE q = r BY <2>1
  <2>2. CASE q # r
    <3>1. request'[q] = request[q] /\ write'[q] = write[q] /\ RequestOK(q)
      BY <2>2 DEF IInv
    <3>2. request[q].header \in Token
      BY <1>4 DEF RequestState
    <3> QED BY <1>1, <3>1, <3>2 DEF RequestOK
  <2> QED BY <2>1, <2>2
<1> QED BY <1>1, <1>5, <1>6, <1>7 DEF IInv

\* The row a request sees has a token minted for it, and is not one that
\* others see closed.
LEMMA ViewOK ==
  ASSUME IInv, NEW r \in Requests, NEW s \in Sid
  PROVE  /\ View(r, s) \in Row
         /\ View(r, s).state # "absent" => issued[View(r, s).token] = s
         /\ View(r, s).state = "active" => session[s].state # "inactive"
<1>1. session[s] \in Row /\ write[r][s] \in Row /\ RowOK(s) /\ WriteOK(r, s)
  BY DEF IInv, TypeOK
<1> QED BY <1>1 DEF View, RowOK, WriteOK

\* An id that no token was minted for is the id of no row.
LEMMA FreshOK ==
  ASSUME IInv, NEW r \in Requests, NEW s \in Sid, Fresh(s)
  PROVE  session[s].state = "absent" /\ CanLock(r, s)
<1>1. session[s] \in Row /\ RowOK(s)
  BY DEF IInv, TypeOK
<1>2. \A q \in Requests : write[q][s] \in Row /\ WriteOK(q, s)
  BY DEF IInv, TypeOK
<1> QED BY <1>1, <1>2 DEF Fresh, RowOK, WriteOK, CanLock, Row

\* A row version is sound: its token is known and it reopens nothing.
Sound(row, s) ==
  row.state # "absent" =>
    /\ issued'[row.token] = s
    /\ row.state = "active" => session[s].state # "inactive"

\* What a request sees of a row, its own version of it, and both when closed.
LEMMA SoundRows ==
  ASSUME IInv, Minting, NEW r \in Requests, NEW s \in Sid
  PROVE  /\ Sound(View(r, s), s) /\ Sound(write[r][s], s) /\ Sound(session[s], s)
         /\ View(r, s).state # "absent" => Sound([View(r, s) EXCEPT !.state = "inactive"], s)
         /\ session[s].state # "absent" => Sound([session[s] EXCEPT !.state = "inactive"], s)
<1>1. \A t \in Token : issued[t] = s => issued'[t] = s
  BY MintingOK DEF IInv
<1>2. View(r, s) \in Row /\ write[r][s] \in Row /\ session[s] \in Row
  BY ViewOK DEF IInv, TypeOK
<1>3. Sound(View(r, s), s)
  BY <1>1, <1>2, ViewOK DEF Sound, Row
<1>4. Sound(write[r][s], s)
  BY <1>1, <1>2 DEF Sound, Row, IInv, WriteOK
<1>5. Sound(session[s], s)
  BY <1>1, <1>2 DEF Sound, Row, IInv, RowOK
<1>6. View(r, s).state # "absent" => Sound([View(r, s) EXCEPT !.state = "inactive"], s)
  BY <1>1, <1>2, ViewOK DEF Sound, Row
<1>7. session[s].state # "absent" => Sound([session[s] EXCEPT !.state = "inactive"], s)
  BY <1>1, <1>2 DEF Sound, Row, IInv, RowOK
<1> QED BY <1>3, <1>4, <1>5, <1>6, <1>7

\* A step of a route: new row versions, maybe a new token.
LEMMA RouteStep ==
  ASSUME IInv, NEW r \in Requests, NEW rows \in [Sid -> Row],
         NEW new \in RequestState,
         UNCHANGED <<session, jar, clean>>, Minting,
         write' = [write EXCEPT ![r] = rows],
         request' = [request EXCEPT ![r] = new],
         \A s \in Sid : rows[s].state # "absent" =>
           write[r][s].state # "absent" \/ CanLock(r, s),
         \A s \in Sid : Sound(rows[s], s),
         RequestOK(r)'
  PROVE  IInv'
<1>1. TypeOK
  BY DEF IInv
<1>2. /\ write' \in [Requests -> [Sid -> Row]]
      /\ \A p, q \in Requests, s \in Sid :
           write'[p][s].state # "absent" /\ write'[q][s].state # "absent" => p = q
  BY <1>1, LocksOK
<1>3. minted' \in Token /\ issued' \in [Token -> Sid \cup {None}]
  BY MintingOK DEF IInv
<1>4. request' \in [Requests -> RequestState]
  BY <1>1 DEF TypeOK
<1>5. TypeOK'
  BY <1>1, <1>2, <1>3, <1>4 DEF TypeOK
<1>6. write'[r] = rows
  BY <1>1 DEF TypeOK
<1>7. \A s \in Sid : WriteOK(r, s)'
  BY <1>6 DEF Sound, WriteOK
<1>8. \A q \in Requests \ {r} : request'[q] = request[q] /\ write'[q] = write[q]
  BY <1>1 DEF TypeOK
<1> QED BY <1>5, <1>7, <1>8, LocalStep

\* The last step of a route.
LEMMA DoneStep ==
  ASSUME IInv, NEW r \in Requests, NEW rows \in [Sid -> Row],
         NEW new \in [sid : Sid \cup {None}, token : Token],
         UNCHANGED <<session, jar, clean>>, Minting, Done(r, rows, new),
         \A s \in Sid : rows[s].state # "absent" =>
           write[r][s].state # "absent" \/ CanLock(r, s),
         \A s \in Sid : Sound(rows[s], s)
  PROVE  IInv'
<1> DEFINE q == [NoRequest EXCEPT !.pc = "answer", !.kind = request[r].kind,
                                  !.ok = TRUE, !.new = new]
<1>1. request[r] \in RequestState
  BY DEF IInv, TypeOK
<1>2. q \in RequestState /\ q.pc = "answer"
  <2>1. request[r].kind \in Unsafe \cup {"none", "login"}
    BY <1>1 DEF RequestState
  <2>2. NoRequest \in RequestState
    BY MaxTokenAssumption DEF RequestState, NoRequest, NoCookies, Token
  <2> QED BY <2>1, <2>2 DEF RequestState
<1>3. request' = [request EXCEPT ![r] = q] /\ write' = [write EXCEPT ![r] = rows]
  BY DEF Done, Answer
<1> HIDE DEF q
<1>4. request'[r] = q
  BY <1>3 DEF IInv, TypeOK
<1>5. RequestOK(r)'
  BY <1>2, <1>4 DEF RequestOK
<1> QED BY <1>2, <1>3, <1>5, RouteStep

\* A step that changes the program counter and the cookies at most.
LEMMA ReadStep ==
  ASSUME IInv, NEW r \in Requests, NEW new \in RequestState,
         NEW rows \in [Sid -> Row],
         UNCHANGED <<session, minted, issued>>, jar' \in Jar, clean' \in BOOLEAN,
         request' = [request EXCEPT ![r] = new],
         write' = [write EXCEPT ![r] = rows],
         \A s \in Sid : rows[s] = NoRow \/ rows[s] = write[r][s],
         RequestOK(r)'
  PROVE  IInv'
<1>1. TypeOK /\ Minting
  BY DEF IInv, Minting
<1>2. NoRow.state = "absent"
  BY DEF NoRow
<1>3. /\ write' \in [Requests -> [Sid -> Row]]
      /\ \A p, q \in Requests, s \in Sid :
           write'[p][s].state # "absent" /\ write'[q][s].state # "absent" => p = q
  BY <1>1, <1>2, LocksOK
<1>4. request' \in [Requests -> RequestState]
  BY <1>1 DEF TypeOK
<1>5. TypeOK'
  BY <1>1, <1>3, <1>4 DEF TypeOK
<1>6. write'[r] = rows
  BY <1>1 DEF TypeOK
<1>7. \A s \in Sid : WriteOK(r, s)'
  BY <1>2, <1>6 DEF IInv, WriteOK
<1>8. \A q \in Requests \ {r} : request'[q] = request[q] /\ write'[q] = write[q]
  BY <1>1 DEF TypeOK
<1> QED BY <1>1, <1>5, <1>7, <1>8, LocalStep

-----------------------------------------------------------------------------
(* One lemma per action *)

LEMMA InitInv == Init => IInv
<1> SUFFICES ASSUME Init PROVE IInv
  OBVIOUS
<1>1. 0 \in Token
  BY MaxTokenAssumption DEF Token
<1>2. TypeOK
  BY <1>1 DEF Init, TypeOK, Row, NoRow, Jar, RequestState, NoRequest, NoCookies
<1> QED BY <1>2 DEF Init, IInv, IssuedOK, RowOK, WriteOK, RequestOK, NoRow, NoRequest

LEMMA NoRequestOK ==
  ASSUME TypeOK, NEW r \in Requests, request' = [request EXCEPT ![r] = NoRequest]
  PROVE  NoRequest \in RequestState /\ RequestOK(r)'
<1>1. NoRequest \in RequestState /\ NoRequest.pc = "idle"
  BY MaxTokenAssumption DEF RequestState, NoRequest, NoCookies, Token
<1>2. request'[r] = NoRequest
  BY DEF TypeOK
<1> QED BY <1>1, <1>2 DEF RequestOK

\* No request has new row versions.
LEMMA SameWrite ==
  ASSUME TypeOK, NEW r \in Requests
  PROVE  write[r] \in [Sid -> Row] /\ write = [write EXCEPT ![r] = write[r]]
BY DEF TypeOK

\* A request is a record, its cookies are those of the jar.
LEMMA SendInv ==
  ASSUME IInv, NEW r \in Requests, Send(r) PROVE IInv'
<1>1. TypeOK /\ jar \in Jar /\ 0 \in Token
  BY MaxTokenAssumption DEF IInv, TypeOK, Token
<1>2. NoRequest \in RequestState
  BY <1>1, NoRequestOK DEF RequestState, NoRequest, NoCookies
<1>3. PICK k \in Kinds :
       \/ /\ k \notin Unsafe
          /\ request' = [request EXCEPT ![r] =
               [NoRequest EXCEPT
                  !.pc = IF k = "login" THEN "handle" ELSE "authenticate",
                  !.kind = k, !.sid = jar.sid]]
       \/ /\ k \in Unsafe
          /\ \E c \in Sendable(jar), h \in {jar.root, jar.scoped} :
               request' = [request EXCEPT ![r] =
                 [NoRequest EXCEPT
                    !.pc = IF jar.sid = None THEN "authenticate" ELSE "csrf",
                    !.kind = k, !.sid = jar.sid, !.cookie = c, !.header = h]]
  BY DEF Send
<1>4. clean' \in BOOLEAN /\ UNCHANGED <<session, jar, write, minted, issued>>
  BY <1>1 DEF Send, TypeOK
<1>5. CASE k \notin Unsafe
  <2> DEFINE new == [NoRequest EXCEPT !.pc = "handle", !.kind = k, !.sid = jar.sid]
  <2>1. k = "login" /\ request' = [request EXCEPT ![r] = new]
    BY <1>3, <1>5, KindsAssumption
  <2>2. new \in RequestState /\ new.pc = "handle" /\ new.kind = "login"
    BY <1>1, <1>2, <2>1 DEF RequestState, Jar
  <2> HIDE DEF new
  <2>3. request'[r] = new
    BY <1>1, <2>1 DEF TypeOK
  <2>4. RequestOK(r)'
    BY <2>2, <2>3 DEF RequestOK, Unsafe
  <2> QED BY <1>1, <1>4, <2>1, <2>2, <2>4, SameWrite, ReadStep
<1>6. CASE k \in Unsafe
  <2>1. PICK c \in Sendable(jar), h \in {jar.root, jar.scoped} :
          request' = [request EXCEPT ![r] =
            [NoRequest EXCEPT
               !.pc = IF jar.sid = None THEN "authenticate" ELSE "csrf",
               !.kind = k, !.sid = jar.sid, !.cookie = c, !.header = h]]
    BY <1>3, <1>6
  <2> DEFINE pc == IF jar.sid = None THEN "authenticate" ELSE "csrf"
             new == [NoRequest EXCEPT !.pc = pc,
                       !.kind = k, !.sid = jar.sid, !.cookie = c, !.header = h]
  <2>2. c \in Token /\ h \in Token /\ jar.sid \in Sid \cup {None}
    BY <1>1 DEF Sendable, Parsed, Jar
  <2>3. /\ pc = "csrf" => jar.sid \in Sid
        /\ pc = "authenticate" => jar.sid \notin Sid
        /\ pc \in {"csrf", "authenticate"}
    BY <2>2, NoneAssumption
  <2> HIDE DEF pc
  <2>4. new \in RequestState /\ new.pc = pc /\ new.sid = jar.sid
    BY <1>2, <1>6, <2>2, <2>3 DEF RequestState
  <2>5. request' = [request EXCEPT ![r] = new]
    BY <2>1 DEF pc
  <2> HIDE DEF new
  <2>6. request'[r] = new
    BY <1>1, <2>5 DEF TypeOK
  <2>7. RequestOK(r)'
    BY <2>3, <2>4, <2>6 DEF RequestOK
  <2> QED BY <1>1, <1>4, <2>4, <2>5, <2>7, SameWrite, ReadStep
<1> QED BY <1>5, <1>6

\* The end of a request that leaves no rows and sets no cookies.
LEMMA EndStep ==
  ASSUME IInv, NEW r \in Requests, NEW rows \in {write[r], [s \in Sid |-> NoRow]},
         UNCHANGED <<session, minted, issued>>, jar' \in Jar, clean' \in BOOLEAN,
         request' = [request EXCEPT ![r] = NoRequest],
         write' = [write EXCEPT ![r] = rows]
  PROVE  IInv'
<1>1. TypeOK
  BY DEF IInv
<1>2. NoRequest \in RequestState /\ RequestOK(r)'
  BY <1>1, NoRequestOK
<1>3. NoRow \in Row
  BY MaxTokenAssumption DEF NoRow, Row, Token
<1>4. rows \in [Sid -> Row] /\ \A s \in Sid : rows[s] = NoRow \/ rows[s] = write[r][s]
  BY <1>1, <1>3, SameWrite
<1> QED BY <1>2, <1>4, ReadStep

\* The middleware and the authentication compare the header with the row they read.
LEMMA MiddlewareInv ==
  ASSUME IInv, NEW r \in Requests, Middleware(r) PROVE IInv'
<1>1. TypeOK /\ request[r] \in RequestState /\ jar' \in Jar /\ clean' \in BOOLEAN
      /\ UNCHANGED <<session, jar, write, minted, issued, clean>>
  BY DEF IInv, TypeOK, Middleware
<1>2. CASE Refused(r)
  <2>1. request' = [request EXCEPT ![r] = NoRequest]
    BY <1>2 DEF Middleware, Deny
  <2> QED BY <1>1, <2>1, SameWrite, EndStep
<1>3. CASE ~Refused(r)
  <2> DEFINE s == request[r].sid
             unseen == session[s].state = "absent"
             new == [request[r] EXCEPT !.unseen = unseen, !.cookie = 0,
                                       !.pc = "authenticate"]
  <2>1. request' = [request EXCEPT ![r] = new]
    BY <1>3 DEF Middleware
  <2>2. s \in Sid
    BY DEF Middleware, IInv, RequestOK
  <2>3. session[s] \in Row /\ RowOK(s)
    BY <2>2 DEF IInv, TypeOK
  <2>4. \/ unseen
        \/ session[s].state = "inactive"
        \/ issued[request[r].header] = s
    BY <1>3, <2>3 DEF Middleware, Refused, TokensAgree, RowOK, Row
  <2>5. new \in RequestState /\ new.pc = "authenticate" /\ new.sid = s
        /\ new.unseen = unseen /\ new.header = request[r].header
    <3>1. 0 \in Token /\ unseen \in BOOLEAN
      BY MaxTokenAssumption DEF Token
    <3> HIDE DEF unseen
    <3> QED BY <1>1, <3>1 DEF RequestState
  <2> HIDE DEF new
  <2>6. request'[r] = new
    BY <1>1, <2>1 DEF TypeOK
  <2>7. RequestOK(r)'
    BY <1>1, <2>4, <2>5, <2>6 DEF RequestOK
  <2> QED BY <1>1, <2>1, <2>5, <2>7, SameWrite, ReadStep
<1> QED BY <1>2, <1>3

LEMMA AuthenticateInv ==
  ASSUME IInv, NEW r \in Requests, Authenticate(r) PROVE IInv'
<1> DEFINE s == request[r].sid
           new == [request[r] EXCEPT !.pc = "handle"]
<1>1. TypeOK /\ request[r] \in RequestState /\ jar' \in Jar /\ clean' \in BOOLEAN
      /\ UNCHANGED <<session, jar, write, minted, issued, clean>>
  BY DEF IInv, TypeOK, Authenticate
<1>2. CASE s # None /\ session[s].state = "active"
  <2>1. request' = [request EXCEPT ![r] = new]
    BY <1>2 DEF Authenticate, Proceed
  <2>2. s \in Sid
    BY <1>1, <1>2 DEF RequestState
  <2>3. request[r].kind \in Unsafe =>
          issued[request[r].header] = s \/ request[r].unseen
    BY <1>1, <1>2, <2>2 DEF IInv, RequestOK, Authenticate, RequestState
  <2>4. new \in RequestState /\ new.pc = "handle" /\ new.sid = s
        /\ new.unseen = request[r].unseen /\ new.header = request[r].header
        /\ new.kind = request[r].kind
    BY <1>1 DEF RequestState
  <2> HIDE DEF new
  <2>5. request'[r] = new
    BY <1>1, <2>1 DEF TypeOK
  <2>6. RequestOK(r)'
    BY <1>1, <1>2, <2>2, <2>3, <2>4, <2>5 DEF RequestOK
  <2> QED BY <1>1, <2>1, <2>4, <2>6, SameWrite, ReadStep
<1>3. CASE ~(s # None /\ session[s].state = "active")
  <2>1. request' = [request EXCEPT ![r] = NoRequest]
    BY <1>3 DEF Authenticate, Deny
  <2> QED BY <1>1, <2>1, SameWrite, EndStep
<1> QED BY <1>2, <1>3

\* What a route relies on when it starts.
LEMMA OwnOK ==
  ASSUME IInv, NEW r \in Requests, NEW kind \in Unsafe, Own(r, kind)
  PROVE  /\ request[r].sid \in Sid /\ request[r] \in RequestState
         /\ session[request[r].sid].state # "absent"
         /\ CanLock(r, request[r].sid)
         /\ request[r].kind = kind
BY DEF IInv, TypeOK, RequestOK, Own, Unsafe

LEMMA LoginInv ==
  ASSUME IInv, NEW r \in Requests, Login(r) PROVE IInv'
<1>1. PICK s \in Sid :
        /\ Fresh(s) /\ Mint(s)
        /\ Done(r, [write[r] EXCEPT ![s] =
                     [state |-> "active", token |-> minted + 1, admin |-> None]],
                [sid |-> s, token |-> minted + 1])
  BY DEF Login
<1> DEFINE row == [state |-> "active", token |-> minted + 1, admin |-> None]
           rows == [write[r] EXCEPT ![s] = row]
<1>2. TypeOK /\ IssuedOK /\ Minting /\ UNCHANGED <<session, jar, clean>>
  BY <1>1 DEF IInv, Minting, Login
<1>3. minted + 1 \in Token /\ issued'[minted + 1] = s
  BY <1>1, <1>2, MintOK
<1>4. /\ row \in Row /\ Sound(row, s) /\ session[s].state = "absent" /\ CanLock(r, s)
  BY <1>1, <1>3, FreshOK DEF Row, Sound
<1> HIDE DEF row
<1>5. rows \in [Sid -> Row] /\ rows[s] = row
      /\ \A t \in Sid \ {s} : rows[t] = write[r][t]
  BY <1>2, <1>4, SameWrite
<1>6. Done(r, rows, [sid |-> s, token |-> minted + 1])
  BY <1>1 DEF row
<1> HIDE DEF rows
<1>7. \A t \in Sid : Sound(rows[t], t)
  BY <1>2, <1>4, <1>5, SoundRows
<1>8. \A t \in Sid : rows[t].state # "absent" =>
        write[r][t].state # "absent" \/ CanLock(r, t)
  BY <1>4, <1>5
<1>9. [sid |-> s, token |-> minted + 1] \in [sid : Sid \cup {None}, token : Token]
  BY <1>3
<1> QED BY <1>2, <1>5, <1>6, <1>7, <1>8, <1>9, DoneStep

\* A route that replaces its own row and sets no cookies.
LEMMA OwnRowStep ==
  ASSUME IInv, NEW r \in Requests, NEW row \in Row,
         UNCHANGED <<session, jar, minted, issued, clean>>,
         request[r].sid \in Sid, CanLock(r, request[r].sid), Sound(row, request[r].sid),
         Done(r, [write[r] EXCEPT ![request[r].sid] = row], NoCookies)
  PROVE  IInv'
<1> DEFINE s == request[r].sid
           rows == [write[r] EXCEPT ![s] = row]
<1>1. TypeOK /\ Minting
  BY DEF IInv, Minting
<1>2. rows \in [Sid -> Row] /\ rows[s] = row
      /\ \A t \in Sid \ {s} : rows[t] = write[r][t]
  BY <1>1, SameWrite
<1>3. Done(r, rows, NoCookies)
  OBVIOUS
<1> HIDE DEF rows
<1>4. \A t \in Sid : Sound(rows[t], t)
  BY <1>1, <1>2, SoundRows
<1>5. \A t \in Sid : rows[t].state # "absent" =>
        write[r][t].state # "absent" \/ CanLock(r, t)
  BY <1>2
<1>6. NoCookies \in [sid : Sid \cup {None}, token : Token]
  BY MaxTokenAssumption DEF NoCookies, Token
<1> QED BY <1>1, <1>2, <1>3, <1>4, <1>5, <1>6, DoneStep

LEMMA PlainInv ==
  ASSUME IInv, NEW r \in Requests, Plain(r) PROVE IInv'
<1> DEFINE s == request[r].sid
<1>1. s \in Sid /\ CanLock(r, s)
  BY OwnOK DEF Plain, Unsafe
<1>2. session[s] \in Row
  BY <1>1 DEF IInv, TypeOK
<1>3. Sound(session[s], s)
  BY <1>1, SoundRows DEF Plain, Minting
<1> QED BY <1>1, <1>2, <1>3, OwnRowStep DEF Plain

LEMMA LogoutInv ==
  ASSUME IInv, NEW r \in Requests, Logout(r) PROVE IInv'
<1> DEFINE s == request[r].sid
           row == [session[s] EXCEPT !.state = "inactive"]
<1>1. s \in Sid /\ CanLock(r, s)
  BY OwnOK DEF Logout, Unsafe
<1>2. row \in Row
  BY <1>1 DEF IInv, TypeOK, Row
<1>3. Sound(row, s)
  BY <1>1, OwnOK, SoundRows DEF Logout, Minting, Unsafe
<1> QED BY <1>1, <1>2, <1>3, OwnRowStep DEF Logout

\* Closing every session of a user, except those kept: each of these rows is
\* locked, sound and closed.
LEMMA RevokedOK ==
  ASSUME IInv, Minting, NEW r \in Requests, NEW s \in Sid, NEW kept \in SUBSET Sid,
         CanLock(r, s), \A t \in SameUser(r, s) : CanLock(r, t)
  PROVE  /\ Revoked(r, s, kept) \in [Sid -> Row]
         /\ \A t \in Sid : Sound(Revoked(r, s, kept)[t], t)
         /\ \A t \in Sid : Revoked(r, s, kept)[t].state # "absent" =>
              write[r][t].state # "absent" \/ CanLock(r, t)
<1> DEFINE rows == Revoked(r, s, kept)
<1>1. ASSUME NEW t \in Sid
      PROVE  /\ rows[t] \in Row /\ Sound(rows[t], t)
             /\ rows[t].state # "absent" => write[r][t].state # "absent" \/ CanLock(r, t)
  <2>1. View(r, t) \in Row /\ write[r][t] \in Row
    BY ViewOK DEF IInv, TypeOK
  <2>2. Sound(View(r, t), t) /\ Sound(write[r][t], t)
    BY SoundRows
  <2>3. CASE t \in SameUser(r, s) \ kept
    <3>1. rows[t] = [View(r, t) EXCEPT !.state = "inactive"]
      BY <2>3 DEF Revoked
    <3>2. View(r, t).state # "absent"
      BY <2>3 DEF SameUser
    <3>3. rows[t] \in Row
      BY <2>1, <3>1 DEF Row
    <3>4. Sound(rows[t], t)
      BY <3>1, <3>2, SoundRows
    <3> QED BY <2>3, <3>3, <3>4
  <2>4. CASE t \notin SameUser(r, s) \ kept
    <3>1. rows[t] = IF t = s THEN View(r, t) ELSE write[r][t]
      BY <2>4 DEF Revoked
    <3> QED BY <2>1, <2>2, <3>1
  <2> QED BY <2>3, <2>4
<1>2. rows = [t \in Sid |-> rows[t]]
  BY DEF Revoked
<1> QED BY <1>1, <1>2

LEMMA LogoutAllInv ==
  ASSUME IInv, NEW r \in Requests, LogoutAll(r) PROVE IInv'
<1> DEFINE s == request[r].sid
<1>1. s \in Sid /\ CanLock(r, s) /\ Minting /\ UNCHANGED <<session, jar, clean>>
  BY OwnOK DEF LogoutAll, Unsafe, Minting
<1>2. Done(r, Revoked(r, s, {}), NoCookies) /\ \A t \in SameUser(r, s) : CanLock(r, t)
  BY DEF LogoutAll
<1>3. NoCookies \in [sid : Sid \cup {None}, token : Token]
  BY MaxTokenAssumption DEF NoCookies, Token
<1> QED BY <1>1, <1>2, <1>3, RevokedOK, DoneStep

LEMMA ChangePasswordInv ==
  ASSUME IInv, NEW r \in Requests, ChangePassword(r) PROVE IInv'
<1> DEFINE s == request[r].sid
           revoked == Revoked(r, s, {s})
           rows == [revoked EXCEPT ![s].token = minted + 1]
<1>1. s \in Sid /\ CanLock(r, s) /\ Mint(s) /\ UNCHANGED <<session, jar, clean>>
  BY OwnOK DEF ChangePassword, Unsafe
<1>2. Minting /\ TypeOK /\ IssuedOK
  BY <1>1 DEF Minting, IInv
<1>3. minted + 1 \in Token /\ issued'[minted + 1] = s
  BY <1>1, <1>2, MintOK
<1>4. /\ revoked \in [Sid -> Row] /\ \A t \in Sid : Sound(revoked[t], t)
      /\ \A t \in Sid : revoked[t].state # "absent" =>
           write[r][t].state # "absent" \/ CanLock(r, t)
  BY <1>1, <1>2, RevokedOK DEF ChangePassword
<1>5. Done(r, rows, [sid |-> None, token |-> minted + 1])
  BY DEF ChangePassword
<1> HIDE DEF revoked
<1>6. rows \in [Sid -> Row] /\ rows[s] = [revoked[s] EXCEPT !.token = minted + 1]
      /\ \A t \in Sid \ {s} : rows[t] = revoked[t]
  BY <1>1, <1>3, <1>4 DEF Row
<1>7. rows[s].state = revoked[s].state /\ rows[s].token = minted + 1
  BY <1>1, <1>4, <1>6 DEF Row
<1> HIDE DEF rows
<1>8. \A t \in Sid : Sound(rows[t], t)
  BY <1>1, <1>3, <1>4, <1>6, <1>7 DEF Sound
<1>9. \A t \in Sid : rows[t].state # "absent" =>
        write[r][t].state # "absent" \/ CanLock(r, t)
  BY <1>1, <1>4, <1>6, <1>7
<1>10. [sid |-> None, token |-> minted + 1] \in [sid : Sid \cup {None}, token : Token]
  BY <1>3
<1> QED BY <1>1, <1>2, <1>5, <1>6, <1>8, <1>9, <1>10, DoneStep

LEMMA ImpersonateInv ==
  ASSUME IInv, NEW r \in Requests, Impersonate(r) PROVE IInv'
<1> DEFINE s == request[r].sid
<1>1. s \in Sid /\ CanLock(r, s) /\ TypeOK /\ IssuedOK
      /\ UNCHANGED <<session, jar, clean>>
  BY OwnOK DEF Impersonate, Unsafe, IInv
<1>2. CASE session[s].admin = None
  <2>1. PICK t \in Sid :
          /\ Fresh(t) /\ Mint(t)
          /\ Done(r, [write[r] EXCEPT
                        ![s] = session[s],
                        ![t] = [state |-> "active", token |-> minted + 1, admin |-> s]],
                  [sid |-> t, token |-> minted + 1])
    BY <1>2 DEF Impersonate
  <2> DEFINE row == [state |-> "active", token |-> minted + 1, admin |-> s]
             rows == [write[r] EXCEPT ![s] = session[s], ![t] = row]
  <2>2. minted + 1 \in Token /\ issued'[minted + 1] = t /\ Minting
    BY <1>1, <2>1, MintOK DEF Minting
  <2>3. row \in Row /\ Sound(row, t) /\ CanLock(r, t)
    BY <1>1, <2>1, <2>2, FreshOK DEF Row, Sound
  <2>4. Done(r, rows, [sid |-> t, token |-> minted + 1])
    BY <2>1
  <2> HIDE DEF row
  <2>5. session[s] \in Row
    BY <1>1 DEF TypeOK
  <2>6. rows \in [Sid -> Row]
    BY <1>1, <2>3, <2>5, SameWrite
  <2>7. \A x \in Sid : rows[x] = IF x = t THEN row
                                 ELSE IF x = s THEN session[s] ELSE write[r][x]
    BY <1>1, SameWrite
  <2> HIDE DEF rows
  <2>8. \A x \in Sid : Sound(rows[x], x)
    BY <1>1, <2>2, <2>3, <2>7, SoundRows
  <2>9. \A x \in Sid : rows[x].state # "absent" =>
          write[r][x].state # "absent" \/ CanLock(r, x)
    BY <1>1, <2>3, <2>7
  <2>10. [sid |-> t, token |-> minted + 1] \in [sid : Sid \cup {None}, token : Token]
    BY <2>2
  <2> QED BY <1>1, <2>2, <2>4, <2>6, <2>8, <2>9, <2>10, DoneStep
<1>3. CASE session[s].admin # None
  <2>1. request' = [request EXCEPT ![r] = NoRequest]
        /\ UNCHANGED <<write, minted, issued>>
    BY <1>3 DEF Impersonate, Deny
  <2>2. jar' \in Jar /\ clean' \in BOOLEAN
    BY <1>1 DEF TypeOK
  <2> QED BY <1>1, <2>1, <2>2, SameWrite, EndStep
<1> QED BY <1>2, <1>3

\* The request keeps the row it has read, locked, and goes on to the
\* administrator's row.
LEMMA StopInv ==
  ASSUME IInv, NEW r \in Requests, Stop(r) PROVE IInv'
<1> DEFINE s == request[r].sid
           a == session[s].admin
           live == /\ session[s].state = "active" /\ a # None
                   /\ session[a].state = "active"
           rows == [write[r] EXCEPT ![s] = session[s]]
<1>1. /\ s \in Sid /\ CanLock(r, s) /\ TypeOK /\ IssuedOK
      /\ session[s] \in Row /\ session[s].state # "absent"
      /\ request[r] \in RequestState /\ request[r].kind = "stop"
      /\ UNCHANGED <<session, jar, minted, issued, clean>>
  BY OwnOK DEF Stop, Unsafe, IInv, TypeOK
<1>2. Minting
  BY <1>1 DEF Minting
<1>3. rows \in [Sid -> Row] /\ rows[s] = session[s]
      /\ \A x \in Sid \ {s} : rows[x] = write[r][x]
  BY <1>1, SameWrite
<1>4. write' = [write EXCEPT ![r] = rows] /\ write'[r] = rows
  BY <1>1 DEF Stop, TypeOK
<1> HIDE DEF rows
<1>5. \A x \in Sid : Sound(rows[x], x)
  BY <1>1, <1>2, <1>3, SoundRows
<1>6. \A x \in Sid : rows[x].state # "absent" =>
        write[r][x].state # "absent" \/ CanLock(r, x)
  BY <1>1, <1>3
<1>7. CASE live
  <2> DEFINE new == [request[r] EXCEPT !.pc = "restore"]
  <2>1. request' = [request EXCEPT ![r] = new]
    BY <1>7 DEF Stop, Proceed
  <2>2. new \in RequestState /\ new.pc = "restore" /\ new.kind = "stop"
        /\ new.sid = s /\ new.header = request[r].header
        /\ new.unseen = request[r].unseen
    BY <1>1 DEF RequestState
  <2> HIDE DEF new
  <2>3. request'[r] = new
    BY <1>1, <2>1 DEF TypeOK
  <2>4. issued[request[r].header] = s \/ request[r].unseen
    BY <1>1 DEF IInv, RequestOK, Stop, Own, Unsafe
  <2>5. a \in Sid
    BY <1>1, <1>7 DEF Row
  <2>6. RequestOK(r)'
    BY <1>1, <1>3, <1>4, <2>2, <2>3, <2>4, <2>5 DEF RequestOK
  <2> QED BY <1>1, <1>2, <1>3, <1>4, <1>5, <1>6, <2>1, <2>2, <2>6, RouteStep
<1>8. CASE ~live
  <2> DEFINE new == [NoRequest EXCEPT !.pc = "answer", !.kind = request[r].kind,
                                      !.ok = FALSE, !.new = NoCookies]
  <2>1. request' = [request EXCEPT ![r] = new]
    BY <1>8 DEF Stop, Answer
  <2>2. NoRequest \in RequestState /\ NoRequest.new = NoCookies
    BY MaxTokenAssumption DEF RequestState, NoRequest, NoCookies, Token
  <2>3. new \in RequestState /\ new.pc = "answer"
    BY <1>1, <2>2 DEF RequestState
  <2> HIDE DEF new
  <2>4. request'[r] = new
    BY <1>1, <2>1 DEF TypeOK
  <2>5. RequestOK(r)'
    BY <2>3, <2>4 DEF RequestOK
  <2> QED BY <1>1, <1>2, <1>3, <1>4, <1>5, <1>6, <2>1, <2>3, <2>5, RouteStep
<1> QED BY <1>7, <1>8

LEMMA RestoreInv ==
  ASSUME IInv, NEW r \in Requests, Restore(r) PROVE IInv'
<1> DEFINE s == request[r].sid
           a == session[s].admin
           closed == [write[r][s] EXCEPT !.state = "inactive"]
           row == [session[a] EXCEPT !.token = minted + 1]
           rows == [write[r] EXCEPT ![s].state = "inactive", ![a] = row]
<1>1. /\ request[r] \in RequestState /\ request[r].pc = "restore"
      /\ TypeOK /\ IssuedOK /\ RequestOK(r)
      /\ UNCHANGED <<session, jar, clean>> /\ CanLock(r, a) /\ Mint(a)
  BY DEF Restore, IInv, TypeOK
<1>2. s \in Sid /\ a \in Sid /\ write[r][s].state # "absent"
  BY <1>1 DEF RequestOK, Unsafe
<1>3. minted + 1 \in Token /\ issued'[minted + 1] = a /\ Minting
  BY <1>1, <1>2, MintOK DEF Minting
<1>4. write[r][s] \in Row /\ session[a] \in Row
  BY <1>1, <1>2 DEF TypeOK
<1>5. closed \in Row /\ closed.state = "inactive" /\ closed.token = write[r][s].token
  BY <1>4 DEF Row
<1>6. row \in Row /\ row.state = session[a].state /\ row.token = minted + 1
  BY <1>3, <1>4 DEF Row
<1>7. Sound(closed, s)
  BY <1>2, <1>3, <1>5, SoundRows DEF Sound
<1>8. Sound(row, a)
  BY <1>3, <1>6 DEF Sound
<1>9. rows = [write[r] EXCEPT ![s] = closed, ![a] = row]
  BY <1>1, <1>2, SameWrite
<1>10. Done(r, rows, [sid |-> a, token |-> minted + 1])
  BY DEF Restore
<1> HIDE DEF closed, row, rows
<1>11. rows \in [Sid -> Row]
  BY <1>1, <1>2, <1>5, <1>6, <1>9, SameWrite
<1>12. \A x \in Sid : rows[x] = IF x = a THEN row
                                ELSE IF x = s THEN closed ELSE write[r][x]
  BY <1>1, <1>2, <1>9, SameWrite
<1>13. \A x \in Sid : Sound(rows[x], x)
  BY <1>3, <1>7, <1>8, <1>12, SoundRows
<1>14. \A x \in Sid : rows[x].state # "absent" =>
         write[r][x].state # "absent" \/ CanLock(r, x)
  BY <1>1, <1>2, <1>12
<1>15. [sid |-> a, token |-> minted + 1] \in [sid : Sid \cup {None}, token : Token]
  BY <1>2, <1>3
<1> QED BY <1>1, <1>3, <1>10, <1>11, <1>13, <1>14, <1>15, DoneStep

\* Whether or not another event is still to come, a finished route relies on
\* nothing.
LEMMA FinishOK ==
  ASSUME TypeOK, NEW r \in Requests, NEW event \in {"closing", "sent"}, Finish(r, event)
  PROVE  \E new \in RequestState :
           /\ request' = [request EXCEPT ![r] = new]
           /\ request'[r] = new
           /\ new.pc \in {"idle", "closing", "sent"}
<1>1. request[r] \in RequestState
  BY DEF TypeOK
<1>2. CASE NextPc(r, event) = "idle"
  <2>1. request' = [request EXCEPT ![r] = NoRequest]
    BY <1>2 DEF Finish
  <2>2. NoRequest \in RequestState /\ NoRequest.pc = "idle"
    BY <2>1, NoRequestOK DEF NoRequest
  <2>3. request'[r] = NoRequest
    BY <2>1 DEF TypeOK
  <2> QED BY <2>1, <2>2, <2>3
<1>3. CASE NextPc(r, event) # "idle"
  <2> DEFINE new == [request[r] EXCEPT !.pc = event]
  <2>1. request' = [request EXCEPT ![r] = new]
    BY <1>3 DEF Finish
  <2>2. new \in RequestState /\ new.pc = event
    BY <1>1 DEF RequestState
  <2> HIDE DEF new
  <2>3. request'[r] = new
    BY <2>1 DEF TypeOK
  <2> QED BY <2>1, <2>2, <2>3
<1> QED BY <1>2, <1>3

\* The answer arrives, or is lost; the rows of the request stay open.
LEMMA ArriveStep ==
  ASSUME IInv, NEW r \in Requests, UNCHANGED <<session, write, minted, issued>>,
         jar' \in Jar, clean' \in BOOLEAN, Finish(r, "closing")
  PROVE  IInv'
<1>1. TypeOK
  BY DEF IInv
<1>2. PICK new \in RequestState :
        /\ request' = [request EXCEPT ![r] = new]
        /\ request'[r] = new /\ new.pc \in {"idle", "closing", "sent"}
  BY <1>1, FinishOK
<1>3. RequestOK(r)'
  BY <1>2 DEF RequestOK
<1> QED BY <1>1, <1>2, <1>3, SameWrite, ReadStep

LEMMA DeliverInv ==
  ASSUME IInv, NEW r \in Requests, Deliver(r) PROVE IInv'
<1>1. jar \in Jar /\ request[r] \in RequestState /\ clean \in BOOLEAN /\ 0 \in Token
  BY MaxTokenAssumption DEF IInv, TypeOK, Token
<1>2. request[r].new.sid \in Sid \cup {None} /\ request[r].new.token \in Token
  BY <1>1 DEF RequestState
<1>3. SetCookies(request[r].kind, request[r].new, jar) \in Jar
  BY <1>1, <1>2 DEF SetCookies, Jar
<1>4. jar' \in Jar
  BY <1>1, <1>3 DEF Deliver
<1>5. clean' \in BOOLEAN
  <2>1. clean' = clean \/ clean' = (clean \/ Alone(r)) \/ clean' = FALSE
    BY DEF Deliver
  <2>2. (clean \/ Alone(r)) \in BOOLEAN
    OBVIOUS
  <2> QED BY <1>1, <2>1, <2>2
<1> QED BY <1>4, <1>5, ArriveStep DEF Deliver

LEMMA LoseInv ==
  ASSUME IInv, NEW r \in Requests, Lose(r) PROVE IInv'
BY ArriveStep DEF Lose, IInv, TypeOK

LEMMA CommitFailsInv ==
  ASSUME IInv, NEW r \in Requests, CommitFails(r) PROVE IInv'
<1> DEFINE rows == [s \in Sid |-> NoRow]
<1>1. TypeOK /\ jar' \in Jar /\ clean' \in BOOLEAN
      /\ UNCHANGED <<session, minted, issued>> /\ write' = [write EXCEPT ![r] = rows]
  BY DEF IInv, TypeOK, CommitFails
<1>2. PICK new \in RequestState :
        /\ request' = [request EXCEPT ![r] = new]
        /\ request'[r] = new /\ new.pc \in {"idle", "closing", "sent"}
  BY <1>1, FinishOK DEF CommitFails
<1>3. RequestOK(r)'
  BY <1>2 DEF RequestOK
<1>4. rows \in [Sid -> Row] /\ \A s \in Sid : rows[s] = NoRow
  BY MaxTokenAssumption DEF NoRow, Row, Token
<1> QED BY <1>1, <1>2, <1>3, <1>4, ReadStep

LEMMA RollBackInv ==
  ASSUME IInv, NEW r \in Requests, RollBack(r) PROVE IInv'
BY EndStep DEF RollBack, IInv, TypeOK

\* The committed row is the version that had the lock.
LEMMA CommitInv ==
  ASSUME IInv, NEW r \in Requests, Commit(r) PROVE IInv'
<1> DEFINE rows == [s \in Sid |-> NoRow]
<1>1. TypeOK /\ UNCHANGED <<jar, minted, issued, clean>>
      /\ session' = [s \in Sid |-> View(r, s)] /\ write' = [write EXCEPT ![r] = rows]
  BY DEF IInv, Commit
<1>2. PICK new \in RequestState :
        /\ request' = [request EXCEPT ![r] = new]
        /\ request'[r] = new /\ new.pc \in {"idle", "closing", "sent"}
  BY <1>1, FinishOK DEF Commit
<1>3. NoRow \in Row /\ NoRow.state = "absent"
  BY MaxTokenAssumption DEF NoRow, Row, Token
<1>4. /\ rows \in [Sid -> Row] /\ \A s \in Sid : rows[s].state = "absent"
  BY <1>3
<1>5. \A s \in Sid : session'[s] = View(r, s) /\ session'[s] \in Row
  BY <1>1, ViewOK
<1>6. TypeOK'
  <2>1. session' \in [Sid -> Row]
    BY <1>1, <1>5
  <2>2. request' \in [Requests -> RequestState]
    BY <1>1, <1>2 DEF TypeOK
  <2>3. /\ write' \in [Requests -> [Sid -> Row]]
        /\ \A p, q \in Requests, s \in Sid :
             write'[p][s].state # "absent" /\ write'[q][s].state # "absent" => p = q
    BY <1>1, <1>4, LocksOK
  <2> QED BY <1>1, <2>1, <2>2, <2>3 DEF TypeOK
<1>7. write'[r] = rows /\ \A q \in Requests \ {r} : write'[q] = write[q]
  BY <1>1 DEF TypeOK
<1>8. \A q \in Requests \ {r} : request'[q] = request[q]
  BY <1>1, <1>2 DEF TypeOK
<1> HIDE DEF rows
<1>9. \A s \in Sid : RowOK(s)'
  BY <1>1, <1>5, ViewOK DEF RowOK
\* A closed row stays closed, a row stays a row.
<1>10. \A s \in Sid : /\ session[s].state = "inactive" => session'[s].state = "inactive"
                      /\ session[s].state # "absent" => session'[s].state # "absent"
  <2>1. ASSUME NEW s \in Sid
        PROVE  /\ session[s].state = "inactive" => session'[s].state = "inactive"
               /\ session[s].state # "absent" => session'[s].state # "absent"
    <3>1. session'[s] = View(r, s) /\ WriteOK(r, s) /\ write[r][s] \in Row
      BY <1>5 DEF IInv, TypeOK
    <3> QED BY <3>1 DEF View, WriteOK, Row
  <2> QED BY <2>1
<1>11. ASSUME NEW q \in Requests, NEW s \in Sid PROVE WriteOK(q, s)'
  <2>1. CASE q = r
    BY <1>4, <1>7, <2>1 DEF WriteOK
  <2>2. CASE q # r
    <3>1. write'[q] = write[q] /\ WriteOK(q, s)
      BY <1>7, <2>2 DEF IInv
    <3>2. write[q][s].state # "absent" => session'[s] = session[s]
      BY <1>5, <2>2 DEF IInv, TypeOK, View
    <3> QED BY <1>1, <3>1, <3>2 DEF WriteOK
  <2> QED BY <2>1, <2>2
<1>12. ASSUME NEW q \in Requests PROVE RequestOK(q)'
  <2>1. CASE q = r
    BY <1>2, <2>1 DEF RequestOK
  <2>2. CASE q # r
    <3>1. request'[q] = request[q] /\ write'[q] = write[q] /\ RequestOK(q)
          /\ UNCHANGED issued
      BY <1>1, <1>7, <1>8, <2>2 DEF IInv
    <3>2. \A s \in Sid : write[q][s].state # "absent" => session'[s] = session[s]
      BY <1>5, <2>2 DEF IInv, TypeOK, View
    <3>3. request[q].pc = "restore" => request[q].sid \in Sid
      BY <3>1 DEF RequestOK, Unsafe
    <3> QED BY <1>10, <3>1, <3>2, <3>3 DEF RequestOK
  <2> QED BY <2>1, <2>2
<1> QED BY <1>1, <1>6, <1>9, <1>11, <1>12 DEF IInv, IssuedOK

LEMMA CloseElsewhereInv ==
  ASSUME IInv, CloseElsewhere PROVE IInv'
<1>1. PICK s \in Sid :
        /\ session[s].state = "active"
        /\ \A r \in Requests : write[r][s].state = "absent"
        /\ session' = [session EXCEPT ![s].state = "inactive"]
  BY DEF CloseElsewhere
<1>2. TypeOK /\ UNCHANGED <<jar, request, write, minted, issued, clean>>
  BY DEF IInv, CloseElsewhere
<1>3. /\ session[s] \in Row /\ session'[s] \in Row
      /\ session'[s].state = "inactive" /\ session'[s].token = session[s].token
      /\ session'[s].admin = session[s].admin
      /\ \A t \in Sid \ {s} : session'[t] = session[t]
  BY <1>1, <1>2 DEF TypeOK, Row
<1>4. TypeOK'
  <2>1. session' \in [Sid -> Row]
    BY <1>1, <1>2, <1>3 DEF TypeOK
  <2> QED BY <1>2, <2>1 DEF TypeOK
<1>5. \A t \in Sid : RowOK(t)'
  BY <1>1, <1>2, <1>3 DEF IInv, RowOK
<1>6. ASSUME NEW q \in Requests, NEW t \in Sid PROVE WriteOK(q, t)'
  BY <1>1, <1>2, <1>3 DEF IInv, WriteOK
<1>7. ASSUME NEW q \in Requests PROVE RequestOK(q)'
  <2>1. /\ RequestOK(q) /\ UNCHANGED <<request, write, issued>>
    BY <1>2 DEF IInv
  <2>2. \A t \in Sid : /\ session[t].state = "inactive" => session'[t].state = "inactive"
                       /\ session[t].state # "absent" => session'[t].state # "absent"
                       /\ session'[t].admin = session[t].admin
    BY <1>1, <1>3
  <2>3. request[q].pc = "restore" => request[q].sid \in Sid
    BY <2>1 DEF RequestOK, Unsafe
  <2> QED BY <2>1, <2>2, <2>3 DEF RequestOK
<1> QED BY <1>2, <1>4, <1>5, <1>6, <1>7 DEF IInv, IssuedOK

LEMMA StutterInv ==
  ASSUME IInv, UNCHANGED vars PROVE IInv'
BY DEF IInv, vars, TypeOK, IssuedOK, RowOK, WriteOK, RequestOK, View, SameUser

LEMMA StepInv ==
  ASSUME IInv, [Next]_vars PROVE IInv'
<1>1. ASSUME NEW r \in Requests, Route(r) PROVE IInv'
  BY <1>1, LoginInv, PlainInv, LogoutInv, LogoutAllInv, ChangePasswordInv,
     ImpersonateInv, StopInv, RestoreInv DEF Route
<1>2. ASSUME NEW r \in Requests,
             \/ Send(r) \/ Middleware(r) \/ Authenticate(r) \/ Deliver(r) \/ Lose(r)
             \/ Commit(r) \/ CommitFails(r) \/ RollBack(r)
      PROVE  IInv'
  BY <1>2, SendInv, MiddlewareInv, AuthenticateInv, DeliverInv, LoseInv, CommitInv,
     CommitFailsInv, RollBackInv
<1>3. CASE CloseElsewhere
  BY <1>3, CloseElsewhereInv
<1>4. CASE UNCHANGED vars
  BY <1>4, StutterInv
<1> QED BY <1>1, <1>2, <1>3, <1>4 DEF Next

-----------------------------------------------------------------------------
(* Theorems *)

\* What each request relies on, whatever tabs, commits and losses lie between
\* its steps (CsrfMiddleware, the routes of api.py).
THEOREM Invariance == Spec => []IInv
<1>1. Init => IInv
  BY InitInv
<1>2. IInv /\ [Next]_vars => IInv'
  BY StepInv
<1> QED BY <1>1, <1>2, PTL DEF Spec

\* Types, and one writer per row (the row locks of the UPDATEs in
\* SessionRepository).
THEOREM TypeCorrect == Spec => []TypeOK
<1>1. IInv => TypeOK
  BY DEF IInv
<1> QED BY <1>1, Invariance, PTL

\* A state-changing route runs only with a token minted for its session, unless
\* the middleware ran before the login had committed (CsrfMiddleware): for any
\* number of tabs and sessions, browsers and scripts.
THEOREM TokenSafe == Spec => []TokenOfItsSession
<1>1. IInv => TokenOfItsSession
  BY DEF IInv, RequestOK, TokenOfItsSession
<1> QED BY <1>1, Invariance, PTL

-----------------------------------------------------------------------------
(* Serial: steps *)

\* A row version made of one the request could read, with the token it had.
Copies(row, r, s) ==
  \/ row = NoRow
  \/ \E old \in {session[s], write[r][s]} :
       /\ row.admin = old.admin
       /\ row.state # "absent" => old.state # "absent" /\ row.token = old.token

\* Step: s has just been drawn.
Drawn(s) == Fresh(s) /\ \E t \in Token : issued'[t] = s

\* Step of r: it passes on ids it has heard, and mints tokens for those only
\* and for the id it draws.
Discreet(r) ==
  /\ \A q \in Others(r) : request'[q] = request[q] /\ write'[q] = write[q]
  /\ jar'.sid \in {None, jar.sid, request[r].new.sid}
  /\ request'[r].sid \in {None, jar.sid, request[r].sid}
  /\ \/ request'[r].new.sid \in {None, request[r].new.sid}
     \/ \E t \in Sid : request'[r].new.sid = session[t].admin
     \/ Drawn(request'[r].new.sid)
  /\ \A s \in Sid :
       /\ Copies(session'[s], r, s)
       /\ Copies(write'[r][s], r, s) \/ ~Unheard(s) \/ Drawn(s)
       /\ \/ write'[r][s].admin \in {None, request[r].sid}
          \/ write'[r][s].admin \in {session[s].admin, write[r][s].admin}

LEMMA UnheardStays ==
  ASSUME IInv, NEW r \in Requests, NEW s \in Sid, Discreet(r), Unheard(s), jar'.sid # s
  PROVE  Unheard(s)'
<1>1. s # None
  BY NoneAssumption
<1>2. ASSUME NEW q \in Requests PROVE request'[q].sid # s
  BY <1>1 DEF Discreet, Unheard, Others
<1>3. ASSUME NEW t \in Sid PROVE session'[t].admin # s
  <2>1. Copies(session'[t], r, t)
    BY DEF Discreet
  <2> QED BY <1>1, <2>1 DEF Copies, Unheard, NoRow
<1>4. ASSUME NEW t \in Sid, NEW q \in Requests PROVE write'[q][t].admin # s
  BY <1>1 DEF Discreet, Unheard, Others
<1> QED BY <1>2, <1>3, <1>4 DEF Unheard

LEMMA LoginRowsStay ==
  ASSUME IInv, NEW r \in Requests, NEW s \in Sid, NEW t \in Token,
         Discreet(r), Unheard(s), ~Drawn(s), LoginRows(s, t)
  PROVE  LoginRows(s, t)'
<1>1. LoginRow(NoRow, t)
  BY DEF LoginRow, NoRow
<1>2. ASSUME NEW row, Copies(row, r, s) PROVE LoginRow(row, t)
  BY <1>1, <1>2 DEF Copies, LoginRows, LoginRow
<1>3. LoginRow(session'[s], t)
  BY <1>2 DEF Discreet
<1>4. ASSUME NEW q \in Requests PROVE LoginRow(write'[q][s], t)
  BY <1>2 DEF Discreet, Others, LoginRows
<1> QED BY <1>3, <1>4 DEF LoginRows, LoginRow

\* A discreet step of a request keeps undelivered logins unheard of.
LEMMA DiscreetStep ==
  ASSUME IInv, HeardInv, Minting, NEW r \in Requests, Discreet(r),
         WritesInTime(r)', LoginUnheard(r)'
  PROVE  HeardInv'
<1>1. \A t \in Token, s \in Sid : issued[t] = s => issued'[t] = s
  BY MintingOK DEF IInv
<1>2. \A q \in Others(r) : request'[q] = request[q] /\ write'[q] = write[q]
  BY DEF Discreet
<1>3. ASSUME NEW q \in Requests PROVE WritesInTime(q)'
  BY <1>2 DEF HeardInv, WritesInTime, Others
<1>4. ASSUME NEW s \in Sid PROVE FreshUnheard(s)'
  <2> SUFFICES ASSUME Fresh(s)'
               PROVE  /\ Unheard(s)' /\ LoginRows(s, 0)'
                      /\ \A q \in Requests : request'[q].new.sid # s
    BY DEF FreshUnheard
  <2>1. Fresh(s) /\ ~Drawn(s)
    BY <1>1 DEF Fresh, Drawn
  <2>2. Unheard(s) /\ LoginRows(s, 0) /\ \A q \in Requests : request[q].new.sid # s
    BY <2>1 DEF HeardInv, FreshUnheard
  <2>3. jar'.sid # s
    BY <2>2, NoneAssumption DEF Discreet, Unheard
  <2>4. request'[r].new.sid # s
    BY <2>1, <2>2, NoneAssumption DEF Discreet, Unheard
  <2>5. 0 \in Token
    BY MaxTokenAssumption DEF Token
  <2> QED BY <1>2, <2>1, <2>2, <2>3, <2>4, <2>5, UnheardStays, LoginRowsStay DEF Others
<1>5. ASSUME NEW q \in Requests PROVE LoginUnheard(q)'
  <2>1. CASE q = r BY <2>1
  <2>2. CASE q # r
    <3> SUFFICES ASSUME LoginAnswer(q) PROVE LoginUnheard(q)'
      BY <1>2, <2>2 DEF Others, LoginUnheard, LoginAnswer
    <3>1. request'[q] = request[q] /\ r \in Others(q)
      BY <1>2, <2>2 DEF Others
    <3>2. PICK s \in Sid, t \in Token :
            /\ request[q].new.sid = s /\ request[q].new.token = t
            /\ t # 0 /\ issued[t] = s /\ Unheard(s) /\ LoginRows(s, t)
            /\ \A p \in Others(q) : request[p].new.sid # s
      BY DEF HeardInv, LoginUnheard, IInv, TypeOK, RequestState
    <3>3. ~Drawn(s)
      BY <3>2 DEF Drawn, Fresh
    <3>4. jar'.sid # s /\ request'[r].new.sid # s
      BY <3>1, <3>2, <3>3, NoneAssumption DEF Discreet, Unheard
    <3>5. Unheard(s)' /\ LoginRows(s, t)'
      BY <3>2, <3>3, <3>4, UnheardStays, LoginRowsStay
    <3>6. issued'[t] = s /\ \A p \in Others(q) : request'[p].new.sid # s
      BY <1>1, <1>2, <3>2, <3>4 DEF Others
    <3> QED BY <3>1, <3>2, <3>5, <3>6 DEF LoginUnheard
  <2> QED BY <2>1, <2>2
<1> QED BY <1>3, <1>4, <1>5 DEF HeardInv

\* When clean, the state after a step of r is that of the only request.
LEMMA CleanStep ==
  ASSUME IInv, IInv', HeardInv', CleanInv, NEW r \in Requests,
         \A q \in Others(r) : request'[q] = request[q] /\ write'[q] = write[q],
         clean' => Alone(r) /\ OwnSession(r)' /\ InStep(r)'
  PROVE  CleanInv'
<1> SUFFICES ASSUME clean'
             PROVE  /\ \A q \in Requests : Alone(q)' \/ request'[q].pc = "idle"
                    /\ \A q \in Requests : OwnSession(q)'
                    /\ \A q \in Requests : Alone(q)' => InStep(q)'
  BY DEF CleanInv
<1>1. \A q \in Others(r) : request'[q].pc = "idle"
  BY DEF Alone
<1>2. Alone(r)'
  BY <1>1 DEF Alone, Others
<1>3. ASSUME NEW q \in Requests PROVE Alone(q)' \/ request'[q].pc = "idle"
  BY <1>1, <1>2 DEF Others
<1>4. ASSUME NEW q \in Requests PROVE OwnSession(q)'
  BY <1>1 DEF OwnSession, Others
<1>5. ASSUME NEW q \in Requests, q # r, Alone(q)' PROVE InStep(q)'
  <2>1. request'[q].pc = "idle" /\ request'[r].pc = "idle"
    BY <1>1, <1>5 DEF Others, Alone
  <2>2. \A s \in Sid : write'[q][s].state = "absent" /\ write'[r][s].state = "absent"
    BY <2>1 DEF HeardInv, WritesInTime
  <2>3. \A s \in Sid : View(q, s)' = session'[s] /\ View(r, s)' = session'[s]
    BY <2>2 DEF View
  <2>4. Expected(q)' = jar'.root /\ Expected(r)' = jar'.root
    BY <2>1 DEF Expected
  <2> QED BY <2>3, <2>4 DEF InStep
<1> QED BY <1>2, <1>3, <1>4, <1>5

\* What a request under way knows when the browser is clean.
LEMMA CleanRequest ==
  ASSUME CleanInv, clean, NEW r \in Requests, request[r].pc # "idle"
  PROVE  Alone(r) /\ OwnSession(r) /\ InStep(r)
BY DEF CleanInv

\* The step of one request, seen from each of them.
LEMMA Frame ==
  ASSUME TypeOK, NEW r \in Requests, NEW new, NEW rows,
         request' = [request EXCEPT ![r] = new], write' = [write EXCEPT ![r] = rows]
  PROVE  /\ request'[r] = new /\ write'[r] = rows
         /\ \A q \in Others(r) : request'[q] = request[q] /\ write'[q] = write[q]
BY DEF TypeOK, Others

EarlyPcs == {"idle", "csrf", "authenticate", "handle"}

\* Before its route has run, a request sees the committed rows.
LEMMA EarlyView ==
  ASSUME HeardInv, NEW r \in Requests, request[r].pc \in EarlyPcs \cup {"sent"}
  PROVE  /\ \A s \in Sid : write[r][s].state = "absent" /\ View(r, s) = session[s]
         /\ request[r].pc # "sent" => Expected(r) = jar.root
BY DEF HeardInv, WritesInTime, View, Expected, EarlyPcs

NoRows == [s \in Sid |-> NoRow]

\* A step that writes no row and answers nothing.
LEMMA QuietStep ==
  ASSUME IInv, IInv', SerialInv, NEW r \in Requests,
         NEW new \in RequestState, NEW rows \in {write[r], NoRows},
         UNCHANGED <<session, jar, minted, issued>>,
         request' = [request EXCEPT ![r] = new],
         write' = [write EXCEPT ![r] = rows],
         new.pc \in EarlyPcs \cup {"closing"},
         \/ rows = NoRows \/ new.pc = "closing"
         \/ request[r].pc \in EarlyPcs \cup {"sent"},
         new.sid \in {None, jar.sid, request[r].sid},
         new.new.sid \in {None, request[r].new.sid},
         clean' => /\ clean /\ Alone(r) /\ request[r].pc \in EarlyPcs
                   /\ new.pc \in EarlyPcs /\ (new.pc # "idle" => new.sid = jar.sid)
  PROVE  SerialInv'
<1>1. /\ request'[r] = new /\ write'[r] = rows
      /\ \A q \in Others(r) : request'[q] = request[q] /\ write'[q] = write[q]
  BY Frame DEF IInv
<1>2. HeardInv /\ CleanInv /\ Minting /\ NoRow.state = "absent" /\ NoRow.admin = None
  BY DEF SerialInv, Minting, NoRow
<1>3. Discreet(r)
  <2>1. \A s \in Sid : Copies(session'[s], r, s) /\ Copies(write'[r][s], r, s)
    BY <1>1 DEF Copies, NoRows
  <2>2. \A s \in Sid : write'[r][s].admin \in {None, write[r][s].admin}
    BY <1>1, <1>2 DEF NoRows
  <2> QED BY <1>1, <2>1, <2>2 DEF Discreet
<1>4. WritesInTime(r)'
  BY <1>1, <1>2, EarlyView DEF WritesInTime, NoRows
<1>5. LoginUnheard(r)'
  BY <1>1 DEF LoginUnheard, LoginAnswer, EarlyPcs
<1>6. HeardInv'
  BY <1>2, <1>3, <1>4, <1>5, DiscreetStep
<1>7. ASSUME clean' PROVE Alone(r) /\ OwnSession(r)' /\ InStep(r)'
  <2>1. /\ clean /\ Alone(r) /\ request[r].pc \in EarlyPcs
        /\ new.pc \in EarlyPcs /\ (new.pc # "idle" => new.sid = jar.sid)
    BY <1>7
  <2>2. InStep(r)
    BY <1>2, <2>1 DEF CleanInv
  <2>3. OwnSession(r)'
    BY <1>1, <2>1 DEF OwnSession, EarlyPcs
  <2>4. \A s \in Sid : View(r, s) = session[s] /\ View(r, s)' = session[s]
    <3>1. \A s \in Sid : write'[r][s].state = "absent"
      BY <1>1, <1>2, <2>1, EarlyView DEF NoRows
    <3> QED BY <1>2, <2>1, <3>1, EarlyView DEF View
  <2>5. Expected(r) = jar.root /\ Expected(r)' = jar.root
    BY <1>1, <1>2, <2>1, EarlyView DEF Expected, EarlyPcs
  <2> QED BY <2>1, <2>2, <2>3, <2>4, <2>5 DEF InStep
<1>8. CleanInv'
  BY <1>1, <1>2, <1>6, <1>7, CleanStep
<1> QED BY <1>6, <1>8 DEF SerialInv

\* A step of a route that answers, with row versions and maybe a token.
LEMMA AnswerStep ==
  ASSUME IInv, IInv', SerialInv, NEW r \in Requests, NEW rows, NEW new, NEW ok,
         UNCHANGED <<session, jar, clean>>, Minting,
         write' = [write EXCEPT ![r] = rows], Answer(r, ok, new),
         request[r].pc # "idle",
         \/ new.sid = None \/ Drawn(new.sid)
         \/ \E t \in Sid : new.sid = session[t].admin,
         \A s \in Sid :
           /\ Copies(rows[s], r, s) \/ ~Unheard(s) \/ Drawn(s)
           /\ rows[s].admin \in {None, request[r].sid, session[s].admin, write[r][s].admin},
         LoginUnheard(r)',
         clean => InStep(r)'
  PROVE  SerialInv'
<1> DEFINE q == [NoRequest EXCEPT !.pc = "answer", !.kind = request[r].kind,
                                  !.ok = ok, !.new = new]
<1>1. request' = [request EXCEPT ![r] = q]
  BY DEF Answer
<1>2. q.pc = "answer" /\ q.sid = None /\ q.new = new
  BY DEF NoRequest
<1> HIDE DEF q
<1>3. /\ request'[r] = q /\ write'[r] = rows
      /\ \A p \in Others(r) : request'[p] = request[p] /\ write'[p] = write[p]
  BY <1>1, Frame DEF IInv
<1>4. HeardInv /\ CleanInv
  BY DEF SerialInv
<1>5. Discreet(r)
  <2>1. \A s \in Sid : Copies(session'[s], r, s)
    BY DEF Copies
  <2> QED BY <1>2, <1>3, <2>1 DEF Discreet
<1>6. WritesInTime(r)'
  BY <1>2, <1>3 DEF WritesInTime
<1>7. HeardInv'
  BY <1>4, <1>5, <1>6, DiscreetStep
<1>8. OwnSession(r)'
  BY <1>2, <1>3 DEF OwnSession
<1>9. CleanInv'
  BY <1>3, <1>4, <1>7, <1>8, CleanRequest, CleanStep
<1> QED BY <1>7, <1>9 DEF SerialInv

\* What a route that answers a signed-in request finds.
LEMMA RouteStarts ==
  ASSUME IInv, SerialInv, NEW r \in Requests, NEW kind, Own(r, kind)
  PROVE  /\ request[r].pc \in EarlyPcs /\ request[r].pc # "idle"
         /\ \A s \in Sid : write[r][s].state = "absent" /\ View(r, s) = session[s]
         /\ clean => /\ request[r].sid = jar.sid
                     /\ jar.sid \in Sid =>
                          /\ session[jar.sid].admin = None
                          /\ session[jar.sid].state = "active" =>
                               session[jar.sid].token = jar.root /\ jar.root # 0
<1>1. HeardInv /\ CleanInv /\ request[r].pc = "handle"
  BY DEF SerialInv, Own
<1>2. \A s \in Sid : write[r][s].state = "absent" /\ View(r, s) = session[s]
  BY <1>1, EarlyView DEF EarlyPcs
<1>3. Expected(r) = jar.root
  BY <1>1 DEF Expected
<1>4. ASSUME clean PROVE OwnSession(r) /\ InStep(r)
  BY <1>1, <1>4, CleanRequest
<1> QED BY <1>1, <1>2, <1>3, <1>4 DEF OwnSession, InStep, EarlyPcs

\* After an answer without a new password the browser expects its token.
LEMMA AnswerInStep ==
  ASSUME TypeOK, NEW r \in Requests, NEW rows, NEW new, NEW ok,
         write' = [write EXCEPT ![r] = rows], Answer(r, ok, new),
         UNCHANGED <<session, jar>>,
         NEW row, request[r].kind # "password",
         jar.sid \in Sid =>
           /\ row = IF rows[jar.sid].state = "absent"
                      THEN session[jar.sid] ELSE rows[jar.sid]
           /\ session[jar.sid].admin = None /\ row.admin = None
           /\ row.state = "active" => row.token = jar.root /\ row.token # 0
  PROVE  InStep(r)'
<1> DEFINE q == [NoRequest EXCEPT !.pc = "answer", !.kind = request[r].kind,
                                  !.ok = ok, !.new = new]
<1>1. request' = [request EXCEPT ![r] = q]
  BY DEF Answer
<1>2. q.pc = "answer" /\ q.kind = request[r].kind /\ q.ok = ok /\ q.new = new
  BY DEF NoRequest
<1> HIDE DEF q
<1>3. request'[r] = q /\ write'[r] = rows
  BY <1>1 DEF TypeOK
<1>4. Expected(r)' = jar.root
  <2>1. request'[r].kind # "password"
    BY <1>2, <1>3
  <2>2. jar' = jar
    OBVIOUS
  <2> QED BY <2>1, <2>2, Zenon DEF Expected
<1>5. jar.sid \in Sid =>
        View(r, jar.sid)' = row
  BY <1>3 DEF View
<1> QED BY <1>4, <1>5 DEF InStep

-----------------------------------------------------------------------------
(* Serial: one lemma per action *)

LEMMA NothingSent == NoRequest.pc = "idle" /\ NoRequest.sid = None
                     /\ NoRequest.new.sid = None /\ NoRequest \in RequestState
BY MaxTokenAssumption DEF NoRequest, NoCookies, RequestState, Token

LEMMA SendSerial ==
  ASSUME IInv, IInv', SerialInv, NEW r \in Requests, Send(r) PROVE SerialInv'
<1>1. TypeOK /\ request'[r] \in RequestState
  BY DEF IInv, TypeOK
<1>2. PICK new :
        /\ request' = [request EXCEPT ![r] = new]
        /\ new.pc \in {"csrf", "authenticate", "handle"}
        /\ new.sid = jar.sid /\ new.new.sid = None
  <2>1. PICK k \in Kinds :
       \/ /\ k \notin Unsafe
          /\ request' = [request EXCEPT ![r] =
               [NoRequest EXCEPT
                  !.pc = IF k = "login" THEN "handle" ELSE "authenticate",
                  !.kind = k, !.sid = jar.sid]]
       \/ /\ k \in Unsafe
          /\ \E c \in Sendable(jar), h \in {jar.root, jar.scoped} :
               request' = [request EXCEPT ![r] =
                 [NoRequest EXCEPT
                    !.pc = IF jar.sid = None THEN "authenticate" ELSE "csrf",
                    !.kind = k, !.sid = jar.sid, !.cookie = c, !.header = h]]
    BY DEF Send
  <2>2. CASE k \notin Unsafe
    <3> DEFINE new == [NoRequest EXCEPT
                         !.pc = IF k = "login" THEN "handle" ELSE "authenticate",
                         !.kind = k, !.sid = jar.sid]
    <3>1. request' = [request EXCEPT ![r] = new]
      BY <2>1, <2>2
    <3>2. new.pc \in {"csrf", "authenticate", "handle"}
          /\ new.sid = jar.sid /\ new.new.sid = None
      BY DEF NoRequest, NoCookies
    <3> HIDE DEF new
    <3> QED BY <3>1, <3>2
  <2>3. CASE k \in Unsafe
    <3>1. PICK c \in Sendable(jar), h \in {jar.root, jar.scoped} :
            request' = [request EXCEPT ![r] =
              [NoRequest EXCEPT
                 !.pc = IF jar.sid = None THEN "authenticate" ELSE "csrf",
                 !.kind = k, !.sid = jar.sid, !.cookie = c, !.header = h]]
      BY <2>1, <2>3
    <3> DEFINE new == [NoRequest EXCEPT
                         !.pc = IF jar.sid = None THEN "authenticate" ELSE "csrf",
                         !.kind = k, !.sid = jar.sid, !.cookie = c, !.header = h]
    <3>2. new.pc \in {"csrf", "authenticate", "handle"}
          /\ new.sid = jar.sid /\ new.new.sid = None
      BY DEF NoRequest, NoCookies
    <3>3. request' = [request EXCEPT ![r] = new]
      BY <3>1
    <3> HIDE DEF new
    <3> QED BY <3>2, <3>3
  <2> QED BY <2>2, <2>3
<1>3. new \in RequestState
  BY <1>1, <1>2 DEF TypeOK
<1>4. /\ UNCHANGED <<session, jar, minted, issued>> /\ request[r].pc = "idle"
      /\ write' = [write EXCEPT ![r] = write[r]] /\ clean' = (clean /\ Alone(r))
  BY <1>1, SameWrite DEF Send
<1>5. /\ request[r].pc \in EarlyPcs /\ new.pc \in EarlyPcs
  BY <1>2, <1>4 DEF EarlyPcs
<1> QED BY <1>2, <1>3, <1>4, <1>5, QuietStep

\* A request that ends without an answer that counts.
LEMMA DenySerial ==
  ASSUME IInv, IInv', SerialInv, NEW r \in Requests,
         UNCHANGED <<session, jar, minted, issued, clean>>,
         request' = [request EXCEPT ![r] = NoRequest],
         \/ write' = [write EXCEPT ![r] = NoRows]
         \/ write' = write /\ request[r].pc \in EarlyPcs,
         request[r].pc \in EarlyPcs \cup {"restore"}, request[r].pc # "idle"
  PROVE  SerialInv'
<1>1. clean => Alone(r) /\ request[r].pc # "restore"
  BY CleanRequest DEF SerialInv, OwnSession
<1>2. write = [write EXCEPT ![r] = write[r]]
  BY SameWrite DEF IInv
<1>3. NoRequest.pc \in EarlyPcs
  BY DEF NoRequest, EarlyPcs
<1> QED BY <1>1, <1>2, <1>3, NothingSent, QuietStep

\* A request that goes on before its route.
LEMMA ProceedSerial ==
  ASSUME IInv, IInv', SerialInv, NEW r \in Requests, NEW new \in RequestState,
         UNCHANGED <<session, jar, write, minted, issued, clean>>,
         request' = [request EXCEPT ![r] = new],
         request[r].pc \in {"csrf", "authenticate"}, new.pc \in EarlyPcs,
         new.sid = request[r].sid, new.new = request[r].new
  PROVE  SerialInv'
<1>1. clean => Alone(r) /\ request[r].sid = jar.sid
  BY CleanRequest DEF SerialInv, OwnSession
<1>2. write' = [write EXCEPT ![r] = write[r]]
  BY SameWrite DEF IInv
<1>3. request[r].pc \in EarlyPcs
  BY DEF EarlyPcs
<1> QED BY <1>1, <1>2, <1>3, QuietStep

LEMMA MiddlewareSerial ==
  ASSUME IInv, IInv', SerialInv, NEW r \in Requests, Middleware(r) PROVE SerialInv'
<1>1. TypeOK /\ request[r] \in RequestState /\ request[r].pc = "csrf"
      /\ UNCHANGED <<session, jar, write, minted, issued, clean>>
  BY DEF IInv, TypeOK, Middleware
<1>2. CASE Refused(r)
  BY <1>1, <1>2, DenySerial DEF Middleware, Deny, EarlyPcs
<1>3. CASE ~Refused(r)
  <2> DEFINE unseen == session[request[r].sid].state = "absent"
             new == [request[r] EXCEPT !.unseen = unseen, !.cookie = 0,
                                       !.pc = "authenticate"]
  <2>1. request' = [request EXCEPT ![r] = new]
    BY <1>3 DEF Middleware
  <2>2. new.pc \in EarlyPcs /\ new.sid = request[r].sid /\ new.new = request[r].new
    BY <1>1 DEF RequestState, EarlyPcs
  <2>3. new \in RequestState
    BY <1>1, <2>1 DEF IInv, TypeOK
  <2> QED BY <1>1, <2>1, <2>2, <2>3, ProceedSerial
<1> QED BY <1>2, <1>3

LEMMA AuthenticateSerial ==
  ASSUME IInv, IInv', SerialInv, NEW r \in Requests, Authenticate(r) PROVE SerialInv'
<1> DEFINE s == request[r].sid
           new == [request[r] EXCEPT !.pc = "handle"]
<1>1. TypeOK /\ request[r] \in RequestState /\ request[r].pc = "authenticate"
      /\ UNCHANGED <<session, jar, write, minted, issued, clean>>
  BY DEF IInv, TypeOK, Authenticate
<1>2. CASE s # None /\ session[s].state = "active"
  <2>1. request' = [request EXCEPT ![r] = new]
    BY <1>2 DEF Authenticate, Proceed
  <2>2. new \in RequestState /\ new.pc \in EarlyPcs
        /\ new.sid = s /\ new.new = request[r].new
    BY <1>1 DEF RequestState, EarlyPcs
  <2> QED BY <1>1, <2>1, <2>2, ProceedSerial
<1>3. CASE ~(s # None /\ session[s].state = "active")
  BY <1>1, <1>3, DenySerial DEF Authenticate, Deny, EarlyPcs
<1> QED BY <1>2, <1>3

LEMMA RollBackSerial ==
  ASSUME IInv, IInv', SerialInv, NEW r \in Requests, RollBack(r) PROVE SerialInv'
BY DenySerial DEF RollBack, NoRows, EarlyPcs

\* The login's id has been drawn in this very step.
LEMMA LoginSerial ==
  ASSUME IInv, IInv', SerialInv, NEW r \in Requests, Login(r) PROVE SerialInv'
<1>1. PICK s \in Sid :
        /\ Fresh(s) /\ Mint(s)
        /\ Done(r, [write[r] EXCEPT ![s] =
                     [state |-> "active", token |-> minted + 1, admin |-> None]],
                [sid |-> s, token |-> minted + 1])
  BY DEF Login
<1> DEFINE row == [state |-> "active", token |-> minted + 1, admin |-> None]
           rows == [write[r] EXCEPT ![s] = row]
           new == [sid |-> s, token |-> minted + 1]
<1>2. /\ TypeOK /\ IssuedOK /\ Minting /\ UNCHANGED <<session, jar, clean>>
      /\ Own(r, "login") /\ HeardInv
  BY <1>1 DEF IInv, Minting, Login, SerialInv
<1>3. /\ minted + 1 \in Token /\ issued'[minted + 1] = s /\ minted + 1 # 0
  BY <1>1, <1>2, MintOK DEF TypeOK, Token
<1>4. Drawn(s)
  BY <1>1, <1>3 DEF Drawn
<1>5. /\ Unheard(s) /\ LoginRows(s, 0)
      /\ \A q \in Requests : request[q].new.sid # s
  BY <1>1, <1>2 DEF HeardInv, FreshUnheard
<1>6. write' = [write EXCEPT ![r] = rows] /\ Answer(r, TRUE, new)
  BY <1>1 DEF Done
<1>7. /\ rows[s] = row /\ \A t \in Sid \ {s} : rows[t] = write[r][t]
  BY <1>2, SameWrite
<1>8. row.state = "active" /\ row.token = minted + 1 /\ row.admin = None
      /\ new.sid = s /\ new.token = minted + 1
  OBVIOUS
<1> HIDE DEF row, rows, new
<1> DEFINE q == [NoRequest EXCEPT !.pc = "answer", !.kind = request[r].kind,
                                  !.ok = TRUE, !.new = new]
<1>9. /\ request' = [request EXCEPT ![r] = q]
      /\ q.sid = None /\ q.new = new /\ q.kind = "login"
  BY <1>2, <1>6 DEF Answer, NoRequest, Own
<1> HIDE DEF q
<1>10. /\ request'[r] = q /\ write'[r] = rows
       /\ \A p \in Others(r) : request'[p] = request[p] /\ write'[p] = write[p]
  BY <1>2, <1>6, <1>9, Frame
<1>11. session[s].state = "absent" /\ \A p \in Requests : write[p][s].state = "absent"
  <2>1. session[s] \in Row /\ RowOK(s) /\ \A p \in Requests : write[p][s] \in Row /\ WriteOK(p, s)
    BY DEF IInv, TypeOK
  <2> QED BY <1>1, <2>1 DEF RowOK, WriteOK, Fresh, Row
<1>12. LoginUnheard(r)'
  <2>0. PICK n : n = minted + 1
    OBVIOUS
  <2>1. s # None
    BY NoneAssumption
  <2>2. jar'.sid # s /\ \A p \in Requests : request'[p].sid # s
    BY <1>2, <1>5, <1>9, <1>10, <2>1 DEF Unheard, Others
  <2>3. \A t \in Sid : session'[t].admin # s
                       /\ \A p \in Requests : write'[p][t].admin # s
    BY <1>2, <1>5, <1>7, <1>8, <1>10, <2>1 DEF Unheard, Others
  <2>4. LoginRows(s, n)'
    <3>1. LoginRow(session[s], n)
      BY <1>5, <1>11 DEF LoginRows, LoginRow
    <3>2. ASSUME NEW p \in Requests PROVE LoginRow(write'[p][s], n)
      <4>1. CASE p = r
        BY <1>7, <1>8, <1>10, <2>0, <4>1 DEF LoginRow
      <4>2. CASE p # r
        BY <1>5, <1>10, <1>11, <4>2 DEF LoginRows, LoginRow, Others
      <4> QED BY <4>1, <4>2
    <3> QED BY <1>2, <3>1, <3>2 DEF LoginRows, LoginRow
  <2>5. Unheard(s)'
    BY <2>2, <2>3 DEF Unheard
  <2>6. request'[r].new.sid = s /\ request'[r].new.token = n
    BY <1>8, <1>9, <1>10, <2>0
  <2>7. n # 0 /\ issued'[n] = s /\ \A p \in Others(r) : request'[p].new.sid # s
    BY <1>3, <1>5, <1>10, <2>0 DEF Others
  <2> QED BY <2>4, <2>5, <2>6, <2>7 DEF LoginUnheard
<1>13. request[r].pc # "idle"
  BY <1>2 DEF Own
<1>14. clean => InStep(r)'
  <2> SUFFICES ASSUME clean PROVE InStep(r)'
    OBVIOUS
  <2>1. /\ request[r].kind # "password" /\ write[r] \in [Sid -> Row]
        /\ \A t \in Sid : write[r][t].state = "absent"
        /\ jar.sid \in Sid =>
             /\ session[jar.sid].admin = None
             /\ session[jar.sid].state = "active" =>
                  session[jar.sid].token = jar.root /\ jar.root # 0
    BY <1>2, RouteStarts DEF Own, TypeOK
  <2>2. jar.sid # s
    BY <1>5 DEF Unheard
  <2>3. jar.sid \in Sid => rows[jar.sid].state = "absent"
    BY <1>7, <2>1, <2>2
  <2>4. jar.sid \in Sid =>
          /\ session[jar.sid] = IF rows[jar.sid].state = "absent"
                                   THEN session[jar.sid] ELSE rows[jar.sid]
          /\ session[jar.sid].admin = None /\ session[jar.sid].admin = None
          /\ session[jar.sid].state = "active" =>
               session[jar.sid].token = jar.root /\ session[jar.sid].token # 0
    BY <2>1, <2>3
  <2> QED BY <1>2, <1>6, <2>1, <2>4, AnswerInStep
<1>15. \A t \in Sid :
         /\ Copies(rows[t], r, t) \/ ~Unheard(t) \/ Drawn(t)
         /\ rows[t].admin \in {None, request[r].sid, session[t].admin, write[r][t].admin}
  BY <1>4, <1>7, <1>8 DEF Copies
<1> QED BY <1>2, <1>4, <1>6, <1>8, <1>12, <1>13, <1>14, <1>15, AnswerStep

LEMMA NotLogin ==
  ASSUME TypeOK, NEW r \in Requests, NEW new, NEW ok, Answer(r, ok, new),
         request[r].kind # "login"
  PROVE  LoginUnheard(r)'
<1> DEFINE q == [NoRequest EXCEPT !.pc = "answer", !.kind = request[r].kind,
                                  !.ok = ok, !.new = new]
<1>1. request' = [request EXCEPT ![r] = q] /\ q.kind = request[r].kind
  BY DEF Answer, NoRequest
<1> HIDE DEF q
<1>2. request'[r] = q
  BY <1>1 DEF TypeOK
<1> QED BY <1>1, <1>2 DEF LoginUnheard, LoginAnswer

\* A route that answers with a version of its own row only, with the row's token.
LEMMA OwnRowSerial ==
  ASSUME IInv, IInv', SerialInv, NEW r \in Requests, NEW row, NEW ok,
         NEW kind \in Unsafe \ {"password"}, Own(r, kind),
         UNCHANGED <<session, jar, minted, issued, clean>>,
         write' = [write EXCEPT ![r] = [write[r] EXCEPT ![request[r].sid] = row]],
         Answer(r, ok, NoCookies),
         row.state \in {session[request[r].sid].state, "inactive"},
         row.admin = session[request[r].sid].admin,
         row.token = session[request[r].sid].token
  PROVE  SerialInv'
<1> DEFINE s == request[r].sid
           rows == [write[r] EXCEPT ![s] = row]
<1>1. /\ TypeOK /\ s \in Sid /\ session[s].state # "absent" /\ Minting
      /\ request[r].kind = kind /\ kind # "login" /\ kind # "password"
      /\ write[r] \in [Sid -> Row] /\ NoCookies.sid = None
  BY OwnOK DEF IInv, Minting, Unsafe, TypeOK, NoCookies
<1>2. /\ request[r].pc # "idle"
      /\ \A t \in Sid : write[r][t].state = "absent"
      /\ clean => /\ s = jar.sid
                  /\ session[jar.sid].admin = None
                  /\ session[jar.sid].state = "active" =>
                       session[jar.sid].token = jar.root /\ jar.root # 0
  BY <1>1, RouteStarts
<1>3. write' = [write EXCEPT ![r] = rows]
  OBVIOUS
<1>4. rows[s] = row /\ \A t \in Sid \ {s} : rows[t] = write[r][t]
  BY <1>1
<1> HIDE DEF rows
<1>5. \A t \in Sid :
        /\ Copies(rows[t], r, t)
        /\ rows[t].admin \in {None, request[r].sid, session[t].admin, write[r][t].admin}
  BY <1>1, <1>4 DEF Copies
<1>6. LoginUnheard(r)'
  BY <1>1, NotLogin
<1>7. clean => InStep(r)'
  <2> SUFFICES ASSUME clean PROVE InStep(r)'
    OBVIOUS
  <2>1. /\ row = IF rows[jar.sid].state = "absent"
                   THEN session[jar.sid] ELSE rows[jar.sid]
        /\ session[jar.sid].admin = None /\ row.admin = None
        /\ row.state = "active" => row.token = jar.root /\ row.token # 0
    BY <1>1, <1>2, <1>4
  <2> QED BY <1>1, <1>3, <2>1, AnswerInStep
<1> QED BY <1>1, <1>2, <1>3, <1>5, <1>6, <1>7, AnswerStep

LEMMA PlainSerial ==
  ASSUME IInv, IInv', SerialInv, NEW r \in Requests, Plain(r) PROVE SerialInv'
<1>1. /\ Own(r, "email") /\ UNCHANGED <<session, jar, minted, issued, clean>>
      /\ Answer(r, TRUE, NoCookies)
      /\ write' = [write EXCEPT ![r] =
           [write[r] EXCEPT ![request[r].sid] = session[request[r].sid]]]
  BY DEF Plain, Done
<1> QED BY <1>1, OwnRowSerial DEF Unsafe

LEMMA LogoutSerial ==
  ASSUME IInv, IInv', SerialInv, NEW r \in Requests, Logout(r) PROVE SerialInv'
<1> DEFINE s == request[r].sid
           row == [session[s] EXCEPT !.state = "inactive"]
<1>1. /\ Own(r, "logout") /\ UNCHANGED <<session, jar, minted, issued, clean>>
      /\ Answer(r, TRUE, NoCookies)
      /\ write' = [write EXCEPT ![r] = [write[r] EXCEPT ![s] = row]]
  BY DEF Logout, Done
<1>2. s \in Sid /\ session[s] \in Row
  BY <1>1, OwnOK DEF IInv, TypeOK, Unsafe
<1>3. row.state = "inactive" /\ row.admin = session[s].admin /\ row.token = session[s].token
  BY <1>2 DEF Row
<1> HIDE DEF row
<1> QED BY <1>1, <1>3, OwnRowSerial DEF Unsafe

\* Closed versions of rows keep token and link; the session kept is as it was.
LEMMA RevokedCopies ==
  ASSUME IInv, NEW r \in Requests, NEW s \in Sid, NEW kept \in SUBSET Sid, NEW t \in Sid,
         \A u \in Sid : write[r][u].state = "absent" /\ View(r, u) = session[u]
  PROVE  LET row == Revoked(r, s, kept)[t] IN
         /\ Copies(row, r, t)
         /\ row.admin \in {session[t].admin, write[r][t].admin}
         /\ t = s => /\ row.admin = session[t].admin /\ row.token = session[t].token
                     /\ row.state \in {session[t].state, "inactive"}
<1> DEFINE row == Revoked(r, s, kept)[t]
<1>1. session[t] \in Row
  BY DEF IInv, TypeOK
<1>2. CASE t \in SameUser(r, s) \ kept
  <2>1. row = [session[t] EXCEPT !.state = "inactive"] /\ session[t].state # "absent"
    BY <1>2 DEF Revoked, SameUser
  <2>2. /\ row.admin = session[t].admin /\ row.token = session[t].token
        /\ row.state = "inactive"
    BY <1>1, <2>1 DEF Row
  <2> QED BY <2>1, <2>2 DEF Copies
<1>3. CASE t \notin SameUser(r, s) \ kept
  <2>1. row = IF t = s THEN session[t] ELSE write[r][t]
    BY <1>3 DEF Revoked
  <2> QED BY <2>1 DEF Copies
<1> QED BY <1>2, <1>3

LEMMA LogoutAllSerial ==
  ASSUME IInv, IInv', SerialInv, NEW r \in Requests, LogoutAll(r) PROVE SerialInv'
<1> DEFINE s == request[r].sid
           rows == Revoked(r, s, {})
<1>1. /\ Own(r, "logout_all") /\ UNCHANGED <<session, jar, minted, issued, clean>>
      /\ Answer(r, TRUE, NoCookies) /\ write' = [write EXCEPT ![r] = rows]
      /\ TypeOK /\ Minting /\ NoCookies.sid = None
  BY DEF LogoutAll, Done, IInv, Minting, NoCookies
<1>2. s \in Sid /\ request[r].kind = "logout_all" /\ session[s].state # "absent"
  BY <1>1, OwnOK DEF Unsafe
<1>3. /\ request[r].pc # "idle"
      /\ \A t \in Sid : write[r][t].state = "absent" /\ View(r, t) = session[t]
      /\ clean => /\ s = jar.sid
                  /\ session[jar.sid].admin = None
                  /\ session[jar.sid].state = "active" =>
                       session[jar.sid].token = jar.root /\ jar.root # 0
  BY <1>1, <1>2, RouteStarts
<1>4. ASSUME NEW t \in Sid
      PROVE  /\ Copies(rows[t], r, t)
             /\ rows[t].admin \in {session[t].admin, write[r][t].admin}
             /\ t = s => /\ rows[t].admin = session[t].admin
                         /\ rows[t].token = session[t].token
                         /\ rows[t].state \in {session[t].state, "inactive"}
  BY <1>2, <1>3, RevokedCopies
<1> HIDE DEF rows
<1>5. LoginUnheard(r)'
  BY <1>1, <1>2, NotLogin
<1>6. clean => InStep(r)'
  <2> SUFFICES ASSUME clean PROVE InStep(r)'
    OBVIOUS
  <2>1. /\ rows[s] = IF rows[jar.sid].state = "absent"
                       THEN session[jar.sid] ELSE rows[jar.sid]
        /\ session[jar.sid].admin = None /\ rows[s].admin = None
        /\ rows[s].state = "active" => rows[s].token = jar.root /\ rows[s].token # 0
    BY <1>2, <1>3, <1>4
  <2> QED BY <1>1, <1>2, <2>1, AnswerInStep
<1>7. \A t \in Sid :
        /\ Copies(rows[t], r, t) \/ ~Unheard(t) \/ Drawn(t)
        /\ rows[t].admin \in {None, request[r].sid, session[t].admin, write[r][t].admin}
  BY <1>4
<1> QED BY <1>1, <1>3, <1>5, <1>6, <1>7, AnswerStep

\* The session's own row gets the token that the answer brings.
LEMMA ChangePasswordSerial ==
  ASSUME IInv, IInv', SerialInv, NEW r \in Requests, ChangePassword(r) PROVE SerialInv'
<1> DEFINE s == request[r].sid
           revoked == Revoked(r, s, {s})
           rows == [revoked EXCEPT ![s].token = minted + 1]
           new == [sid |-> None, token |-> minted + 1]
           q == [NoRequest EXCEPT !.pc = "answer", !.kind = request[r].kind,
                                  !.ok = TRUE, !.new = new]
<1>1. /\ Own(r, "password") /\ UNCHANGED <<session, jar, clean>> /\ Mint(s)
      /\ Answer(r, TRUE, new) /\ write' = [write EXCEPT ![r] = rows]
      /\ TypeOK /\ new.sid = None /\ new.token = minted + 1
  BY DEF ChangePassword, Done, IInv
<1>2. s \in Sid /\ request[r].kind = "password" /\ CanLock(r, s)
  BY <1>1, OwnOK DEF Unsafe
<1>3. Minting
  BY <1>1, <1>2 DEF Minting
<1>4. /\ request[r].pc # "idle"
      /\ \A t \in Sid : write[r][t].state = "absent" /\ View(r, t) = session[t]
      /\ clean => s = jar.sid /\ session[jar.sid].admin = None
  BY <1>1, <1>2, RouteStarts
<1>5. ASSUME NEW t \in Sid
      PROVE  /\ Copies(revoked[t], r, t)
             /\ revoked[t].admin \in {session[t].admin, write[r][t].admin}
             /\ t = s => revoked[t].admin = session[t].admin
  BY <1>2, <1>4, RevokedCopies
<1>6. revoked \in [Sid -> Row]
  BY <1>1, <1>2, <1>3, RevokedOK DEF ChangePassword
<1>7. request' = [request EXCEPT ![r] = q] /\ q.kind = request[r].kind
      /\ q.pc = "answer" /\ q.ok = TRUE /\ q.new = new
  BY <1>1 DEF Answer, NoRequest
<1> HIDE DEF revoked, new, q
<1>8. /\ \A t \in Sid \ {s} : rows[t] = revoked[t]
      /\ rows[s].admin = revoked[s].admin /\ rows[s].token = minted + 1
  BY <1>2, <1>6 DEF Row
<1> HIDE DEF rows
<1>9. ~Unheard(s)
  BY DEF Unheard
<1>10. \A t \in Sid :
         /\ Copies(rows[t], r, t) \/ ~Unheard(t) \/ Drawn(t)
         /\ rows[t].admin \in {None, request[r].sid, session[t].admin, write[r][t].admin}
  BY <1>5, <1>8, <1>9
<1>11. LoginUnheard(r)'
  BY <1>1, <1>2, NotLogin
<1>12. clean => InStep(r)'
  <2> SUFFICES ASSUME clean PROVE InStep(r)'
    OBVIOUS
  <2>1. request'[r] = q /\ write'[r] = rows
    BY <1>1, <1>7 DEF TypeOK
  <2>2. Expected(r)' = minted + 1
    BY <1>1, <1>2, <1>7, <2>1 DEF Expected
  <2>3. View(r, jar.sid)' = IF rows[s].state = "absent" THEN session[s] ELSE rows[s]
    BY <1>1, <1>4, <2>1 DEF View
  <2>4. session[s].state # "absent" /\ session[s].admin = None /\ rows[s].admin = None
    BY <1>1, <1>2, <1>4, <1>5, <1>8, OwnOK DEF Unsafe
  <2>5. rows[s].state # "absent"
    <3>1. session[s] \in Row
      BY <1>1, <1>2 DEF TypeOK
    <3>2. revoked[s] = session[s]
      BY <1>2, <1>4 DEF revoked, Revoked
    <3> QED BY <1>2, <1>6, <2>4, <3>1, <3>2 DEF rows, Row
  <2>6. minted + 1 # 0
    BY <1>1 DEF TypeOK, Token
  <2> QED BY <1>1, <1>4, <1>8, <2>2, <2>3, <2>4, <2>5, <2>6 DEF InStep
<1> QED BY <1>1, <1>3, <1>4, <1>10, <1>11, <1>12, AnswerStep

\* The administrator's row is as it was; the new session's id has been drawn.
LEMMA ImpersonateSerial ==
  ASSUME IInv, IInv', SerialInv, NEW r \in Requests, Impersonate(r) PROVE SerialInv'
<1> DEFINE s == request[r].sid
<1>1. /\ Own(r, "impersonate") /\ UNCHANGED <<session, jar, clean>>
      /\ TypeOK /\ IssuedOK /\ HeardInv
  BY DEF Impersonate, IInv, SerialInv
<1>2. /\ s \in Sid /\ request[r].kind = "impersonate"
      /\ session[s].state # "absent"
  BY <1>1, OwnOK DEF Unsafe
<1>3. /\ request[r].pc \in EarlyPcs /\ request[r].pc # "idle"
      /\ \A t \in Sid : write[r][t].state = "absent" /\ View(r, t) = session[t]
      /\ clean => /\ s = jar.sid
                  /\ session[jar.sid].admin = None
                  /\ session[jar.sid].state = "active" =>
                       session[jar.sid].token = jar.root /\ jar.root # 0
  BY <1>1, <1>2, RouteStarts
<1>4. CASE session[s].admin = None
  <2>1. PICK t \in Sid :
          /\ Fresh(t) /\ Mint(t)
          /\ Done(r, [write[r] EXCEPT
                        ![s] = session[s],
                        ![t] = [state |-> "active", token |-> minted + 1, admin |-> s]],
                  [sid |-> t, token |-> minted + 1])
    BY <1>4 DEF Impersonate
  <2> DEFINE row == [state |-> "active", token |-> minted + 1, admin |-> s]
             rows == [write[r] EXCEPT ![s] = session[s], ![t] = row]
             new == [sid |-> t, token |-> minted + 1]
  <2>2. Drawn(t) /\ Minting
    BY <1>1, <2>1, MintOK DEF Minting, Drawn
  <2>3. t # s
    BY <1>1, <2>1 DEF HeardInv, FreshUnheard, Unheard
  <2>4. write' = [write EXCEPT ![r] = rows] /\ Answer(r, TRUE, new) /\ new.sid = t
        /\ row.admin = s
    BY <2>1 DEF Done
  <2> HIDE DEF row, new
  <2>5. \A x \in Sid : rows[x] = IF x = t THEN row
                                 ELSE IF x = s THEN session[s] ELSE write[r][x]
    BY <1>1, <1>2, <2>1, SameWrite
  <2> HIDE DEF rows
  <2>6. \A x \in Sid :
          /\ Copies(rows[x], r, x) \/ ~Unheard(x) \/ Drawn(x)
          /\ rows[x].admin \in {None, request[r].sid, session[x].admin, write[r][x].admin}
    BY <2>2, <2>4, <2>5 DEF Copies
  <2>7. LoginUnheard(r)'
    BY <1>1, <1>2, <2>4, NotLogin
  <2>8. clean => InStep(r)'
    <3> SUFFICES ASSUME clean PROVE InStep(r)'
      OBVIOUS
    <3>1. /\ session[s] = IF rows[jar.sid].state = "absent"
                            THEN session[jar.sid] ELSE rows[jar.sid]
          /\ session[jar.sid].admin = None /\ session[s].admin = None
          /\ session[s].state = "active" => session[s].token = jar.root /\ session[s].token # 0
      BY <1>2, <1>3, <2>3, <2>5
    <3> QED BY <1>1, <1>2, <2>4, <3>1, AnswerInStep
  <2> QED BY <1>1, <1>3, <2>2, <2>4, <2>6, <2>7, <2>8, AnswerStep
<1>5. CASE session[s].admin # None
  <2>1. request' = [request EXCEPT ![r] = NoRequest]
        /\ UNCHANGED <<write, minted, issued>>
    BY <1>5 DEF Impersonate, Deny
  <2> QED BY <1>1, <1>3, <2>1, DenySerial
<1> QED BY <1>4, <1>5

\* A clean browser's session is no impersonation.
LEMMA StopSerial ==
  ASSUME IInv, IInv', SerialInv, NEW r \in Requests, Stop(r) PROVE SerialInv'
<1> DEFINE s == request[r].sid
           a == session[s].admin
           live == /\ session[s].state = "active" /\ a # None
                   /\ session[a].state = "active"
           rows == [write[r] EXCEPT ![s] = session[s]]
<1>1. /\ Own(r, "stop") /\ UNCHANGED <<session, jar, minted, issued, clean>>
      /\ TypeOK /\ HeardInv /\ CleanInv /\ request[r] \in RequestState
      /\ write[r] \in [Sid -> Row] /\ Minting
  BY DEF Stop, IInv, TypeOK, SerialInv, Minting
<1>2. s \in Sid /\ request[r].kind = "stop"
  BY <1>1, OwnOK DEF Unsafe
<1>3. clean => s = jar.sid /\ session[jar.sid].admin = None
  BY <1>1, <1>2, RouteStarts
<1>4. write' = [write EXCEPT ![r] = rows]
  BY <1>1 DEF Stop, TypeOK
<1>5. CASE live
  <2> DEFINE new == [request[r] EXCEPT !.pc = "restore"]
  <2>1. request' = [request EXCEPT ![r] = new]
    BY <1>5 DEF Stop, Proceed
  <2>2. new.pc = "restore" /\ new.sid = s /\ new.new = request[r].new
    BY <1>1 DEF RequestState
  <2>3. \A t \in Sid : rows[t] = IF t = s THEN session[s] ELSE write[r][t]
    BY <1>1, <1>2
  <2> HIDE DEF new, rows
  <2>4. /\ request'[r] = new /\ write'[r] = rows
        /\ \A q \in Others(r) : request'[q] = request[q] /\ write'[q] = write[q]
    BY <1>1, <1>4, <2>1, Frame
  <2>5. Discreet(r)
    <3>1. \A t \in Sid : Copies(session'[t], r, t) /\ Copies(write'[r][t], r, t)
      BY <1>1, <2>3, <2>4 DEF Copies
    <3> QED BY <1>1, <2>2, <2>3, <2>4, <3>1 DEF Discreet
  <2>6. WritesInTime(r)' /\ LoginUnheard(r)'
    BY <2>2, <2>4 DEF WritesInTime, LoginUnheard, LoginAnswer
  <2>7. HeardInv'
    BY <1>1, <2>5, <2>6, DiscreetStep
  <2>8. ~clean'
    BY <1>1, <1>3, <1>5
  <2>9. CleanInv'
    BY <2>8 DEF CleanInv
  <2> QED BY <2>7, <2>9 DEF SerialInv
<1>6. CASE ~live
  <2>1. Answer(r, FALSE, NoCookies)
    BY <1>6 DEF Stop
  <2> QED BY <1>1, <1>4, <2>1, OwnRowSerial DEF Unsafe
<1> QED BY <1>5, <1>6

\* Nor does a clean browser end one.
LEMMA RestoreSerial ==
  ASSUME IInv, IInv', SerialInv, NEW r \in Requests, Restore(r) PROVE SerialInv'
<1> DEFINE s == request[r].sid
           a == session[s].admin
           closed == [write[r][s] EXCEPT !.state = "inactive"]
           row == [session[a] EXCEPT !.token = minted + 1]
           rows == [write[r] EXCEPT ![s].state = "inactive", ![a] = row]
           new == [sid |-> a, token |-> minted + 1]
<1>1. /\ request[r].pc = "restore" /\ TypeOK /\ RequestOK(r) /\ CleanInv
      /\ UNCHANGED <<session, jar, clean>> /\ Mint(a)
      /\ Answer(r, TRUE, new) /\ write' = [write EXCEPT ![r] = rows]
      /\ new.sid = a
  BY DEF Restore, IInv, Done, SerialInv
<1>2. s \in Sid /\ a \in Sid /\ write[r][s].state # "absent" /\ request[r].kind = "stop"
  BY <1>1 DEF RequestOK, Unsafe
<1>3. write[r][s] \in Row /\ session[a] \in Row /\ Minting
  BY <1>1, <1>2 DEF TypeOK, Minting
<1>4. /\ closed.admin = write[r][s].admin /\ closed.token = write[r][s].token
      /\ row.admin = session[a].admin
  BY <1>3 DEF Row
<1>5. rows = [write[r] EXCEPT ![s] = closed, ![a] = row]
  BY <1>1, <1>2, SameWrite
<1> HIDE DEF closed, row, rows, new
<1>6. \A x \in Sid : rows[x] = IF x = a THEN row
                               ELSE IF x = s THEN closed ELSE write[r][x]
  BY <1>1, <1>2, <1>5, SameWrite
<1>7. ~Unheard(a)
  BY <1>2 DEF Unheard
<1>8. \A x \in Sid :
        /\ Copies(rows[x], r, x) \/ ~Unheard(x) \/ Drawn(x)
        /\ rows[x].admin \in {None, request[r].sid, session[x].admin, write[r][x].admin}
  BY <1>2, <1>4, <1>6, <1>7 DEF Copies
<1>9. ~clean
  BY <1>1, CleanRequest DEF OwnSession
<1>10. LoginUnheard(r)'
  BY <1>1, <1>2, NotLogin
<1> QED BY <1>1, <1>2, <1>3, <1>8, <1>9, <1>10, AnswerStep

LEMMA FinishShape ==
  ASSUME TypeOK, NEW r \in Requests, NEW event \in {"closing", "sent"}, Finish(r, event)
  PROVE  \E new \in RequestState :
           /\ request' = [request EXCEPT ![r] = new]
           /\ request[r].pc = "answer" =>
                /\ new.pc = event /\ new.sid = request[r].sid /\ new.new = request[r].new
                /\ new.kind = request[r].kind /\ new.ok = request[r].ok
           /\ request[r].pc # "answer" => new = NoRequest
<1>1. request[r] \in RequestState /\ NoRequest \in RequestState
  BY NothingSent DEF TypeOK
<1>2. CASE request[r].pc = "answer"
  <2> DEFINE new == [request[r] EXCEPT !.pc = event]
  <2>1. request' = [request EXCEPT ![r] = new]
    BY <1>2 DEF Finish, NextPc
  <2>2. new \in RequestState /\ new.pc = event
        /\ new.sid = request[r].sid /\ new.new = request[r].new
        /\ new.kind = request[r].kind /\ new.ok = request[r].ok
    BY <1>1 DEF RequestState
  <2> HIDE DEF new
  <2> QED BY <1>2, <2>1, <2>2
<1>3. CASE request[r].pc # "answer"
  <2>1. request' = [request EXCEPT ![r] = NoRequest]
    BY <1>3 DEF Finish, NextPc
  <2> QED BY <1>1, <1>3, <2>1
<1> QED BY <1>2, <1>3

LEMMA LoseSerial ==
  ASSUME IInv, IInv', SerialInv, NEW r \in Requests, Lose(r) PROVE SerialInv'
<1>1. /\ TypeOK /\ request[r].pc \in {"answer", "sent"} /\ ~clean'
      /\ UNCHANGED <<session, jar, write, minted, issued>>
  BY DEF IInv, Lose
<1>2. PICK new \in RequestState :
        /\ request' = [request EXCEPT ![r] = new]
        /\ request[r].pc = "answer" =>
             /\ new.pc = "closing" /\ new.sid = request[r].sid /\ new.new = request[r].new
             /\ new.kind = request[r].kind /\ new.ok = request[r].ok
        /\ request[r].pc # "answer" => new = NoRequest
  BY <1>1, FinishShape DEF Lose
<1>3. write' = [write EXCEPT ![r] = write[r]]
  BY <1>1, SameWrite
<1>4. /\ new.pc \in EarlyPcs \cup {"closing"}
      /\ new.pc = "closing" \/ request[r].pc \in EarlyPcs \cup {"sent"}
      /\ new.sid \in {None, jar.sid, request[r].sid}
      /\ new.new.sid \in {None, request[r].new.sid}
  BY <1>1, <1>2, NothingSent DEF EarlyPcs
<1> QED BY <1>1, <1>2, <1>3, <1>4, QuietStep

\* The jar takes what the answer of the only request brings.
LEMMA DeliverSerial ==
  ASSUME IInv, IInv', SerialInv, NEW r \in Requests, Deliver(r) PROVE SerialInv'
<1> DEFINE n == request[r].new
           kind == request[r].kind
<1>1. /\ TypeOK /\ request[r].pc \in {"answer", "sent"} /\ HeardInv /\ CleanInv
      /\ UNCHANGED <<session, write, minted, issued>> /\ Minting
      /\ jar \in Jar /\ request[r] \in RequestState
      /\ jar' = IF request[r].ok THEN SetCookies(kind, n, jar) ELSE jar
  BY DEF IInv, Deliver, SerialInv, Minting, TypeOK
<1>2. PICK new \in RequestState :
        /\ request' = [request EXCEPT ![r] = new]
        /\ request[r].pc = "answer" =>
             /\ new.pc = "closing" /\ new.sid = request[r].sid /\ new.new = request[r].new
             /\ new.kind = request[r].kind /\ new.ok = request[r].ok
        /\ request[r].pc # "answer" => new = NoRequest
  BY <1>1, FinishShape DEF Deliver
<1>3. write' = [write EXCEPT ![r] = write[r]]
  BY <1>1, SameWrite
<1>4. /\ request'[r] = new /\ write'[r] = write[r]
      /\ \A q \in Others(r) : request'[q] = request[q] /\ write'[q] = write[q]
  BY <1>1, <1>2, <1>3, Frame
<1>5. /\ new.pc \in {"closing", "idle"}
      /\ new.sid \in {None, request[r].sid} /\ new.new.sid \in {None, n.sid}
  BY <1>1, <1>2, NothingSent
\* What the answer sets.
<1>6. /\ request[r].ok /\ kind = "login" => jar'.sid = n.sid /\ jar'.root = n.token
      /\ request[r].ok /\ kind = "password" => jar'.sid = jar.sid /\ jar'.root = n.token
      /\ request[r].ok /\ kind \in {"impersonate", "stop"} => jar'.sid = n.sid
      /\ request[r].ok /\ kind \in {"logout", "logout_all"} => jar'.sid = None
      /\ ~request[r].ok \/ kind \in {"none", "email"} => jar' = jar
  BY <1>1 DEF SetCookies, Jar
<1>7. kind \in {"none", "login", "password", "impersonate", "stop", "logout",
                 "logout_all", "email"}
  BY <1>1 DEF RequestState, Unsafe
<1>8. Discreet(r)
  <2>1. \A s \in Sid : Copies(session'[s], r, s) /\ Copies(write'[r][s], r, s)
    BY <1>1, <1>4 DEF Copies
  <2>2. jar'.sid \in {None, jar.sid, n.sid}
    BY <1>6, <1>7
  <2> QED BY <1>4, <1>5, <2>1, <2>2 DEF Discreet
<1>9. WritesInTime(r)'
  <2>1. CASE request[r].pc = "sent"
    BY <1>1, <1>4, <2>1 DEF HeardInv, WritesInTime
  <2>2. CASE request[r].pc = "answer"
    BY <1>2, <1>4, <2>2 DEF WritesInTime
  <2> QED BY <1>1, <2>1, <2>2
<1>10. LoginUnheard(r)'
  BY <1>4, <1>5 DEF LoginUnheard, LoginAnswer
<1>11. HeardInv'
  BY <1>1, <1>8, <1>9, <1>10, DiscreetStep
<1>12. OwnSession(r)'
  BY <1>4, <1>5 DEF OwnSession
<1>13. Expected(r)' = jar'.root /\ \A s \in Sid : View(r, s)' = View(r, s)
  BY <1>1, <1>4, <1>5 DEF Expected, View
<1>14. ASSUME clean' PROVE Alone(r) /\ InStep(r)'
  <2>1. CASE request[r].ok /\ kind = "login"
    <3>1. clean' = (clean \/ Alone(r))
      BY <2>1 DEF Deliver
    <3>2. Alone(r)
      BY <1>1, <1>14, <3>1, CleanRequest
    <3>3. LoginAnswer(r) /\ LoginUnheard(r)
      BY <1>1, <2>1 DEF LoginAnswer, HeardInv
    <3>4. /\ n.sid \in Sid /\ n.token # 0 /\ LoginRows(n.sid, n.token)
      BY <3>3 DEF LoginUnheard
    <3>5. /\ session[n.sid].admin = None
          /\ View(r, n.sid).admin = None
          /\ View(r, n.sid).state = "active" => View(r, n.sid).token = n.token
      BY <3>4 DEF LoginRows, LoginRow, View
    <3>6. InStep(r)'
      BY <1>1, <1>6, <1>13, <2>1, <3>4, <3>5 DEF InStep
    <3> QED BY <3>2, <3>6
  <2>2. CASE request[r].ok /\ kind \in {"impersonate", "stop"}
    BY <1>14, <2>2 DEF Deliver
  <2>3. CASE ~(request[r].ok /\ kind \in {"login", "impersonate", "stop"})
    <3>1. clean
      BY <1>14, <2>3 DEF Deliver
    <3>2. Alone(r) /\ InStep(r)
      BY <1>1, <3>1, CleanRequest
    <3>3. CASE request[r].ok /\ kind = "password"
      <4>1. Expected(r) = n.token /\ jar'.sid = jar.sid /\ jar'.root = n.token
        BY <1>1, <1>6, <3>3 DEF Expected
      <4> QED BY <1>1, <1>13, <3>2, <4>1 DEF InStep
    <3>4. CASE request[r].ok /\ kind \in {"logout", "logout_all"}
      BY <1>6, <3>2, <3>4, NoneAssumption DEF InStep
    <3>5. CASE ~request[r].ok \/ kind \in {"none", "email"}
      <4>1. Expected(r) = jar.root /\ jar' = jar
        BY <1>6, <3>5 DEF Expected
      <4> QED BY <1>1, <1>13, <3>2, <4>1 DEF InStep
    <3> QED BY <1>7, <2>3, <3>3, <3>4, <3>5
  <2> QED BY <2>1, <2>2, <2>3
<1>15. CleanInv'
  BY <1>1, <1>4, <1>11, <1>12, <1>14, CleanStep
<1> QED BY <1>11, <1>15 DEF SerialInv

\* Rows become committed, or are undone.
LEMMA EndSerial ==
  ASSUME IInv, IInv', SerialInv, NEW r \in Requests,
         UNCHANGED <<jar, minted, issued>>,
         request[r].pc \in {"answer", "closing"}, Finish(r, "sent"),
         write' = [write EXCEPT ![r] = NoRows],
         \A s \in Sid : session'[s] \in {session[s], View(r, s)},
         clean' => clean /\ \A s \in Sid : session'[s] = View(r, s)
  PROVE  SerialInv'
<1>1. TypeOK /\ HeardInv /\ CleanInv /\ Minting
  BY DEF IInv, SerialInv, Minting
<1>2. PICK new \in RequestState :
        /\ request' = [request EXCEPT ![r] = new]
        /\ request[r].pc = "answer" =>
             /\ new.pc = "sent" /\ new.sid = request[r].sid /\ new.new = request[r].new
             /\ new.kind = request[r].kind /\ new.ok = request[r].ok
        /\ request[r].pc # "answer" => new = NoRequest
  BY <1>1, FinishShape
<1>3. /\ request'[r] = new /\ write'[r] = NoRows
      /\ \A q \in Others(r) : request'[q] = request[q] /\ write'[q] = write[q]
  BY <1>1, <1>2, Frame
<1>4. /\ \A s \in Sid : NoRows[s] = NoRow
      /\ NoRow.state = "absent" /\ NoRow.admin = None
  BY DEF NoRows, NoRow
<1>5. Discreet(r)
  <2>1. \A s \in Sid : Copies(session'[s], r, s) /\ Copies(write'[r][s], r, s)
    BY <1>3, <1>4 DEF Copies, View
  <2>2. /\ new.sid \in {None, request[r].sid}
        /\ new.new.sid \in {None, request[r].new.sid}
    BY <1>2, NothingSent
  <2> QED BY <1>3, <1>4, <2>1, <2>2 DEF Discreet
<1>6. WritesInTime(r)'
  BY <1>3, <1>4 DEF WritesInTime
<1>7. LoginUnheard(r)'
  <2> SUFFICES ASSUME LoginAnswer(r)' PROVE LoginUnheard(r)'
    BY DEF LoginUnheard, LoginAnswer
  <2>1. /\ LoginAnswer(r) /\ new.new = request[r].new
    BY <1>2, <1>3, NothingSent DEF LoginAnswer
  <2>2. PICK s \in Sid, t \in Token :
          /\ request[r].new.sid = s /\ request[r].new.token = t
          /\ t # 0 /\ issued[t] = s /\ Unheard(s) /\ LoginRows(s, t)
          /\ \A p \in Others(r) : request[p].new.sid # s
    BY <1>1, <2>1 DEF HeardInv, LoginUnheard, TypeOK, RequestState
  <2>3. ~Drawn(s)
    BY <2>2 DEF Drawn, Fresh
  <2>4. jar'.sid # s
    BY <2>2 DEF Unheard
  <2>5. Unheard(s)' /\ LoginRows(s, t)'
    BY <1>5, <2>2, <2>3, <2>4, UnheardStays, LoginRowsStay
  <2> QED BY <1>3, <2>1, <2>2, <2>5 DEF LoginUnheard
<1>8. HeardInv'
  BY <1>1, <1>5, <1>6, <1>7, DiscreetStep
<1>9. OwnSession(r)'
  BY <1>2, <1>3, NothingSent DEF OwnSession
<1>10. ASSUME clean' PROVE Alone(r) /\ InStep(r)'
  <2>1. Alone(r) /\ InStep(r)
    BY <1>1, <1>10, CleanRequest
  <2>2. \A s \in Sid : View(r, s)' = View(r, s) /\ session'[s] = View(r, s)
    BY <1>3, <1>4, <1>10 DEF View
  <2>3. Expected(r)' = Expected(r)
    BY <1>2, <1>3, NothingSent DEF Expected
  <2> QED BY <2>1, <2>2, <2>3 DEF InStep
<1>11. CleanInv'
  BY <1>1, <1>3, <1>8, <1>9, <1>10, CleanStep
<1> QED BY <1>8, <1>11 DEF SerialInv

LEMMA CommitSerial ==
  ASSUME IInv, IInv', SerialInv, NEW r \in Requests, Commit(r) PROVE SerialInv'
<1>1. \A s \in Sid : session'[s] = View(r, s)
  BY DEF Commit
<1> QED BY <1>1, EndSerial DEF Commit, NoRows

LEMMA CommitFailsSerial ==
  ASSUME IInv, IInv', SerialInv, NEW r \in Requests, CommitFails(r) PROVE SerialInv'
BY EndSerial DEF CommitFails, NoRows

\* A row closed elsewhere keeps its token.
LEMMA CloseElsewhereSerial ==
  ASSUME IInv, IInv', SerialInv, CloseElsewhere PROVE SerialInv'
<1>1. PICK s \in Sid :
        /\ session[s].state = "active"
        /\ \A r \in Requests : write[r][s].state = "absent"
        /\ session' = [session EXCEPT ![s].state = "inactive"]
  BY DEF CloseElsewhere
<1>2. TypeOK /\ HeardInv /\ CleanInv /\ UNCHANGED <<jar, request, write, minted, issued, clean>>
  BY DEF IInv, CloseElsewhere, SerialInv
<1>3. \A t \in Sid :
        /\ session'[t].admin = session[t].admin /\ session'[t].token = session[t].token
        /\ session'[t].state # session[t].state =>
             t = s /\ session[t].state = "active" /\ session'[t].state = "inactive"
  BY <1>1, <1>2 DEF TypeOK, Row
<1>4. \A t \in Sid : Unheard(t) => Unheard(t)'
  BY <1>2, <1>3 DEF Unheard
<1>5. ASSUME NEW t \in Sid, NEW k \in Token, LoginRows(t, k) PROVE LoginRows(t, k)'
  BY <1>2, <1>3, <1>5 DEF LoginRows, LoginRow
<1>6. ASSUME NEW r \in Requests PROVE LoginUnheard(r)'
  <2> SUFFICES ASSUME LoginAnswer(r) PROVE LoginUnheard(r)'
    BY <1>2 DEF LoginUnheard, LoginAnswer
  <2>1. PICK t \in Sid, k \in Token :
          /\ request[r].new.sid = t /\ request[r].new.token = k
          /\ k # 0 /\ issued[k] = t /\ Unheard(t) /\ LoginRows(t, k)
          /\ \A p \in Others(r) : request[p].new.sid # t
    BY <1>2 DEF HeardInv, LoginUnheard, TypeOK, RequestState
  <2>2. Unheard(t)' /\ LoginRows(t, k)'
    BY <1>4, <1>5, <2>1
  <2> QED BY <1>2, <2>1, <2>2 DEF LoginUnheard
<1>7. ASSUME NEW t \in Sid PROVE FreshUnheard(t)'
  <2>1. 0 \in Token
    BY MaxTokenAssumption DEF Token
  <2> SUFFICES ASSUME Fresh(t)
               PROVE  /\ Unheard(t)' /\ LoginRows(t, 0)'
                      /\ \A r \in Requests : request[r].new.sid # t
    BY <1>2 DEF FreshUnheard, Fresh
  <2> QED BY <1>2, <1>4, <1>5, <2>1 DEF HeardInv, FreshUnheard
<1>8. \A r \in Requests : WritesInTime(r)'
  BY <1>2 DEF HeardInv, WritesInTime
<1>9. ASSUME NEW r \in Requests, InStep(r) PROVE InStep(r)'
  <2>1. Expected(r)' = Expected(r)
    BY <1>2 DEF Expected
  <2>2. jar.sid \in Sid =>
          /\ View(r, jar.sid)'.admin = View(r, jar.sid).admin
          /\ View(r, jar.sid)'.token = View(r, jar.sid).token
          /\ View(r, jar.sid)'.state = "active" => View(r, jar.sid).state = "active"
    BY <1>2, <1>3 DEF View
  <2> QED BY <1>2, <1>3, <1>9, <2>1, <2>2 DEF InStep
<1>10. CleanInv'
  BY <1>2, <1>9 DEF CleanInv, OwnSession, Alone
<1> QED BY <1>6, <1>7, <1>8, <1>10 DEF SerialInv, HeardInv

-----------------------------------------------------------------------------
(* Serial: the theorem *)

LEMMA InitSerial == Init => SerialInv
<1> SUFFICES ASSUME Init PROVE SerialInv
  OBVIOUS
<1>1. /\ \A s \in Sid : s # None
      /\ \A r \in Requests : request[r] = NoRequest
      /\ \A s \in Sid : session[s] = NoRow /\ \A r \in Requests : write[r][s] = NoRow
      /\ jar.sid = None
  BY NoneAssumption DEF Init
<1>2. NoRow.state = "absent" /\ NoRow.admin = None
  BY DEF NoRow
<1>3. HeardInv
  BY <1>1, <1>2, NothingSent
     DEF HeardInv, WritesInTime, LoginUnheard, LoginAnswer, FreshUnheard, Unheard,
         LoginRows, LoginRow
<1>4. CleanInv
  BY <1>1, NothingSent DEF CleanInv, OwnSession, InStep
<1> QED BY <1>3, <1>4 DEF SerialInv

LEMMA StutterSerial ==
  ASSUME SerialInv, UNCHANGED vars PROVE SerialInv'
<1>1. UNCHANGED <<session, jar, request, write, minted, issued, clean>>
  BY DEF vars
<1> QED BY <1>1 DEF SerialInv, HeardInv, CleanInv, WritesInTime, LoginUnheard,
          LoginAnswer, FreshUnheard, Fresh, Unheard, LoginRows, LoginRow, Alone,
          OwnSession, InStep, Expected, View

LEMMA StepSerial ==
  ASSUME IInv, SerialInv, [Next]_vars PROVE SerialInv'
<1>0. IInv'
  BY StepInv
<1>1. ASSUME NEW r \in Requests, Route(r) PROVE SerialInv'
  BY <1>0, <1>1, LoginSerial, PlainSerial, LogoutSerial, LogoutAllSerial,
     ChangePasswordSerial, ImpersonateSerial, StopSerial, RestoreSerial DEF Route
<1>2. ASSUME NEW r \in Requests,
             \/ Send(r) \/ Middleware(r) \/ Authenticate(r) \/ Deliver(r) \/ Lose(r)
             \/ Commit(r) \/ CommitFails(r) \/ RollBack(r)
      PROVE  SerialInv'
  BY <1>0, <1>2, SendSerial, MiddlewareSerial, AuthenticateSerial, DeliverSerial,
     LoseSerial, CommitSerial, CommitFailsSerial, RollBackSerial
<1>3. CASE CloseElsewhere
  BY <1>0, <1>3, CloseElsewhereSerial
<1>4. CASE UNCHANGED vars
  BY <1>4, StutterSerial
<1> QED BY <1>1, <1>2, <1>3, <1>4 DEF Next

\* A browser that sends one request after the other, all committed and answered,
\* and has not touched impersonation since its last login, is never refused
\* (CsrfMiddleware): for any number of sessions and tokens.
THEOREM SerialSafe == Spec => []Serial
<1>1. Init => IInv /\ SerialInv
  BY InitInv, InitSerial
<1>2. (IInv /\ SerialInv) /\ [Next]_vars => (IInv /\ SerialInv)'
  BY StepInv, StepSerial
<1>3. IInv /\ SerialInv => Serial
  <2> SUFFICES ASSUME IInv, SerialInv, NEW r \in Requests, clean,
                      request[r].header = Parsed(jar), Refused(r),
                      request[r].header = request[r].cookie, request[r].header # 0
               PROVE  FALSE
    BY DEF Serial
  <2>1. /\ request[r].pc = "csrf" /\ request[r].sid \in Sid
        /\ session[request[r].sid].state = "active"
        /\ request[r].header # session[request[r].sid].token
    BY DEF Refused, TokensAgree, IInv, RequestOK
  <2>2. OwnSession(r) /\ InStep(r)
    BY <2>1, CleanRequest DEF SerialInv
  <2>3. /\ \A s \in Sid : View(r, s) = session[s]
        /\ Expected(r) = jar.root
    BY <2>1, EarlyView DEF SerialInv, EarlyPcs
  <2>4. request[r].sid = jar.sid
    BY <2>1, <2>2 DEF OwnSession
  <2>5. session[jar.sid].token = jar.root /\ jar.root # 0
    BY <2>1, <2>2, <2>3, <2>4 DEF InStep
  <2> QED BY <2>1, <2>4, <2>5 DEF Parsed
<1> QED BY <1>1, <1>2, <1>3, PTL DEF Spec
=============================================================================
