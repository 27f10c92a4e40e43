------------------------------ MODULE Accounts ------------------------------
(***************************************************************************)
(* The accounts of questr: AccountService over the users table and the     *)
(* three tables of mailed tokens (verification, password reset, e-mail     *)
(* change), with requests running as concurrent database transactions.     *)
(*                                                                         *)
(* A request reads (committed rows, READ COMMITTED), later writes, and     *)
(* commits when its handler has returned; it locks the rows it writes      *)
(* until then.  An UPDATE of users.email excludes every other writer of    *)
(* the row and the foreign key checks of token INSERTs; an UPDATE of other *)
(* columns excludes UPDATEs only.  The methods of the repository SELECT    *)
(* the row, set attributes and flush: a column that is set to the value    *)
(* just loaded is left out of the UPDATE, and may have changed by the time *)
(* the UPDATE gets the row.                                                *)
(*                                                                         *)
(* Tokens of all kinds are rows of one function; an id is issued once.     *)
(* Passwords, sessions and the audit log are left out.  gen, stamp and     *)
(* redeemed are history variables.                                         *)
(***************************************************************************)
EXTENDS Naturals, FiniteSets

CONSTANTS
  Users,
  Registered,  \* users that start with a verified account
  Emails,
  Tok,         \* token ids: as many as are ever issued
  Requests,    \* requests that run at the same time, over all workers
  Kinds,       \* the operations of a run (a bound)
  None,        \* SQL NULL
  Hold,        \* EMAIL_CHANGE_HOLD_HOURS
  TokenLife,   \* life of verification and e-mail change tokens
  ResetLife,   \* RESET_TOKEN_TTL_HOURS
  MaxTime,     \* bound on the clock
  MaxChange    \* bound on the credential changes of a user

ASSUME NoneAssumption == None \notin Users \cup Emails \cup Tok \cup Nat
ASSUME RegisteredAssumption == Registered \subseteq Users
ASSUME RequestsAssumption == IsFiniteSet(Requests)
ASSUME BoundsAssumption ==
  /\ Hold \in Nat \ {0}
  /\ TokenLife \in Nat \ {0}
  /\ ResetLife \in Nat \ {0}
  /\ MaxTime \in Nat
  /\ MaxChange \in Nat

VARIABLES
  now,       \* the clock the handlers read
  account,   \* users: status, e-mail address and hold
  token,     \* the committed rows of the three token tables
  request,   \* the requests in progress, with their uncommitted writes
  gen,       \* history: credential changes of each user
  stamp,     \* history: the gen a reset token was issued on, and overlaps
  redeemed   \* history: commits that redeemed a token

vars == <<now, account, token, request, gen, stamp, redeemed>>

-----------------------------------------------------------------------------
(* Rows, locks and requests *)

Status == {"absent", "PENDING", "ACTIVE", "SUSPENDED", "BANNED"}

AccountRow ==
  [status : Status,
   email : Emails \cup {None},
   previous_email : Emails \cup {None},
   email_changed_at : Nat \cup {None}]

NoAccount ==
  [status |-> "absent", email |-> None, previous_email |-> None,
   email_changed_at |-> None]

\* email is the address a verification or reset link is mailed to, or the new
\* address of an e-mail change.
TokenRow ==
  [kind : {"none", "deleted", "verify", "reset", "change"},
   user_id : Users \cup {None},
   email : Emails \cup {None},
   old_email : Emails \cup {None},
   expires_at : Nat,
   used_at : {"null", "set"},
   revert_used_at : {"null", "set"}]

NoToken ==
  [kind |-> "none", user_id |-> None, email |-> None, old_email |-> None,
   expires_at |-> 0, used_at |-> "null", revert_used_at |-> "null"]

\* raced: a change of the user's credentials overlapped the request.
Stamp == [gen : Nat, raced : BOOLEAN]

NoStamp == [gen |-> 0, raced |-> FALSE]

RequestState ==
  [pc : {"idle", "select", "write", "commit"},
   kind : {"none", "signup", "verify", "activate", "resend", "password",
           "forgot", "reset", "change", "confirm", "revert"},
   uid : Users \cup {None},
   tok : Tok \cup {None},          \* the token it redeems
   email : Emails \cup {None},     \* the address it read or was given
   old_email : Emails \cup {None},
   sets : BOOLEAN,                 \* its UPDATE has the status, or the email
   lock : {"none", "share", "nokey", "email"},   \* on the row of uid
   row : AccountRow,               \* its version of the row of uid
   del : SUBSET Tok,               \* tokens it has deleted
   ins : Tok \cup {None},          \* the token it has inserted or updated
   new : TokenRow,
   stamp : Stamp]

NoRequest ==
  [pc |-> "idle", kind |-> "none", uid |-> None, tok |-> None, email |-> None,
   old_email |-> None, sets |-> FALSE, lock |-> "none", row |-> NoAccount,
   del |-> {}, ins |-> None, new |-> NoToken, stamp |-> NoStamp]

\* Operations that must leave no reset token behind ("Gate 2").
Changing == {"password", "reset", "confirm", "revert"}

\* Row lock modes that exclude each other.
Conflict(a, b) ==
  {a, b} \in {{"nokey"}, {"email"}, {"nokey", "email"}, {"share", "email"}}

CanLock(r, mode) ==
  \A q \in Requests \ {r} :
    request[q].uid = request[r].uid => ~Conflict(request[q].lock, mode)

TokensLocked(q) == request[q].del \cup {request[q].ins}

CanLockTokens(r, toks) ==
  \A q \in Requests \ {r} : (toks \ {None}) \cap TokensLocked(q) = {}

\* Mutant: rows that are not committed are not looked at.
EmailFreeCommitted(r, e) == \A v \in Users \ {request[r].uid} : account[v].email # e

\* The unique index on email: nobody else has the address, and no other
\* transaction is about to.
EmailFree(r, e) ==
  LET others == Users \ {request[r].uid} IN
  /\ \A v \in others : account[v].email # e
  /\ \A q \in Requests \ {r} : request[q].lock = "email" => request[q].row.email # e

\* email_changed_at > now - hold_window, in get_by_email_or_previous.
HoldOpen(row) ==
  row.email_changed_at # None /\ row.email_changed_at + Hold > now

\* Mutant: get_by_email in place of get_by_email_or_previous.
HoldersNow(e) == {u \in Users : account[u].email = e}

\* The rows get_by_email_or_previous selects.
Holders(e) ==
  {u \in Users : \/ account[u].email = e
                 \/ account[u].previous_email = e /\ HoldOpen(account[u])}

\* Mutant: used_at is not looked at.
UsableInTime(row) == row.expires_at >= now

Usable(row) == row.used_at = "null" /\ row.expires_at >= now

\* Tokens of a user that a DELETE sees.
TokensOf(kind, u) == {t \in Tok : token[t].kind = kind /\ token[t].user_id = u}

FreshTok(t) ==
  token[t].kind = "none" /\ \A q \in Requests : request[q].ins # t

ChangeUnderWay(u) ==
  \E q \in Requests :
    request[q].kind \in Changing /\ request[q].uid = u /\ request[q].pc = "commit"

StampFor(u) == [gen |-> gen[u], raced |-> ChangeUnderWay(u)]

Verified(u, e) ==
  [NoAccount EXCEPT !.status = "ACTIVE", !.email = e]

Init ==
  /\ now = 0
  /\ \E home \in [Registered -> Emails] :
       /\ \A u, v \in Registered : u # v => home[u] # home[v]
       /\ account = [u \in Users |->
            IF u \in Registered THEN Verified(u, home[u]) ELSE NoAccount]
  /\ token = [t \in Tok |-> NoToken]
  /\ request = [r \in Requests |-> NoRequest]
  /\ gen = [u \in Users |-> 0]
  /\ stamp = [t \in Tok |-> NoStamp]
  /\ redeemed = [t \in Tok |-> 0]

-----------------------------------------------------------------------------
(* The reads and checks of each operation *)

\* Operations that read the row of the user again before they write.
Selecting == {"verify", "activate", "change", "confirm", "revert"}

\* A request starts, having read what it needs.  Refused requests leave no
\* trace.
Begin(r, new) ==
  /\ request[r].pc = "idle"
  /\ new.kind \in Kinds
  /\ request' = [request EXCEPT ![r] =
       [new EXCEPT
          !.pc = IF new.kind \in Selecting THEN "select" ELSE "write",
          !.stamp = IF new.kind = "forgot" THEN StampFor(new.uid) ELSE NoStamp]]
  /\ UNCHANGED <<now, account, token, gen, stamp, redeemed>>

\* Addresses under a hold are not looked at.
Signup(r) ==
  \E u \in Users, e \in Emails :
    /\ account[u].status = "absent"
    /\ \A v \in Users : account[v].email # e
    /\ Begin(r, [NoRequest EXCEPT !.kind = "signup", !.uid = u, !.email = e])

\* The user's status is not looked at.
VerifyEmail(r) ==
  \E t \in Tok :
    /\ token[t].kind = "verify"
    /\ Usable(token[t])
    /\ Begin(r, [NoRequest EXCEPT
                   !.kind = "verify", !.uid = token[t].user_id, !.tok = t])

\* The operator's script.  The link is mailed to nobody.
VerifyUser(r) ==
  \E u \in Users :
    /\ account[u].status \notin {"absent", "ACTIVE"}
    /\ Begin(r, [NoRequest EXCEPT
                   !.kind = "activate", !.uid = u, !.email = account[u].email])

ResendVerification(r) ==
  \E u \in Users :
    /\ account[u].status = "PENDING"
    /\ Begin(r, [NoRequest EXCEPT
                   !.kind = "resend", !.uid = u, !.email = account[u].email])

\* A session is opened for an ACTIVE user only, and his status is not looked
\* at again (an operator may have suspended him).
SignedIn(u) == account[u].status \notin {"absent", "PENDING"}

ChangePassword(r) ==
  \E u \in Users :
    /\ SignedIn(u)
    /\ gen[u] < MaxChange
    /\ Begin(r, [NoRequest EXCEPT !.kind = "password", !.uid = u])

\* Mutants: the link goes to the current address; to the held one, if any.
LinkToCurrent(row) == row.email
LinkToHeld(row) == row.previous_email

\* user.previous_email or user.email
LinkTo(row) == IF row.previous_email # None THEN row.previous_email ELSE row.email

\* For a PENDING user the verification is sent again; two holders of the
\* address raise MultipleResultsFound.
RequestPasswordReset(r) ==
  \E u \in Users, e \in Emails :
    /\ Holders(e) = {u}
    /\ \/ /\ account[u].status = "PENDING"
          /\ Begin(r, [NoRequest EXCEPT
                         !.kind = "resend", !.uid = u, !.email = account[u].email])
       \/ /\ account[u].status = "ACTIVE"
          /\ Begin(r, [NoRequest EXCEPT
                         !.kind = "forgot", !.uid = u, !.email = LinkTo(account[u])])

ResetPassword(r) ==
  \E t \in Tok :
    LET u == token[t].user_id IN
    /\ token[t].kind = "reset"
    /\ Usable(token[t])
    /\ account[u].status = "ACTIVE"
    /\ gen[u] < MaxChange
    /\ Begin(r, [NoRequest EXCEPT !.kind = "reset", !.uid = u, !.tok = t])

RequestEmailChange(r) ==
  \E u \in Users :
    /\ SignedIn(u)
    /\ Begin(r, [NoRequest EXCEPT
                   !.kind = "change", !.uid = u, !.old_email = account[u].email])

\* revert_used_at is not looked at.
ConfirmEmailChange(r) ==
  \E t \in Tok :
    LET u == token[t].user_id IN
    /\ token[t].kind = "change"
    /\ Usable(token[t])
    /\ account[u].status = "ACTIVE"
    /\ Holders(token[t].email) \subseteq {u}
    /\ gen[u] < MaxChange
    /\ Begin(r, [NoRequest EXCEPT
                   !.kind = "confirm", !.uid = u, !.tok = t,
                   !.email = token[t].email, !.old_email = token[t].old_email])

\* The hold may have ended this very moment; neither used_at nor expires_at
\* is looked at.
RevertEmailChange(r) ==
  \E t \in Tok :
    LET u == token[t].user_id IN
    /\ token[t].kind = "change"
    /\ token[t].revert_used_at = "null"
    /\ account[u].status = "ACTIVE"
    /\ account[u].email_changed_at # None
    /\ account[u].email_changed_at + Hold >= now
    /\ gen[u] < MaxChange
    /\ Begin(r, [NoRequest EXCEPT !.kind = "revert", !.uid = u, !.tok = t])

Selects(r, kind) == request[r].pc = "select" /\ request[r].kind = kind

\* The row is read: the request goes on with what it has learned.
Selected(r, new) ==
  /\ request' = [request EXCEPT ![r] = new]
  /\ UNCHANGED <<now, account, token, gen, stamp, redeemed>>

\* Mutant: mark_as_used is forgotten.
MarkedNot(t) == None

\* The row a mark_as_used updates: none if it has been deleted meanwhile.
Marked(t) == IF token[t].kind = "deleted" THEN None ELSE t

\* Mutant: only the new token is written.
RotatedNot(kind, u) == {}

\* delete_by_user_id before a token is issued.
Rotated(kind, u) == TokensOf(kind, u)

\* UNIQUE(user_id): another INSERT for the user must not be open.
VerificationFree(r) ==
  \A q \in Requests \ {r} :
    ~(request[q].new.kind = "verify" /\ request[q].new.user_id = request[r].uid)

VerificationRow(r) ==
  [NoToken EXCEPT !.kind = "verify", !.user_id = request[r].uid,
                  !.email = request[r].email, !.expires_at = now + TokenLife]

\* The status is left out of an UPDATE if it was loaded as ACTIVE.
SetsStatus(r) == account[request[r].uid].status # "ACTIVE"

\* The token is marked before update_status reads the user.
SelectForVerify(r) ==
  LET t == request[r].tok IN
  /\ Selects(r, "verify")
  /\ CanLockTokens(r, {Marked(t)})
  /\ Selected(r, [request[r] EXCEPT
                    !.pc = "write",
                    !.ins = Marked(t), !.new = [token[t] EXCEPT !.used_at = "set"],
                    !.sets = SetsStatus(r)])

\* As SelectForVerify, with a token that is issued used.
SelectForActivation(r) ==
  LET old == Rotated("verify", request[r].uid) IN
  \E t \in Tok :
    /\ Selects(r, "activate")
    /\ FreshTok(t)
    /\ VerificationFree(r)
    /\ CanLock(r, "share")
    /\ CanLockTokens(r, old)
    /\ Selected(r, [request[r] EXCEPT
                      !.pc = "write",
                      !.lock = "share", !.del = old, !.ins = t,
                      !.new = [VerificationRow(r) EXCEPT !.used_at = "set"],
                      !.sets = SetsStatus(r)])

\* The address is checked after the password and the limits.
SelectForChange(r) ==
  \E e \in Emails :
    /\ Selects(r, "change")
    /\ Holders(e) = {}
    /\ Selected(r, [request[r] EXCEPT !.pc = "write", !.email = e])

\* The address is left out of an UPDATE if it was loaded as the current one.
SetsEmail(r, e) == account[request[r].uid].email # e

\* update_email.
SelectForConfirm(r) ==
  /\ Selects(r, "confirm")
  /\ Selected(r, [request[r] EXCEPT !.pc = "write", !.sets = SetsEmail(r, request[r].email)])

\* revert_email.
SelectForRevert(r) ==
  LET e == account[request[r].uid].previous_email IN
  /\ Selects(r, "revert")
  /\ Selected(r, [request[r] EXCEPT !.pc = "write", !.email = e, !.sets = SetsEmail(r, e)])

-----------------------------------------------------------------------------
(* The writes of each operation, and the end of its transaction *)

Ready(r, kinds) == request[r].pc = "write" /\ request[r].kind \in kinds

\* Waits for the row of the user and for the rows of the tokens.  An open
\* request for a reset token of the user is marked as raced by a change.
Write(r, mode, row, del, ins, new) ==
  LET races(q) == /\ request[r].kind \in Changing
                  /\ request[q].kind = "forgot"
                  /\ request[q].uid = request[r].uid
  IN
  /\ CanLock(r, mode)
  /\ CanLockTokens(r, del \cup {ins})
  /\ request' = [q \in Requests |->
       IF q = r
         THEN [request[q] EXCEPT !.pc = "commit", !.lock = mode, !.row = row,
                                 !.del = del, !.ins = ins, !.new = new]
       ELSE IF races(q)
         THEN [request[q] EXCEPT !.stamp.raced = TRUE]
       ELSE request[q]]
  /\ UNCHANGED <<now, account, token, gen, stamp, redeemed>>

WriteSignup(r) ==
  \E t \in Tok :
    /\ Ready(r, {"signup"})
    /\ FreshTok(t)
    /\ account[request[r].uid].status = "absent"
    /\ EmailFree(r, request[r].email)
    /\ Write(r, "email",
             [NoAccount EXCEPT !.status = "PENDING", !.email = request[r].email],
             {}, t, VerificationRow(r))

\* Mutant: the new status is not written.
ActivatedNot(r, row) == row

\* update_status.
Activated(r, row) == [row EXCEPT !.status = IF request[r].sets THEN "ACTIVE" ELSE @]

WriteVerify(r) ==
  LET q == request[r] IN
  /\ Ready(r, {"verify", "activate"})
  /\ Write(r, "nokey", Activated(r, account[q.uid]), q.del, q.ins, q.new)

WriteResend(r) ==
  \E t \in Tok :
    /\ Ready(r, {"resend"})
    /\ FreshTok(t)
    /\ VerificationFree(r)
    /\ Write(r, "share", NoAccount,
             Rotated("verify", request[r].uid), t, VerificationRow(r))

\* Mutants: a password change, or a revert, leaves the reset tokens.
InvalidatedByReset(r) ==
  IF request[r].kind = "password" THEN {} ELSE TokensOf("reset", request[r].uid)
InvalidatedByConfirm(r) ==
  IF request[r].kind = "revert" THEN {} ELSE TokensOf("reset", request[r].uid)

\* delete_by_user_id of the operations in Changing.
Invalidated(r) == TokensOf("reset", request[r].uid)

\* After the DELETE mark_as_used finds no row.
WritePassword(r) ==
  /\ Ready(r, {"password", "reset"})
  /\ Write(r, "nokey", account[request[r].uid], Invalidated(r), None, NoToken)

WriteForgot(r) ==
  \E t \in Tok :
    /\ Ready(r, {"forgot"})
    /\ FreshTok(t)
    /\ Write(r, "share", NoAccount, Rotated("reset", request[r].uid), t,
             [NoToken EXCEPT !.kind = "reset", !.user_id = request[r].uid,
                             !.email = request[r].email,
                             !.expires_at = now + ResetLife])

WriteChange(r) ==
  \E t \in Tok :
    /\ Ready(r, {"change"})
    /\ FreshTok(t)
    /\ Write(r, "share", NoAccount, Rotated("change", request[r].uid), t,
             [NoToken EXCEPT !.kind = "change", !.user_id = request[r].uid,
                             !.email = request[r].email,
                             !.old_email = request[r].old_email,
                             !.expires_at = now + TokenLife])

\* An UPDATE that moves the account to another address takes the stronger
\* lock and has to pass the unique index.
WriteAddress(r, row, del, ins, new) ==
  IF row.email = account[request[r].uid].email
    THEN Write(r, "nokey", row, del, ins, new)
    ELSE EmailFree(r, row.email) /\ Write(r, "email", row, del, ins, new)

\* The row of the user with the address that was loaded or read.
Addressed(r) ==
  [account[request[r].uid] EXCEPT !.email = IF request[r].sets THEN request[r].email ELSE @]

\* update_email and set_email_hold.
WriteConfirm(r) ==
  LET t == request[r].tok IN
  /\ Ready(r, {"confirm"})
  /\ WriteAddress(r, [Addressed(r) EXCEPT !.previous_email = request[r].old_email,
                                          !.email_changed_at = now],
                  Invalidated(r), Marked(t), [token[t] EXCEPT !.used_at = "set"])

\* Mutant: the hold is left open.
HoldLeft(row) == [row EXCEPT !.previous_email = None]

\* revert_email clears the hold fields.
HoldCleared(row) ==
  [row EXCEPT !.previous_email = None, !.email_changed_at = None]

\* revert_email does nothing when there is no previous address; its result is
\* ignored.
WriteRevert(r) ==
  LET t == request[r].tok
      mark == [token[t] EXCEPT !.revert_used_at = "set"]
  IN
  /\ Ready(r, {"revert"})
  /\ IF request[r].email = None
       THEN Write(r, "none", NoAccount, Invalidated(r), Marked(t), mark)
       ELSE WriteAddress(r, HoldCleared(Addressed(r)), Invalidated(r), Marked(t), mark)

\* A deleted token is gone but for history: whose it was, and the addresses.
Deleted(row) == [row EXCEPT !.kind = "deleted", !.expires_at = 0]

\* The user moved to another address under the request's hands: it has read
\* the old one, or has found its own to be the current one.
Overtaken(q) ==
  \/ q.kind = "change" /\ q.pc = "select"
  \/ q.kind = "confirm" /\ q.pc = "write" /\ ~q.sets

\* get_async_session commits after the handler returned.
Commit(r) ==
  LET q == request[r]
      moves(p) == /\ q.lock = "email"
                  /\ request[p].uid = q.uid
                  /\ Overtaken(request[p])
  IN
  /\ q.pc = "commit"
  /\ account' = IF q.lock \in {"nokey", "email"}
                  THEN [account EXCEPT ![q.uid] = q.row]
                  ELSE account
  /\ token' = [t \in Tok |->
       IF t \in q.del THEN Deleted(token[t])
       ELSE IF t = q.ins THEN q.new
       ELSE token[t]]
  /\ gen' = IF q.kind \in Changing THEN [gen EXCEPT ![q.uid] = @ + 1] ELSE gen
  /\ stamp' =
       IF q.kind \in {"forgot", "change"} THEN [stamp EXCEPT ![q.ins] = q.stamp]
       ELSE IF q.kind = "confirm" /\ q.stamp.raced THEN [stamp EXCEPT ![q.tok] = q.stamp]
       ELSE stamp
  /\ redeemed' = IF q.kind \in {"verify", "reset", "confirm"}
                   THEN [redeemed EXCEPT ![q.tok] = @ + 1]
                   ELSE redeemed
  /\ request' = [p \in Requests |->
       IF p = r THEN NoRequest
       ELSE IF moves(p) THEN [request[p] EXCEPT !.stamp.raced = TRUE]
       ELSE request[p]]
  /\ UNCHANGED now

\* The handler raised (also on a unique index), or the worker died.
RollBack(r) ==
  /\ request[r].pc # "idle"
  /\ request' = [request EXCEPT ![r] = NoRequest]
  /\ UNCHANGED <<now, account, token, gen, stamp, redeemed>>

Tick ==
  /\ now < MaxTime
  /\ now' = now + 1
  /\ UNCHANGED <<account, token, request, gen, stamp, redeemed>>

\* An operator sets the status of an account at the prompt of the shell.
Administer ==
  /\ "administer" \in Kinds
  /\ \E u \in Users, status \in {"ACTIVE", "SUSPENDED"} :
       /\ account[u].status # "absent"
       /\ \A q \in Requests :
            request[q].uid = u => request[q].lock \notin {"nokey", "email"}
       /\ account' = [account EXCEPT ![u].status = status]
  /\ UNCHANGED <<now, token, request, gen, stamp, redeemed>>

Arrive(r) ==
  \/ Signup(r) \/ VerifyEmail(r) \/ VerifyUser(r) \/ ResendVerification(r)
  \/ ChangePassword(r) \/ RequestPasswordReset(r) \/ ResetPassword(r)
  \/ RequestEmailChange(r) \/ ConfirmEmailChange(r) \/ RevertEmailChange(r)

Step(r) ==
  \/ SelectForVerify(r) \/ SelectForActivation(r) \/ SelectForChange(r)
  \/ SelectForConfirm(r) \/ SelectForRevert(r)
  \/ WriteSignup(r) \/ WriteVerify(r) \/ WriteResend(r) \/ WritePassword(r)
  \/ WriteForgot(r) \/ WriteChange(r) \/ WriteConfirm(r) \/ WriteRevert(r)
  \/ Commit(r) \/ RollBack(r)

Next ==
  \/ \E r \in Requests : Arrive(r) \/ Step(r)
  \/ Tick
  \/ Administer

Spec == Init /\ [][Next]_vars

-----------------------------------------------------------------------------
(* Properties *)

\* Types; a link that was mailed has an address.
TypeOK ==
  /\ now \in Nat
  /\ account \in [Users -> AccountRow]
  /\ token \in [Tok -> TokenRow]
  /\ \A t \in Tok :
       token[t].kind \in {"verify", "reset", "change"} => token[t].email \in Emails
  /\ request \in [Requests -> RequestState]
  /\ gen \in [Users -> Nat]
  /\ stamp \in [Tok -> Stamp]
  /\ redeemed \in [Tok -> Nat]

\* The hold fields are set and cleared together, and the held address is the
\* one a redeemed change was to leave, through every order of changes and
\* reverts (confirm_email_change, revert_email_change).  It is the current
\* address at the same time only after such a change overlapped another move
\* of the account: its request had read the address before, or a second
\* confirmation of it left the address to what a revert made of it.
HoldConsistent ==
  \A u \in Users :
    LET row == account[u] IN
    /\ row.previous_email = None <=> row.email_changed_at = None
    /\ row.previous_email # None =>
         \E t \in Tok :
           /\ token[t].user_id = u /\ token[t].old_email = row.previous_email
           /\ redeemed[t] > 0
           /\ row.email = row.previous_email => stamp[t].raced

\* "Gate 2": after a change of password or address no reset token issued
\* before it can be redeemed, except one whose request overlapped the change.
ResetTokensInvalidated ==
  \A t \in Tok :
    token[t].kind = "reset" /\ ~stamp[t].raced =>
      stamp[t].gen = gen[token[t].user_id]

\* "Gate 3": a reset link that works while a hold is open was mailed to the
\* held address (request_password_reset), with the same exception.
ResetLinkHeld ==
  \A t \in Tok :
    LET row == account[token[t].user_id] IN
    token[t].kind = "reset" /\ ~stamp[t].raced /\ HoldOpen(row) =>
      token[t].email = row.previous_email

\* A token is redeemed by at most as many requests as run at the same time:
\* those that have read it before the first of them commits.
RedemptionsBounded == \A t \in Tok : redeemed[t] <= Cardinality(Requests)

\* "Rotate on re-request": an account never has more working reset links, or
\* change links, than requests run at the same time, although a rotation does
\* not see the tokens of requests that are still open (request_password_reset,
\* request_email_change).
LinksRotated ==
  \A u \in Users, kind \in {"reset", "change"} :
    Cardinality(TokensOf(kind, u)) <= Cardinality(Requests)

\* A PENDING account always has a verification token that has not been used,
\* whatever resends and verifications overlap.
PendingVerifiable ==
  \A u \in Users :
    account[u].status = "PENDING" =>
      \E t \in TokensOf("verify", u) : token[t].used_at = "null"

\* No two accounts have the same address, whatever signups, changes and
\* reverts overlap.
AddressesDistinct ==
  \A u, v \in Users :
    u # v /\ account[u].email # None => account[u].email # account[v].email

\* What a reader of committed rows makes of an account and of a link.
UserView ==
  [u \in Users |->
     [status |-> account[u].status, email |-> account[u].email,
      previous_email |-> account[u].previous_email]]

LinkView ==
  [t \in Tok |->
     [kind |-> token[t].kind, user_id |-> token[t].user_id,
      email |-> token[t].email, old_email |-> token[t].old_email,
      used |-> token[t].used_at = "set", reverted |-> token[t].revert_used_at = "set",
      redeemed |-> redeemed[t] > 0]]

\* What the owner of an address may rely on (AccountLifecycle): no overlap of
\* changes, reverts, signups and operators gives an account an address, a
\* hold or a link for an address that it has not had or been asked to have.
Life == INSTANCE AccountLifecycle WITH user <- UserView, link <- LinkView
Lifecycle == Life!Spec

\* A verification of a suspended or banned user is answered 403 (signup.md,
\* Email Verification Flow, step 5) and does not reinstate him.
NoReinstatement ==
  [][\A r \in Requests :
       request[r].pc = "idle" /\ request'[r].kind = "verify" =>
         account[request'[r].uid].status \notin {"SUSPENDED", "BANNED"}]_vars

\* "During the hold, route the reset link to previous_email"
\* (request_password_reset): without an open hold the link is for the current
\* address.
LinkRoutedByHold ==
  [][\A r \in Requests :
       /\ request[r].pc = "idle" /\ request'[r].kind = "forgot"
       /\ ~HoldOpen(account[request'[r].uid])
       => request'[r].email = account[request'[r].uid].email]_vars
=============================================================================
