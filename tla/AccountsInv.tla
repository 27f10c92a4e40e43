----------------------------- MODULE AccountsInv -----------------------------
(***************************************************************************)
(* The inductive invariant of Accounts: what each request knows, and what  *)
(* its open writes have to do with the committed rows.                     *)
(***************************************************************************)
EXTENDS Accounts

Exists(u) == account[u].status # "absent"
Settled(u) == account[u].status \notin {"absent", "PENDING"}

\* A row of users: its address and its hold.
RowOK(row) ==
  /\ row.status # "absent" => row.email \in Emails
  /\ row.previous_email = None <=> row.email_changed_at = None

Mailed == {"verify", "reset", "change"}

\* A token belongs to an account; a reset token that no change has overlapped
\* is of the account's present credentials and went where a link goes now.
TokenOK(t) ==
  LET row == token[t] IN
  /\ row.kind \in Mailed => row.user_id \in Users /\ Exists(row.user_id)
  /\ row.kind = "change" => row.old_email \in Emails
  /\ row.kind = "none" => row.used_at = "null"
  /\ row.kind = "reset" /\ ~stamp[t].raced =>
       /\ stamp[t].gen = gen[row.user_id]
       /\ row.email = LinkTo(account[row.user_id])

\* The token a request redeems may be deleted under its hands, no more.
Redeems(q, kind) ==
  /\ q.tok \in Tok
  /\ token[q.tok].kind \in {kind, "deleted"}
  /\ token[q.tok].kind = kind => token[q.tok].user_id = q.uid

Activating == {"verify", "activate"}

\* What a request has read.  update_status leaves out the status of a user
\* who has been verified.
Reads(q) ==
  /\ q.kind # "none" /\ q.uid \in Users
  /\ q.kind \in Activating \cup {"resend"} => Exists(q.uid)
  /\ q.kind \in Changing \cup {"forgot", "change"} => Settled(q.uid)
  /\ q.kind \in {"signup", "activate", "resend", "forgot", "confirm"} => q.email \in Emails
  /\ q.kind = "change" /\ q.pc # "select" => q.email \in Emails
  /\ q.kind \in {"change", "confirm"} => q.old_email \in Emails
  /\ q.kind = "verify" => Redeems(q, "verify")
  /\ q.kind = "reset" => Redeems(q, "reset")
  /\ q.kind \in {"confirm", "revert"} => Redeems(q, "change")
  /\ q.kind \in Activating /\ q.pc # "select" /\ ~q.sets => Settled(q.uid)

\* As TokenOK, for a reset token that is still to be written.
LinkOK(q) ==
  q.kind = "forgot" /\ ~q.stamp.raced =>
    /\ q.stamp.gen = gen[q.uid]
    /\ q.email = LinkTo(account[q.uid])

\* A request that holds locks on tokens.
Holding(q) == q.pc = "commit" \/ (q.pc = "write" /\ q.kind \in Activating)

Writes(q) == q.lock \in {"nokey", "email"}

RequestOK(r) ==
  LET q == request[r] IN
  /\ q.pc = "idle" => q.kind = "none"
  /\ q.pc # "idle" => Reads(q) /\ LinkOK(q)
  /\ q.pc = "select" => q.kind \in Selecting
  /\ q.pc # "commit" => ~Writes(q)
  /\ ~Holding(q) => q.del = {} /\ q.ins = None

\* The version of the users row.
RowWritten(q) ==
  /\ q.kind \in {"resend", "forgot", "change"} => ~Writes(q)
  /\ q.kind = "signup" =>
       Writes(q) /\ q.row.status = "PENDING" /\ account[q.uid].status = "absent"
  /\ q.kind \in Activating => Writes(q) /\ LinkTo(q.row) = LinkTo(account[q.uid])
  /\ Writes(q) =>
       /\ RowOK(q.row)
       /\ q.kind # "signup" => q.row.status \notin {"absent", "PENDING"}

\* The tokens deleted.
TokensDeleted(q) ==
  /\ \A t \in q.del : token[t].user_id = q.uid
  /\ q.kind \in {"signup", "verify"} => q.del = {}
  /\ q.kind \in {"activate", "resend"} => \A t \in q.del : token[t].kind = "verify"
  /\ q.kind = "change" => \A t \in q.del : token[t].kind = "change"
  /\ q.kind \in Changing \cup {"forgot"} => \A t \in q.del : token[t].kind = "reset"
  /\ q.kind = "reset" => q.tok \in q.del \/ token[q.tok].kind = "deleted"

Issuing == {"signup", "activate", "resend", "forgot", "change"}

\* The token inserted.
TokenInserted(q) ==
  q.kind \in Issuing =>
    /\ q.ins \in Tok \ q.del
    /\ token[q.ins].kind = "none"
    /\ q.new.user_id = q.uid /\ q.new.email = q.email
    /\ q.kind # "activate" => q.new.used_at = "null"
    /\ q.kind \in {"signup", "activate", "resend"} => q.new.kind = "verify"
    /\ q.kind = "forgot" => q.new.kind = "reset"
    /\ q.kind = "change" => q.new.kind = "change" /\ q.new.old_email = q.old_email

\* The token updated.
TokenMarked(q) ==
  /\ q.kind \in {"password", "reset"} => q.ins = None
  /\ q.kind \in {"verify", "confirm", "revert"} =>
       \/ q.ins = None /\ token[q.tok].kind = "deleted"
       \/ /\ q.ins = q.tok /\ token[q.tok].kind # "deleted"
          /\ q.new.kind = token[q.tok].kind
          /\ q.new.user_id = token[q.tok].user_id
          /\ q.new.email = token[q.tok].email
          /\ q.new.old_email = token[q.tok].old_email
          /\ q.new.used_at = IF q.kind = "revert" THEN token[q.tok].used_at ELSE "set"

\* A change deletes the user's reset tokens: what it has not seen is raced.
ChangeSeen(q) ==
  q.kind \in Changing =>
    /\ \A t \in Tok \ q.del :
         token[t].kind = "reset" /\ token[t].user_id = q.uid => stamp[t].raced
    /\ \A f \in Requests :
         request[f].kind = "forgot" /\ request[f].uid = q.uid => request[f].stamp.raced

WriteOK(r) ==
  LET q == request[r] IN
  /\ Holding(q) => TokensDeleted(q) /\ TokenInserted(q) /\ TokenMarked(q)
  /\ q.pc = "commit" => RowWritten(q) /\ ChangeSeen(q)

\* Row locks.
Apart(r, q) ==
  /\ request[r].uid = request[q].uid => ~(Writes(request[r]) /\ Writes(request[q]))
  /\ \A t \in Tok : ~(t \in TokensLocked(r) /\ t \in TokensLocked(q))

LocksExclude == \A r, q \in Requests : r # q => Apart(r, q)

IInv ==
  /\ TypeOK
  /\ \A u \in Users : RowOK(account[u])
  /\ \A t \in Tok : TokenOK(t)
  /\ \A r \in Requests : RequestOK(r)
  /\ \A r \in Requests : WriteOK(r)
  /\ LocksExclude
  /\ PendingVerifiable

\* The requests that redeem a token.
Readers(t) ==
  {r \in Requests : request[r].kind \in {"verify", "reset", "confirm"}
                    /\ request[r].tok = t}

Spent(t) == token[t].kind = "deleted" \/ token[t].used_at = "set"

\* Nobody reads a token that has been redeemed.
RedeemedInv ==
  \A t \in Tok :
    /\ redeemed[t] # 0 => Spent(t)
    /\ redeemed[t] + Cardinality(Readers(t)) <= Cardinality(Requests)

-----------------------------------------------------------------------------
(* Addresses: which account has had which, on top of IInv.                   *)

IsChange(t, u) == token[t].user_id = u /\ token[t].old_email # None

\* The addresses u has asked to leave, and those it has confirmed or has now.
Left(u) == {e \in Emails : \E t \in Tok : IsChange(t, u) /\ e = token[t].old_email}
Past(u) ==
  Left(u) \cup
  {e \in Emails : \E t \in Tok : IsChange(t, u) /\ redeemed[t] > 0 /\ e = token[t].email}
Own(u) == {account[u].email} \cup Past(u)

TokenKnown(t) ==
  LET row == token[t] IN
  /\ row.kind = "none" => row = NoToken /\ redeemed[t] = 0
  /\ row.kind # "none" => row.user_id \in Users /\ row.email \in Emails
  /\ row.kind \in {"verify", "reset"} => row.old_email = None

\* Once it has asked for a change, an account's address is one of those the
\* change tokens record.
AccountKnown(u) ==
  LET row == account[u] IN
  /\ row.status = "absent" => row = NoAccount
  /\ row.previous_email # None => row.previous_email \in Left(u)
  /\ (\E t \in Tok : IsChange(t, u)) => row.email \in Past(u)

Redeeming == {"verify", "reset", "confirm"}

RequestKnown(r) ==
  LET q == request[r] IN
  q.pc # "idle" =>
    /\ q.kind \in {"activate", "resend", "forgot"} => q.email \in Own(q.uid)
    /\ q.kind = "change" => q.old_email \in Own(q.uid)
    /\ q.kind \in Redeeming \cup {"revert"} =>
         token[q.tok].kind # "none" /\ token[q.tok].user_id = q.uid
    /\ q.kind \in {"confirm", "revert"} => token[q.tok].old_email # None
    /\ q.kind = "confirm" =>
         /\ q.email = token[q.tok].email /\ q.old_email = token[q.tok].old_email
         /\ q.pc # "select" /\ ~q.sets => q.email \in Past(q.uid)
    /\ q.kind = "revert" /\ q.pc # "select" /\ q.email # None => q.email \in Left(q.uid)

\* The version of the users row it is to commit: it moves the account only
\* under the stronger lock.
RowKnown(q) ==
  LET row == account[q.uid]
      email == IF q.sets THEN q.email ELSE row.email
  IN
  /\ q.kind = "signup" =>
       /\ q.lock = "email"
       /\ q.row = [NoAccount EXCEPT !.status = "PENDING", !.email = q.email]
  /\ q.kind \in Activating =>
       /\ q.lock = "nokey"
       /\ q.row = [row EXCEPT !.status = IF q.sets THEN "ACTIVE" ELSE @]
  /\ q.kind \in {"password", "reset"} => q.lock = "nokey" /\ q.row = row
  /\ q.kind = "confirm" =>
       /\ q.row = [row EXCEPT !.email = email, !.previous_email = q.old_email,
                              !.email_changed_at = q.row.email_changed_at]
       /\ q.lock = IF email = row.email THEN "nokey" ELSE "email"
  /\ q.kind = "revert" =>
       \/ q.lock = "none"
       \/ /\ q.email # None
          /\ q.row = [row EXCEPT !.email = email, !.previous_email = None,
                                 !.email_changed_at = None]
          /\ q.lock = IF email = row.email THEN "nokey" ELSE "email"

NewKnown(q) ==
  /\ q.kind \in Issuing =>
       /\ q.new.revert_used_at = "null"
       /\ q.kind # "change" => q.new.old_email = None
  /\ q.kind \in {"verify", "confirm"} /\ q.ins # None =>
       q.new.revert_used_at = token[q.tok].revert_used_at
  /\ q.kind = "revert" /\ q.ins # None => q.new.revert_used_at = "set"

\* The unique index: the address it takes is nobody else's, nor about to be.
Claims(r) ==
  request[r].lock = "email" =>
    /\ \A v \in Users \ {request[r].uid} : account[v].email # request[r].row.email
    /\ \A q \in Requests \ {r} :
         request[q].lock = "email" => request[q].row.email # request[r].row.email

OwnInv ==
  /\ AddressesDistinct
  /\ \A t \in Tok : TokenKnown(t)
  /\ \A u \in Users : AccountKnown(u)
  /\ \A r \in Requests :
       /\ RequestKnown(r) /\ Claims(r)
       /\ Holding(request[r]) => NewKnown(request[r])
       /\ request[r].pc = "commit" => RowKnown(request[r])

-----------------------------------------------------------------------------
(* Holds: what has not been overtaken, on top of OwnInv.                     *)

\* A change that nothing overtook is between two addresses.
TokenNotRaced(t) ==
  token[t].old_email # None /\ ~stamp[t].raced => token[t].old_email # token[t].email

\* What such a request has read is still so.
RequestNotRaced(r) ==
  LET q == request[r] IN
  ~q.stamp.raced =>
    /\ q.kind = "change" =>
         IF q.pc = "select" THEN q.old_email = account[q.uid].email
                            ELSE q.old_email # q.email
    /\ q.kind = "confirm" /\ q.pc = "write" /\ ~q.sets => q.email = account[q.uid].email
    /\ q.kind = "confirm" /\ q.pc = "commit" => q.row.email = q.email

\* The redeemed change behind a hold.
HoldExplained(u) ==
  LET row == account[u] IN
  row.previous_email # None =>
    \E t \in Tok :
      /\ token[t].user_id = u /\ token[t].old_email = row.previous_email
      /\ redeemed[t] > 0
      /\ row.email = row.previous_email => stamp[t].raced

HoldInv ==
  /\ \A t \in Tok : TokenNotRaced(t)
  /\ \A r \in Requests : RequestNotRaced(r)
  /\ \A u \in Users : HoldExplained(u)
=============================================================================
