-------------------------- MODULE AccountLifecycle --------------------------
(***************************************************************************)
(* What the accounts of questr promise to the owner of an address, whatever *)
(* requests, transactions and locks are behind it.                         *)
(*                                                                         *)
(* An address belongs to one account at a time.  It is given to an account *)
(* by signing up, by a change link of that account that is spent in the    *)
(* same instant, or back by a revert link that is.  A held address, and    *)
(* the address a verification or reset link is issued for, is one that the *)
(* account has had.  Links never change hands or addresses, are not issued *)
(* twice, and stay used.  Accounts.tla implements this module.             *)
(*                                                                         *)
(* A change or revert that is done while the account moves may find the    *)
(* address set already: it then leaves the address alone.                  *)
(***************************************************************************)
CONSTANTS Users, Registered, Emails, Tok, None

VARIABLES
  user,  \* the accounts: status, address, held address
  link   \* the mailed tokens

NoUser == [status |-> "absent", email |-> None, previous_email |-> None]

NoLink ==
  [kind |-> "none", user_id |-> None, email |-> None, old_email |-> None,
   used |-> FALSE, reverted |-> FALSE, redeemed |-> FALSE]

\* A link that works no more.
Spent(l) == l.used \/ l.kind = "deleted"

Free(u, e) == \A v \in Users \ {u} : user[v].email # e

\* The change links of an account, deleted ones included.
Changes(u) == {t \in Tok : link[t].user_id = u /\ link[t].old_email # None}

\* The addresses an account has had: those it has asked to leave, and those
\* it has confirmed.
Left(u) == {link[t].old_email : t \in Changes(u)}
Past(u) == Left(u) \cup {link[t].email : t \in {c \in Changes(u) : link[c].redeemed}}
Own(u) == {user[u].email} \cup Past(u)

Init ==
  /\ user \in [Users -> [status : {"absent", "ACTIVE"}, email : Emails \cup {None},
                         previous_email : {None}]]
  /\ \A u \in Users :
       IF u \in Registered
         THEN /\ user[u].status = "ACTIVE" /\ user[u].email # None
              /\ Free(u, user[u].email)
         ELSE user[u] = NoUser
  /\ link = [t \in Tok |-> NoLink]

-----------------------------------------------------------------------------
(* Accounts *)

Stay(u) == user'[u] = user[u]

SignUp(u) ==
  /\ user[u] = NoUser
  /\ \E e \in Emails :
       /\ Free(u, e)
       /\ user'[u] = [status |-> "PENDING", email |-> e, previous_email |-> None]

SetStatus(u) ==
  /\ user[u].status # "absent"
  /\ user'[u].status \in {"ACTIVE", "SUSPENDED"}
  /\ user'[u] = [user[u] EXCEPT !.status = user'[u].status]

\* A change is confirmed: the address it was asked for, which the account had
\* already if it stays, and a hold on the one it was asked from.
Move(u) ==
  \E t \in Changes(u) :
    /\ link'[t].redeemed /\ Spent(link'[t])
    /\ \/ user'[u].email = link[t].email /\ Free(u, link[t].email)
       \/ user'[u].email = user[u].email /\ link[t].email \in Own(u)
    /\ user'[u] = [status |-> user[u].status, email |-> user'[u].email,
                   previous_email |-> link[t].old_email]

\* A change is reverted, to an address the account has left: the hold ends.
MoveBack(u) ==
  \E t \in Changes(u) :
    /\ link'[t].reverted \/ link'[t].kind = "deleted"
    /\ \/ user'[u].email \in Left(u) /\ Free(u, user'[u].email)
       \/ user'[u].email = user[u].email
    /\ user'[u] = [status |-> user[u].status, email |-> user'[u].email,
                   previous_email |-> None]

-----------------------------------------------------------------------------
(* Links *)

Keep(t) == link'[t] = link[t]

\* Only an operator issues a link that is used up already.
Issue(t) ==
  /\ link[t] = NoLink
  /\ \E u \in Users, kind \in {"verify", "reset", "change"}, e \in Emails,
        old \in Emails \cup {None}, used \in BOOLEAN :
       /\ link'[t] = [kind |-> kind, user_id |-> u, email |-> e, old_email |-> old,
                      used |-> used, reverted |-> FALSE, redeemed |-> FALSE]
       /\ user'[u].status # "absent"
       /\ used => kind = "verify" /\ user'[u].status # "PENDING"
       /\ IF kind = "change" THEN old \in Own(u)
                             ELSE old = None /\ e \in Own(u)'

\* A link is redeemed, reverted or deleted.
Spend(t) ==
  LET old == link[t]
      new == link'[t]
  IN
  /\ old.kind # "none"
  /\ new.kind \in {old.kind, "deleted"}
  /\ new.user_id = old.user_id /\ new.email = old.email /\ new.old_email = old.old_email
  /\ old.used => new.used
  /\ old.reverted => new.reverted
  /\ old.redeemed => new.redeemed
  /\ new.redeemed => Spent(new)
  /\ new.redeemed /\ ~old.redeemed /\ old.kind = "verify" =>
       user'[old.user_id].status \notin {"absent", "PENDING"}

Next ==
  /\ \A u \in Users : Stay(u) \/ SignUp(u) \/ SetStatus(u) \/ Move(u) \/ MoveBack(u)
  /\ \A t \in Tok : Keep(t) \/ Issue(t) \/ Spend(t)

Spec == Init /\ [][Next]_<<user, link>>
=============================================================================
