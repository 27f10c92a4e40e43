----------------------------- MODULE LimitersInv -----------------------------
(***************************************************************************)
(* The inductive invariants of Limiters: which step of a request knows what *)
(* of the lockout, and how many requests are between a check and the       *)
(* record that goes with it.                                               *)
(***************************************************************************)
EXTENDS Limiters

Counts == [Time -> Nat]

\* The steps of the login limiter, and of the send limiters.
LoginSteps ==
  {"ip_check", "lockout_check", "clear_marker", "clear_failures", "verify",
   "fail_account", "fail_ip", "fail_count", "fail_mark", "reset_failures",
   "reset_marker", "record_ip"}
SendSteps ==
  {"send_ip_check", "send_account_check", "mail", "consume_account", "consume_ip",
   "expire_account", "expire_ip"}

Typed ==
  /\ now \in Time
  /\ failures \in [Accounts -> Counts]
  /\ attempts \in [Ips -> Counts]
  /\ marker \in [Accounts -> Time \cup {NoMarker}]
  /\ sends \in [Prefix -> [Accounts \cup Ips -> Counts]]
  /\ ttl \in [Prefix -> [Accounts \cup Ips -> Nat \cup {NoTtl}]]
  /\ mailed \in [Prefix -> [Accounts \cup Ips -> Counts]]
  /\ request \in [Requests -> RequestState]
  /\ mix \in Mixes /\ arrivals \in Nat /\ lost \in Nat /\ dropped \in Nat
  /\ lifted \subseteq Accounts

RequestOK(r) ==
  LET q == request[r] IN
  /\ q.at <= now
  /\ q.pc \in LoginSteps => q.kind \in {"login", "password", "email"}
  /\ q.pc \in SendSteps => q.kind \in {"email", "forgot"}

Locked(a) == marker[a] # NoMarker

\* A request past its check of the lockout has found none, or an elapsed one,
\* unless it is marked as raced.
CheckOK(r) ==
  LET q == request[r] IN
  ~q.raced =>
    /\ q.pc = "clear_marker" => ~Locked(q.account) \/ Elapsed(q.account, q.at)
    /\ q.pc \in {"clear_failures", "verify", "reset_failures", "reset_marker"} =>
         ~Locked(q.account)

LockInv ==
  /\ Typed
  /\ \A r \in Requests : RequestOK(r) /\ CheckOK(r)
  /\ LockedWhenFull

(* Attempts: the requests that were let in and will still be recorded.       *)

\* The requests of an account, and from an address, at some steps.
Of(a, pcs) == {r \in Requests : request[r].account = a /\ request[r].pc \in pcs}
From(i, pcs) == {r \in Requests : request[r].ip = i /\ request[r].pc \in pcs}

AfterIpCheck ==
  {"lockout_check", "clear_marker", "clear_failures", "verify", "fail_account",
   "fail_ip", "reset_failures", "reset_marker", "record_ip"}

IpBounded(i) ==
  InWindow(attempts[i], IpWindow) + Cardinality(From(i, AfterIpCheck))
    <= PerIpMax - 1 + Cardinality(Requests)

\* An account that is not locked has at most those failures too many whose
\* requests are yet to count them; nobody passes the check of a locked one.
Unbounded(a) == a \in lifted \/ Pending(a, {"clear_failures"}) \/ lost > 0
OpenBounded(a) ==
  ~Locked(a) => InWindow(failures[a], AccountWindow)
                  <= PerAccountMax - 1
                     + Cardinality(Of(a, {"fail_ip", "fail_count", "fail_mark"}))
FailuresBounded(a) ==
  InWindow(failures[a], AccountWindow) + Cardinality(Of(a, {"verify", "fail_account"}))
    <= PerAccountMax - 1 + Cardinality(Requests)
AccountBounded(a) == Unbounded(a) \/ (OpenBounded(a) /\ FailuresBounded(a))

AttemptsInv ==
  /\ LockInv
  /\ \A i \in Ips : IpBounded(i)
  /\ \A a \in Accounts : AccountBounded(a)

-----------------------------------------------------------------------------
(* Mails: the slots that are owed for mails sent, and the requests that may  *)
(* still send one.                                                           *)

Keys == Accounts \cup Ips

\* r sends under prefix p, for or from key k.
Sends(r, p, k) == PrefixOf(r) = p /\ k \in {request[r].account, request[r].ip}

\* The requests that owe key k a slot for a mail.
Owing(p, k) ==
  {r \in Requests :
     /\ Sends(r, p, k)
     /\ \/ request[r].pc = "consume_account"
        \/ request[r].pc = "consume_ip" /\ k \in Ips}
OwingAt(p, k, t) == {r \in Owing(p, k) : request[r].at = t}
OwingSince(p, k, from) == {r \in Owing(p, k) : request[r].at > from}

\* Those that owe it a slot or the EXPIRE that follows.
Charging(p, k) ==
  {r \in Requests :
     /\ Sends(r, p, k)
     /\ \/ request[r].pc \in {"consume_account", "consume_ip", "expire_account"}
        \/ request[r].pc = "expire_ip" /\ k \in Ips}
ChargingSince(p, k, from) == {r \in Charging(p, k) : request[r].at > from}

\* The requests that have passed the check of key k and may still mail.
MayMail(p, k) ==
  {r \in Requests :
     /\ Sends(r, p, k)
     /\ \/ request[r].pc = "mail"
        \/ request[r].pc \in LoginSteps /\ request[r].kind = "email"
        \/ request[r].pc = "send_account_check" /\ k \in Ips}

\* Requests that have not sent their mail, if they will.
Sent == {"idle", "consume_account", "consume_ip", "expire_account", "expire_ip"}
Unsent == {r \in Requests : request[r].pc \notin Sent}

Limit(k) == IF k \in Accounts THEN SendMax ELSE SendIpMax

\* Every request mails once.
MailsArrived(p, k) ==
  \A t \in Time : mailed[p][k][t] + Cardinality(Unsent) <= arrivals

\* Score by score, no slot is taken or owed but for a mail.
SlotsCovered(p, k) ==
  \A t \in Time : t > now - SendWindow =>
    sends[p][k][t] + Cardinality(OwingAt(p, k, t)) <= mailed[p][k][t]

NotInFuture(z) == \A t \in Time : z[t] > 0 => t <= now

\* The start of a window that ends now or later.
Starts == {t \in Int : t >= now - SendWindow}

\* A mail without a slot is owed one, or the slot was lost.
Missing(p, k, from) == Members(mailed[p][k], from) \ Members(sends[p][k], from)
SlotsOwed(p, k) ==
  \A from \in Starts :
    Cardinality(Missing(p, k, from))
      <= Cardinality(OwingSince(p, k, from)) + lost + dropped

\* The slots that an expiry of the key would take along while they count.
Exposed(p, k, from) ==
  {x \in Members(sends[p][k], from) : ttl[p][k] # NoTtl /\ x[1] + SendWindow > ttl[p][k]}
SlotsExposed(p, k) ==
  \A from \in Starts :
    Cardinality(Missing(p, k, from) \cup Exposed(p, k, from))
      <= Cardinality(ChargingSince(p, k, from)) + lost + dropped

MailsBounded(p, k) ==
  InWindow(mailed[p][k], SendWindow) + Cardinality(MayMail(p, k))
    <= Limit(k) - 1 + Cardinality(Requests) + lost + dropped

SlotsInv(p, k) ==
  /\ NotInFuture(sends[p][k])
  /\ MailsArrived(p, k) /\ SlotsCovered(p, k)
  /\ SlotsOwed(p, k) /\ SlotsExposed(p, k) /\ MailsBounded(p, k)

SendsInv ==
  /\ Typed
  /\ arrivals <= mix.arrivals
  /\ \A r \in Requests : RequestOK(r)
  /\ \A p \in Prefix, k \in Keys : SlotsInv(p, k)

-----------------------------------------------------------------------------
(* Resends: those that were let through in the window are still members, for *)
(* a call removes only what is older than its own window.                    *)

ResentKept(i) ==
  \A t \in resent[i] : t > now - ResendWindow => t \in resends[i]

ResendInv ==
  /\ Typed
  /\ \A r \in Requests : RequestOK(r)
  /\ resends \in [Ips -> SUBSET Time] /\ resent \in [Ips -> SUBSET Time]
  /\ \A i \in Ips : ResentKept(i)
  /\ ResendsBounded
-----------------------------------------------------------------------------
(* Sizes: a request leaves at most one member in a sorted set, so that none   *)
(* outgrows the requests that have arrived.                                  *)

\* The steps after which a request adds no failure, no attempt, no slot of k.
Failed ==
  {"idle", "fail_ip", "fail_count", "fail_mark", "reset_failures", "reset_marker",
   "record_ip", "mail"} \cup Sent
Attempted == {"fail_count", "fail_mark", "mail"} \cup Sent
Charged(k) ==
  Sent \ IF k \in Accounts THEN {"consume_account"} ELSE {"consume_account", "consume_ip"}

Before(done) == {r \in Requests : request[r].pc \notin done}

\* z has room for the requests under way.
Room(z, done) == \A t \in Time : z[t] + Cardinality(Before(done)) <= arrivals

SizesInv ==
  /\ Typed
  /\ \A r \in Requests : RequestOK(r)
  /\ arrivals <= mix.arrivals /\ lost <= MaxLost /\ dropped <= MaxLost
  /\ resends \in [Ips -> SUBSET (0 .. now)] /\ resent \in [Ips -> SUBSET (0 .. now)]
  /\ \A a \in Accounts : Room(failures[a], Failed) /\ NotInFuture(failures[a])
  /\ \A i \in Ips : Room(attempts[i], Attempted) /\ NotInFuture(attempts[i])
  /\ \A p \in Prefix, k \in Keys :
       Room(sends[p][k], Charged(k)) /\ ttl[p][k] <= now + SendWindow
=============================================================================
