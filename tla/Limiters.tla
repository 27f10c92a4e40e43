------------------------------ MODULE Limiters ------------------------------
(***************************************************************************)
(* LoginRateLimiter, the two DualRateLimiters and RedisRateLimiter of      *)
(* questr, sliding windows in Redis sorted sets, and the operations that   *)
(* consult them: login, change_password, request_email_change,             *)
(* request_password_reset, resend_verification.                            *)
(*                                                                         *)
(* Every Redis command is atomic; what lies between two commands is not.   *)
(* LoginRateLimiter checks before the password is verified and records     *)
(* afterwards, DualRateLimiter checks before a mail is sent and consumes a *)
(* slot afterwards: requests that run at the same time all pass the check. *)
(* A pruning ZREMRANGEBYSCORE and the ZCARD after it are one step: pruning *)
(* again, or later, removes nothing that counts.  DualRateLimiter adds to   *)
(* its two sets before it extends the life of either key, with awaited      *)
(* commands: a key whose time has come meanwhile takes the new slot along.  *)
(*                                                                         *)
(* Whether an account exists, its status and the password offered are      *)
(* outcomes the database decides (Sessions, Accounts); here any of them is *)
(* possible.  mailed, resent, lost, dropped, lifted and raced are history.  *)
(***************************************************************************)
EXTENDS Integers, FiniteSets

CONSTANTS
  Accounts, Ips,               \* keys of the limiters
  Requests,                    \* requests under way at the same time
  Mixes,                       \* which operations are called in a behaviour,
                               \* and how often (a bound)
  PerAccountMax, AccountWindow, Lockout, PerIpMax, IpWindow, \* LOGIN_*
  SendMax, SendWindow,         \* RATE_LIMIT_FORGOT_*, _EMAIL_CHANGE_*
  ResendMax, ResendWindow,     \* RATE_LIMIT_RESEND_*
  MaxTime, MaxArrivals, MaxLost \* bounds: clock, requests, losses

ASSUME LimitsAssumption ==
  /\ {PerAccountMax, AccountWindow, Lockout, PerIpMax, IpWindow, SendMax,
      SendWindow, ResendMax, ResendWindow} \subseteq Nat \ {0}
  /\ {MaxTime, MaxArrivals, MaxLost} \subseteq Nat
ASSUME KeysAssumption ==
  /\ Accounts # {} /\ Ips # {} /\ Accounts \cap Ips = {}
  /\ IsFiniteSet(Requests)
ASSUME MixesAssumption ==
  \A m \in Mixes : /\ m.kinds \subseteq {"login", "password", "email", "forgot", "resend"}
                   /\ m.arrivals \in 0 .. MaxArrivals

VARIABLES
  now,       \* time.time()
  failures,  \* login:account:*
  attempts,  \* login:ip:*
  marker,    \* login:lockout:*, the score of its one member
  sends,     \* dual:* and email_change:*
  ttl,       \* when the keys of sends expire
  resends,   \* rate_limit:resend:*, whose members are their own scores
  request,   \* requests under way: program counter and locals
  arrivals,  \* how many requests have arrived
  mix,       \* the operations called in this behaviour
  mailed,    \* history: the mails handed to SMTP
  resent,    \* history: the calls of is_allowed that were let through
  lost,      \* history: how often Redis lost a record
  dropped,   \* history: slots that were lost with an expired key
  lifted     \* history: accounts that a request unlocked which raced, until
             \* their failures are deleted

vars == <<now, failures, attempts, marker, sends, ttl, resends, request, arrivals,
          mix, mailed, resent, lost, dropped, lifted>>

login == <<failures, attempts, marker>>
send == <<sends, ttl, dropped>>
resend == <<resends, resent>>
calls == <<arrivals, mix>>

-----------------------------------------------------------------------------
(* Sorted sets: how many members each score has.  Members are unique, with  *)
(* a uuid4 in their names (not so those of resends).                         *)

Time == 0 .. MaxTime
Empty == [t \in Time |-> 0]

\* The members of z with a score above from, and their number.
Members(z, from) ==
  {m \in Time \X (1 .. MaxArrivals) : m[1] > from /\ m[2] <= z[m[1]]}
CountAfter(z, from) == Cardinality(Members(z, from))

\* ZCARD.
Count(z) == CountAfter(z, -1)

\* ZREMRANGEBYSCORE key 0 from.
Pruned(z, from) == [t \in Time |-> IF t <= from THEN 0 ELSE z[t]]

\* Mutant: scored with a later time, as if the score were the expiry.
AddedLater(z, t) == [z EXCEPT ![IF t < MaxTime THEN t + 1 ELSE t] = @ + 1]

\* ZADD.
Added(z, t) == [z EXCEPT ![t] = @ + 1]

\* How many members a window that ends now holds.
InWindow(z, window) == CountAfter(z, now - window)

NoMarker == -1

\* A key that has no time to live.
NoTtl == -1

-----------------------------------------------------------------------------
(* Requests *)

RequestState ==
  [pc : {"idle", "send_ip_check", "send_account_check", "ip_check",
         "lockout_check", "clear_marker", "clear_failures", "verify",
         "fail_account", "fail_ip", "fail_count", "fail_mark",
         "reset_failures", "reset_marker", "record_ip", "mail",
         "consume_account", "consume_ip", "expire_account", "expire_ip",
         "resend"},
   kind : {"none", "login", "password", "email", "forgot", "resend"},
   account : Accounts, ip : Ips,
   at : Time,         \* the now of the limiter method under way
   raced : BOOLEAN]   \* history: a lockout began after its own check

Idle == [pc |-> "idle", kind |-> "none", account |-> CHOOSE a \in Accounts : TRUE,
         ip |-> CHOOSE i \in Ips : TRUE, at |-> 0, raced |-> FALSE]

Goto(r, pc) == request' = [request EXCEPT ![r] = [@ EXCEPT !.pc = pc]]

\* Entering a limiter method, which reads the clock once.
Enter(r, pc) == request' = [request EXCEPT ![r] = [@ EXCEPT !.pc = pc, !.at = now]]

\* The request ends: answered, or refused with 429.
Finish(r) == request' = [request EXCEPT ![r] = Idle]

\* The key namespaces of the two DualRateLimiters.
Prefix == {"dual", "email_change"}
PrefixOf(r) == IF request[r].kind = "email" THEN "email_change" ELSE "dual"

\* A single address gets a fraction of what one account gets.
SendIpMax == IF SendMax \div 2 > 1 THEN SendMax \div 2 ELSE 1

Init ==
  /\ now = 0
  /\ failures = [a \in Accounts |-> Empty]
  /\ attempts = [i \in Ips |-> Empty]
  /\ marker = [a \in Accounts |-> NoMarker]
  /\ sends = [p \in Prefix |-> [k \in Accounts \cup Ips |-> Empty]]
  /\ ttl = [p \in Prefix |-> [k \in Accounts \cup Ips |-> NoTtl]]
  /\ resends = [i \in Ips |-> {}]
  /\ resent = [i \in Ips |-> {}]
  /\ request = [r \in Requests |-> Idle]
  /\ arrivals = 0
  /\ mix \in Mixes
  /\ mailed = [p \in Prefix |-> [k \in Accounts \cup Ips |-> Empty]]
  /\ lost = 0
  /\ dropped = 0
  /\ lifted = {}

\* What an operation asks a limiter first.
FirstStep(k) ==
  CASE k \in {"email", "forgot"} -> "send_ip_check"
    [] k = "resend" -> "resend"
    [] OTHER -> "ip_check"

Arrive(r) ==
  /\ request[r].pc = "idle"
  /\ arrivals < mix.arrivals
  /\ arrivals' = arrivals + 1
  /\ \E k \in mix.kinds, a \in Accounts, i \in Ips :
       request' = [request EXCEPT ![r] =
         [pc |-> FirstStep(k),
          kind |-> k, account |-> a, ip |-> i, at |-> now, raced |-> FALSE]]
  /\ UNCHANGED <<now, login, send, mix, mailed, lost, lifted, resend>>

-----------------------------------------------------------------------------
(* LoginRateLimiter.check_login_allowed *)

Throttled(z) == Count(z) >= PerIpMax

IpCheck(r) ==
  LET q == request[r]
      kept == Pruned(attempts[q.ip], q.at - IpWindow)
  IN
  /\ q.pc = "ip_check"
  /\ attempts' = [attempts EXCEPT ![q.ip] = kept]
  /\ IF Throttled(kept) THEN Finish(r) ELSE Goto(r, "lockout_check")
  /\ UNCHANGED <<now, failures, marker, send, calls, mailed, lost, lifted, resend>>

\* Mutant: the lockout lasts as long as the window of failures.
ElapsedWindow(a, at) == at - marker[a] >= AccountWindow

Elapsed(a, at) == at - marker[a] >= Lockout

LockoutCheck(r) ==
  LET q == request[r] IN
  /\ q.pc = "lockout_check"
  /\ CASE marker[q.account] = NoMarker    -> Goto(r, "verify")
       [] marker[q.account] # NoMarker /\ Elapsed(q.account, q.at) ->
            Goto(r, "clear_marker")
       [] OTHER -> Finish(r)
  /\ UNCHANGED <<now, login, send, calls, mailed, lost, lifted, resend>>

\* The two DELs that end a lockout: they name no value, and remove whatever
\* marker and failures are there by then.
ClearMarker(r) ==
  /\ request[r].pc = "clear_marker"
  /\ marker' = [marker EXCEPT ![request[r].account] = NoMarker]
  /\ Goto(r, "clear_failures")
  /\ UNCHANGED <<now, failures, attempts, send, calls, mailed, lost, lifted, resend>>

ClearFailures(r) ==
  /\ request[r].pc = "clear_failures"
  /\ failures' = [failures EXCEPT ![request[r].account] = Empty]
  /\ lifted' = lifted \ {request[r].account}
  /\ Goto(r, "verify")
  /\ UNCHANGED <<now, attempts, marker, send, calls, mailed, lost, resend>>

-----------------------------------------------------------------------------
(* The password and what login, change_password and request_email_change    *)
(* record of it                                                              *)

Verify(r) ==
  LET q == request[r] IN
  /\ q.pc = "verify"
  /\ \/ Enter(r, "fail_account")                     \* wrong password
     \/ Goto(r, "reset_failures")                    \* right password
     \/ q.kind = "login" /\ Enter(r, "record_ip")    \* no ACTIVE account
     \/ q.kind = "login" /\ Finish(r)                \* session cap reached
  /\ UNCHANGED <<now, login, send, calls, mailed, lost, lifted, resend>>

\* record_failure: ZADD account, ZADD ip, prune and count, ZADD NX lockout.
FailAccount(r) ==
  LET q == request[r] IN
  /\ q.pc = "fail_account"
  /\ failures' = [failures EXCEPT ![q.account] = Added(@, q.at)]
  /\ Goto(r, "fail_ip")
  /\ UNCHANGED <<now, attempts, marker, send, calls, mailed, lost, lifted, resend>>

FailIp(r) ==
  LET q == request[r] IN
  /\ q.pc = "fail_ip"
  /\ attempts' = [attempts EXCEPT ![q.ip] = Added(@, q.at)]
  /\ Goto(r, "fail_count")
  /\ UNCHANGED <<now, failures, marker, send, calls, mailed, lost, lifted, resend>>

\* Mutant: one failure more than the limit before the lockout.
ReachedLate(z) == Count(z) > PerAccountMax

Reached(z) == Count(z) >= PerAccountMax

FailCount(r) ==
  LET q == request[r]
      kept == Pruned(failures[q.account], q.at - AccountWindow)
  IN
  /\ q.pc = "fail_count"
  /\ failures' = [failures EXCEPT ![q.account] = kept]
  /\ IF Reached(kept) THEN Goto(r, "fail_mark") ELSE Finish(r)
  /\ UNCHANGED <<now, attempts, marker, send, calls, mailed, lost, lifted, resend>>

\* A request whose check_login_allowed has already decided about the marker.
Checked(q) ==
  q.pc \in {"clear_marker", "clear_failures", "verify", "reset_failures",
            "reset_marker"}

FailMark(r) ==
  LET q == request[r]
      first == marker[q.account] = NoMarker
  IN
  /\ q.pc = "fail_mark"
  /\ marker' = [marker EXCEPT ![q.account] = IF first THEN q.at ELSE @]
  /\ request' = [p \in Requests |->
       IF p = r THEN Idle
       ELSE [request[p] EXCEPT !.raced =
               @ \/ (first /\ Checked(request[p]) /\ request[p].account = q.account)]]
  /\ UNCHANGED <<now, failures, attempts, send, calls, mailed, lost, lifted, resend>>

\* record_success.
ResetFailures(r) ==
  /\ request[r].pc = "reset_failures"
  /\ failures' = [failures EXCEPT ![request[r].account] = Empty]
  /\ lifted' = lifted \ {request[r].account}
  /\ Goto(r, "reset_marker")
  /\ UNCHANGED <<now, attempts, marker, send, calls, mailed, lost, resend>>

\* Only login records the successful attempt for the address.
ResetMarker(r) ==
  LET q == request[r] IN
  /\ q.pc = "reset_marker"
  /\ marker' = [marker EXCEPT ![q.account] = NoMarker]
  /\ lifted' = lifted \cup IF q.raced THEN {q.account} ELSE {}
  /\ CASE q.kind = "login" -> Enter(r, "record_ip")
       [] q.kind = "password" -> Finish(r)
       [] q.kind = "email" -> Goto(r, "mail")
  /\ UNCHANGED <<now, failures, attempts, send, calls, mailed, lost, resend>>

RecordIp(r) ==
  LET q == request[r] IN
  /\ q.pc = "record_ip"
  /\ attempts' = [attempts EXCEPT ![q.ip] = Added(@, q.at)]
  /\ Finish(r)
  /\ UNCHANGED <<now, failures, marker, send, calls, mailed, lost, lifted, resend>>

-----------------------------------------------------------------------------
(* DualRateLimiter *)

SendKept(r, k) == Pruned(sends[PrefixOf(r)][k], request[r].at - SendWindow)

\* A key that is left without members is gone, and its time to live with it.
PruneSends(r, k) ==
  LET p == PrefixOf(r) IN
  /\ sends' = [sends EXCEPT ![p][k] = SendKept(r, k)]
  /\ ttl' = [ttl EXCEPT ![p][k] = IF SendKept(r, k) = Empty THEN NoTtl ELSE @]

\* check_allowed, the address first.
SendIpCheck(r) ==
  LET k == request[r].ip IN
  /\ request[r].pc = "send_ip_check"
  /\ PruneSends(r, k)
  /\ IF Count(SendKept(r, k)) >= SendIpMax
       THEN Finish(r) ELSE Goto(r, "send_account_check")
  /\ UNCHANGED <<now, login, calls, mailed, lost, dropped, lifted, resend>>

SendAccountCheck(r) ==
  LET k == request[r].account IN
  /\ request[r].pc = "send_account_check"
  /\ PruneSends(r, k)
  /\ CASE Count(SendKept(r, k)) >= SendMax -> Finish(r)
       [] request[r].kind = "email" /\ Count(SendKept(r, k)) < SendMax ->
            Enter(r, "ip_check")
       [] OTHER -> Goto(r, "mail")
  /\ UNCHANGED <<now, login, calls, mailed, lost, dropped, lifted, resend>>

\* The mails of a request, whether SMTP accepts them or not: the send_*
\* methods log an exception and return False, and no caller looks at it.
Mailed(p, keys) ==
  mailed' = [mailed EXCEPT ![p] =
    [k \in Accounts \cup Ips |->
       IF k \in keys THEN Added(mailed[p][k], now) ELSE mailed[p][k]]]

SendMails(r) == Mailed(PrefixOf(r), {request[r].account, request[r].ip})

\* request_password_reset for a PENDING account: the verification again.
SendVerification(r) == request[r].kind = "forgot" /\ SendMails(r)

\* request_password_reset for an ACTIVE account.
SendReset(r) == request[r].kind = "forgot" /\ SendMails(r)

\* request_email_change: the confirm and the revert link.
SendChangeLinks(r) == request[r].kind = "email" /\ SendMails(r)

Mail(r) ==
  /\ request[r].pc = "mail"
  /\ \/ /\ SendVerification(r) \/ SendReset(r) \/ SendChangeLinks(r)
        /\ Enter(r, "consume_account")
     \/ Finish(r) /\ UNCHANGED mailed  \* no such user, or the address is in use
  /\ UNCHANGED <<now, login, send, calls, lost, lifted, resend>>

\* consume_on_send: ZADD account, ZADD ip, EXPIRE account, EXPIRE ip.
TakeSlot(r, k) ==
  /\ sends' = [sends EXCEPT ![PrefixOf(r)][k] = Added(@, request[r].at)]
  /\ UNCHANGED <<now, login, ttl, calls, mailed, lost, dropped, lifted, resend>>

ConsumeAccount(r) ==
  /\ request[r].pc = "consume_account"
  /\ TakeSlot(r, request[r].account)
  /\ Goto(r, "consume_ip")

\* Mutant: the address is not charged.
ConsumeIpNot(r) ==
  /\ request[r].pc = "consume_ip"
  /\ Goto(r, "expire_account")
  /\ UNCHANGED <<now, login, send, calls, mailed, lost, lifted, resend>>

ConsumeIp(r) ==
  /\ request[r].pc = "consume_ip"
  /\ TakeSlot(r, request[r].ip)
  /\ Goto(r, "expire_account")

\* EXPIRE, which does nothing when the key is gone.
Prolong(r, k) ==
  LET p == PrefixOf(r) IN
  /\ ttl' = [ttl EXCEPT ![p][k] = IF sends[p][k] = Empty THEN @ ELSE now + SendWindow]
  /\ UNCHANGED <<now, login, sends, calls, mailed, lost, dropped, lifted, resend>>

ExpireAccount(r) ==
  /\ request[r].pc = "expire_account"
  /\ Prolong(r, request[r].account)
  /\ Goto(r, "expire_ip")

ExpireIp(r) ==
  /\ request[r].pc = "expire_ip"
  /\ Prolong(r, request[r].ip)
  /\ Finish(r)

\* Requests between their ZADD and their EXPIRE of key k.
Bare(p, k) ==
  {r \in Requests :
     /\ PrefixOf(r) = p /\ k \in {request[r].account, request[r].ip}
     /\ \/ request[r].pc = "consume_ip" /\ k \in Accounts
        \/ request[r].pc = "expire_account"
        \/ request[r].pc = "expire_ip" /\ k \in Ips}

\* The time of a key has come.  It may be one that was set before the latest
\* slots were added, and takes these along.
KeyExpires(p, k) ==
  /\ ttl[p][k] # NoTtl /\ ttl[p][k] <= now
  /\ sends' = [sends EXCEPT ![p][k] = Empty]
  /\ ttl' = [ttl EXCEPT ![p][k] = NoTtl]
  /\ dropped' = dropped
       + Cardinality({r \in Bare(p, k) : request[r].at > now - SendWindow})
  /\ dropped' <= MaxLost
  /\ UNCHANGED <<now, login, request, calls, mailed, lost, lifted, resend>>

-----------------------------------------------------------------------------
(* RedisRateLimiter.  Its MULTI transaction is one step, but it works with   *)
(* the time the call has read before; the member is that time, and a refused *)
(* call is one too.                                                          *)

Extended(z, at) == {t \in z : t > at - ResendWindow} \cup {at}

\* Mutant: the call itself is not counted.
PermittedMore(z) == Cardinality(z) - 1 <= ResendMax

Permitted(z) == Cardinality(z) <= ResendMax

\* is_allowed, whether or not the worker lives to answer.
Resend(r) ==
  LET q == request[r] IN
  /\ q.pc = "resend"
  /\ resends' = [resends EXCEPT ![q.ip] = Extended(@, q.at)]
  /\ resent' = [resent EXCEPT ![q.ip] =
                  IF Permitted(resends'[q.ip]) THEN @ \cup {q.at} ELSE @]
  /\ Finish(r)
  /\ UNCHANGED <<now, login, send, calls, mailed, lost, lifted>>

\* The key of an address expires, when its last member leaves the window at
\* the earliest.
Expire(i) ==
  /\ resends[i] # {}
  /\ \A t \in resends[i] : t <= now - ResendWindow
  /\ resends' = [resends EXCEPT ![i] = {}]
  /\ UNCHANGED <<now, login, send, request, calls, mailed, resent, lost, lifted>>

-----------------------------------------------------------------------------
(* Redis fails, or the worker dies: the request ends with the commands done *)
(* so far                                                                    *)

\* Something of what the request should have recorded is missing for good, or
\* will be when the key expires.
Unrecorded(q) ==
  q.pc \in {"clear_failures", "fail_account", "fail_ip", "fail_count", "fail_mark",
            "record_ip", "consume_account", "consume_ip", "expire_account", "expire_ip"}

Fail(r) ==
  /\ request[r].pc # "idle"
  /\ IF Unrecorded(request[r])
       THEN lost < MaxLost /\ lost' = lost + 1
       ELSE UNCHANGED lost
  /\ Finish(r)
  /\ UNCHANGED <<now, login, send, calls, mailed, lifted, resend>>

\* The clock; history is forgotten when no window holds it any more.
Tick ==
  /\ now < MaxTime
  /\ now' = now + 1
  /\ mailed' = [p \in Prefix |-> [k \in Accounts \cup Ips |->
                  Pruned(mailed[p][k], now' - SendWindow)]]
  /\ resent' = [i \in Ips |-> {t \in resent[i] : t > now' - ResendWindow}]
  /\ UNCHANGED <<login, send, resends, request, calls, lost, lifted>>

CheckLogin(r) ==
  IpCheck(r) \/ LockoutCheck(r) \/ ClearMarker(r) \/ ClearFailures(r)
RecordFailure(r) == FailAccount(r) \/ FailIp(r) \/ FailCount(r) \/ FailMark(r)
RecordSuccess(r) == ResetFailures(r) \/ ResetMarker(r)
CheckSend(r) == SendIpCheck(r) \/ SendAccountCheck(r)
ConsumeOnSend(r) ==
  ConsumeAccount(r) \/ ConsumeIp(r) \/ ExpireAccount(r) \/ ExpireIp(r)

Next ==
  \/ \E r \in Requests :
       \/ Arrive(r) \/ CheckLogin(r) \/ Verify(r) \/ RecordFailure(r)
       \/ RecordSuccess(r) \/ RecordIp(r) \/ CheckSend(r) \/ Mail(r)
       \/ ConsumeOnSend(r) \/ Resend(r) \/ Fail(r)
  \/ \E p \in Prefix, k \in Accounts \cup Ips : KeyExpires(p, k)
  \/ \E i \in Ips : Expire(i)
  \/ Tick

Spec == Init /\ [][Next]_vars

-----------------------------------------------------------------------------
(* Properties *)

Window == [Time -> 0 .. MaxArrivals]

\* Types; no score lies in the future.
TypeOK ==
  /\ now \in Time
  /\ failures \in [Accounts -> Window]
  /\ attempts \in [Ips -> Window]
  /\ marker \in [Accounts -> Time \cup {NoMarker}]
  /\ sends \in [Prefix -> [Accounts \cup Ips -> Window]]
  /\ ttl \in [Prefix -> [Accounts \cup Ips -> {NoTtl} \cup (0 .. now + SendWindow)]]
  /\ resends \in [Ips -> SUBSET (0 .. now)]
  /\ resent \in [Ips -> SUBSET (0 .. now)]
  /\ request \in [Requests -> RequestState]
  /\ mix \in Mixes /\ arrivals \in 0 .. mix.arrivals
  /\ mailed \in [Prefix -> [Accounts \cup Ips -> Window]]
  /\ lost \in 0 .. MaxLost
  /\ dropped \in 0 .. MaxLost
  /\ lifted \subseteq Accounts
  /\ \A a \in Accounts, i \in Ips, t \in Time :
       failures[a][t] + attempts[i][t] > 0 => t <= now

Pending(a, pcs) ==
  \E r \in Requests : request[r].account = a /\ request[r].pc \in pcs

\* When the window of an account holds as many failures as allowed, the
\* account is locked, or is about to be by the request that recorded the
\* last one (record_failure).  Two exceptions: Redis failed in between, or
\* a record_success that was under way has removed the new marker after
\* having emptied the window before: the next failure locks the account.
LockedWhenFull ==
  \A a \in Accounts :
    InWindow(failures[a], AccountWindow) >= PerAccountMax =>
      \/ marker[a] # NoMarker
      \/ Pending(a, {"fail_ip", "fail_count", "fail_mark", "clear_failures"})
      \/ a \in lifted \/ lost > 0

\* A lockout is never prolonged and never moved, and ends early only through
\* a request that was past its own check when the lockout began: one with the
\* right password, or one that removes an earlier, elapsed lockout.
LockoutHolds ==
  [][\A a \in Accounts :
       \/ marker[a] = NoMarker
       \/ marker'[a] = marker[a]
       \/ /\ marker'[a] = NoMarker
          /\ \/ now - marker[a] >= Lockout
             \/ \E r \in Requests : request[r].account = a /\ request[r].raced]_vars

\* Concurrent requests overshoot a limit by less than their number: recorded
\* attempts of one address, recorded failures of one account.  Failures may
\* be more when a lockout did not take effect: one that a racing success
\* removed, one that Redis lost, or one that has just elapsed, until its
\* failures are deleted.
AttemptsBounded ==
  /\ \A i \in Ips : InWindow(attempts[i], IpWindow)
                      <= PerIpMax - 1 + Cardinality(Requests)
  /\ \A a \in Accounts :
       \/ InWindow(failures[a], AccountWindow)
            <= PerAccountMax - 1 + Cardinality(Requests)
       \/ a \in lifted \/ Pending(a, {"clear_failures"}) \/ lost > 0

\* The mails sent for one account and from one address in any window stay
\* below the limits plus the requests that ran at the same time, plus those
\* that failed between the mail and the last EXPIRE, and those whose slot was
\* dropped because the key expired between their ZADD and their EXPIRE.
SendsBounded ==
  \A p \in Prefix :
    /\ \A a \in Accounts : InWindow(mailed[p][a], SendWindow)
                             <= SendMax - 1 + Cardinality(Requests) + lost + dropped
    /\ \A i \in Ips : InWindow(mailed[p][i], SendWindow)
                        <= SendIpMax - 1 + Cardinality(Requests) + lost + dropped

\* In any window resends of at most ResendMax instants are let through for
\* an address, in whatever order the transactions of concurrent calls reach
\* Redis, however late one of them prunes, and however many are refused or
\* fail in between (RedisRateLimiter.is_allowed).
ResendsBounded ==
  \A i \in Ips :
    Cardinality({t \in resent[i] : t > now - ResendWindow}) <= ResendMax
=============================================================================
