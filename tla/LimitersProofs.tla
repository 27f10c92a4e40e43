--------------------------- MODULE LimitersProofs ---------------------------
(***************************************************************************)
(* Proofs about Limiters for every value of the limits and windows, any    *)
(* number of accounts, addresses and concurrent requests.                  *)
(***************************************************************************)
EXTENDS LimitersInv, TLAPS, FiniteSetTheorems

(* Steps.  The resend limiter has keys of its own: to the others a resend is *)
(* a request that ends without a trace, and its expiry is no step at all.    *)
(* Nor is the expiry of a key of the send limiters, to all but these.        *)

USE DEF send, calls  \* shorthands of the actions' UNCHANGED

limits == <<now, login, request, calls, mailed, lost, lifted>>

Leaves(r) ==
  /\ request[r].pc # "idle"
  /\ IF Unrecorded(request[r])
       THEN lost < MaxLost /\ lost' = lost + 1
       ELSE UNCHANGED lost
  /\ Finish(r)
  /\ UNCHANGED <<now, login, send, calls, mailed, lifted>>

-----------------------------------------------------------------------------
(* Requests *)

LEMMA IdleType == Idle \in RequestState /\ Idle.pc = "idle" /\ Idle.at = 0
<1>1. (CHOOSE a \in Accounts : TRUE) \in Accounts /\ (CHOOSE i \in Ips : TRUE) \in Ips
  BY KeysAssumption
<1>2. 0 \in Time
  BY LimitsAssumption DEF Time
<1> QED BY <1>1, <1>2 DEF Idle, RequestState

\* What one request does to the table of requests: it ends, or goes on.
Ends(r) ==
  /\ request'[r] = Idle
  /\ \A q \in Requests \ {r} : request'[q] = request[q]

GoesTo(r, pcs) ==
  /\ request'[r].pc \in pcs
  /\ request'[r].kind = request[r].kind
  /\ request'[r].account = request[r].account
  /\ request'[r].ip = request[r].ip
  /\ request'[r].at \in {request[r].at, now}
  /\ request'[r].raced = request[r].raced
  /\ \A q \in Requests \ {r} : request'[q] = request[q]

Pcs == {"idle", "send_ip_check", "send_account_check", "ip_check",
        "lockout_check", "clear_marker", "clear_failures", "verify",
        "fail_account", "fail_ip", "fail_count", "fail_mark",
        "reset_failures", "reset_marker", "record_ip", "mail",
        "consume_account", "consume_ip", "expire_account", "expire_ip", "resend"}

LEMMA GotoGoes ==
  ASSUME Typed, NEW r \in Requests, NEW pc \in Pcs, Goto(r, pc)
  PROVE  GoesTo(r, {pc}) /\ request' \in [Requests -> RequestState] 
         /\ request'[r].at = request[r].at
BY DEF Goto, GoesTo, Typed, RequestState, Pcs

LEMMA EnterGoes ==
  ASSUME Typed, NEW r \in Requests, NEW pc \in Pcs, Enter(r, pc)
  PROVE  GoesTo(r, {pc}) /\ request' \in [Requests -> RequestState] 
         /\ request'[r].at = now
BY DEF Enter, GoesTo, Typed, RequestState, Pcs

LEMMA FinishEnds ==
  ASSUME Typed, NEW r \in Requests, Finish(r)
  PROVE  Ends(r) /\ request' \in [Requests -> RequestState]
BY IdleType DEF Finish, Ends, Typed

\* The flow of control.
LEMMA Flow ==
  ASSUME Typed, NEW r \in Requests, RequestOK(r)
  PROVE  /\ IpCheck(r) => Ends(r) \/ GoesTo(r, {"lockout_check"})
         /\ LockoutCheck(r) => Ends(r) \/ GoesTo(r, {"verify", "clear_marker"})
         /\ ClearMarker(r) => GoesTo(r, {"clear_failures"})
         /\ ClearFailures(r) => GoesTo(r, {"verify"})
         /\ Verify(r) =>
              Ends(r) \/ GoesTo(r, {"fail_account", "reset_failures", "record_ip"})
         /\ FailAccount(r) => GoesTo(r, {"fail_ip"})
         /\ FailIp(r) => GoesTo(r, {"fail_count"})
         /\ FailCount(r) => Ends(r) \/ GoesTo(r, {"fail_mark"})
         /\ ResetFailures(r) => GoesTo(r, {"reset_marker"})
         /\ ResetMarker(r) => Ends(r) \/ GoesTo(r, {"record_ip", "mail"})
         /\ RecordIp(r) => Ends(r)
         /\ SendIpCheck(r) => Ends(r) \/ GoesTo(r, {"send_account_check"})
         /\ SendAccountCheck(r) => Ends(r) \/ GoesTo(r, {"ip_check", "mail"})
         /\ Mail(r) => Ends(r) \/ GoesTo(r, {"consume_account"})
         /\ ConsumeAccount(r) => GoesTo(r, {"consume_ip"})
         /\ ConsumeIp(r) => GoesTo(r, {"expire_account"})
         /\ ExpireAccount(r) => GoesTo(r, {"expire_ip"})
         /\ ExpireIp(r) => Ends(r)
         /\ ConsumeOnSend(r) =>
              Ends(r) \/ GoesTo(r, {"consume_ip", "expire_account", "expire_ip"})
         /\ Leaves(r) => Ends(r)
<1>1. ASSUME NEW pc \in Pcs, Goto(r, pc) PROVE GoesTo(r, {pc})
  BY <1>1, GotoGoes
<1>2. ASSUME NEW pc \in Pcs, Enter(r, pc) PROVE GoesTo(r, {pc})
  BY <1>2, EnterGoes
<1>3. Finish(r) => Ends(r)
  BY FinishEnds
<1>4. ASSUME NEW x, NEW pcs, x \in pcs, GoesTo(r, {x}) PROVE GoesTo(r, pcs)
  BY <1>4 DEF GoesTo
<1>5. ASSUME NEW pc \in Pcs, NEW pcs, pc \in pcs, Goto(r, pc) \/ Enter(r, pc) PROVE GoesTo(r, pcs)
  BY <1>1, <1>2, <1>4, <1>5
<1> HIDE DEF GoesTo, Ends
<1>6. IpCheck(r) => Ends(r) \/ GoesTo(r, {"lockout_check"})
  BY <1>3, <1>5 DEF IpCheck, Pcs
<1>7. LockoutCheck(r) => Ends(r) \/ GoesTo(r, {"verify", "clear_marker"})
  BY <1>3, <1>5 DEF LockoutCheck, Pcs
<1>8. /\ ClearMarker(r) => GoesTo(r, {"clear_failures"})
      /\ ClearFailures(r) => GoesTo(r, {"verify"})
  BY <1>5 DEF ClearMarker, ClearFailures, Pcs
<1>9. Verify(r) =>
        Ends(r) \/ GoesTo(r, {"fail_account", "reset_failures", "record_ip"})
  BY <1>3, <1>5 DEF Verify, Pcs
<1>10. /\ FailAccount(r) => GoesTo(r, {"fail_ip"})
       /\ FailIp(r) => GoesTo(r, {"fail_count"})
       /\ FailCount(r) => Ends(r) \/ GoesTo(r, {"fail_mark"})
  BY <1>3, <1>5 DEF FailAccount, FailIp, FailCount, Pcs
<1>11. ResetFailures(r) => GoesTo(r, {"reset_marker"})
  BY <1>5 DEF ResetFailures, Pcs
<1>12. ResetMarker(r) => Ends(r) \/ GoesTo(r, {"record_ip", "mail"})
  <2>1. ResetMarker(r) => request[r].kind \in {"login", "password", "email"}
    BY DEF ResetMarker, RequestOK, LoginSteps
  <2> QED BY <1>3, <1>5, <2>1 DEF ResetMarker, Pcs
<1>13. RecordIp(r) \/ ExpireIp(r) \/ Leaves(r) => Ends(r)
  BY <1>3 DEF RecordIp, ExpireIp, Leaves
<1>14. SendIpCheck(r) => Ends(r) \/ GoesTo(r, {"send_account_check"})
  BY <1>3, <1>5 DEF SendIpCheck, Pcs
<1>15. SendAccountCheck(r) => Ends(r) \/ GoesTo(r, {"ip_check", "mail"})
  BY <1>3, <1>5 DEF SendAccountCheck, Pcs
<1>16. Mail(r) => Ends(r) \/ GoesTo(r, {"consume_account"})
  BY <1>3, <1>5 DEF Mail, Pcs
<1>17. /\ ConsumeAccount(r) => GoesTo(r, {"consume_ip"})
       /\ ConsumeIp(r) => GoesTo(r, {"expire_account"})
       /\ ExpireAccount(r) => GoesTo(r, {"expire_ip"})
  BY <1>5 DEF ConsumeAccount, ConsumeIp, ExpireAccount, Pcs
<1>18. ConsumeOnSend(r) =>
         Ends(r) \/ GoesTo(r, {"consume_ip", "expire_account", "expire_ip"})
  BY <1>3, <1>5 DEF ConsumeOnSend, ConsumeAccount, ConsumeIp, ExpireAccount, ExpireIp, Pcs
<1> QED BY <1>6, <1>7, <1>8, <1>9, <1>10, <1>11, <1>12, <1>13, <1>14, <1>15, <1>16, <1>17,
           <1>18

\* The steps that send a request on as GoesTo tells, or end it.
Plain(r) ==
  \/ IpCheck(r) \/ LockoutCheck(r) \/ ClearMarker(r) \/ ClearFailures(r) \/ Verify(r)
  \/ FailAccount(r) \/ FailIp(r) \/ FailCount(r) \/ ResetFailures(r) \/ ResetMarker(r)
  \/ RecordIp(r) \/ SendIpCheck(r) \/ SendAccountCheck(r) \/ Mail(r)
  \/ ConsumeOnSend(r) \/ Leaves(r)

\* What consume_on_send leaves alone.
LEMMA ConsumeFrame ==
  ASSUME NEW r \in Requests, ConsumeOnSend(r)
  PROVE  /\ UNCHANGED <<now, login, calls, mailed, lost, dropped, lifted, resend>>
         /\ request[r].pc \in
              {"consume_account", "consume_ip", "expire_account", "expire_ip"}
BY DEF ConsumeOnSend, ConsumeAccount, ConsumeIp, ExpireAccount, ExpireIp, TakeSlot, Prolong

LEMMA ResendLeaves ==
  ASSUME NEW r \in Requests, Fail(r) \/ Resend(r)
  PROVE  Leaves(r)
BY DEF Fail, Resend, Leaves, Unrecorded

LEMMA SendSplits ==
  ASSUME [Next]_vars
  PROVE  \/ \E r \in Requests : Arrive(r) \/ Plain(r) \/ FailMark(r)
         \/ \E p \in Prefix, k \in Accounts \cup Ips : KeyExpires(p, k)
         \/ Tick \/ UNCHANGED <<limits, send>>
<1>1. UNCHANGED vars => UNCHANGED <<limits, send>>
  BY DEF vars, limits, login
<1>2. ASSUME NEW i \in Ips, Expire(i) PROVE UNCHANGED <<limits, send>>
  BY <1>2 DEF Expire, limits, login
<1> QED BY <1>1, <1>2, ResendLeaves
  DEF Next, CheckLogin, RecordFailure, RecordSuccess, CheckSend, Plain

LEMMA Splits ==
  ASSUME [Next]_vars
  PROVE  \/ \E r \in Requests : Arrive(r) \/ Plain(r) \/ FailMark(r)
         \/ Tick \/ UNCHANGED limits
<1>1. ASSUME NEW p \in Prefix, NEW k \in Accounts \cup Ips, KeyExpires(p, k)
      PROVE  UNCHANGED limits
  BY <1>1 DEF KeyExpires, limits, login
<1> QED BY <1>1, SendSplits

-----------------------------------------------------------------------------
(* Windows *)

LEMMA OneMore ==
  ASSUME NEW S, IsFiniteSet(S), NEW x, NEW T, T \subseteq S \cup {x}
  PROVE  /\ IsFiniteSet(T) /\ Cardinality(T) \in Nat /\ Cardinality(S) \in Nat
         /\ Cardinality(T) <= Cardinality(S) + 1
<1>1. IsFiniteSet(S \cup {x})
  BY FS_AddElement
<1>2. Cardinality(S \cup {x}) = IF x \in S THEN Cardinality(S) ELSE Cardinality(S) + 1
  BY FS_AddElement
<1>3. IsFiniteSet(T) /\ Cardinality(T) <= Cardinality(S \cup {x})
  BY <1>1, FS_Subset
<1>4. Cardinality(T) \in Nat /\ Cardinality(S) \in Nat
  BY <1>3, FS_CardinalityType
<1> QED BY <1>2, <1>3, <1>4

LEMMA OneLess ==
  ASSUME NEW S, IsFiniteSet(S), NEW x \in S, NEW T, T \subseteq S \ {x}
  PROVE  /\ IsFiniteSet(T) /\ Cardinality(T) \in Nat /\ Cardinality(S) \in Nat
         /\ Cardinality(T) <= Cardinality(S) - 1
<1>1. IsFiniteSet(S \ {x}) /\ Cardinality(S \ {x}) = Cardinality(S) - 1
  BY FS_RemoveElement
<1>2. IsFiniteSet(T) /\ Cardinality(T) <= Cardinality(S \ {x})
  BY <1>1, FS_Subset
<1> QED BY <1>1, <1>2, FS_CardinalityType

LEMMA NoMore ==
  ASSUME NEW S, IsFiniteSet(S), NEW T, T \subseteq S
  PROVE  /\ IsFiniteSet(T) /\ Cardinality(T) \in Nat /\ Cardinality(S) \in Nat
         /\ Cardinality(T) <= Cardinality(S)
BY FS_Subset, FS_CardinalityType

LEMMA MembersFinite ==
  ASSUME NEW z, NEW from
  PROVE  IsFiniteSet(Members(z, from)) /\ CountAfter(z, from) \in Nat
<1>1. IsFiniteSet(Time) /\ IsFiniteSet(1 .. MaxArrivals)
  BY FS_Interval, LimitsAssumption DEF Time
<1>2. IsFiniteSet(Time \X (1 .. MaxArrivals))
  BY <1>1, FS_Product
<1>3. Members(z, from) \subseteq Time \X (1 .. MaxArrivals)
  BY DEF Members
<1> QED BY <1>2, <1>3, FS_Subset, FS_CardinalityType DEF CountAfter

\* Fewer members, or a later start.
LEMMA CountLess ==
  ASSUME NEW z \in Counts, NEW new \in Counts, NEW from \in Int, NEW start \in Int,
         from <= start, \A t \in Time : t > start => new[t] <= z[t]
  PROVE  CountAfter(new, start) <= CountAfter(z, from)
<1>1. Members(new, start) \subseteq Members(z, from)
  <2> SUFFICES ASSUME NEW m \in Members(new, start) PROVE m \in Members(z, from)
    OBVIOUS
  <2>1. m \in Time \X (1 .. MaxArrivals) /\ m[1] > start /\ m[2] <= new[m[1]]
    BY DEF Members
  <2>2. m[1] \in Time /\ m[1] \in Int /\ m[2] \in Int /\ new[m[1]] \in Nat /\ z[m[1]] \in Nat
    BY <2>1, LimitsAssumption DEF Time, Counts
  <2>3. m[1] > from /\ m[2] <= z[m[1]]
    BY <2>1, <2>2
  <2> QED BY <2>1, <2>3 DEF Members
<1> QED BY <1>1, MembersFinite, FS_Subset DEF CountAfter

LEMMA CountAdded ==
  ASSUME NEW z \in Counts, NEW t \in Time, NEW from \in Int
  PROVE  /\ Added(z, t) \in Counts
         /\ CountAfter(Added(z, t), from) <= CountAfter(z, from) + 1
<1> DEFINE m0 == <<t, z[t] + 1>>
<1>1. Members(Added(z, t), from) \subseteq Members(z, from) \cup {m0}
  <2> SUFFICES ASSUME NEW m \in Members(Added(z, t), from), m # m0
               PROVE  m \in Members(z, from)
    OBVIOUS
  <2>1. m \in Time \X (1 .. MaxArrivals) /\ m[1] > from /\ m[2] <= Added(z, t)[m[1]]
    BY DEF Members
  <2>2. m = <<m[1], m[2]>> /\ m[1] \in Time /\ m[2] \in Int
    BY <2>1
  <2>3. m[1] = t => m[2] # z[t] + 1
    BY <2>2
  <2>4. Added(z, t)[m[1]] = IF m[1] = t THEN z[t] + 1 ELSE z[m[1]]
    BY <2>2 DEF Added, Counts
  <2>5. z[m[1]] \in Nat /\ z[t] \in Nat
    BY <2>2 DEF Counts
  <2>6. m[2] <= z[m[1]]
    BY <2>1, <2>2, <2>3, <2>4, <2>5
  <2> QED BY <2>1, <2>6 DEF Members
<1>2. IsFiniteSet(Members(z, from))
  BY MembersFinite
<1>3. CountAfter(Added(z, t), from) <= CountAfter(z, from) + 1
  BY <1>1, <1>2, OneMore DEF CountAfter
<1>6. Added(z, t) \in Counts
  BY DEF Added, Counts
<1> QED BY <1>3, <1>6

LEMMA CountEmpty ==
  ASSUME NEW from \in Int
  PROVE  Empty \in Counts /\ CountAfter(Empty, from) = 0
<1>1. Members(Empty, from) = {}
  <2> SUFFICES ASSUME NEW m \in Members(Empty, from) PROVE FALSE
    OBVIOUS
  <2>1. m[1] \in Time /\ m[2] \in 1 .. MaxArrivals /\ m[2] <= Empty[m[1]]
    BY DEF Members
  <2> QED BY <2>1, LimitsAssumption DEF Empty
<1> QED BY <1>1, FS_EmptySet DEF CountAfter, Empty, Counts

LEMMA PrunedCounts ==
  ASSUME NEW z \in Counts, NEW from \in Int
  PROVE  /\ Pruned(z, from) \in Counts
         /\ \A t \in Time : Pruned(z, from)[t] <= z[t]
         /\ \A t \in Time : t > from => Pruned(z, from)[t] = z[t]
         /\ \A start \in Int : CountAfter(Pruned(z, from), start) <= CountAfter(z, start)
<1>1. Pruned(z, from) \in Counts
  BY LimitsAssumption DEF Pruned, Counts
<1>2. \A t \in Time : Pruned(z, from)[t] <= z[t]
  BY LimitsAssumption DEF Pruned, Counts, Time
<1>3. \A t \in Time : t > from => Pruned(z, from)[t] = z[t]
  BY LimitsAssumption DEF Pruned, Counts, Time
<1>4. ASSUME NEW start \in Int
      PROVE  CountAfter(Pruned(z, from), start) <= CountAfter(z, start)
  BY <1>1, <1>2, CountLess
<1> QED BY <1>1, <1>2, <1>3, <1>4

\* What the whole set holds bounds what a window holds.
LEMMA WindowCount ==
  ASSUME NEW z \in Counts, NEW from \in Int
  PROVE  CountAfter(z, from) <= Count(z)
<1>1. Members(z, from) \subseteq Members(z, -1)
  BY LimitsAssumption DEF Members, Time
<1> QED BY <1>1, MembersFinite, NoMore DEF Count, CountAfter

-----------------------------------------------------------------------------
(* Types *)

Sorts ==
  /\ now \in Nat /\ MaxTime \in Nat /\ -1 \in Int /\ 0 \in Time
  /\ AccountWindow \in Nat /\ Lockout \in Nat \ {0} /\ IpWindow \in Nat
  /\ SendWindow \in Nat
  /\ \A r \in Requests : /\ request[r].at \in Nat /\ request[r].at \in Time
                         /\ request[r].account \in Accounts
                         /\ request[r].ip \in Ips
                         /\ PrefixOf(r) \in Prefix
  /\ \A a \in Accounts : marker[a] \in Int
  /\ SendMax \in Nat /\ PerAccountMax \in Nat \ {0} /\ PerIpMax \in Nat \ {0}

LEMMA NowType == Typed => Sorts
<1> HAVE Typed
<1>1. now \in Nat /\ MaxTime \in Nat /\ 0 \in Time
  BY LimitsAssumption DEF Typed, Time
<1>2. ASSUME NEW r \in Requests
      PROVE  /\ request[r].at \in Nat /\ request[r].at \in Time
             /\ request[r].account \in Accounts /\ request[r].ip \in Ips
  BY LimitsAssumption DEF Typed, RequestState, Time
<1>3. \A r \in Requests : PrefixOf(r) \in Prefix
  BY DEF PrefixOf, Prefix
<1>4. \A a \in Accounts : marker[a] \in Int
  BY LimitsAssumption DEF Typed, Time, NoMarker
<1> QED BY <1>1, <1>2, <1>3, <1>4, LimitsAssumption DEF Sorts

\* The tables with one entry changed.
LEMMA Tables ==
  ASSUME Typed, NEW z \in Counts
  PROVE  /\ \A a \in Accounts : [failures EXCEPT ![a] = z] \in [Accounts -> Counts]
         /\ \A i \in Ips : [attempts EXCEPT ![i] = z] \in [Ips -> Counts]
         /\ \A p \in Prefix, k \in Accounts \cup Ips :
              [sends EXCEPT ![p][k] = z] \in [Prefix -> [Accounts \cup Ips -> Counts]]
BY DEF Typed

LEMMA Ttls ==
  ASSUME Typed, NEW p \in Prefix, NEW k \in Accounts \cup Ips
  PROVE  /\ NoTtl \notin Nat
         /\ \A x \in Nat \cup {NoTtl, ttl[p][k]} :
              [ttl EXCEPT ![p][k] = x] \in [Prefix -> [Accounts \cup Ips -> Nat \cup {NoTtl}]]
<1> DEFINE T == Nat \cup {NoTtl}
<1>1. NoTtl \notin Nat
  BY DEF NoTtl
<1>2. ttl \in [Prefix -> [Accounts \cup Ips -> T]]
  BY DEF Typed
<1>3. \A x \in T \cup {ttl[p][k]} : x \in T
  BY <1>2
<1> HIDE DEF T
<1>4. \A x \in T \cup {ttl[p][k]} :
        [ttl EXCEPT ![p][k] = x] \in [Prefix -> [Accounts \cup Ips -> T]]
  BY <1>2, <1>3
<1> QED BY <1>1, <1>4 DEF T

LEMMA TypedRequest ==
  ASSUME Typed, NEW r \in Requests, RequestOK(r)
  PROVE  \A pc \in Pcs : Goto(r, pc) \/ Enter(r, pc) \/ Finish(r) =>
           request' \in [Requests -> RequestState]
BY GotoGoes, EnterGoes, FinishEnds

LEMMA ArriveType ==
  ASSUME Typed, NEW r \in Requests, Arrive(r)
  PROVE  /\ request' \in [Requests -> RequestState]
         /\ request'[r].pc \in {"send_ip_check", "ip_check", "resend"}
         /\ request'[r].pc = "ip_check" => request'[r].kind \in {"login", "password"}
         /\ request'[r].pc = "send_ip_check" => request'[r].kind \in {"email", "forgot"}
         /\ request'[r].at = now
         /\ \A q \in Requests \ {r} : request'[q] = request[q]
<1>1. PICK k \in mix.kinds, a \in Accounts, i \in Ips :
       request' = [request EXCEPT ![r] =
         [pc |-> FirstStep(k),
          kind |-> k, account |-> a, ip |-> i, at |-> now, raced |-> FALSE]]
  BY DEF Arrive
<1>2. k \in {"login", "password", "email", "forgot", "resend"}
  BY MixesAssumption DEF Typed
<1> QED BY <1>1, <1>2 DEF Typed, RequestState, FirstStep

LEMMA FailMarkType ==
  ASSUME Typed, NEW r \in Requests, FailMark(r)
  PROVE  /\ request' \in [Requests -> RequestState]
         /\ request'[r] = Idle
         /\ \A q \in Requests \ {r} :
              /\ request'[q].pc = request[q].pc /\ request'[q].kind = request[q].kind
              /\ request'[q].account = request[q].account
              /\ request'[q].ip = request[q].ip /\ request'[q].at = request[q].at
              /\ ~request'[q].raced =>
                   /\ ~request[q].raced
                   /\ \/ marker[request[r].account] # NoMarker
                      \/ ~Checked(request[q])
                      \/ request[q].account # request[r].account
<1> DEFINE first == marker[request[r].account] = NoMarker
           hit(q) == first /\ Checked(request[q]) /\ request[q].account = request[r].account
<1>1. request' = [p \in Requests |->
       IF p = r THEN Idle
       ELSE [request[p] EXCEPT !.raced = @ \/ hit(p)]]
  BY DEF FailMark
<1>2. request'[r] = Idle
  BY <1>1
<1>3. ASSUME NEW q \in Requests \ {r}
      PROVE  /\ request'[q] \in RequestState
             /\ request'[q].pc = request[q].pc /\ request'[q].kind = request[q].kind
             /\ request'[q].account = request[q].account
             /\ request'[q].ip = request[q].ip /\ request'[q].at = request[q].at
             /\ request'[q].raced = (request[q].raced \/ hit(q))
  <2>1. request'[q] = [request[q] EXCEPT !.raced = @ \/ hit(q)]
    BY <1>1
  <2>2. hit(q) \in BOOLEAN
    BY DEF Checked
  <2>3. request[q] \in RequestState
    BY DEF Typed
  <2> HIDE DEF hit
  <2> QED BY <2>1, <2>2, <2>3 DEF RequestState
<1>4. request' \in [Requests -> RequestState]
  <2>1. \A q \in Requests : request'[q] \in RequestState
    BY <1>2, <1>3, IdleType
  <2>2. request' = [q \in Requests |-> request'[q]]
    BY <1>1
  <2> QED BY <2>1, <2>2
<1> QED BY <1>2, <1>3, <1>4

LEMMA TypedStep ==
  ASSUME Typed, \A r \in Requests : RequestOK(r), [Next]_vars
  PROVE  Typed'
<1>1. \A z \in Counts, s \in Time : Added(z, s) \in Counts
  BY CountAdded
<1>2. \A z \in Counts, from \in Int : Pruned(z, from) \in Counts
  BY PrunedCounts
<1>3. Empty \in Counts
  BY CountEmpty
<1>0. Sorts
  BY NowType
<1>28. ASSUME NEW r \in Requests
       PROVE  /\ attempts[request[r].ip] \in Counts
              /\ failures[request[r].account] \in Counts
              /\ request[r].at - IpWindow \in Int
              /\ request[r].at - AccountWindow \in Int
              /\ request[r].at - SendWindow \in Int
              /\ request[r].ip \in Ips /\ request[r].account \in Accounts
              /\ request[r].at \in Time
  BY <1>0 DEF Sorts, Typed
<1>4. ASSUME NEW r \in Requests, Arrive(r) PROVE Typed'
  <2>1. request' \in [Requests -> RequestState]
    BY <1>4, ArriveType
  <2>2. arrivals' \in Nat
    BY <1>4 DEF Arrive, Typed
  <2> QED BY <1>4, <2>1, <2>2 DEF Arrive, Typed, login
<1>5. ASSUME NEW r \in Requests, IpCheck(r) PROVE Typed'
  <2> DEFINE kept == Pruned(attempts[request[r].ip], request[r].at - IpWindow)
  <2>1. kept \in Counts
    BY <1>2, <1>28
  <2>2. request' \in [Requests -> RequestState]
    BY <1>5, TypedRequest DEF IpCheck, Pcs
  <2>3. attempts' = [attempts EXCEPT ![request[r].ip] = kept]
    BY <1>5 DEF IpCheck
  <2>4. attempts' \in [Ips -> Counts]
    BY <2>1, <2>3, <1>28, Tables
  <2> QED BY <1>5, <2>2, <2>4 DEF IpCheck, Typed
<1>6. ASSUME NEW r \in Requests, LockoutCheck(r) PROVE Typed'
  BY <1>6, TypedRequest DEF LockoutCheck, Typed, login, Pcs
<1>7. ASSUME NEW r \in Requests, ClearMarker(r) PROVE Typed'
  BY <1>7, TypedRequest DEF ClearMarker, Typed, Pcs
<1>8. ASSUME NEW r \in Requests, ClearFailures(r) PROVE Typed'
  <2>1. request' \in [Requests -> RequestState]
    BY <1>8, TypedRequest DEF ClearFailures, Pcs
  <2>2. failures' \in [Accounts -> Counts]
    BY <1>3, <1>8, <1>28, Tables DEF ClearFailures
  <2> QED BY <1>8, <2>1, <2>2 DEF ClearFailures, Typed
<1>9. ASSUME NEW r \in Requests, Verify(r) PROVE Typed'
  BY <1>9, TypedRequest DEF Verify, Typed, login, Pcs
<1>10. ASSUME NEW r \in Requests, FailAccount(r) PROVE Typed'
  <2>1. request' \in [Requests -> RequestState]
    BY <1>10, TypedRequest DEF FailAccount, Pcs
  <2>2. Added(failures[request[r].account], request[r].at) \in Counts
    BY <1>1, <1>28
  <2>3. failures' \in [Accounts -> Counts]
    BY <1>10, <2>2, <1>28, Tables DEF FailAccount
  <2> QED BY <1>10, <2>1, <2>3 DEF FailAccount, Typed
<1>11. ASSUME NEW r \in Requests, FailIp(r) PROVE Typed'
  <2>1. request' \in [Requests -> RequestState]
    BY <1>11, TypedRequest DEF FailIp, Pcs
  <2>2. Added(attempts[request[r].ip], request[r].at) \in Counts
    BY <1>1, <1>28
  <2>3. attempts' \in [Ips -> Counts]
    BY <1>11, <2>2, <1>28, Tables DEF FailIp
  <2> QED BY <1>11, <2>1, <2>3 DEF FailIp, Typed
<1>12. ASSUME NEW r \in Requests, FailCount(r) PROVE Typed'
  <2> DEFINE kept == Pruned(failures[request[r].account], request[r].at - AccountWindow)
  <2>1. request' \in [Requests -> RequestState]
    BY <1>12, TypedRequest DEF FailCount, Pcs
  <2>2. kept \in Counts
    BY <1>2, <1>28
  <2>3. failures' = [failures EXCEPT ![request[r].account] = kept]
    BY <1>12 DEF FailCount
  <2>4. failures' \in [Accounts -> Counts]
    BY <2>2, <2>3, <1>28, Tables
  <2> QED BY <1>12, <2>1, <2>4 DEF FailCount, Typed
<1>13. ASSUME NEW r \in Requests, FailMark(r) PROVE Typed'
  <2>1. request' \in [Requests -> RequestState]
    BY <1>13, FailMarkType
  <2>2. marker' \in [Accounts -> Time \cup {NoMarker}]
    BY <1>13, <1>28 DEF FailMark, Typed
  <2> QED BY <1>13, <2>1, <2>2 DEF FailMark, Typed
<1>14. ASSUME NEW r \in Requests, ResetFailures(r) PROVE Typed'
  <2>1. request' \in [Requests -> RequestState]
    BY <1>14, TypedRequest DEF ResetFailures, Pcs
  <2>2. failures' \in [Accounts -> Counts]
    BY <1>3, <1>14, <1>28, Tables DEF ResetFailures
  <2> QED BY <1>14, <2>1, <2>2 DEF ResetFailures, Typed
<1>15. ASSUME NEW r \in Requests, ResetMarker(r) PROVE Typed'
  <2>1. request[r].kind \in {"login", "password", "email"}
    BY <1>15 DEF ResetMarker, RequestOK, LoginSteps
  <2>2. request' \in [Requests -> RequestState]
    BY <1>15, <2>1, TypedRequest DEF ResetMarker, Pcs
  <2>3. marker' \in [Accounts -> Time \cup {NoMarker}] /\ lifted' \subseteq Accounts
    BY <1>15, <1>28 DEF ResetMarker, Typed
  <2> QED BY <1>15, <2>2, <2>3 DEF ResetMarker, Typed
<1>16. ASSUME NEW r \in Requests, RecordIp(r) PROVE Typed'
  <2>1. request' \in [Requests -> RequestState]
    BY <1>16, TypedRequest DEF RecordIp, Pcs
  <2>2. Added(attempts[request[r].ip], request[r].at) \in Counts
    BY <1>1, <1>28
  <2>3. attempts' \in [Ips -> Counts]
    BY <1>16, <2>2, <1>28, Tables DEF RecordIp
  <2> QED BY <1>16, <2>1, <2>3 DEF RecordIp, Typed
<1>17. ASSUME NEW r \in Requests, NEW k \in Accounts \cup Ips
       PROVE  SendKept(r, k) \in Counts
  <2>1. sends[PrefixOf(r)][k] \in Counts
    BY <1>0 DEF Sorts, Typed
  <2> QED BY <1>2, <1>28, <2>1 DEF SendKept
<1>18. ASSUME NEW r \in Requests, SendIpCheck(r) PROVE Typed'
  <2>1. request' \in [Requests -> RequestState]
    BY <1>18, TypedRequest DEF SendIpCheck, Pcs
  <2>2. sends' \in [Prefix -> [Accounts \cup Ips -> Counts]]
    BY <1>17, <1>18, <1>28, <1>0, Tables DEF SendIpCheck, PruneSends, Sorts
  <2>3. ttl' \in [Prefix -> [Accounts \cup Ips -> Nat \cup {NoTtl}]]
    BY <1>18, <1>28, <1>0, Ttls DEF SendIpCheck, PruneSends, Sorts
  <2> QED BY <1>18, <2>1, <2>2, <2>3 DEF SendIpCheck, Typed, login
<1>19. ASSUME NEW r \in Requests, SendAccountCheck(r) PROVE Typed'
  <2>1. request' \in [Requests -> RequestState]
    BY <1>19, TypedRequest DEF SendAccountCheck, Pcs
  <2>2. sends' \in [Prefix -> [Accounts \cup Ips -> Counts]]
    BY <1>17, <1>19, <1>28, <1>0, Tables DEF SendAccountCheck, PruneSends, Sorts
  <2>3. ttl' \in [Prefix -> [Accounts \cup Ips -> Nat \cup {NoTtl}]]
    BY <1>19, <1>28, <1>0, Ttls DEF SendAccountCheck, PruneSends, Sorts
  <2> QED BY <1>19, <2>1, <2>2, <2>3 DEF SendAccountCheck, Typed, login
<1>20. ASSUME NEW p \in Prefix, NEW keys, Mailed(p, keys)
       PROVE  mailed' \in [Prefix -> [Accounts \cup Ips -> Counts]]
  <2>1. \A k \in Accounts \cup Ips : Added(mailed[p][k], now) \in Counts
    BY <1>1 DEF Typed
  <2> QED BY <1>20, <2>1 DEF Mailed, Typed
<1>21. ASSUME NEW r \in Requests, Mail(r) PROVE Typed'
  <2>1. request' \in [Requests -> RequestState]
    BY <1>21, TypedRequest DEF Mail, Pcs
  <2>2. SendMails(r) \/ mailed' = mailed
    BY <1>21 DEF Mail, SendVerification, SendReset, SendChangeLinks
  <2>3. mailed' \in [Prefix -> [Accounts \cup Ips -> Counts]]
    BY <1>0, <1>20, <2>2 DEF SendMails, Typed, Sorts
  <2> QED BY <1>21, <2>1, <2>3 DEF Mail, Typed, login
<1>22. ASSUME NEW r \in Requests, NEW k \in Accounts \cup Ips
       PROVE  Added(sends[PrefixOf(r)][k], request[r].at) \in Counts
  <2>1. sends[PrefixOf(r)][k] \in Counts
    BY <1>0 DEF Sorts, Typed
  <2> QED BY <1>1, <1>28, <2>1
<1>23. ASSUME NEW r \in Requests, ConsumeAccount(r) PROVE Typed'
  <2>1. request' \in [Requests -> RequestState]
    BY <1>23, TypedRequest DEF ConsumeAccount, Pcs
  <2>2. sends' \in [Prefix -> [Accounts \cup Ips -> Counts]]
    BY <1>22, <1>23, <1>28, <1>0, Tables DEF ConsumeAccount, TakeSlot, Sorts
  <2> QED BY <1>23, <2>1, <2>2 DEF ConsumeAccount, TakeSlot, Typed, login
<1>24. ASSUME NEW r \in Requests, ConsumeIp(r) PROVE Typed'
  <2>1. request' \in [Requests -> RequestState]
    BY <1>24, TypedRequest DEF ConsumeIp, Pcs
  <2>2. sends' \in [Prefix -> [Accounts \cup Ips -> Counts]]
    BY <1>22, <1>24, <1>28, <1>0, Tables DEF ConsumeIp, TakeSlot, Sorts
  <2> QED BY <1>24, <2>1, <2>2 DEF ConsumeIp, TakeSlot, Typed, login
<1>29. ASSUME NEW r \in Requests, NEW k \in Accounts \cup Ips, Prolong(r, k)
       PROVE  ttl' \in [Prefix -> [Accounts \cup Ips -> Nat \cup {NoTtl}]]
  <2>1. now + SendWindow \in Nat
    BY <1>0 DEF Sorts
  <2> QED BY <1>0, <1>29, <2>1, Ttls DEF Prolong, Sorts
<1>30. ASSUME NEW r \in Requests, ExpireAccount(r) \/ ExpireIp(r) PROVE Typed'
  <2>1. request' \in [Requests -> RequestState]
    BY <1>30, TypedRequest DEF ExpireAccount, ExpireIp, Pcs
  <2>2. PICK k \in Accounts \cup Ips : Prolong(r, k)
    BY <1>28, <1>30 DEF ExpireAccount, ExpireIp
  <2> QED BY <1>29, <2>1, <2>2 DEF Prolong, Typed, login
<1>31. ASSUME NEW p \in Prefix, NEW k \in Accounts \cup Ips, KeyExpires(p, k) PROVE Typed'
  <2> DEFINE late == {r \in Bare(p, k) : request[r].at > now - SendWindow}
  <2>1. sends' \in [Prefix -> [Accounts \cup Ips -> Counts]]
    BY <1>3, <1>31, Tables DEF KeyExpires
  <2>2. ttl' \in [Prefix -> [Accounts \cup Ips -> Nat \cup {NoTtl}]]
    BY <1>31, Ttls DEF KeyExpires
  <2>3. Cardinality(late) \in Nat
    BY KeysAssumption, FS_Subset, FS_CardinalityType DEF Bare
  <2>4. dropped' \in Nat
    BY <1>31, <2>3 DEF KeyExpires, Typed
  <2> QED BY <1>31, <2>1, <2>2, <2>4 DEF KeyExpires, Typed, login
<1>25. ASSUME NEW r \in Requests, Leaves(r) PROVE Typed'
  <2>1. request' \in [Requests -> RequestState]
    BY <1>25, TypedRequest DEF Leaves, Pcs
  <2>2. lost' \in Nat
    <3>1. lost' = lost + 1 \/ lost' = lost
      BY <1>25 DEF Leaves
    <3>2. lost \in Nat
      BY DEF Typed
    <3> QED BY <3>1, <3>2
  <2> QED BY <1>25, <2>1, <2>2 DEF Leaves, Typed, login
<1>26. ASSUME Tick PROVE Typed'
  <2>1. now' \in Time /\ now' \in Nat
    BY <1>0, <1>26 DEF Tick, Time, Sorts
  <2>2. \A p \in Prefix, k \in Accounts \cup Ips :
          Pruned(mailed[p][k], now' - SendWindow) \in Counts
    <3>1. now' - SendWindow \in Int
      BY <1>0, <2>1 DEF Sorts
    <3> QED BY <1>2, <3>1 DEF Typed
  <2> QED BY <1>26, <2>1, <2>2 DEF Tick, Typed, login
<1>27. ASSUME UNCHANGED <<limits, send>> PROVE Typed'
  BY <1>27 DEF limits, Typed, login
<1> QED BY <1>4, <1>5, <1>6, <1>7, <1>8, <1>9, <1>10, <1>11, <1>12, <1>13, <1>14, <1>15,
           <1>16, <1>18, <1>19, <1>21, <1>23, <1>24, <1>25, <1>26, <1>27, <1>30, <1>31,
           SendSplits
    DEF Plain, ConsumeOnSend

-----------------------------------------------------------------------------
(* The lockout *)

LEMMA Clock ==
  ASSUME Typed, [Next]_vars
  PROVE  now <= now' /\ now' \in Nat
<1>1. CASE Tick
  BY <1>1, NowType DEF Tick, Sorts
<1>2. ASSUME NEW r \in Requests, Arrive(r) \/ Plain(r) \/ FailMark(r) PROVE now' = now
  BY <1>2, ConsumeFrame DEF Arrive, Plain, IpCheck, LockoutCheck, ClearMarker, ClearFailures, Verify,
     FailAccount, FailIp, FailCount, ResetFailures, ResetMarker, RecordIp, SendIpCheck,
     SendAccountCheck, Mail, Leaves, FailMark
<1>3. CASE UNCHANGED limits
  BY <1>3, NowType DEF limits, Sorts
<1> QED BY <1>1, <1>2, <1>3, NowType, Splits DEF Sorts

LEMMA RequestStep ==
  ASSUME Typed, \A r \in Requests : RequestOK(r), [Next]_vars, NEW q \in Requests
  PROVE  RequestOK(q)'
<1>1. now <= now' /\ now' \in Nat /\ now \in Nat /\ request[q].at \in Nat
  BY Clock, NowType DEF Sorts
<1>2. ASSUME request'[q] = request[q] PROVE RequestOK(q)'
  BY <1>1, <1>2 DEF RequestOK
<1>3. ASSUME request'[q] = Idle PROVE RequestOK(q)'
  BY <1>1, <1>3, IdleType DEF RequestOK, LoginSteps, SendSteps
<1>4. ASSUME Arrive(q) PROVE RequestOK(q)'
  BY <1>1, <1>4, ArriveType DEF RequestOK, LoginSteps, SendSteps
<1>5. ASSUME Plain(q) PROVE RequestOK(q)'
  <2>1. ASSUME NEW pcs, GoesTo(q, pcs), pcs \subseteq LoginSteps,
               request[q].pc \in LoginSteps
        PROVE  RequestOK(q)'
    BY <1>1, <2>1 DEF GoesTo, RequestOK, LoginSteps, SendSteps
  <2>2. ASSUME NEW pcs, GoesTo(q, pcs), pcs \subseteq SendSteps,
               request[q].pc \in SendSteps
        PROVE  RequestOK(q)'
    BY <1>1, <2>2 DEF GoesTo, RequestOK, LoginSteps, SendSteps
  <2>3. Ends(q) => RequestOK(q)'
    BY <1>3 DEF Ends
  <2>4. CASE IpCheck(q) \/ LockoutCheck(q) \/ ClearMarker(q) \/ ClearFailures(q) \/ Verify(q)
    BY <2>1, <2>3, <2>4, Flow
    DEF IpCheck, LockoutCheck, ClearMarker, ClearFailures, Verify, LoginSteps
  <2>5. CASE FailAccount(q) \/ FailIp(q) \/ FailCount(q) \/ ResetFailures(q)
    BY <2>1, <2>3, <2>5, Flow
    DEF FailAccount, FailIp, FailCount, ResetFailures, LoginSteps
  <2>6. CASE RecordIp(q) \/ Leaves(q)
    BY <2>3, <2>6, Flow
  <2>7. CASE SendIpCheck(q) \/ Mail(q) \/ ConsumeOnSend(q)
    BY <2>2, <2>3, <2>7, Flow, ConsumeFrame DEF SendIpCheck, Mail, SendSteps
  <2>8. CASE ResetMarker(q)
    <3>1. CASE request[q].kind \in {"login", "password"}
      <4>1. Ends(q) \/ GoesTo(q, {"record_ip"})
        BY <2>8, <3>1, EnterGoes, FinishEnds DEF ResetMarker, Pcs
      <4> QED BY <2>1, <2>3, <2>8, <4>1 DEF ResetMarker, LoginSteps
    <3>2. CASE request[q].kind = "email"
      <4>1. GoesTo(q, {"mail"})
        BY <2>8, <3>2, GotoGoes DEF ResetMarker, Pcs
      <4> QED BY <1>1, <3>2, <4>1 DEF GoesTo, RequestOK, LoginSteps, SendSteps
    <3> QED BY <2>8, <3>1, <3>2 DEF RequestOK, ResetMarker, LoginSteps
  <2>9. CASE SendAccountCheck(q)
    <3>1. CASE request[q].kind = "email"
      <4>1. Ends(q) \/ GoesTo(q, {"ip_check", "mail"})
        BY <2>9, Flow
      <4> QED BY <1>1, <2>3, <3>1, <4>1 DEF GoesTo, RequestOK, LoginSteps, SendSteps
    <3>2. CASE request[q].kind # "email"
      <4>1. Ends(q) \/ GoesTo(q, {"mail"})
        BY <2>9, <3>2, GotoGoes, FinishEnds DEF SendAccountCheck, Pcs
      <4> QED BY <2>2, <2>3, <2>9, <4>1 DEF SendAccountCheck, SendSteps
    <3> QED BY <3>1, <3>2
  <2> QED BY <1>5, <2>4, <2>5, <2>6, <2>7, <2>8, <2>9 DEF Plain
<1>6. ASSUME FailMark(q) PROVE RequestOK(q)'
  BY <1>3, <1>6, FailMarkType
<1>7. ASSUME NEW r \in Requests \ {q}, Arrive(r) \/ Plain(r) PROVE request'[q] = request[q]
  BY <1>7, ArriveType, Flow DEF Plain, Ends, GoesTo
<1>8. ASSUME NEW r \in Requests \ {q}, FailMark(r) PROVE RequestOK(q)'
  BY <1>1, <1>8, FailMarkType DEF RequestOK
<1>9. Tick \/ UNCHANGED limits => request' = request
  BY DEF Tick, limits
<1> QED BY <1>2, <1>4, <1>5, <1>6, <1>7, <1>8, <1>9, Splits

\* Only record_failure locks an account.
LEMMA MarkerKept ==
  ASSUME Typed, NEW r \in Requests, Arrive(r) \/ Plain(r), NEW a \in Accounts
  PROVE  marker'[a] \in {marker[a], NoMarker}
<1>1. CASE ClearMarker(r) \/ ResetMarker(r)
  BY <1>1 DEF ClearMarker, ResetMarker, Typed
<1>2. CASE ~ClearMarker(r) /\ ~ResetMarker(r)
  BY <1>2, ConsumeFrame DEF Arrive, Plain, IpCheck, LockoutCheck, ClearFailures, Verify,
     FailAccount, FailIp, FailCount, ResetFailures, RecordIp, SendIpCheck,
     SendAccountCheck, Mail, Leaves, login
<1> QED BY <1>1, <1>2

LEMMA MarkerStep ==
  ASSUME Typed, [Next]_vars, NEW a \in Accounts
  PROVE  \/ marker'[a] \in {marker[a], NoMarker}
         \/ \E r \in Requests :
              FailMark(r) /\ request[r].account = a /\ marker[a] = NoMarker
<1>1. ASSUME NEW r \in Requests, FailMark(r)
      PROVE  \/ marker'[a] = marker[a]
             \/ request[r].account = a /\ marker[a] = NoMarker
  BY <1>1 DEF FailMark, Typed
<1>2. Tick \/ UNCHANGED limits => marker' = marker
  BY DEF Tick, limits, login
<1> QED BY <1>1, <1>2, MarkerKept, Splits

\* The steps between which nothing looks at the lockout.
Decided == {"clear_failures", "verify", "reset_failures", "reset_marker"}

LEMMA CheckStep ==
  ASSUME Typed, \A r \in Requests : RequestOK(r) /\ CheckOK(r), [Next]_vars,
         NEW q \in Requests
  PROVE  CheckOK(q)'
<1> DEFINE a == request[q].account
<1>1. a \in Accounts
  BY NowType DEF Sorts
<1>2. ASSUME request'[q] = request[q], marker'[a] \in {marker[a], NoMarker}
      PROVE  CheckOK(q)'
  BY <1>2 DEF CheckOK, Locked, Elapsed
<1>3. ASSUME request'[q].pc \notin Decided \cup {"clear_marker"} PROVE CheckOK(q)'
  BY <1>3 DEF CheckOK, Decided
<1>4. Ends(q) => CheckOK(q)'
  BY <1>3, IdleType DEF Ends, Decided
<1>5. ASSUME NEW pc, GoesTo(q, {pc}), pc \in Decided,
             ~request[q].raced => marker'[a] = NoMarker
      PROVE  CheckOK(q)'
  BY <1>5 DEF GoesTo, CheckOK, Decided, Locked
<1>6. ASSUME NEW pcs, GoesTo(q, pcs), pcs \cap (Decided \cup {"clear_marker"}) = {}
      PROVE  CheckOK(q)'
  BY <1>3, <1>6 DEF GoesTo
<1>7. ASSUME Plain(q) PROVE CheckOK(q)'
  <2>1. CASE LockoutCheck(q)
    <3>1. marker' = marker
      BY <2>1 DEF LockoutCheck, login
    <3>2. CASE marker[a] = NoMarker
      <4>1. GoesTo(q, {"verify"})
        BY <2>1, <3>2, GotoGoes DEF LockoutCheck, Pcs
      <4> QED BY <1>5, <3>1, <3>2, <4>1 DEF Decided
    <3>3. CASE marker[a] # NoMarker /\ Elapsed(a, request[q].at)
      <4>1. GoesTo(q, {"clear_marker"}) /\ request'[q].at = request[q].at
        BY <2>1, <3>3, GotoGoes DEF LockoutCheck, Pcs
      <4> QED BY <3>1, <3>3, <4>1 DEF GoesTo, CheckOK, Elapsed
    <3>4. CASE marker[a] # NoMarker /\ ~Elapsed(a, request[q].at)
      BY <1>4, <2>1, <3>4, FinishEnds DEF LockoutCheck
    <3> QED BY <3>2, <3>3, <3>4
  <2>2. CASE ClearMarker(q)
    <3>1. marker'[a] = NoMarker
      BY <1>1, <2>2 DEF ClearMarker, Typed
    <3>2. GoesTo(q, {"clear_failures"})
      BY <2>2, Flow
    <3> QED BY <1>5, <3>1, <3>2 DEF Decided
  <2>3. CASE ClearFailures(q)
    <3>1. ~request[q].raced => marker'[a] = NoMarker
      BY <2>3 DEF ClearFailures, CheckOK, Locked
    <3>2. GoesTo(q, {"verify"})
      BY <2>3, Flow
    <3> QED BY <1>5, <3>1, <3>2 DEF Decided
  <2>4. CASE Verify(q)
    <3>1. ~request[q].raced => marker'[a] = NoMarker
      BY <2>4 DEF Verify, CheckOK, Locked, login
    <3>2. Goto(q, "reset_failures") => CheckOK(q)'
      BY <1>5, <3>1, GotoGoes DEF Decided, Pcs
    <3>3. Enter(q, "fail_account") \/ Enter(q, "record_ip") => CheckOK(q)'
      BY <1>6, EnterGoes DEF Decided, Pcs
    <3> QED BY <1>4, <2>4, <3>2, <3>3, FinishEnds DEF Verify
  <2>5. CASE ResetFailures(q)
    <3>1. ~request[q].raced => marker'[a] = NoMarker
      BY <2>5 DEF ResetFailures, CheckOK, Locked
    <3>2. GoesTo(q, {"reset_marker"})
      BY <2>5, Flow
    <3> QED BY <1>5, <3>1, <3>2 DEF Decided
  <2>6. CASE IpCheck(q) \/ FailAccount(q) \/ FailIp(q) \/ FailCount(q) \/ ResetMarker(q)
    BY <1>4, <1>6, <2>6, Flow DEF Decided
  <2>7. CASE SendIpCheck(q) \/ SendAccountCheck(q) \/ Mail(q) \/ ConsumeOnSend(q)
    BY <1>4, <1>6, <2>7, Flow DEF Decided
  <2>8. CASE RecordIp(q) \/ Leaves(q)
    BY <1>4, <2>8, Flow
  <2> QED BY <1>7, <2>1, <2>2, <2>3, <2>4, <2>5, <2>6, <2>7, <2>8 DEF Plain
<1>8. ASSUME Arrive(q) PROVE CheckOK(q)'
  BY <1>3, <1>8, ArriveType DEF Decided
<1>9. ASSUME FailMark(q) PROVE CheckOK(q)'
  BY <1>3, <1>9, FailMarkType, IdleType DEF Decided
<1>10. ASSUME NEW r \in Requests \ {q}, FailMark(r) PROVE CheckOK(q)'
  <2>1. /\ request'[q].pc = request[q].pc /\ request'[q].account = a
        /\ request'[q].at = request[q].at
        /\ ~request'[q].raced =>
             /\ ~request[q].raced
             /\ \/ marker[request[r].account] # NoMarker
                \/ ~Checked(request[q])
                \/ a # request[r].account
    BY <1>10, FailMarkType
  <2>2. CASE ~Checked(request[q])
    BY <1>3, <2>1, <2>2 DEF Checked, Decided
  <2>3. CASE marker'[a] = marker[a]
    BY <2>1, <2>3 DEF CheckOK, Locked, Elapsed
  <2>4. marker[request[r].account] # NoMarker \/ a # request[r].account
          => marker'[a] = marker[a]
    BY <1>1, <1>10 DEF FailMark, Typed
  <2>5. CASE request'[q].raced
    BY <2>5 DEF CheckOK
  <2> QED BY <2>1, <2>2, <2>3, <2>4, <2>5
<1>11. ASSUME NEW r \in Requests \ {q}, Arrive(r) \/ Plain(r) PROVE CheckOK(q)'
  <2>1. request'[q] = request[q]
    BY <1>11, ArriveType, Flow DEF Plain, Ends, GoesTo
  <2> QED BY <1>1, <1>2, <1>11, <2>1, MarkerKept
<1>12. Tick \/ UNCHANGED limits => request' = request /\ marker' = marker
  BY DEF Tick, limits, login
<1> QED BY <1>2, <1>7, <1>8, <1>9, <1>10, <1>11, <1>12, Splits

\* A lockout ends when it has elapsed, or by a request that raced with it.
LEMMA LockoutHeld ==
  ASSUME Typed, \A r \in Requests : RequestOK(r) /\ CheckOK(r), [Next]_vars,
         NEW a \in Accounts
  PROVE  \/ marker[a] = NoMarker
         \/ marker'[a] = marker[a]
         \/ /\ marker'[a] = NoMarker
            /\ \/ now - marker[a] >= Lockout
               \/ \E r \in Requests : request[r].account = a /\ request[r].raced
<1> SUFFICES ASSUME marker[a] # NoMarker, marker'[a] # marker[a]
             PROVE  /\ marker'[a] = NoMarker
                    /\ \/ now - marker[a] >= Lockout
                       \/ \E r \in Requests : request[r].account = a /\ request[r].raced
  OBVIOUS
<1>1. PICK r \in Requests : Arrive(r) \/ Plain(r)
  <2>1. Tick \/ UNCHANGED limits => marker' = marker
    BY DEF Tick, limits, login
  <2>2. ASSUME NEW r \in Requests, FailMark(r) PROVE marker'[a] = marker[a]
    BY <2>2 DEF FailMark, Typed
  <2> QED BY <2>1, <2>2, Splits
<1>2. marker'[a] = NoMarker
  BY <1>1, MarkerKept
<1>3. ClearMarker(r) \/ ResetMarker(r)
  BY <1>1, ConsumeFrame DEF Arrive, Plain, IpCheck, LockoutCheck, ClearFailures, Verify,
     FailAccount, FailIp, FailCount, ResetFailures, RecordIp, SendIpCheck,
     SendAccountCheck, Mail, Leaves, login
<1>4. request[r].account = a
  BY <1>3 DEF ClearMarker, ResetMarker, Typed
<1>5. CASE request[r].raced
  BY <1>2, <1>4, <1>5
<1>6. CASE ~request[r].raced
  <2>1. Elapsed(a, request[r].at)
    BY <1>3, <1>4, <1>6 DEF CheckOK, Locked, ClearMarker, ResetMarker
  <2>2. request[r].at <= now /\ request[r].at \in Nat /\ now \in Nat /\ marker[a] \in Int
        /\ Lockout \in Nat
    BY NowType DEF RequestOK, Sorts
  <2>3. now - marker[a] >= Lockout
    BY <2>1, <2>2 DEF Elapsed
  <2> QED BY <1>2, <2>3
<1> QED BY <1>5, <1>6

PendingSteps == {"fail_ip", "fail_count", "fail_mark", "clear_failures"}

Excused(a) ==
  Locked(a) \/ Pending(a, PendingSteps) \/ a \in lifted \/ lost > 0

Full(a) == InWindow(failures[a], AccountWindow) >= PerAccountMax

LEMMA OthersStay ==
  ASSUME Typed, \A r \in Requests : RequestOK(r), NEW r \in Requests,
         Arrive(r) \/ Plain(r) \/ FailMark(r), NEW q \in Requests \ {r}
  PROVE  /\ request'[q].pc = request[q].pc /\ request'[q].account = request[q].account
         /\ request'[q].ip = request[q].ip /\ request'[q].kind = request[q].kind
         /\ request'[q].at = request[q].at
<1>1. Arrive(r) \/ Plain(r) => request'[q] = request[q]
  BY ArriveType, Flow DEF Plain, Ends, GoesTo
<1> QED BY <1>1, FailMarkType

LEMMA StaysExcused ==
  ASSUME NEW a \in Accounts, NEW r \in Requests, Excused(a),
         \A q \in Requests \ {r} : /\ request'[q].pc = request[q].pc
                                   /\ request'[q].account = request[q].account,
         request[r].account = a => request[r].pc \notin PendingSteps,
         Locked(a) => Locked(a)',
         a \in lifted => a \in lifted', lost > 0 => lost' > 0
  PROVE  Excused(a)'
BY DEF Excused, Pending

\* Failures that do not get more cannot fill the window.
LEMMA StaysBelow ==
  ASSUME Typed, Typed', now <= now', NEW a \in Accounts,
         \A t \in Time : failures'[a][t] <= failures[a][t]
  PROVE  Full(a)' => Full(a)
<1>1. failures[a] \in Counts /\ failures'[a] \in Counts
  BY DEF Typed
<1>2. /\ now - AccountWindow \in Int /\ now' - AccountWindow \in Int
      /\ now - AccountWindow <= now' - AccountWindow
      /\ PerAccountMax \in Int
  BY NowType, LimitsAssumption DEF Sorts, Typed, Time
<1>3. CountAfter(failures'[a], now' - AccountWindow)
        <= CountAfter(failures[a], now - AccountWindow)
  BY <1>1, <1>2, CountLess
<1>4. /\ CountAfter(failures'[a], now' - AccountWindow) \in Nat
      /\ CountAfter(failures[a], now - AccountWindow) \in Nat
  BY MembersFinite
<1> QED BY <1>2, <1>3, <1>4 DEF Full, InWindow

LEMMA EmptyBelow ==
  ASSUME Typed, Typed', NEW a \in Accounts, failures'[a] = Empty
  PROVE  ~Full(a)'
<1>1. now' - AccountWindow \in Int /\ PerAccountMax \in Nat \ {0}
  BY LimitsAssumption DEF Typed, Time
<1> QED BY <1>1, CountEmpty DEF Full, InWindow

LEMMA LockedStep ==
  ASSUME Typed, Typed', \A r \in Requests : RequestOK(r) /\ CheckOK(r), [Next]_vars,
         NEW a \in Accounts, Full(a) => Excused(a)
  PROVE  (Full(a) => Excused(a))'
<1>0. now <= now'
  BY Clock
<1>1. lost \in Nat /\ lost' \in Nat
  BY DEF Typed
<1>2. ASSUME failures'[a] = failures[a] PROVE Full(a)' => Full(a)
  <2>1. \A t \in Time : failures'[a][t] <= failures[a][t]
    BY <1>2 DEF Typed, Counts
  <2> QED BY <1>0, <2>1, StaysBelow
<1>3. CASE Tick \/ UNCHANGED limits
  <2>1. failures'[a] = failures[a] /\ Excused(a)' = Excused(a)
    BY <1>3 DEF Tick, limits, login, Excused, Locked, Pending
  <2> QED BY <1>2, <2>1
<1>4. ASSUME NEW r \in Requests, Arrive(r) \/ Plain(r) \/ FailMark(r)
      PROVE  (Full(a) => Excused(a))'
  <2> DEFINE mine == request[r].account = a
  <2>1. \A q \in Requests \ {r} : /\ request'[q].pc = request[q].pc
                                  /\ request'[q].account = request[q].account
    BY <1>4, OthersStay
  \* A step that changes nothing of what the account's state depends on.
  <2>2. ASSUME failures'[a] = failures[a], marker'[a] = marker[a],
               a \in lifted => a \in lifted', lost <= lost',
               ~mine \/ request[r].pc \notin PendingSteps
        PROVE  (Full(a) => Excused(a))'
    <3>1. Full(a)' => Full(a)
      BY <1>2, <2>2
    <3>2. Excused(a) => Excused(a)'
      BY <1>1, <2>1, <2>2, StaysExcused DEF Locked
    <3> QED BY <3>1, <3>2
  <2>3. ASSUME NEW pc \in PendingSteps, GoesTo(r, {pc}), mine PROVE Excused(a)'
    BY <2>3 DEF GoesTo, Excused, Pending
  <2>4. CASE Arrive(r)
    BY <1>1, <2>2, <2>4 DEF Arrive, login, PendingSteps
  <2>5. CASE IpCheck(r) \/ LockoutCheck(r) \/ Verify(r) \/ RecordIp(r)
    BY <1>1, <2>2, <2>5 DEF IpCheck, LockoutCheck, Verify, RecordIp, login, PendingSteps
  <2>6. CASE SendIpCheck(r) \/ SendAccountCheck(r) \/ Mail(r) \/ ConsumeOnSend(r)
    BY <1>1, <2>2, <2>6, ConsumeFrame
    DEF SendIpCheck, SendAccountCheck, Mail, login, PendingSteps
  <2>7. CASE ClearMarker(r)
    <3>1. CASE mine
      BY <2>3, <2>7, <3>1, Flow DEF PendingSteps
    <3>2. CASE ~mine
      BY <1>1, <2>2, <2>7, <3>2 DEF ClearMarker, Typed
    <3> QED BY <3>1, <3>2
  <2>8. CASE ClearFailures(r) \/ ResetFailures(r)
    <3>1. CASE mine
      <4>1. failures'[a] = Empty
        BY <2>8, <3>1 DEF ClearFailures, ResetFailures, Typed
      <4> QED BY <4>1, EmptyBelow
    <3>2. CASE ~mine
      BY <1>1, <2>2, <2>8, <3>2 DEF ClearFailures, ResetFailures, Typed
    <3> QED BY <3>1, <3>2
  <2>9. CASE FailAccount(r)
    <3>1. CASE mine
      BY <2>3, <2>9, <3>1, Flow DEF PendingSteps
    <3>2. CASE ~mine
      BY <1>1, <2>2, <2>9, <3>2 DEF FailAccount, Typed
    <3> QED BY <3>1, <3>2
  <2>10. CASE FailIp(r)
    <3>1. CASE mine
      BY <2>3, <2>10, <3>1, Flow DEF PendingSteps
    <3>2. CASE ~mine
      BY <1>1, <2>2, <2>10, <3>2 DEF FailIp, Typed
    <3> QED BY <3>1, <3>2
  <2>11. CASE FailCount(r)
    <3>1. CASE mine
      <4> DEFINE kept == Pruned(failures[a], request[r].at - AccountWindow)
      <4>1. CASE Reached(kept)
        <5>1. GoesTo(r, {"fail_mark"})
          BY <2>11, <3>1, <4>1, GotoGoes DEF FailCount, Pcs
        <5> QED BY <2>3, <3>1, <5>1 DEF PendingSteps
      <4>2. CASE ~Reached(kept)
        <5>1. failures'[a] = kept
          BY <2>11, <3>1 DEF FailCount, Typed
        <5>2. now' - AccountWindow \in Int /\ PerAccountMax \in Nat
          BY LimitsAssumption DEF Typed, Time
        <5>3. kept \in Counts
          BY <5>1 DEF Typed
        <5> HIDE DEF kept
        <5>4. /\ CountAfter(kept, now' - AccountWindow) <= Count(kept)
              /\ CountAfter(kept, now' - AccountWindow) \in Nat /\ Count(kept) \in Nat
          BY <5>2, <5>3, WindowCount, MembersFinite DEF Count
        <5> QED BY <4>2, <5>1, <5>2, <5>4 DEF Reached, Full, InWindow
      <4> QED BY <4>1, <4>2
    <3>2. CASE ~mine
      BY <1>1, <2>2, <2>11, <3>2 DEF FailCount, Typed
    <3> QED BY <3>1, <3>2
  <2>12. CASE FailMark(r)
    <3>1. CASE mine
      <4>1. marker'[a] # NoMarker
        <5>1. request[r].at # NoMarker
          BY NowType DEF Sorts, NoMarker
        <5> QED BY <2>12, <3>1, <5>1 DEF FailMark, Typed
      <4> QED BY <4>1 DEF Excused, Locked
    <3>2. CASE ~mine
      BY <1>1, <2>2, <2>12, <3>2 DEF FailMark, Typed
    <3> QED BY <3>1, <3>2
  <2>13. CASE ResetMarker(r)
    <3>1. CASE mine /\ request[r].raced
      BY <2>13, <3>1 DEF ResetMarker, Excused
    <3>2. CASE mine /\ ~request[r].raced
      <4>1. marker[a] = NoMarker
        BY <2>13, <3>2 DEF ResetMarker, CheckOK, Locked
      <4>2. marker'[a] = marker[a]
        BY <2>13, <4>1 DEF ResetMarker, Typed
      <4> QED BY <1>1, <2>2, <2>13, <4>2 DEF ResetMarker, PendingSteps
    <3>3. CASE ~mine
      BY <1>1, <2>2, <2>13, <3>3 DEF ResetMarker, Typed
    <3> QED BY <3>1, <3>2, <3>3
  <2>14. CASE Leaves(r)
    <3>1. CASE mine /\ request[r].pc \in PendingSteps
      BY <1>1, <2>14, <3>1 DEF Leaves, Unrecorded, PendingSteps, Excused
    <3>2. CASE ~(mine /\ request[r].pc \in PendingSteps)
      BY <1>1, <2>2, <2>14, <3>2 DEF Leaves, login
    <3> QED BY <3>1, <3>2
  <2> QED BY <1>4, <2>4, <2>5, <2>6, <2>7, <2>8, <2>9, <2>10, <2>11, <2>12, <2>13, <2>14
          DEF Plain
<1> QED BY <1>3, <1>4, Splits

LEMMA LockInit == Init => LockInv
<1> HAVE Init
<1>1. Empty \in Counts
  BY CountEmpty
<1>2. Typed
  BY <1>1, IdleType, LimitsAssumption DEF Init, Typed, Time
<1>3. \A r \in Requests : RequestOK(r) /\ CheckOK(r)
  BY IdleType DEF Init, RequestOK, CheckOK, LoginSteps, SendSteps
<1>4. LockedWhenFull
  <2>1. now - AccountWindow \in Int /\ PerAccountMax \in Nat \ {0}
    BY <1>2, NowType DEF Sorts
  <2>2. \A a \in Accounts : failures[a] = Empty
    BY DEF Init
  <2> QED BY <2>1, <2>2, CountEmpty DEF LockedWhenFull, InWindow
<1> QED BY <1>2, <1>3, <1>4 DEF LockInv

LEMMA LockStep == LockInv /\ [Next]_vars => LockInv'
<1> SUFFICES ASSUME LockInv, [Next]_vars PROVE LockInv'
  OBVIOUS
<1>1. Typed /\ \A r \in Requests : RequestOK(r) /\ CheckOK(r)
  BY DEF LockInv
<1>2. Typed'
  BY <1>1, TypedStep
<1>3. \A r \in Requests : RequestOK(r)' /\ CheckOK(r)'
  BY <1>1, RequestStep, CheckStep
<1>4. \A a \in Accounts : Full(a) => Excused(a)
  BY DEF LockInv, LockedWhenFull, Full, Excused, Locked, PendingSteps
<1>5. \A a \in Accounts : (Full(a) => Excused(a))'
  BY <1>1, <1>2, <1>4, LockedStep
<1>6. LockedWhenFull'
  BY <1>5 DEF LockedWhenFull, Full, Excused, Locked, PendingSteps
<1> QED BY <1>2, <1>3, <1>6 DEF LockInv

LEMMA LockInvariance == Spec => []LockInv
BY LockInit, LockStep, PTL DEF Spec

\* An account whose window holds as many failures as allowed is locked, or is
\* about to be, but for a lost record or a lockout lifted by a racing success.
THEOREM FullAccountsLocked == Spec => []LockedWhenFull
<1>1. LockInv => LockedWhenFull
  BY DEF LockInv
<1> QED BY <1>1, LockInvariance, PTL

\* A lockout is not moved and not prolonged, and ends early only through a
\* request that was past its own check when the lockout began.
THEOREM LockoutsHold == Spec => LockoutHolds
<1>1. LockInv /\ [Next]_vars =>
        \A a \in Accounts :
          \/ marker[a] = NoMarker
          \/ marker'[a] = marker[a]
          \/ /\ marker'[a] = NoMarker
             /\ \/ now - marker[a] >= Lockout
                \/ \E r \in Requests : request[r].account = a /\ request[r].raced
  BY LockoutHeld DEF LockInv
<1> QED BY <1>1, LockInvariance, PTL DEF Spec, LockoutHolds

-----------------------------------------------------------------------------
(* Attempts *)

\* Two sets that differ at most in one element.
LEMMA SameBut ==
  ASSUME NEW S, NEW T, NEW r, IsFiniteSet(S), S \ {r} = T \ {r}
  PROVE  /\ IsFiniteSet(T) /\ Cardinality(T) \in Nat /\ Cardinality(S) \in Nat
         /\ (r \in S <=> r \in T) => Cardinality(T) = Cardinality(S)
         /\ r \in S /\ r \notin T => Cardinality(T) = Cardinality(S) - 1
         /\ r \notin S /\ r \in T => Cardinality(T) = Cardinality(S) + 1
<1> DEFINE U == S \ {r}
<1>1. IsFiniteSet(U) /\ r \notin U
  BY FS_Subset
<1>2. S = U \/ S = U \cup {r}
  OBVIOUS
<1>3. T = U \/ T = U \cup {r}
  OBVIOUS
<1>4. /\ IsFiniteSet(U \cup {r})
      /\ Cardinality(U \cup {r}) = Cardinality(U) + 1
      /\ Cardinality(U) \in Nat
  BY <1>1, FS_AddElement, FS_CardinalityType
<1>5. /\ r \in S => S = U \cup {r}
      /\ r \notin S => S = U
      /\ r \in T => T = U \cup {r}
      /\ r \notin T => T = U
  BY <1>1, <1>2, <1>3
<1> HIDE DEF U
<1>6. /\ r \in S => Cardinality(S) = Cardinality(U) + 1
      /\ r \notin S => Cardinality(S) = Cardinality(U)
  BY <1>4, <1>5
<1>7. /\ IsFiniteSet(T)
      /\ r \in T => Cardinality(T) = Cardinality(U) + 1
      /\ r \notin T => Cardinality(T) = Cardinality(U)
  BY <1>1, <1>4, <1>5
<1> QED BY <1>4, <1>6, <1>7

LEMMA OfFinite ==
  ASSUME NEW pcs, NEW a
  PROVE  /\ IsFiniteSet(Of(a, pcs)) /\ Cardinality(Of(a, pcs)) \in Nat
         /\ IsFiniteSet(From(a, pcs)) /\ Cardinality(From(a, pcs)) \in Nat
         /\ Cardinality(Of(a, pcs)) <= Cardinality(Requests)
         /\ Cardinality(From(a, pcs)) <= Cardinality(Requests)
         /\ Cardinality(Requests) \in Nat
<1>1. Of(a, pcs) \subseteq Requests /\ From(a, pcs) \subseteq Requests
  BY DEF Of, From
<1> QED BY <1>1, KeysAssumption, NoMore

LEMMA OfFiniteNext ==
  ASSUME NEW pcs, NEW a
  PROVE  /\ Cardinality(Of(a, pcs)') \in Nat
         /\ Cardinality(From(a, pcs)') \in Nat
         /\ Cardinality(Of(a, pcs)') <= Cardinality(Requests)
         /\ Cardinality(From(a, pcs)') <= Cardinality(Requests)
<1>1. Of(a, pcs)' \subseteq Requests /\ From(a, pcs)' \subseteq Requests
  BY DEF Of, From
<1> QED BY <1>1, KeysAssumption, NoMore

\* One request moves; it belongs to the set afterwards only if it did before.
LEMMA FromStep ==
  ASSUME NEW r \in Requests, NEW i, NEW pcs,
         \A q \in Requests \ {r} : /\ request'[q].pc = request[q].pc
                                   /\ request'[q].ip = request[q].ip
  PROVE  /\ (r \in From(i, pcs) <=> r \in From(i, pcs)') =>
              Cardinality(From(i, pcs)') = Cardinality(From(i, pcs))
         /\ r \in From(i, pcs) /\ r \notin From(i, pcs)' =>
              Cardinality(From(i, pcs)') = Cardinality(From(i, pcs)) - 1
<1>1. From(i, pcs) \ {r} = From(i, pcs)' \ {r}
  BY DEF From
<1> QED BY <1>1, OfFinite, SameBut

LEMMA OfStep ==
  ASSUME NEW r \in Requests, NEW a, NEW pcs,
         \A q \in Requests \ {r} : /\ request'[q].pc = request[q].pc
                                   /\ request'[q].account = request[q].account
  PROVE  /\ (r \in Of(a, pcs) <=> r \in Of(a, pcs)') =>
              Cardinality(Of(a, pcs)') = Cardinality(Of(a, pcs))
         /\ r \in Of(a, pcs) /\ r \notin Of(a, pcs)' =>
              Cardinality(Of(a, pcs)') = Cardinality(Of(a, pcs)) - 1
         /\ r \notin Of(a, pcs) /\ r \in Of(a, pcs)' =>
              Cardinality(Of(a, pcs)') = Cardinality(Of(a, pcs)) + 1
<1>1. Of(a, pcs) \ {r} = Of(a, pcs)' \ {r}
  BY DEF Of
<1> QED BY <1>1, OfFinite, SameBut

IpCount(i) == InWindow(attempts[i], IpWindow)

LEMMA IpCountStep ==
  ASSUME Typed, Typed', now <= now', NEW i \in Ips
  PROVE  /\ IpCount(i) \in Nat /\ IpCount(i)' \in Nat
         /\ (\A t \in Time : attempts'[i][t] <= attempts[i][t]) => IpCount(i)' <= IpCount(i)
         /\ attempts'[i] = attempts[i] => IpCount(i)' <= IpCount(i)
         /\ \A s \in Time : attempts'[i] = Added(attempts[i], s) => IpCount(i)' <= IpCount(i) + 1
         /\ IpCount(i)' <= Count(attempts'[i]) /\ Count(attempts'[i]) \in Nat
<1>1. attempts[i] \in Counts /\ attempts'[i] \in Counts
  BY DEF Typed
<1>2. /\ now - IpWindow \in Int /\ now' - IpWindow \in Int
      /\ now - IpWindow <= now' - IpWindow
  BY NowType, LimitsAssumption DEF Sorts, Typed, Time
<1>3. IpCount(i) \in Nat /\ IpCount(i)' \in Nat /\ Count(attempts'[i]) \in Nat
  BY MembersFinite DEF IpCount, InWindow, Count
<1>4. (\A t \in Time : attempts'[i][t] <= attempts[i][t]) => IpCount(i)' <= IpCount(i)
  BY <1>1, <1>2, CountLess DEF IpCount, InWindow
<1>5. attempts'[i] = attempts[i] => \A t \in Time : attempts'[i][t] <= attempts[i][t]
  BY <1>1 DEF Counts
<1>6. ASSUME NEW s \in Time, attempts'[i] = Added(attempts[i], s)
      PROVE  IpCount(i)' <= IpCount(i) + 1
  <2>1. CountAfter(Added(attempts[i], s), now' - IpWindow)
          <= CountAfter(attempts[i], now' - IpWindow) + 1
    BY <1>1, <1>2, CountAdded
  <2>2. CountAfter(attempts[i], now' - IpWindow) <= CountAfter(attempts[i], now - IpWindow)
    <3>1. \A t \in Time : attempts[i][t] <= attempts[i][t]
      BY <1>1 DEF Counts
    <3> QED BY <1>1, <1>2, <3>1, CountLess
  <2>3. /\ CountAfter(Added(attempts[i], s), now' - IpWindow) \in Nat
        /\ CountAfter(attempts[i], now' - IpWindow) \in Nat
        /\ CountAfter(attempts[i], now - IpWindow) \in Nat
    BY MembersFinite
  <2> QED BY <1>6, <2>1, <2>2, <2>3 DEF IpCount, InWindow
<1>7. IpCount(i)' <= Count(attempts'[i])
  BY <1>1, <1>2, WindowCount DEF IpCount, InWindow
<1> QED BY <1>3, <1>4, <1>5, <1>6, <1>7

LEMMA IpStep ==
  ASSUME Typed, Typed', \A r \in Requests : RequestOK(r), [Next]_vars,
         NEW i \in Ips, IpBounded(i)
  PROVE  IpBounded(i)'
<1> DEFINE past == Cardinality(From(i, AfterIpCheck))
           past1 == Cardinality(From(i, AfterIpCheck)')
           all == Cardinality(Requests)
<1>0. now <= now'
  BY Clock
<1>1. /\ past \in Nat /\ past1 \in Nat /\ past1 <= all /\ all \in Nat
      /\ IpCount(i) \in Nat /\ IpCount(i)' \in Nat /\ PerIpMax \in Nat \ {0}
  BY <1>0, OfFinite, OfFiniteNext, IpCountStep, LimitsAssumption
<1>2. IpCount(i) + past <= PerIpMax - 1 + all
  BY DEF IpBounded, IpCount
<1>3. IpCount(i)' + past1 <= PerIpMax - 1 + all => IpBounded(i)'
  BY DEF IpBounded, IpCount
<1> HIDE DEF past, past1, all
<1>4. ASSUME IpCount(i)' <= IpCount(i), past1 <= past PROVE IpBounded(i)'
  BY <1>1, <1>2, <1>3, <1>4
<1>5. CASE Tick \/ UNCHANGED limits
  <2>1. attempts' = attempts /\ past1 = past
    BY <1>5 DEF Tick, limits, login, From, past, past1
  <2> QED BY <1>0, <1>1, <1>4, <2>1, IpCountStep
<1>6. ASSUME NEW r \in Requests, Arrive(r) \/ Plain(r) \/ FailMark(r)
      PROVE  IpBounded(i)'
  <2> DEFINE mine == request[r].ip = i
             in == r \in From(i, AfterIpCheck)
             in1 == r \in From(i, AfterIpCheck)'
  <2>1. /\ (in <=> in1) => past1 = past
        /\ in /\ ~in1 => past1 = past - 1
    <3>1. \A q \in Requests \ {r} : /\ request'[q].pc = request[q].pc
                                    /\ request'[q].ip = request[q].ip
      BY <1>6, OthersStay
    <3> QED BY <3>1, FromStep DEF past, past1
  <2>2. ASSUME attempts'[i] = attempts[i], in1 => in PROVE IpBounded(i)'
    <3>1. past1 <= past
      BY <1>1, <2>1, <2>2
    <3>2. IpCount(i)' <= IpCount(i)
      BY <1>0, <2>2, IpCountStep
    <3> QED BY <1>4, <3>1, <3>2
  <2>3. ASSUME Ends(r) PROVE ~in1
    BY <2>3, IdleType DEF Ends, From, AfterIpCheck
  <2>4. ASSUME NEW pcs, GoesTo(r, pcs), request[r].pc \in AfterIpCheck PROVE in1 => in
    BY <2>4 DEF GoesTo, From
  <2>5. ASSUME NEW pcs, GoesTo(r, pcs), pcs \cap AfterIpCheck = {} PROVE ~in1
    BY <2>5 DEF GoesTo, From
  <2> HIDE DEF in, in1
  <2>6. CASE Arrive(r)
    <3>1. ~in1
      BY <2>6, ArriveType DEF in1, From, AfterIpCheck
    <3> QED BY <2>2, <2>6, <3>1 DEF Arrive, login
  <2>7. CASE IpCheck(r)
    <3> DEFINE kept == Pruned(attempts[i], request[r].at - IpWindow)
    <3>1. CASE mine
      <4>1. attempts'[i] = kept
        BY <2>7, <3>1 DEF IpCheck, Typed
      <4>2. CASE Throttled(kept)
        <5>1. Ends(r)
          BY <2>7, <3>1, <4>2, FinishEnds DEF IpCheck
        <5>2. past1 <= past
          BY <1>1, <2>1, <2>3, <5>1
        <5>3. \A t \in Time : attempts'[i][t] <= attempts[i][t]
          <6>1. attempts[i] \in Counts
            BY DEF Typed
          <6>2. request[r].at - IpWindow \in Int
            BY NowType DEF Sorts
          <6> QED BY <4>1, <6>1, <6>2, PrunedCounts
        <5>4. IpCount(i)' <= IpCount(i)
          BY <1>0, <5>3, IpCountStep
        <5> QED BY <1>4, <5>2, <5>4
      <4>3. CASE ~Throttled(kept)
        <5>1. IpCount(i)' <= Count(kept) /\ Count(kept) \in Nat
          BY <1>0, <4>1, IpCountStep
        <5>2. Count(kept) <= PerIpMax - 1
          BY <1>1, <4>3, <5>1 DEF Throttled
        <5> QED BY <1>1, <1>3, <5>1, <5>2
      <4> QED BY <4>2, <4>3
    <3>2. CASE ~mine
      <4>1. attempts'[i] = attempts[i]
        BY <2>7, <3>2 DEF IpCheck, Typed
      <4>2. ~in1
        <5>1. Ends(r) \/ GoesTo(r, {"lockout_check"})
          BY <2>7, Flow
        <5>2. GoesTo(r, {"lockout_check"}) => ~in1
          BY <3>2 DEF GoesTo, in1, From
        <5> QED BY <2>3, <5>1, <5>2
      <4> QED BY <2>2, <4>1, <4>2
    <3> QED BY <3>1, <3>2
  <2>8. CASE LockoutCheck(r) \/ ClearMarker(r) \/ ClearFailures(r) \/ Verify(r)
    <3>1. attempts' = attempts
      BY <2>8 DEF LockoutCheck, ClearMarker, ClearFailures, Verify, login
    <3>2. request[r].pc \in AfterIpCheck
      BY <2>8 DEF LockoutCheck, ClearMarker, ClearFailures, Verify, AfterIpCheck
    <3> QED BY <2>2, <2>3, <2>4, <2>8, <3>1, <3>2, Flow
  <2>9. CASE FailAccount(r) \/ ResetFailures(r) \/ ResetMarker(r)
    <3>1. attempts' = attempts
      BY <2>9 DEF FailAccount, ResetFailures, ResetMarker
    <3>2. request[r].pc \in AfterIpCheck
      BY <2>9 DEF FailAccount, ResetFailures, ResetMarker, AfterIpCheck
    <3> QED BY <2>2, <2>3, <2>4, <2>9, <3>1, <3>2, Flow
  <2>10. CASE FailIp(r) \/ RecordIp(r)
    <3>1. ~in1
      BY <2>3, <2>5, <2>10, Flow DEF AfterIpCheck
    <3>2. CASE mine
      <4>1. in
        BY <2>10, <3>2 DEF FailIp, RecordIp, in, From, AfterIpCheck
      <4>2. past1 = past - 1
        BY <2>1, <3>1, <4>1
      <4>3. attempts'[i] = Added(attempts[i], request[r].at) /\ request[r].at \in Time
        BY <2>10, <3>2, NowType DEF FailIp, RecordIp, Typed, Sorts
      <4>4. IpCount(i)' <= IpCount(i) + 1
        BY <1>0, <4>3, IpCountStep
      <4> QED BY <1>1, <1>2, <1>3, <4>2, <4>4
    <3>3. CASE ~mine
      <4>1. attempts'[i] = attempts[i]
        BY <2>10, <3>3 DEF FailIp, RecordIp, Typed
      <4> QED BY <2>2, <3>1, <4>1
    <3> QED BY <3>2, <3>3
  <2>11. CASE FailCount(r) \/ Mail(r) \/ ConsumeOnSend(r)
    <3>1. attempts' = attempts
      BY <2>11, ConsumeFrame DEF FailCount, Mail, login
    <3>2. ~in1
      BY <2>3, <2>5, <2>11, Flow DEF AfterIpCheck
    <3> QED BY <2>2, <3>1, <3>2
  <2>12. CASE SendIpCheck(r) \/ SendAccountCheck(r) \/ Leaves(r)
    <3>1. attempts' = attempts
      BY <2>12 DEF SendIpCheck, SendAccountCheck, Leaves, login
    <3>2. ~in1
      BY <2>3, <2>5, <2>12, Flow DEF AfterIpCheck
    <3> QED BY <2>2, <3>1, <3>2
  <2>13. CASE FailMark(r)
    <3>1. ~in1
      BY <2>13, FailMarkType, IdleType DEF in1, From, AfterIpCheck
    <3> QED BY <2>2, <2>13, <3>1 DEF FailMark
  <2> QED BY <1>6, <2>6, <2>7, <2>8, <2>9, <2>10, <2>11, <2>12, <2>13 DEF Plain
<1> QED BY <1>5, <1>6, Splits

FailureCount(a) == InWindow(failures[a], AccountWindow)

LEMMA FailureCountStep ==
  ASSUME Typed, Typed', now <= now', NEW a \in Accounts
  PROVE  /\ FailureCount(a) \in Nat /\ FailureCount(a)' \in Nat
         /\ (\A t \in Time : failures'[a][t] <= failures[a][t]) =>
              FailureCount(a)' <= FailureCount(a)
         /\ failures'[a] = failures[a] => FailureCount(a)' <= FailureCount(a)
         /\ \A s \in Time : failures'[a] = Added(failures[a], s) =>
              FailureCount(a)' <= FailureCount(a) + 1
         /\ FailureCount(a)' <= Count(failures'[a]) /\ Count(failures'[a]) \in Nat
         /\ failures'[a] = Empty => FailureCount(a)' = 0
<1>1. failures[a] \in Counts /\ failures'[a] \in Counts
  BY DEF Typed
<1>2. /\ now - AccountWindow \in Int /\ now' - AccountWindow \in Int
      /\ now - AccountWindow <= now' - AccountWindow
  BY NowType, LimitsAssumption DEF Sorts, Typed, Time
<1>3. FailureCount(a) \in Nat /\ FailureCount(a)' \in Nat /\ Count(failures'[a]) \in Nat
  BY MembersFinite DEF FailureCount, InWindow, Count
<1>4. (\A t \in Time : failures'[a][t] <= failures[a][t]) =>
        FailureCount(a)' <= FailureCount(a)
  BY <1>1, <1>2, CountLess DEF FailureCount, InWindow
<1>5. failures'[a] = failures[a] => \A t \in Time : failures'[a][t] <= failures[a][t]
  BY <1>1 DEF Counts
<1>6. ASSUME NEW s \in Time, failures'[a] = Added(failures[a], s)
      PROVE  FailureCount(a)' <= FailureCount(a) + 1
  <2>1. CountAfter(Added(failures[a], s), now' - AccountWindow)
          <= CountAfter(failures[a], now' - AccountWindow) + 1
    BY <1>1, <1>2, CountAdded
  <2>2. CountAfter(failures[a], now' - AccountWindow)
          <= CountAfter(failures[a], now - AccountWindow)
    <3>1. \A t \in Time : failures[a][t] <= failures[a][t]
      BY <1>1 DEF Counts
    <3> QED BY <1>1, <1>2, <3>1, CountLess
  <2>3. /\ CountAfter(Added(failures[a], s), now' - AccountWindow) \in Nat
        /\ CountAfter(failures[a], now' - AccountWindow) \in Nat
        /\ CountAfter(failures[a], now - AccountWindow) \in Nat
    BY MembersFinite
  <2> QED BY <1>6, <2>1, <2>2, <2>3 DEF FailureCount, InWindow
<1>7. FailureCount(a)' <= Count(failures'[a])
  BY <1>1, <1>2, WindowCount DEF FailureCount, InWindow
<1>8. failures'[a] = Empty => FailureCount(a)' = 0
  BY <1>2, CountEmpty DEF FailureCount, InWindow
<1> QED BY <1>3, <1>4, <1>5, <1>6, <1>7, <1>8

Passing == {"verify", "fail_account"}
Counting == {"fail_ip", "fail_count", "fail_mark"}

\* Nobody is at two steps at once.
LEMMA OfDisjoint ==
  ASSUME NEW a
  PROVE  Cardinality(Of(a, Passing)') + Cardinality(Of(a, Counting)')
           <= Cardinality(Requests)
<1> DEFINE P == Of(a, Passing)'
           F == Of(a, Counting)'
<1>1. P \subseteq Requests /\ F \subseteq Requests /\ P \cap F = {}
  BY DEF Of, Passing, Counting
<1>2. IsFiniteSet(P) /\ IsFiniteSet(F) /\ Cardinality(P) \in Nat /\ Cardinality(F) \in Nat
  BY <1>1, KeysAssumption, NoMore
<1> HIDE DEF P, F
<1>3. Cardinality(P \cup F) = Cardinality(P) + Cardinality(F) - Cardinality(P \cap F)
  BY <1>2, FS_Union
<1>4. Cardinality(P \cap F) = 0
  BY <1>1, FS_EmptySet
<1>5. Cardinality(P \cup F) <= Cardinality(Requests) /\ P \cup F \subseteq Requests
  BY <1>1, KeysAssumption, NoMore
<1>6. Cardinality(P) + Cardinality(F) <= Cardinality(Requests)
  BY <1>2, <1>3, <1>4, <1>5
<1> QED BY <1>6 DEF P, F

LEMMA AccountStep ==
  ASSUME Typed, Typed', \A r \in Requests : RequestOK(r) /\ CheckOK(r), [Next]_vars,
         NEW a \in Accounts, AccountBounded(a)
  PROVE  AccountBounded(a)'
<1> DEFINE W  == FailureCount(a)
           P  == Cardinality(Of(a, Passing))
           F  == Cardinality(Of(a, Counting))
           W1 == FailureCount(a)'
           P1 == Cardinality(Of(a, Passing)')
           F1 == Cardinality(Of(a, Counting)')
           all == Cardinality(Requests)
<1>0. now <= now'
  BY Clock
<1>1. /\ W \in Nat /\ W1 \in Nat /\ P \in Nat /\ P1 \in Nat /\ F \in Nat /\ F1 \in Nat
      /\ P1 <= all /\ P1 + F1 <= all /\ all \in Nat /\ PerAccountMax \in Nat \ {0}
  BY <1>0, OfFinite, OfFiniteNext, OfDisjoint, FailureCountStep, LimitsAssumption
<1>2. \/ Unbounded(a)
      \/ /\ ~Locked(a) => W <= PerAccountMax - 1 + F
         /\ W + P <= PerAccountMax - 1 + all
  BY DEF AccountBounded, OpenBounded, FailuresBounded, FailureCount, Passing, Counting
<1>3. ASSUME \/ Unbounded(a)'
             \/ /\ ~Locked(a)' => W1 <= PerAccountMax - 1 + F1
                /\ W1 + P1 <= PerAccountMax - 1 + all
      PROVE  AccountBounded(a)'
  BY <1>3 DEF AccountBounded, OpenBounded, FailuresBounded, FailureCount, Passing, Counting
<1>4. failures'[a] = failures[a] => W1 <= W
  BY <1>0, FailureCountStep
<1>5. failures'[a] = Empty => AccountBounded(a)'
  <2>1. failures'[a] = Empty => W1 = 0
    BY <1>0, FailureCountStep
  <2> HIDE DEF W1, P1, F1, all
  <2> QED BY <1>1, <1>3, <2>1
<1>6. CASE Tick \/ UNCHANGED limits
  <2>1. failures' = failures /\ marker' = marker /\ request' = request
        /\ lifted' = lifted /\ lost' = lost
    BY <1>6 DEF Tick, limits, login
  <2>2. P1 = P /\ F1 = F
    BY <2>1 DEF Of
  <2>3. W1 <= W
    BY <1>4, <2>1
  <2>4. Unbounded(a)' = Unbounded(a) /\ Locked(a)' = Locked(a)
    BY <2>1 DEF Unbounded, Locked, Pending
  <2> HIDE DEF W, W1, P, P1, F, F1, all
  <2> QED BY <1>1, <1>2, <1>3, <2>2, <2>3, <2>4
<1>7. ASSUME NEW r \in Requests, Arrive(r) \/ Plain(r) \/ FailMark(r)
      PROVE  AccountBounded(a)'
  <2> DEFINE mine == request[r].account = a
             p == r \in Of(a, Passing)
             p1 == r \in Of(a, Passing)'
             f == r \in Of(a, Counting)
             f1 == r \in Of(a, Counting)'
  <2>1. \A q \in Requests \ {r} : /\ request'[q].pc = request[q].pc
                                  /\ request'[q].account = request[q].account
    BY <1>7, OthersStay
  <2>2. /\ (p <=> p1) => P1 = P
        /\ p /\ ~p1 => P1 = P - 1
        /\ ~p /\ p1 => P1 = P + 1
        /\ (f <=> f1) => F1 = F
        /\ f /\ ~f1 => F1 = F - 1
        /\ ~f /\ f1 => F1 = F + 1
    BY <2>1, OfStep
  \* Without an end of the exception, or a failure that is deleted.
  <2>3. ASSUME a \in lifted => a \in lifted', lost <= lost',
               ~(mine /\ request[r].pc = "clear_failures") \/ lost < lost'
        PROVE  Unbounded(a) => Unbounded(a)'
    <3>1. lost \in Nat /\ lost' \in Nat
      BY DEF Typed
    <3> QED BY <2>1, <2>3, <3>1 DEF Unbounded, Pending
  \* A step that adds no failure and lets nobody in.
  <2>4. ASSUME W1 <= W, ~Locked(a)' => ~Locked(a), p1 => p, f => f1,
               Unbounded(a) => Unbounded(a)'
        PROVE  AccountBounded(a)'
    <3>1. P1 <= P /\ F <= F1
      <4> HIDE DEF W, W1, P, P1, F, F1, p, p1, f, f1
      <4> QED BY <1>1, <2>2, <2>4
    <3> HIDE DEF W, W1, P, P1, F, F1, all, p, p1, f, f1
    <3> QED BY <1>1, <1>2, <1>3, <2>4, <3>1
  <2>5. ASSUME failures'[a] = failures[a], marker'[a] = marker[a], p1 => p, f => f1,
               Unbounded(a) => Unbounded(a)'
        PROVE  AccountBounded(a)'
    BY <1>4, <2>4, <2>5 DEF Locked
  <2>6. Ends(r) => ~p1 /\ ~f1
    BY IdleType DEF Ends, Of, Passing, Counting
  <2>7. ASSUME NEW pcs, GoesTo(r, pcs), ~mine PROVE ~p1 /\ ~f1
    BY <2>7 DEF GoesTo, Of
  <2>8. ASSUME NEW pcs, GoesTo(r, pcs), pcs \cap Passing = {} PROVE ~p1
    BY <2>8 DEF GoesTo, Of
  <2>9. ASSUME NEW pcs, GoesTo(r, pcs), pcs \cap Counting = {} PROVE ~f1
    BY <2>9 DEF GoesTo, Of
  <2>10. ASSUME NEW pc, GoesTo(r, {pc}), mine
         PROVE (pc \in Passing => p1) /\ (pc \in Counting => f1)
    BY <2>10 DEF GoesTo, Of
  <2>11. /\ p <=> mine /\ request[r].pc \in Passing
         /\ f <=> mine /\ request[r].pc \in Counting
    BY DEF Of
  <2> HIDE DEF W, W1, P, P1, F, F1, all, p, p1, f, f1
  <2>12. CASE Arrive(r)
    <3>1. ~p1 /\ ~f1 /\ ~f
      BY <2>11, <2>12, ArriveType DEF Arrive, p1, f1, Of, Passing, Counting
    <3>2. Unbounded(a) => Unbounded(a)'
      BY <2>3, <2>12 DEF Arrive, Typed
    <3> QED BY <2>5, <2>12, <3>1, <3>2 DEF Arrive, login
  <2>13. CASE IpCheck(r) \/ RecordIp(r) \/ SendIpCheck(r) \/ SendAccountCheck(r)
              \/ Mail(r) \/ ConsumeOnSend(r)
    <3>1. ~p1 /\ ~f1
      BY <2>6, <2>8, <2>9, <2>13, Flow DEF Passing, Counting
    <3>2. ~f /\ request[r].pc # "clear_failures"
      BY <2>11, <2>13, ConsumeFrame DEF IpCheck, RecordIp, SendIpCheck, SendAccountCheck, Mail,
         Counting
    <3>3. failures' = failures /\ marker' = marker /\ lifted' = lifted /\ lost' = lost
      BY <2>13, ConsumeFrame DEF IpCheck, RecordIp, SendIpCheck, SendAccountCheck, Mail, login
    <3>4. Unbounded(a) => Unbounded(a)'
      BY <2>3, <3>2, <3>3 DEF Typed
    <3> QED BY <2>5, <3>1, <3>2, <3>3, <3>4
  <2>14. CASE LockoutCheck(r)
    <3>1. failures' = failures /\ marker' = marker /\ lifted' = lifted /\ lost' = lost
      BY <2>14 DEF LockoutCheck, login
    <3>2. Unbounded(a) => Unbounded(a)'
      BY <2>3, <2>14, <3>1 DEF Typed, LockoutCheck
    <3>3. ~p /\ ~f
      BY <2>11, <2>14 DEF LockoutCheck, Passing, Counting
    <3>4. CASE mine /\ marker[a] = NoMarker
      <4>1. GoesTo(r, {"verify"})
        BY <2>14, <3>4, GotoGoes DEF LockoutCheck, Pcs
      <4>2. ~f1
        BY <2>9, <4>1 DEF Counting
      <4>3. F1 = F /\ W1 <= W
        BY <1>4, <2>2, <3>1, <3>3, <4>2
      <4>4. ~Locked(a) /\ ~Locked(a)'
        BY <3>1, <3>4 DEF Locked
      <4> QED BY <1>1, <1>2, <1>3, <3>2, <4>3, <4>4
    <3>5. CASE ~(mine /\ marker[a] = NoMarker)
      <4>1. ~p1
        <5>1. Goto(r, "verify") => ~mine
          <6>1. Goto(r, "verify") => request'[r].pc = "verify"
            BY GotoGoes DEF Pcs, GoesTo
          <6>2. Goto(r, "clear_marker") => request'[r].pc = "clear_marker"
            BY GotoGoes DEF Pcs, GoesTo
          <6>3. Finish(r) => request'[r].pc = "idle"
            BY FinishEnds, IdleType DEF Ends
          <6> QED BY <2>14, <3>5, <6>1, <6>2, <6>3 DEF LockoutCheck
        <5>2. Goto(r, "verify") => ~p1
          BY <2>7, <5>1, GotoGoes DEF Pcs
        <5>3. Goto(r, "clear_marker") => ~p1
          BY <2>8, GotoGoes DEF Pcs, Passing
        <5> QED BY <2>6, <2>14, <5>2, <5>3, FinishEnds DEF LockoutCheck
      <4> QED BY <2>5, <3>1, <3>2, <3>3, <4>1
    <3> QED BY <3>4, <3>5
  <2>15. CASE ClearMarker(r)
    <3>1. GoesTo(r, {"clear_failures"})
      BY <2>15, Flow
    <3>2. CASE mine
      <4>1. Unbounded(a)'
        BY <3>1, <3>2 DEF GoesTo, Unbounded, Pending
      <4> QED BY <1>3, <4>1
    <3>3. CASE ~mine
      <4>1. ~p1 /\ ~f1 /\ ~f
        BY <2>7, <2>11, <3>1, <3>3
      <4>2. failures' = failures /\ marker'[a] = marker[a] /\ lifted' = lifted /\ lost' = lost
        BY <2>15, <3>3 DEF ClearMarker, Typed
      <4>3. Unbounded(a) => Unbounded(a)'
        BY <2>3, <3>3, <4>2 DEF Typed
      <4> QED BY <2>5, <4>1, <4>2, <4>3
    <3> QED BY <3>2, <3>3
  <2>16. CASE ClearFailures(r) \/ ResetFailures(r)
    <3>1. CASE mine
      BY <1>5, <2>16, <3>1 DEF ClearFailures, ResetFailures, Typed
    <3>2. CASE ~mine
      <4>1. ~p1 /\ ~f1 /\ ~f
        BY <2>7, <2>11, <2>16, <3>2, Flow
      <4>2. failures'[a] = failures[a] /\ marker' = marker /\ lost' = lost
            /\ (a \in lifted => a \in lifted')
        BY <2>16, <3>2 DEF ClearFailures, ResetFailures, Typed
      <4>3. Unbounded(a) => Unbounded(a)'
        BY <2>3, <3>2, <4>2 DEF Typed
      <4> QED BY <2>5, <4>1, <4>2, <4>3
    <3> QED BY <3>1, <3>2
  <2>17. CASE Verify(r)
    <3>1. failures' = failures /\ marker' = marker /\ lifted' = lifted /\ lost' = lost
      BY <2>17 DEF Verify, login
    <3>2. request[r].pc = "verify"
      BY <2>17 DEF Verify
    <3>3. Unbounded(a) => Unbounded(a)'
      BY <2>3, <3>1, <3>2 DEF Typed
    <3>4. ~f
      BY <2>11, <3>2 DEF Counting
    <3>5. p1 => p
      BY <2>6, <2>7, <2>11, <2>17, <3>2, Flow DEF Passing
    <3> QED BY <2>5, <3>1, <3>3, <3>4, <3>5
  <2>18. CASE FailAccount(r)
    <3>1. GoesTo(r, {"fail_ip"})
      BY <2>18, Flow
    <3>2. marker' = marker /\ lifted' = lifted /\ lost' = lost
          /\ request[r].pc = "fail_account"
      BY <2>18 DEF FailAccount
    <3>3. Unbounded(a) => Unbounded(a)'
      BY <2>3, <3>2 DEF Typed
    <3>4. CASE mine
      <4>1. p /\ ~f /\ ~p1 /\ f1
        BY <2>8, <2>10, <2>11, <3>1, <3>2, <3>4 DEF Passing, Counting
      <4>2. P1 = P - 1 /\ F1 = F + 1
        BY <2>2, <4>1
      <4>3. failures'[a] = Added(failures[a], request[r].at) /\ request[r].at \in Time
        BY <2>18, <3>4, NowType DEF FailAccount, Typed, Sorts
      <4>4. W1 <= W + 1
        BY <1>0, <4>3, FailureCountStep DEF W, W1
      <4>5. Locked(a)' = Locked(a)
        BY <3>2 DEF Locked
      <4> QED BY <1>1, <1>2, <1>3, <3>3, <4>2, <4>4, <4>5
    <3>5. CASE ~mine
      <4>1. ~p1 /\ ~f1 /\ ~f
        BY <2>7, <2>11, <3>1, <3>5
      <4>2. failures'[a] = failures[a]
        BY <2>18, <3>5 DEF FailAccount, Typed
      <4> QED BY <2>5, <3>2, <3>3, <4>1, <4>2
    <3> QED BY <3>4, <3>5
  <2>19. CASE FailIp(r)
    <3>1. GoesTo(r, {"fail_count"})
      BY <2>19, Flow
    <3>2. failures' = failures /\ marker' = marker /\ lifted' = lifted /\ lost' = lost
          /\ request[r].pc = "fail_ip"
      BY <2>19 DEF FailIp
    <3>3. Unbounded(a) => Unbounded(a)'
      BY <2>3, <3>2 DEF Typed
    <3>4. ~p1 /\ (f => f1)
      BY <2>8, <2>10, <2>11, <3>1 DEF Passing, Counting
    <3> QED BY <2>5, <3>2, <3>3, <3>4
  <2>20. CASE FailCount(r)
    <3> DEFINE kept == Pruned(failures[a], request[r].at - AccountWindow)
    <3>1. marker' = marker /\ lifted' = lifted /\ lost' = lost
          /\ request[r].pc = "fail_count"
      BY <2>20 DEF FailCount
    <3>2. Unbounded(a) => Unbounded(a)'
      BY <2>3, <3>1 DEF Typed
    <3>3. ~p /\ ~p1
      BY <2>6, <2>8, <2>11, <2>20, <3>1, Flow DEF Passing
    <3>4. CASE mine
      <4>1. failures'[a] = kept
        BY <2>20, <3>4 DEF FailCount, Typed
      <4>2. W1 <= W
        <5>1. failures[a] \in Counts
          BY DEF Typed
        <5>2. request[r].at - AccountWindow \in Int
          BY NowType DEF Sorts
        <5>3. \A t \in Time : failures'[a][t] <= failures[a][t]
          BY <4>1, <5>1, <5>2, PrunedCounts
        <5> QED BY <1>0, <5>3, FailureCountStep DEF W, W1
      <4>3. CASE Reached(kept)
        <5>1. GoesTo(r, {"fail_mark"})
          BY <2>20, <3>4, <4>3, GotoGoes DEF FailCount, Pcs
        <5>2. f1
          BY <2>10, <3>4, <5>1 DEF Counting
        <5> QED BY <2>4, <3>1, <3>2, <3>3, <4>2, <5>2 DEF Locked
      <4>4. CASE ~Reached(kept)
        <5>1. W1 <= Count(kept) /\ Count(kept) \in Nat
          BY <1>0, <4>1, FailureCountStep DEF W1
        <5> HIDE DEF kept
        <5>2. W1 <= PerAccountMax - 1
          BY <1>1, <4>4, <5>1 DEF Reached
        <5>3. P1 = P
          BY <2>2, <3>3
        <5> QED BY <1>1, <1>2, <1>3, <3>2, <4>2, <5>2, <5>3
      <4> QED BY <4>3, <4>4
    <3>5. CASE ~mine
      <4>1. failures'[a] = failures[a]
        BY <2>20, <3>5 DEF FailCount, Typed
      <4> QED BY <2>5, <2>11, <3>1, <3>2, <3>3, <3>5, <4>1
    <3> QED BY <3>4, <3>5
  <2>21. CASE FailMark(r)
    <3>1. ~p1 /\ ~f1
      BY <2>21, FailMarkType, IdleType DEF p1, f1, Of, Passing, Counting
    <3>2. failures' = failures /\ lifted' = lifted /\ lost' = lost
          /\ request[r].pc = "fail_mark"
      BY <2>21 DEF FailMark
    <3>3. Unbounded(a) => Unbounded(a)'
      BY <2>3, <3>2 DEF Typed
    <3>4. CASE mine
      <4>1. Locked(a)'
        <5>1. request[r].at # NoMarker
          BY NowType DEF Sorts, NoMarker
        <5> QED BY <2>21, <3>4, <5>1 DEF FailMark, Typed, Locked
      <4>2. ~p
        BY <2>11, <3>2 DEF Passing
      <4>3. P1 = P /\ W1 <= W
        BY <1>4, <2>2, <3>1, <3>2, <4>2
      <4> QED BY <1>1, <1>2, <1>3, <3>3, <4>1, <4>3
    <3>5. CASE ~mine
      <4>1. marker'[a] = marker[a]
        BY <2>21, <3>5 DEF FailMark, Typed
      <4> QED BY <2>5, <2>11, <3>1, <3>2, <3>3, <3>5, <4>1
    <3> QED BY <3>4, <3>5
  <2>22. CASE ResetMarker(r)
    <3>1. ~p1 /\ ~f1
      BY <2>6, <2>8, <2>9, <2>22, Flow DEF Passing, Counting
    <3>2. failures' = failures /\ lost' = lost /\ (a \in lifted => a \in lifted')
          /\ request[r].pc = "reset_marker"
      BY <2>22 DEF ResetMarker
    <3>3. Unbounded(a) => Unbounded(a)'
      BY <2>3, <3>2 DEF Typed
    <3>4. ~f
      BY <2>11, <3>2 DEF Counting
    <3>5. CASE mine /\ request[r].raced
      <4>1. Unbounded(a)'
        BY <2>22, <3>5 DEF ResetMarker, Unbounded
      <4> QED BY <1>3, <4>1
    <3>6. CASE ~(mine /\ request[r].raced)
      <4>1. mine => marker[a] = NoMarker
        BY <2>22, <3>6 DEF ResetMarker, CheckOK, Locked
      <4>2. marker'[a] = marker[a]
        BY <2>22, <4>1 DEF ResetMarker, Typed
      <4> QED BY <2>5, <3>1, <3>2, <3>3, <3>4, <4>2
    <3> QED BY <3>5, <3>6
  <2>23. CASE Leaves(r)
    <3>1. ~p1 /\ ~f1
      BY <2>6, <2>23, Flow
    <3>2. failures' = failures /\ marker' = marker /\ lifted' = lifted
      BY <2>23 DEF Leaves, login
    <3>3. lost \in Nat /\ lost' \in Nat
      BY DEF Typed
    <3>4. CASE Unrecorded(request[r])
      <4>1. Unbounded(a)'
        BY <2>23, <3>3, <3>4 DEF Leaves, Unbounded
      <4> QED BY <1>3, <4>1
    <3>5. CASE ~Unrecorded(request[r])
      <4>1. ~f /\ request[r].pc # "clear_failures" /\ lost' = lost
        BY <2>11, <2>23, <3>5 DEF Unrecorded, Counting, Leaves
      <4>2. Unbounded(a) => Unbounded(a)'
        BY <2>3, <3>2, <3>3, <4>1
      <4> QED BY <2>5, <3>1, <3>2, <4>1, <4>2
    <3> QED BY <3>4, <3>5
  <2> QED BY <1>7, <2>12, <2>13, <2>14, <2>15, <2>16, <2>17, <2>18, <2>19, <2>20, <2>21,
             <2>22, <2>23 DEF Plain
<1> QED BY <1>6, <1>7, Splits

LEMMA AttemptsInit == Init => AttemptsInv
<1> HAVE Init
<1>1. LockInv
  BY LockInit
<1>2. Typed
  BY <1>1 DEF LockInv
<1>3. /\ Cardinality(Requests) \in Nat
      /\ PerIpMax \in Nat \ {0} /\ PerAccountMax \in Nat \ {0}
  BY OfFinite, LimitsAssumption
<1>4. ASSUME NEW i \in Ips PROVE IpBounded(i)
  <2>1. From(i, AfterIpCheck) = {}
    BY IdleType DEF Init, From, AfterIpCheck
  <2>2. InWindow(attempts[i], IpWindow) = 0
    <3>1. attempts[i] = Empty /\ now - IpWindow \in Int
      BY LimitsAssumption DEF Init
    <3> QED BY <3>1, CountEmpty DEF InWindow
  <2> QED BY <1>3, <2>1, <2>2, FS_EmptySet DEF IpBounded
<1>5. ASSUME NEW a \in Accounts PROVE AccountBounded(a)
  <2>1. Of(a, {"verify", "fail_account"}) = {}
        /\ Of(a, {"fail_ip", "fail_count", "fail_mark"}) = {}
    BY IdleType DEF Init, Of
  <2>2. InWindow(failures[a], AccountWindow) = 0
    <3>1. failures[a] = Empty /\ now - AccountWindow \in Int
      BY LimitsAssumption DEF Init
    <3> QED BY <3>1, CountEmpty DEF InWindow
  <2>3. Cardinality(Of(a, {"verify", "fail_account"})) = 0
        /\ Cardinality(Of(a, {"fail_ip", "fail_count", "fail_mark"})) = 0
    BY <2>1, FS_EmptySet
  <2> QED BY <1>3, <2>2, <2>3 DEF AccountBounded, OpenBounded, FailuresBounded
<1> QED BY <1>1, <1>4, <1>5 DEF AttemptsInv

LEMMA AttemptsStep == AttemptsInv /\ [Next]_vars => AttemptsInv'
<1> SUFFICES ASSUME AttemptsInv, [Next]_vars PROVE AttemptsInv'
  OBVIOUS
<1>1. LockInv /\ LockInv'
  BY LockStep DEF AttemptsInv
<1>2. Typed /\ Typed' /\ \A r \in Requests : RequestOK(r) /\ CheckOK(r)
  BY <1>1 DEF LockInv
<1>3. \A i \in Ips : IpBounded(i)'
  BY <1>2, IpStep DEF AttemptsInv
<1>4. \A a \in Accounts : AccountBounded(a)'
  BY <1>2, AccountStep DEF AttemptsInv
<1> QED BY <1>1, <1>3, <1>4 DEF AttemptsInv

LEMMA AttemptsEnough == AttemptsInv => AttemptsBounded
<1> HAVE AttemptsInv
<1>1. Typed
  BY DEF AttemptsInv, LockInv
<1>2. Cardinality(Requests) \in Nat /\ PerIpMax \in Nat /\ PerAccountMax \in Nat
  BY OfFinite, LimitsAssumption
<1>3. ASSUME NEW i \in Ips
      PROVE  InWindow(attempts[i], IpWindow) <= PerIpMax - 1 + Cardinality(Requests)
  <2>1. IpBounded(i)
    BY DEF AttemptsInv
  <2>2. InWindow(attempts[i], IpWindow) \in Nat
    BY MembersFinite DEF InWindow
  <2>3. Cardinality(From(i, AfterIpCheck)) \in Nat
    BY OfFinite
  <2> QED BY <1>2, <2>1, <2>2, <2>3 DEF IpBounded
<1>4. ASSUME NEW a \in Accounts, ~Unbounded(a)
      PROVE  InWindow(failures[a], AccountWindow)
               <= PerAccountMax - 1 + Cardinality(Requests)
  <2>1. FailuresBounded(a)
    BY <1>4 DEF AttemptsInv, AccountBounded
  <2>2. InWindow(failures[a], AccountWindow) \in Nat
    BY MembersFinite DEF InWindow
  <2>3. Cardinality(Of(a, {"verify", "fail_account"})) \in Nat
    BY OfFinite
  <2> QED BY <1>2, <2>1, <2>2, <2>3 DEF FailuresBounded
<1> QED BY <1>3, <1>4 DEF AttemptsBounded, Unbounded

\* Requests that run at the same time overshoot the limits on attempts by less
\* than their number, for an account but for a lockout that did not take effect.
THEOREM AttemptsStayBounded == Spec => []AttemptsBounded
BY AttemptsInit, AttemptsStep, AttemptsEnough, PTL DEF Spec

-----------------------------------------------------------------------------
(* Mails *)

\* What a step of one request does to the slots of a key: nothing, it mails,
\* takes the slot of a mail or extends the life of the key.  A request comes to
\* mail after a check that has found a free slot.
Quiet(r, p, k) ==
  /\ mailed'[p][k] = mailed[p][k]
  /\ \A t \in Time : t > now - SendWindow => sends'[p][k][t] = sends[p][k][t]
  /\ \A t \in Time : sends'[p][k][t] <= sends[p][k][t]
  /\ ttl'[p][k] \in {ttl[p][k], NoTtl}
  /\ \/ /\ r \in Owing(p, k) <=> r \in Owing(p, k)'
        /\ r \in Charging(p, k) <=> r \in Charging(p, k)'
     \/ r \notin Charging(p, k)' /\ lost' = lost + 1
  /\ r \in Charging(p, k)' => request'[r].at = request[r].at
  /\ lost <= lost' /\ dropped' = dropped
  /\ \/ arrivals' = arrivals /\ (r \in Unsent' => r \in Unsent)
     \/ arrivals' = arrivals + 1
  /\ \/ r \in MayMail(p, k)' => r \in MayMail(p, k)
     \/ CountAfter(sends[p][k], now - SendWindow) <= Limit(k) - 1

Mailing(r, p, k) ==
  /\ mailed'[p][k] = Added(mailed[p][k], now) /\ sends' = sends /\ ttl' = ttl
  /\ r \notin Charging(p, k) /\ r \in Owing(p, k)' /\ request'[r].at = now
  /\ r \in MayMail(p, k) /\ r \notin MayMail(p, k)'
  /\ r \in Unsent /\ r \notin Unsent'
  /\ lost' = lost /\ dropped' = dropped /\ arrivals' = arrivals

Consuming(r, p, k) ==
  /\ mailed'[p][k] = mailed[p][k]
  /\ sends'[p][k] = Added(sends[p][k], request[r].at) /\ ttl' = ttl
  /\ r \in Owing(p, k) /\ r \notin Owing(p, k)' /\ r \in Charging(p, k)'
  /\ request'[r].at = request[r].at
  /\ r \notin MayMail(p, k)' /\ r \notin Unsent'
  /\ lost' = lost /\ dropped' = dropped /\ arrivals' = arrivals

Prolonging(r, p, k) ==
  /\ mailed'[p][k] = mailed[p][k] /\ sends' = sends
  /\ sends[p][k] = Empty \/ ttl'[p][k] = now + SendWindow
  /\ r \notin Owing(p, k) /\ r \notin Charging(p, k)'
  /\ r \notin MayMail(p, k)' /\ r \notin Unsent'
  /\ lost' = lost /\ dropped' = dropped /\ arrivals' = arrivals

Move(r, p, k) ==
  Quiet(r, p, k) \/ Mailing(r, p, k) \/ Consuming(r, p, k) \/ Prolonging(r, p, k)

LEMMA SendKeptAgrees ==
  ASSUME Typed, NEW r \in Requests, RequestOK(r), NEW k \in Keys
  PROVE  /\ \A t \in Time : t > now - SendWindow =>
              SendKept(r, k)[t] = sends[PrefixOf(r)][k][t]
         /\ \A t \in Time : SendKept(r, k)[t] <= sends[PrefixOf(r)][k][t]
         /\ CountAfter(sends[PrefixOf(r)][k], now - SendWindow) <= Count(SendKept(r, k))
         /\ CountAfter(sends[PrefixOf(r)][k], now - SendWindow) \in Nat
         /\ Count(SendKept(r, k)) \in Nat
<1> DEFINE z == sends[PrefixOf(r)][k]
           from == request[r].at - SendWindow
           start == now - SendWindow
<1>1. z \in Counts
  <2>1. PrefixOf(r) \in Prefix /\ k \in Accounts \cup Ips
    BY NowType DEF Sorts, Keys
  <2>2. sends \in [Prefix -> [Accounts \cup Ips -> Counts]]
    BY DEF Typed
  <2> QED BY <2>1, <2>2
<1>2. from \in Int /\ start \in Int /\ from <= start
  BY NowType DEF Sorts, RequestOK
<1>3. SendKept(r, k) = Pruned(z, from)
  BY DEF SendKept
<1> HIDE DEF z, from, start
<1>4. /\ Pruned(z, from) \in Counts /\ \A t \in Time : t > from => Pruned(z, from)[t] = z[t]
      /\ \A t \in Time : Pruned(z, from)[t] <= z[t]
  BY <1>1, <1>2, PrunedCounts
<1>5. \A t \in Time : t > start => t > from
  BY <1>2, LimitsAssumption DEF Time
<1>6. \A t \in Time : t > start => z[t] <= Pruned(z, from)[t]
  BY <1>1, <1>4, <1>5 DEF Counts
<1>7. start <= start
  BY <1>2
<1>8. CountAfter(z, start) <= CountAfter(Pruned(z, from), start)
  BY <1>1, <1>2, <1>4, <1>6, <1>7, CountLess
<1>9. CountAfter(Pruned(z, from), start) <= Count(Pruned(z, from))
  BY <1>2, <1>4, WindowCount
<1>10. /\ CountAfter(z, start) \in Nat /\ CountAfter(Pruned(z, from), start) \in Nat
       /\ Count(Pruned(z, from)) \in Nat
  BY MembersFinite DEF Count
<1>11. CountAfter(z, start) <= Count(Pruned(z, from))
  BY <1>8, <1>9, <1>10
<1> QED BY <1>3, <1>4, <1>5, <1>10, <1>11 DEF z, start

LEMMA Moves ==
  ASSUME Typed, Typed', NEW r \in Requests, RequestOK(r), RequestOK(r)',
         Arrive(r) \/ Plain(r) \/ FailMark(r), NEW p \in Prefix, NEW k \in Keys
  PROVE  Move(r, p, k)
<1> DEFINE mine == Sends(r, p, k)
           o == r \in Owing(p, k)
           o1 == r \in Owing(p, k)'
           c == r \in Charging(p, k)
           c1 == r \in Charging(p, k)'
           m == r \in MayMail(p, k)
           m1 == r \in MayMail(p, k)'
           u == r \in Unsent
           u1 == r \in Unsent'
<1>1. Ends(r) => ~o1 /\ ~c1 /\ ~m1 /\ ~u1
  BY IdleType DEF Ends, Owing, Charging, MayMail, Unsent, Sent, LoginSteps
<1>2. /\ o <=> mine /\ \/ request[r].pc = "consume_account"
                       \/ request[r].pc = "consume_ip" /\ k \in Ips
      /\ c <=> mine /\ \/ request[r].pc \in {"consume_account", "consume_ip", "expire_account"}
                       \/ request[r].pc = "expire_ip" /\ k \in Ips
      /\ m <=> mine /\ \/ request[r].pc = "mail"
                       \/ request[r].pc \in LoginSteps /\ request[r].kind = "email"
                       \/ request[r].pc = "send_account_check" /\ k \in Ips
      /\ u <=> request[r].pc \notin Sent
  BY DEF Owing, Charging, MayMail, Unsent
<1>3. ASSUME NEW pcs, GoesTo(r, pcs)
      PROVE  \E pc \in pcs :
        /\ request'[r].pc = pc
        /\ o1 <=> mine /\ \/ pc = "consume_account"
                          \/ pc = "consume_ip" /\ k \in Ips
        /\ c1 <=> mine /\ \/ pc \in {"consume_account", "consume_ip", "expire_account"}
                          \/ pc = "expire_ip" /\ k \in Ips
        /\ m1 <=> mine /\ \/ pc = "mail"
                          \/ pc \in LoginSteps /\ request[r].kind = "email"
                          \/ pc = "send_account_check" /\ k \in Ips
        /\ u1 <=> pc \notin Sent
  <2>1. request'[r].pc \in pcs
    BY <1>3 DEF GoesTo
  <2>2. Sends(r, p, k)' <=> mine
    BY <1>3 DEF GoesTo, Sends, PrefixOf
  <2>3. request'[r].kind = request[r].kind
    BY <1>3 DEF GoesTo
  <2> QED BY <2>1, <2>2, <2>3 DEF Owing, Charging, MayMail, Unsent
<1>4. mine => /\ p = PrefixOf(r) /\ (k = request[r].account \/ k = request[r].ip)
              /\ (k = request[r].account <=> k \in Accounts)
              /\ (k = request[r].ip <=> k \in Ips)
              /\ (k \in Accounts <=> k \notin Ips)
  BY NowType, KeysAssumption DEF Sends, Sorts, Keys
<1>5. lost \in Nat /\ lost <= lost /\ \A t \in Time : sends[p][k][t] <= sends[p][k][t]
  BY DEF Typed, Keys, Counts
<1> HIDE DEF mine, o, o1, c, c1, m, m1, u, u1
\* A step that leaves the slots and the mails alone.
<1>6. ASSUME mailed'[p][k] = mailed[p][k], sends'[p][k] = sends[p][k],
             ttl'[p][k] = ttl[p][k], lost' = lost, dropped' = dropped, arrivals' = arrivals,
             ~o /\ ~o1, ~c /\ ~c1, m1 => m, u1 => u
      PROVE  Move(r, p, k)
  BY <1>5, <1>6 DEF Move, Quiet, o, o1, c, c1, m, m1, u, u1
<1>7. CASE Arrive(r)
  <2>1. ~o /\ ~o1 /\ ~c /\ ~c1 /\ ~m1
    BY <1>2, <1>7, ArriveType
    DEF Arrive, Owing, Charging, MayMail, LoginSteps, o1, c1, m1
  <2> QED BY <1>5, <1>7, <2>1 DEF Arrive, Move, Quiet, o, o1, c, c1, m1
<1>8. CASE IpCheck(r) \/ LockoutCheck(r) \/ ClearMarker(r) \/ ClearFailures(r) \/ Verify(r)
           \/ FailAccount(r) \/ FailIp(r) \/ FailCount(r) \/ ResetFailures(r)
           \/ ResetMarker(r) \/ RecordIp(r)
  <2>1. /\ mailed' = mailed /\ sends' = sends /\ ttl' = ttl
        /\ lost' = lost /\ dropped' = dropped /\ arrivals' = arrivals
        /\ request[r].pc \in LoginSteps
    BY <1>8 DEF IpCheck, LockoutCheck, ClearMarker, ClearFailures, Verify, FailAccount,
       FailIp, FailCount, ResetFailures, ResetMarker, RecordIp, login, LoginSteps
  <2>2. Ends(r) \/ GoesTo(r, LoginSteps \cup {"mail"})
    <3>1. ASSUME NEW pcs, GoesTo(r, pcs), pcs \subseteq LoginSteps \cup {"mail"}
          PROVE  GoesTo(r, LoginSteps \cup {"mail"})
      BY <3>1 DEF GoesTo
    <3> QED BY <1>8, <3>1, Flow DEF LoginSteps
  <2>3. u /\ ~o /\ ~c
    BY <1>2, <2>1 DEF LoginSteps, Sent
  <2>4. request[r].kind \in {"login", "password", "email"}
    BY <2>1 DEF RequestOK
  <2>5. CASE Ends(r)
    BY <1>1, <1>6, <2>1, <2>3, <2>5
  <2>6. CASE GoesTo(r, LoginSteps \cup {"mail"})
    <3>1. PICK pc \in LoginSteps \cup {"mail"} :
            /\ request'[r].pc = pc
            /\ o1 <=> mine /\ \/ pc = "consume_account"
                              \/ pc = "consume_ip" /\ k \in Ips
            /\ c1 <=> mine /\ \/ pc \in {"consume_account", "consume_ip", "expire_account"}
                              \/ pc = "expire_ip" /\ k \in Ips
            /\ m1 <=> mine /\ \/ pc = "mail"
                              \/ pc \in LoginSteps /\ request[r].kind = "email"
                              \/ pc = "send_account_check" /\ k \in Ips
            /\ u1 <=> pc \notin Sent
      BY <1>3, <2>6
    <3>2. ~o1 /\ ~c1
      BY <3>1 DEF LoginSteps
    <3>3. pc = "mail" => request[r].kind = "email"
      <4>1. request'[r].kind = request[r].kind
        BY <2>6 DEF GoesTo
      <4>2. pc = "mail" => request'[r].kind \in {"email", "forgot"}
        BY <3>1 DEF RequestOK, SendSteps
      <4> QED BY <2>4, <4>1, <4>2
    <3>4. m1 => m
      BY <1>2, <2>1, <3>1, <3>3 DEF LoginSteps
    <3> QED BY <1>6, <2>1, <2>3, <3>2, <3>4
  <2> QED BY <2>2, <2>5, <2>6
<1>9. CASE FailMark(r)
  <2>1. ~o1 /\ ~c1 /\ ~m1 /\ ~u1
    BY <1>9, FailMarkType, IdleType
    DEF o1, c1, m1, u1, Owing, Charging, MayMail, Unsent, Sent, LoginSteps
  <2>2. ~o /\ ~c
    BY <1>2, <1>9 DEF FailMark
  <2> QED BY <1>6, <1>9, <2>1, <2>2 DEF FailMark
<1>10. CASE Leaves(r)
  <2>1. ~o1 /\ ~c1 /\ ~m1 /\ ~u1
    BY <1>1, <1>10, Flow
  <2>2. o \/ c => lost' = lost + 1
    BY <1>2, <1>10 DEF Leaves, Unrecorded
  <2>3. lost <= lost'
    BY <1>5, <1>10 DEF Leaves
  <2>4. /\ mailed' = mailed /\ sends' = sends /\ ttl' = ttl
        /\ dropped' = dropped /\ arrivals' = arrivals
    BY <1>10 DEF Leaves
  <2> QED BY <1>5, <2>1, <2>2, <2>3, <2>4 DEF Move, Quiet, o, o1, c, c1, m1, u1
<1>11. CASE SendIpCheck(r)
  <2>1. /\ request[r].pc = "send_ip_check"
        /\ sends' = [sends EXCEPT ![PrefixOf(r)][request[r].ip] = SendKept(r, request[r].ip)]
        /\ ttl' = [ttl EXCEPT ![PrefixOf(r)][request[r].ip] =
                     IF SendKept(r, request[r].ip) = Empty THEN NoTtl ELSE @]
        /\ mailed' = mailed /\ lost' = lost /\ dropped' = dropped /\ arrivals' = arrivals
    BY <1>11 DEF SendIpCheck, PruneSends
  <2>2. u /\ ~o /\ ~c /\ ~m
    BY <1>2, <2>1 DEF LoginSteps, Sent
  <2>3. ~o1 /\ ~c1
    <3>1. GoesTo(r, {"send_account_check"}) => ~o1 /\ ~c1
      BY <1>3
    <3> QED BY <1>1, <1>11, <3>1, Flow
  <2>4. CASE mine /\ k = request[r].ip
    <3>1. /\ sends'[p][k] = SendKept(r, k) /\ p = PrefixOf(r)
          /\ ttl'[p][k] \in {ttl[p][k], NoTtl}
      BY <1>4, <2>1, <2>4 DEF Typed
    <3>2. m1 => Count(SendKept(r, k)) < SendIpMax
      <4>1. Count(SendKept(r, k)) >= SendIpMax => Ends(r)
        BY <1>11, <2>4, FinishEnds DEF SendIpCheck
      <4>2. Count(SendKept(r, k)) \in Nat /\ SendIpMax \in Int
        BY SendKeptAgrees, LimitsAssumption DEF SendIpMax
      <4> QED BY <1>1, <4>1, <4>2
    <3>3. Limit(k) = SendIpMax /\ SendIpMax \in Int
      BY <1>4, <2>4, LimitsAssumption, NowType DEF Limit, Sorts, SendIpMax
    <3>4. m1 => CountAfter(sends[p][k], now - SendWindow) <= Limit(k) - 1
      BY <3>1, <3>2, <3>3, SendKeptAgrees
    <3>5. /\ \A t \in Time : t > now - SendWindow => sends'[p][k][t] = sends[p][k][t]
          /\ \A t \in Time : sends'[p][k][t] <= sends[p][k][t]
      BY <3>1, SendKeptAgrees
    <3> QED BY <1>5, <2>1, <2>2, <2>3, <3>1, <3>4, <3>5
        DEF Move, Quiet, o, o1, c, c1, m, m1, u, u1
  <2>5. CASE ~(mine /\ k = request[r].ip)
    <3>1. sends'[p][k] = sends[p][k] /\ ttl'[p][k] = ttl[p][k]
      <4>1. p # PrefixOf(r) \/ k # request[r].ip
        BY <2>5 DEF mine, Sends
      <4> QED BY <2>1, <4>1 DEF Typed
    <3>2. ~m1
      <4>1. GoesTo(r, {"send_account_check"}) => ~m1
        BY <1>3, <1>4, <2>5 DEF LoginSteps
      <4> QED BY <1>1, <1>11, <4>1, Flow
    <3> QED BY <1>6, <2>1, <2>2, <2>3, <3>1, <3>2
  <2> QED BY <2>4, <2>5
<1>12. CASE SendAccountCheck(r)
  <2> DEFINE a == request[r].account
  <2>1. /\ request[r].pc = "send_account_check"
        /\ sends' = [sends EXCEPT ![PrefixOf(r)][a] = SendKept(r, a)]
        /\ ttl' = [ttl EXCEPT ![PrefixOf(r)][a] =
                     IF SendKept(r, a) = Empty THEN NoTtl ELSE @]
        /\ mailed' = mailed /\ lost' = lost /\ dropped' = dropped /\ arrivals' = arrivals
    BY <1>12 DEF SendAccountCheck, PruneSends
  <2>2. u /\ ~o /\ ~c
    BY <1>2, <2>1 DEF Sent
  <2>3. ~o1 /\ ~c1
    <3>1. GoesTo(r, {"ip_check", "mail"}) => ~o1 /\ ~c1
      BY <1>3
    <3> QED BY <1>1, <1>12, <3>1, Flow
  <2>4. CASE mine /\ k = a
    <3>1. /\ sends'[p][k] = SendKept(r, k) /\ p = PrefixOf(r)
          /\ ttl'[p][k] \in {ttl[p][k], NoTtl}
      BY <1>4, <2>1, <2>4 DEF Typed
    <3>2. m1 => Count(SendKept(r, k)) < SendMax
      <4>1. \/ Finish(r)
            \/ Count(SendKept(r, k)) < SendMax
            \/ ~(Count(SendKept(r, k)) >= SendMax)
        BY <1>12, <2>4 DEF SendAccountCheck
      <4>2. Count(SendKept(r, k)) \in Nat /\ SendMax \in Int
        BY SendKeptAgrees, LimitsAssumption
      <4> QED BY <1>1, <4>1, <4>2, FinishEnds
    <3>3. Limit(k) = SendMax /\ SendMax \in Int
      BY <1>4, <2>4, LimitsAssumption, NowType DEF Limit, Sorts
    <3>4. m1 => CountAfter(sends[p][k], now - SendWindow) <= Limit(k) - 1
      BY <3>1, <3>2, <3>3, SendKeptAgrees
    <3>5. /\ \A t \in Time : t > now - SendWindow => sends'[p][k][t] = sends[p][k][t]
          /\ \A t \in Time : sends'[p][k][t] <= sends[p][k][t]
      BY <3>1, SendKeptAgrees
    <3> QED BY <1>5, <2>1, <2>2, <2>3, <3>1, <3>4, <3>5
        DEF Move, Quiet, o, o1, c, c1, m, m1, u, u1
  <2>5. CASE ~(mine /\ k = a)
    <3>1. sends'[p][k] = sends[p][k] /\ ttl'[p][k] = ttl[p][k]
      <4>1. p # PrefixOf(r) \/ k # a
        BY <2>5 DEF mine, Sends
      <4> QED BY <2>1, <4>1 DEF Typed
    <3>2. m1 => m
      <4>1. GoesTo(r, {"ip_check", "mail"}) => (m1 => mine)
        BY <1>3
      <4>2. mine => m
        BY <1>2, <1>4, <2>1, <2>5
      <4> QED BY <1>1, <1>12, <4>1, <4>2, Flow
    <3> QED BY <1>6, <2>1, <2>2, <2>3, <3>1, <3>2
  <2> QED BY <2>4, <2>5
<1>13. CASE Mail(r)
  <2>1. /\ request[r].pc = "mail" /\ sends' = sends /\ ttl' = ttl
        /\ lost' = lost /\ dropped' = dropped /\ arrivals' = arrivals
    BY <1>13 DEF Mail
  <2>2. u /\ ~o /\ ~c /\ (mine => m)
    BY <1>2, <2>1 DEF Sent
  <2>3. CASE Finish(r) /\ UNCHANGED mailed
    BY <1>1, <1>6, <2>1, <2>2, <2>3, FinishEnds
  <2>4. CASE SendMails(r) /\ Enter(r, "consume_account")
    <3>1. GoesTo(r, {"consume_account"}) /\ request'[r].at = now
      BY <2>4, EnterGoes DEF Pcs
    <3>2. (o1 <=> mine) /\ (c1 <=> mine) /\ ~m1 /\ ~u1
      BY <1>3, <3>1 DEF LoginSteps, Sent
    <3>3. CASE mine
      <4>1. mailed'[p][k] = Added(mailed[p][k], now)
        BY <2>4, <3>3 DEF SendMails, Mailed, mine, Sends, Typed, Keys
      <4> QED BY <2>1, <2>2, <3>1, <3>2, <3>3, <4>1
          DEF Move, Mailing, o, o1, c, c1, m, m1, u, u1
    <3>4. CASE ~mine
      <4>1. mailed'[p][k] = mailed[p][k]
        BY <2>4, <3>4 DEF SendMails, Mailed, mine, Sends, Typed, Keys
      <4> QED BY <1>6, <2>1, <2>2, <3>2, <3>4, <4>1
    <3> QED BY <3>3, <3>4
  <2> QED BY <1>13, <2>3, <2>4 DEF Mail, SendVerification, SendReset, SendChangeLinks
<1>14. CASE ConsumeAccount(r)
  <2>1. /\ request[r].pc = "consume_account" /\ mailed' = mailed /\ lost' = lost
        /\ arrivals' = arrivals /\ dropped' = dropped /\ ttl' = ttl
        /\ sends' = [sends EXCEPT ![PrefixOf(r)][request[r].account] = Added(@, request[r].at)]
    BY <1>14 DEF ConsumeAccount, TakeSlot
  <2>2. GoesTo(r, {"consume_ip"}) /\ request'[r].at = request[r].at
    BY <1>14, GotoGoes DEF ConsumeAccount, Pcs
  <2>3. (o <=> mine) /\ (o1 <=> mine /\ k \in Ips) /\ (c <=> mine) /\ (c1 <=> mine) /\ ~m1 /\ ~u1
    BY <1>2, <1>3, <2>1, <2>2 DEF LoginSteps, Sent
  <2>4. CASE mine /\ k = request[r].account
    <3>1. sends'[p][k] = Added(sends[p][k], request[r].at)
      BY <1>4, <2>1, <2>4 DEF Typed
    <3>2. o /\ ~o1
      BY <1>4, <2>3, <2>4
    <3> QED BY <2>1, <2>2, <2>3, <2>4, <3>1, <3>2 DEF Move, Consuming, o, o1, c, c1, m1, u1
  <2>5. CASE ~(mine /\ k = request[r].account)
    <3>1. sends'[p][k] = sends[p][k]
      <4>1. p # PrefixOf(r) \/ k # request[r].account
        BY <2>5 DEF mine, Sends
      <4> QED BY <2>1, <4>1 DEF Typed
    <3>2. o <=> o1
      BY <1>4, <2>3, <2>5
    <3> QED BY <1>5, <2>1, <2>2, <2>3, <3>1, <3>2 DEF Move, Quiet, o, o1, c, c1, m1, u1
  <2> QED BY <2>4, <2>5
<1>15. CASE ConsumeIp(r)
  <2>1. /\ request[r].pc = "consume_ip" /\ mailed' = mailed /\ lost' = lost
        /\ arrivals' = arrivals /\ dropped' = dropped /\ ttl' = ttl
        /\ sends' = [sends EXCEPT ![PrefixOf(r)][request[r].ip] = Added(@, request[r].at)]
    BY <1>15 DEF ConsumeIp, TakeSlot
  <2>2. GoesTo(r, {"expire_account"}) /\ request'[r].at = request[r].at
    BY <1>15, GotoGoes DEF ConsumeIp, Pcs
  <2>3. (o <=> mine /\ k \in Ips) /\ ~o1 /\ (c <=> mine) /\ (c1 <=> mine) /\ ~m1 /\ ~u1
    BY <1>2, <1>3, <2>1, <2>2 DEF LoginSteps, Sent
  <2>4. CASE mine /\ k = request[r].ip
    <3>1. sends'[p][k] = Added(sends[p][k], request[r].at)
      BY <1>4, <2>1, <2>4 DEF Typed
    <3>2. o
      BY <1>4, <2>3, <2>4
    <3> QED BY <2>1, <2>2, <2>3, <2>4, <3>1, <3>2 DEF Move, Consuming, o, o1, c, c1, m1, u1
  <2>5. CASE ~(mine /\ k = request[r].ip)
    <3>1. sends'[p][k] = sends[p][k]
      <4>1. p # PrefixOf(r) \/ k # request[r].ip
        BY <2>5 DEF mine, Sends
      <4> QED BY <2>1, <4>1 DEF Typed
    <3>2. ~o
      BY <1>4, <2>3, <2>5
    <3> QED BY <1>5, <2>1, <2>2, <2>3, <3>1, <3>2 DEF Move, Quiet, o, o1, c, c1, m1, u1
  <2> QED BY <2>4, <2>5
<1>16. CASE ExpireAccount(r)
  <2> DEFINE a == request[r].account
  <2>1. /\ request[r].pc = "expire_account" /\ mailed' = mailed /\ lost' = lost
        /\ arrivals' = arrivals /\ dropped' = dropped /\ sends' = sends
        /\ ttl' = [ttl EXCEPT ![PrefixOf(r)][a] =
                     IF sends[PrefixOf(r)][a] = Empty THEN @ ELSE now + SendWindow]
    BY <1>16 DEF ExpireAccount, Prolong
  <2>2. GoesTo(r, {"expire_ip"}) /\ request'[r].at = request[r].at
    BY <1>16, GotoGoes DEF ExpireAccount, Pcs
  <2>3. ~o /\ ~o1 /\ (c <=> mine) /\ (c1 <=> mine /\ k \in Ips) /\ ~m1 /\ ~u1
    BY <1>2, <1>3, <2>1, <2>2 DEF LoginSteps, Sent
  <2>4. CASE mine /\ k = a
    <3>1. sends[p][k] = Empty \/ ttl'[p][k] = now + SendWindow
      BY <1>4, <2>1, <2>4 DEF Typed
    <3>2. ~c1
      BY <1>4, <2>3, <2>4
    <3> QED BY <2>1, <2>3, <3>1, <3>2 DEF Move, Prolonging, o, o1, c, c1, m1, u1
  <2>5. CASE ~(mine /\ k = a)
    <3>1. ttl'[p][k] = ttl[p][k]
      <4>1. p # PrefixOf(r) \/ k # a
        BY <2>5 DEF mine, Sends
      <4> QED BY <2>1, <4>1 DEF Typed
    <3>2. c <=> c1
      BY <1>4, <2>3, <2>5
    <3> QED BY <1>5, <2>1, <2>2, <2>3, <3>1, <3>2 DEF Move, Quiet, o, o1, c, c1, m1, u1
  <2> QED BY <2>4, <2>5
<1>17. CASE ExpireIp(r)
  <2> DEFINE i == request[r].ip
  <2>1. /\ request[r].pc = "expire_ip" /\ mailed' = mailed /\ lost' = lost
        /\ arrivals' = arrivals /\ dropped' = dropped /\ sends' = sends /\ Ends(r)
        /\ ttl' = [ttl EXCEPT ![PrefixOf(r)][i] =
                     IF sends[PrefixOf(r)][i] = Empty THEN @ ELSE now + SendWindow]
    BY <1>17, FinishEnds DEF ExpireIp, Prolong
  <2>2. ~o /\ ~o1 /\ (c <=> mine /\ k \in Ips) /\ ~c1 /\ ~m1 /\ ~u1
    BY <1>1, <1>2, <2>1
  <2>3. CASE mine /\ k = i
    <3>1. sends[p][k] = Empty \/ ttl'[p][k] = now + SendWindow
      BY <1>4, <2>1, <2>3 DEF Typed
    <3> QED BY <2>1, <2>2, <3>1 DEF Move, Prolonging, o, o1, c, c1, m1, u1
  <2>4. CASE ~(mine /\ k = i)
    <3>1. ttl'[p][k] = ttl[p][k]
      <4>1. p # PrefixOf(r) \/ k # i
        BY <2>4 DEF mine, Sends
      <4> QED BY <2>1, <4>1 DEF Typed
    <3>2. ~c
      BY <1>4, <2>2, <2>4
    <3> QED BY <1>6, <2>1, <2>2, <3>1, <3>2
  <2> QED BY <2>3, <2>4
<1> QED BY <1>7, <1>8, <1>9, <1>10, <1>11, <1>12, <1>13, <1>14, <1>15, <1>16, <1>17
    DEF Plain, ConsumeOnSend

LEMMA SlotSets ==
  ASSUME NEW p, NEW k, NEW t, NEW from
  PROVE  /\ IsFiniteSet(Owing(p, k)) /\ IsFiniteSet(OwingAt(p, k, t))
         /\ IsFiniteSet(OwingSince(p, k, from)) /\ IsFiniteSet(ChargingSince(p, k, from))
         /\ IsFiniteSet(MayMail(p, k)) /\ IsFiniteSet(Unsent)
         /\ Cardinality(OwingAt(p, k, t)) \in Nat
         /\ Cardinality(OwingSince(p, k, from)) \in Nat
         /\ Cardinality(ChargingSince(p, k, from)) \in Nat
         /\ Cardinality(MayMail(p, k)) \in Nat /\ Cardinality(Unsent) \in Nat
         /\ Cardinality(Requests) \in Nat
<1>1. /\ Owing(p, k) \subseteq Requests /\ OwingAt(p, k, t) \subseteq Requests
      /\ OwingSince(p, k, from) \subseteq Requests /\ MayMail(p, k) \subseteq Requests
      /\ ChargingSince(p, k, from) \subseteq Requests /\ Unsent \subseteq Requests
  BY DEF Owing, OwingAt, OwingSince, Charging, ChargingSince, MayMail, Unsent
<1> QED BY <1>1, KeysAssumption, NoMore

LEMMA OwingCharges ==
  ASSUME NEW p, NEW k, NEW from
  PROVE  /\ Owing(p, k) \subseteq Charging(p, k) /\ Owing(p, k)' \subseteq Charging(p, k)'
         /\ OwingSince(p, k, from) \subseteq ChargingSince(p, k, from)
<1>1. Owing(p, k) \subseteq Charging(p, k) /\ Owing(p, k)' \subseteq Charging(p, k)'
  BY DEF Owing, Charging
<1> QED BY <1>1 DEF OwingSince, ChargingSince

\* A request that owes a slot does not mail again.
LEMMA OwingOrMailing ==
  ASSUME NEW p, NEW k
  PROVE  /\ Cardinality(OwingSince(p, k, now - SendWindow)') + Cardinality(MayMail(p, k)')
              <= Cardinality(Requests)
         /\ Cardinality(OwingSince(p, k, now - SendWindow)') \in Nat
<1> DEFINE P == OwingSince(p, k, now - SendWindow)'
           F == MayMail(p, k)'
<1>1. P \subseteq Requests /\ F \subseteq Requests /\ P \cap F = {}
  BY DEF OwingSince, Owing, MayMail, LoginSteps
<1>2. IsFiniteSet(P) /\ IsFiniteSet(F) /\ Cardinality(P) \in Nat /\ Cardinality(F) \in Nat
  BY <1>1, KeysAssumption, NoMore
<1> HIDE DEF P, F
<1>3. Cardinality(P \cup F) = Cardinality(P) + Cardinality(F) - Cardinality(P \cap F)
  BY <1>2, FS_Union
<1>4. Cardinality(P \cap F) = 0
  BY <1>1, FS_EmptySet
<1>5. Cardinality(P \cup F) <= Cardinality(Requests)
  BY <1>1, KeysAssumption, NoMore
<1>6. Cardinality(P) + Cardinality(F) <= Cardinality(Requests)
  BY <1>2, <1>3, <1>4, <1>5
<1> QED BY <1>2, <1>6 DEF P, F

\* Mails in a window either have a slot or miss one.
LEMMA MissingCount ==
  ASSUME NEW z, NEW s, NEW from
  PROVE  /\ CountAfter(z, from)
              <= CountAfter(s, from) + Cardinality(Members(z, from) \ Members(s, from))
         /\ IsFiniteSet(Members(z, from) \ Members(s, from))
         /\ Cardinality(Members(z, from) \ Members(s, from)) \in Nat
<1> DEFINE M == Members(z, from)
           S == Members(s, from)
<1>1. IsFiniteSet(M) /\ IsFiniteSet(S)
  BY MembersFinite
<1>2. CountAfter(z, from) = Cardinality(M) /\ CountAfter(s, from) = Cardinality(S)
  BY DEF CountAfter
<1> HIDE DEF M, S
<1>3. Cardinality(M \ S) = Cardinality(M) - Cardinality(M \cap S) /\ IsFiniteSet(M \ S)
  BY <1>1, FS_Difference
<1>4. Cardinality(M \cap S) <= Cardinality(S) /\ Cardinality(M \cap S) \in Nat
  BY <1>1, NoMore
<1>5. Cardinality(M) \in Nat /\ Cardinality(S) \in Nat /\ Cardinality(M \ S) \in Nat
  BY <1>1, <1>3, FS_CardinalityType
<1>6. CountAfter(z, from) <= CountAfter(s, from) + Cardinality(M \ S)
  BY <1>2, <1>3, <1>4, <1>5
<1> QED BY <1>3, <1>5, <1>6 DEF M, S

OthersSame(r) ==
  \A q \in Requests \ {r} :
    /\ request'[q].pc = request[q].pc /\ request'[q].account = request[q].account
    /\ request'[q].ip = request[q].ip /\ request'[q].kind = request[q].kind
    /\ request'[q].at = request[q].at

LEMMA MoveSets ==
  ASSUME NEW r \in Requests, OthersSame(r), NEW p, NEW k, NEW from
  PROVE  /\ Unsent \ {r} = Unsent' \ {r}
         /\ MayMail(p, k) \ {r} = MayMail(p, k)' \ {r}
         /\ \A t \in Time : OwingAt(p, k, t) \ {r} = OwingAt(p, k, t)' \ {r}
         /\ OwingSince(p, k, from) \ {r} = OwingSince(p, k, from)' \ {r}
         /\ ChargingSince(p, k, from) \ {r} = ChargingSince(p, k, from)' \ {r}
<1>1. Unsent \ {r} = Unsent' \ {r}
  BY DEF Unsent, OthersSame
<1>2. MayMail(p, k) \ {r} = MayMail(p, k)' \ {r}
  BY DEF MayMail, OthersSame, Sends, PrefixOf
<1>3. /\ Owing(p, k) \ {r} = Owing(p, k)' \ {r}
      /\ Owing(p, k) \subseteq Requests /\ Owing(p, k)' \subseteq Requests
  BY DEF Owing, OthersSame, Sends, PrefixOf
<1>4. /\ Charging(p, k) \ {r} = Charging(p, k)' \ {r}
      /\ Charging(p, k) \subseteq Requests /\ Charging(p, k)' \subseteq Requests
  BY DEF Charging, OthersSame, Sends, PrefixOf
<1>5. \A t \in Time : OwingAt(p, k, t) \ {r} = OwingAt(p, k, t)' \ {r}
  BY <1>3 DEF OwingAt, OthersSame
<1>6. OwingSince(p, k, from) \ {r} = OwingSince(p, k, from)' \ {r}
  BY <1>3 DEF OwingSince, OthersSame
<1>7. ChargingSince(p, k, from) \ {r} = ChargingSince(p, k, from)' \ {r}
  BY <1>4 DEF ChargingSince, OthersSame
<1> QED BY <1>1, <1>2, <1>5, <1>6, <1>7

LEMMA ArrivedMove ==
  ASSUME Typed, Typed', NEW r \in Requests, OthersSame(r), now' = now,
         NEW p \in Prefix, NEW k \in Keys, MailsArrived(p, k),
         Move(r, p, k)
  PROVE  MailsArrived(p, k)'
<1> SUFFICES ASSUME NEW t \in Time
             PROVE  mailed'[p][k][t] + Cardinality(Unsent') <= arrivals'
  BY DEF MailsArrived
<1>1. mailed[p][k] \in Counts /\ mailed'[p][k] \in Counts
  BY DEF Typed, Keys
<1>2. mailed[p][k][t] \in Nat /\ mailed'[p][k][t] \in Nat
  BY <1>1 DEF Counts
<1>3. mailed[p][k][t] + Cardinality(Unsent) <= arrivals
  BY DEF MailsArrived
<1>4. /\ Cardinality(Unsent) \in Nat /\ Cardinality(Unsent') \in Nat
      /\ Cardinality(Unsent') <= Cardinality(Unsent) + 1
      /\ (r \in Unsent' => r \in Unsent) => Cardinality(Unsent') <= Cardinality(Unsent)
      /\ r \in Unsent /\ r \notin Unsent' => Cardinality(Unsent') = Cardinality(Unsent) - 1
  <2>1. IsFiniteSet(Unsent) /\ Unsent \ {r} = Unsent' \ {r}
    BY SlotSets, MoveSets
  <2> QED BY <2>1, SameBut
<1>5. arrivals \in Nat /\ arrivals' \in Nat
  BY DEF Typed
<1>6. CASE Quiet(r, p, k)
  BY <1>2, <1>3, <1>4, <1>5, <1>6 DEF Quiet
<1>7. CASE Mailing(r, p, k)
  <2>1. mailed'[p][k][t] <= mailed[p][k][t] + 1
    BY <1>1, <1>2, <1>7 DEF Mailing, Added, Counts
  <2> QED BY <1>2, <1>3, <1>4, <1>5, <1>7, <2>1 DEF Mailing
<1>8. CASE Consuming(r, p, k)
  BY <1>2, <1>3, <1>4, <1>5, <1>8 DEF Consuming
<1>9. CASE Prolonging(r, p, k)
  BY <1>2, <1>3, <1>4, <1>5, <1>9 DEF Prolonging
<1> QED BY <1>6, <1>7, <1>8, <1>9 DEF Move

LEMMA CoveredMove ==
  ASSUME Typed, Typed', NEW r \in Requests, OthersSame(r), now' = now,
         NEW p \in Prefix, NEW k \in Keys, SlotsCovered(p, k),
         Move(r, p, k)
  PROVE  SlotsCovered(p, k)'
<1> SUFFICES ASSUME NEW t \in Time, t > now - SendWindow
             PROVE  sends'[p][k][t] + Cardinality(OwingAt(p, k, t)') <= mailed'[p][k][t]
  BY DEF SlotsCovered
<1> DEFINE c == Cardinality(OwingAt(p, k, t))
           c1 == Cardinality(OwingAt(p, k, t)')
           o == r \in OwingAt(p, k, t)
           o1 == r \in OwingAt(p, k, t)'
<1>1. /\ mailed[p][k] \in Counts /\ mailed'[p][k] \in Counts
      /\ sends[p][k] \in Counts /\ sends'[p][k] \in Counts
  BY DEF Typed, Keys
<1>2. /\ mailed[p][k][t] \in Nat /\ mailed'[p][k][t] \in Nat
      /\ sends[p][k][t] \in Nat /\ sends'[p][k][t] \in Nat
  BY <1>1 DEF Counts
<1>3. sends[p][k][t] + c <= mailed[p][k][t]
  BY DEF SlotsCovered
<1>4. /\ c \in Nat /\ c1 \in Nat /\ c1 <= c + 1
      /\ (o1 => o) => c1 <= c
      /\ o /\ ~o1 => c1 = c - 1
  <2>1. IsFiniteSet(OwingAt(p, k, t)) /\ OwingAt(p, k, t) \ {r} = OwingAt(p, k, t)' \ {r}
    BY SlotSets, MoveSets
  <2> QED BY <2>1, SameBut
<1>5. /\ o <=> r \in Owing(p, k) /\ request[r].at = t
      /\ o1 <=> r \in Owing(p, k)' /\ request'[r].at = t
  BY DEF OwingAt
<1> HIDE DEF c, c1, o, o1
<1>6. CASE Quiet(r, p, k)
  <2>1. o1 => o
    BY <1>5, <1>6, OwingCharges DEF Quiet
  <2> QED BY <1>2, <1>3, <1>4, <1>6, <2>1 DEF Quiet, c1
<1>7. CASE Mailing(r, p, k)
  <2>1. CASE t = now
    <3>1. mailed'[p][k][t] = mailed[p][k][t] + 1
      BY <1>1, <1>7, <2>1 DEF Mailing, Added, Counts
    <3> QED BY <1>2, <1>3, <1>4, <1>7, <3>1 DEF Mailing, c1
  <2>2. CASE t # now
    <3>1. mailed'[p][k][t] = mailed[p][k][t]
      BY <1>1, <1>7, <2>2 DEF Mailing, Added, Counts
    <3>2. ~o1
      BY <1>5, <1>7, <2>2 DEF Mailing
    <3> QED BY <1>2, <1>3, <1>4, <1>7, <3>1, <3>2 DEF Mailing, c1
  <2> QED BY <2>1, <2>2
<1>8. CASE Consuming(r, p, k)
  <2>1. ~o1
    BY <1>5, <1>8 DEF Consuming
  <2>2. CASE t = request[r].at
    <3>1. sends'[p][k][t] = sends[p][k][t] + 1
      BY <1>1, <1>8, <2>2 DEF Consuming, Added, Counts
    <3>2. o
      BY <1>5, <1>8, <2>2 DEF Consuming
    <3> QED BY <1>2, <1>3, <1>4, <1>8, <2>1, <3>1, <3>2 DEF Consuming, c1
  <2>3. CASE t # request[r].at
    <3>1. sends'[p][k][t] = sends[p][k][t]
      BY <1>1, <1>8, <2>3 DEF Consuming, Added, Counts
    <3> QED BY <1>2, <1>3, <1>4, <1>8, <2>1, <3>1 DEF Consuming, c1
  <2> QED BY <2>2, <2>3
<1>9. CASE Prolonging(r, p, k)
  <2>1. ~o1
    BY <1>5, <1>9, OwingCharges DEF Prolonging
  <2> QED BY <1>2, <1>3, <1>4, <1>9, <2>1 DEF Prolonging, c1
<1> QED BY <1>6, <1>7, <1>8, <1>9 DEF Move

LEMMA PastMove ==
  ASSUME Typed, Typed', NEW r \in Requests, RequestOK(r), now' = now,
         NEW p \in Prefix, NEW k \in Keys, NotInFuture(sends[p][k]), Move(r, p, k)
  PROVE  NotInFuture(sends[p][k])'
<1> SUFFICES ASSUME NEW t \in Time, sends'[p][k][t] > 0, ~(t <= now) PROVE FALSE
  BY DEF NotInFuture
<1>1. sends[p][k] \in Counts /\ sends'[p][k] \in Counts
  BY DEF Typed, Keys
<1>2. /\ sends[p][k][t] \in Nat /\ sends'[p][k][t] \in Nat
      /\ request[r].at \in Time /\ request[r].at <= now
  BY <1>1, NowType DEF Counts, Sorts, RequestOK
<1>3. sends[p][k][t] = 0
  BY <1>2 DEF NotInFuture
<1>4. CASE Quiet(r, p, k)
  <2>1. sends'[p][k][t] <= sends[p][k][t]
    BY <1>4 DEF Quiet
  <2> QED BY <1>2, <1>3, <2>1
<1>5. CASE Mailing(r, p, k) \/ Prolonging(r, p, k)
  BY <1>3, <1>5 DEF Mailing, Prolonging
<1>6. CASE Consuming(r, p, k)
  <2>1. sends'[p][k][t] = sends[p][k][t]
    BY <1>1, <1>2, <1>6 DEF Consuming, Added, Counts
  <2> QED BY <1>3, <2>1
<1> QED BY <1>4, <1>5, <1>6 DEF Move

LEMMA NatSum == \A a, b \in Nat : a + b \in Nat
OBVIOUS

\* What a window holds of mails without a slot, and of slots that are exposed.
LEMMA SlotsFinite ==
  ASSUME NEW p, NEW k, NEW from
  PROVE  /\ IsFiniteSet(Missing(p, k, from)) /\ IsFiniteSet(Missing(p, k, from)')
         /\ IsFiniteSet(Missing(p, k, from) \cup Exposed(p, k, from))
         /\ Cardinality(Missing(p, k, from)) \in Nat
         /\ Cardinality(Missing(p, k, from) \cup Exposed(p, k, from)) \in Nat
<1>1. /\ Missing(p, k, from) \subseteq Members(mailed[p][k], from)
      /\ Missing(p, k, from)' \subseteq Members(mailed'[p][k], from)
      /\ Exposed(p, k, from) \subseteq Members(sends[p][k], from)
  BY DEF Missing, Exposed, Members
<1>2. /\ IsFiniteSet(Missing(p, k, from)) /\ IsFiniteSet(Missing(p, k, from)')
      /\ IsFiniteSet(Exposed(p, k, from))
  BY <1>1, MembersFinite, NoMore
<1>3. IsFiniteSet(Missing(p, k, from) \cup Exposed(p, k, from))
  BY <1>2, FS_Union
<1> QED BY <1>2, <1>3, FS_CardinalityType

LEMMA OwedMove ==
  ASSUME Typed, Typed', NEW r \in Requests, OthersSame(r), now' = now,
         arrivals <= MaxArrivals, NEW p \in Prefix, NEW k \in Keys,
         NotInFuture(sends[p][k]), MailsArrived(p, k), SlotsCovered(p, k),
         SlotsOwed(p, k), SlotsExposed(p, k), Move(r, p, k)
  PROVE  SlotsOwed(p, k)' /\ SlotsExposed(p, k)'
<1> SUFFICES ASSUME NEW from \in Starts
    PROVE  /\ Cardinality(Missing(p, k, from)')
                <= Cardinality(OwingSince(p, k, from)') + lost' + dropped'
           /\ Cardinality(Missing(p, k, from)' \cup Exposed(p, k, from)')
                <= Cardinality(ChargingSince(p, k, from)') + lost' + dropped'
  <2>1. Starts' = Starts
    BY DEF Starts
  <2> QED BY <2>1 DEF SlotsOwed, SlotsExposed
<1> DEFINE M == Members(mailed[p][k], from)
           S == Members(sends[p][k], from)
           M1 == Members(mailed'[p][k], from)
           S1 == Members(sends'[p][k], from)
           D == Missing(p, k, from)
           D1 == Missing(p, k, from)'
           E == Exposed(p, k, from)
           E1 == Exposed(p, k, from)'
           w == Cardinality(OwingSince(p, k, from))
           w1 == Cardinality(OwingSince(p, k, from)')
           c == Cardinality(ChargingSince(p, k, from))
           c1 == Cardinality(ChargingSince(p, k, from)')
           o == r \in OwingSince(p, k, from)
           o1 == r \in OwingSince(p, k, from)'
           g == r \in ChargingSince(p, k, from)
           g1 == r \in ChargingSince(p, k, from)'
           gone == lost + dropped
           gone1 == lost' + dropped'
<1>1. /\ mailed[p][k] \in Counts /\ mailed'[p][k] \in Counts
      /\ sends[p][k] \in Counts /\ sends'[p][k] \in Counts
  BY DEF Typed, Keys
<1>2. /\ from \in Int /\ from >= now - SendWindow /\ now \in Time /\ now - SendWindow \in Int
      /\ request[r].at \in Time /\ Time \subseteq Int /\ SendWindow \in Nat
  <2>1. /\ request[r].at \in Time /\ now - SendWindow \in Int /\ SendWindow \in Nat
    BY NowType DEF Sorts
  <2>2. Time \subseteq Int
    BY LimitsAssumption DEF Time
  <2>3. now \in Time
    BY DEF Typed
  <2> QED BY <2>1, <2>2, <2>3 DEF Starts
<1>3. /\ lost \in Nat /\ lost' \in Nat /\ dropped \in Nat /\ dropped' \in Nat
      /\ gone \in Nat /\ gone1 \in Nat
  <2>1. lost \in Nat /\ lost' \in Nat
    BY DEF Typed
  <2>2. dropped \in Nat /\ dropped' \in Nat
    BY DEF Typed
  <2>3. gone \in Nat /\ gone1 \in Nat
    BY <2>1, <2>2, NatSum
  <2> QED BY <2>1, <2>2, <2>3
<1>4. D = M \ S /\ D1 = M1 \ S1
  BY DEF Missing
<1>5. /\ M = {x \in Time \X (1 .. MaxArrivals) : x[1] > from /\ x[2] <= mailed[p][k][x[1]]}
      /\ M1 = {x \in Time \X (1 .. MaxArrivals) : x[1] > from /\ x[2] <= mailed'[p][k][x[1]]}
      /\ S = {x \in Time \X (1 .. MaxArrivals) : x[1] > from /\ x[2] <= sends[p][k][x[1]]}
      /\ S1 = {x \in Time \X (1 .. MaxArrivals) : x[1] > from /\ x[2] <= sends'[p][k][x[1]]}
      /\ \A x \in Time \X (1 .. MaxArrivals) :
           x[1] \in Time /\ x[1] \in Int /\ x[2] \in Nat \ {0} /\ x = <<x[1], x[2]>>
  <2>1. Time \subseteq Int /\ 1 .. MaxArrivals \subseteq Nat \ {0}
    BY LimitsAssumption DEF Time
  <2>2. \A x \in Time \X (1 .. MaxArrivals) :
          x[1] \in Time /\ x[2] \in 1 .. MaxArrivals /\ x = <<x[1], x[2]>>
    OBVIOUS
  <2>3. \A x \in Time \X (1 .. MaxArrivals) :
          x[1] \in Time /\ x[1] \in Int /\ x[2] \in Nat \ {0} /\ x = <<x[1], x[2]>>
    BY <2>1, <2>2
  <2> QED BY <2>3 DEF Members
<1>6. /\ E = {x \in S : ttl[p][k] # NoTtl /\ x[1] + SendWindow > ttl[p][k]}
      /\ E1 = {x \in S1 : ttl'[p][k] # NoTtl /\ x[1] + SendWindow > ttl'[p][k]}
  BY DEF Exposed
<1>7. /\ IsFiniteSet(D) /\ IsFiniteSet(D \cup E)
      /\ Cardinality(D) \in Nat /\ Cardinality(D \cup E) \in Nat
  BY SlotsFinite
<1>8. Cardinality(D) <= w + gone /\ Cardinality(D \cup E) <= c + gone
  BY <1>3, SlotSets DEF SlotsOwed, SlotsExposed
<1>9. /\ w \in Nat /\ w1 \in Nat
      /\ (o <=> o1) => w1 = w
      /\ o /\ ~o1 => w1 = w - 1
      /\ ~o /\ o1 => w1 = w + 1
  BY SlotSets, MoveSets, SameBut
<1>10. /\ c \in Nat /\ c1 \in Nat
       /\ (g <=> g1) => c1 = c
       /\ g /\ ~g1 => c1 = c - 1
       /\ ~g /\ g1 => c1 = c + 1
  BY SlotSets, MoveSets, SameBut
<1>11. /\ o <=> r \in Owing(p, k) /\ request[r].at > from
       /\ o1 <=> r \in Owing(p, k)' /\ request'[r].at > from
       /\ g <=> r \in Charging(p, k) /\ request[r].at > from
       /\ g1 <=> r \in Charging(p, k)' /\ request'[r].at > from
       /\ r \in Owing(p, k) => r \in Charging(p, k)
       /\ r \in Owing(p, k)' => r \in Charging(p, k)'
  BY OwingCharges DEF OwingSince, ChargingSince
<1>12. OwingSince(p, k, from) \subseteq ChargingSince(p, k, from)
       /\ ChargingSince(p, k, from) \ {r} = ChargingSince(p, k, from)' \ {r}
  BY OwingCharges, MoveSets
<1> SUFFICES Cardinality(D1) <= w1 + gone1 /\ Cardinality(D1 \cup E1) <= c1 + gone1
  BY <1>3, <1>9, <1>10
<1> HIDE DEF M, S, M1, S1, D, D1, E, E1, w, w1, c, c1, o, o1, g, g1
\* What is enough for a step that adds nothing to either set.
<1>13. ASSUME D1 \subseteq D, D1 \cup E1 \subseteq D \cup E,
              w + gone <= w1 + gone1, c + gone <= c1 + gone1
       PROVE  Cardinality(D1) <= w1 + gone1 /\ Cardinality(D1 \cup E1) <= c1 + gone1
  <2>1. Cardinality(D1) <= Cardinality(D) /\ Cardinality(D1) \in Nat
        /\ Cardinality(D1 \cup E1) <= Cardinality(D \cup E) /\ Cardinality(D1 \cup E1) \in Nat
    BY <1>7, <1>13, NoMore
  <2> HIDE DEF gone, gone1
  <2> QED BY <1>3, <1>7, <1>8, <1>9, <1>10, <1>13, <2>1
<1>14. CASE Quiet(r, p, k)
  <2>1. M1 = M /\ S1 = S
    <3>1. \A t \in Time : t > from => sends'[p][k][t] = sends[p][k][t]
      BY <1>2, <1>14 DEF Quiet
    <3> QED BY <1>5, <1>14, <3>1 DEF Quiet
  <2>2. D1 = D /\ E1 \subseteq E
    BY <1>4, <1>6, <1>14, <2>1 DEF Quiet
  <2>3. \/ (o <=> o1) /\ (g <=> g1) /\ gone <= gone1
        \/ ~o1 /\ ~g1 /\ gone1 = gone + 1
    <3>1. lost <= lost' /\ dropped' = dropped
          /\ (r \in Charging(p, k)' => request'[r].at = request[r].at)
      BY <1>14 DEF Quiet
    <3>2. CASE /\ r \in Owing(p, k) <=> r \in Owing(p, k)'
               /\ r \in Charging(p, k) <=> r \in Charging(p, k)'
      <4>1. (o <=> o1) /\ (g <=> g1)
        BY <1>11, <3>1, <3>2
      <4> QED BY <1>3, <3>1, <4>1
    <3>3. CASE r \notin Charging(p, k)' /\ lost' = lost + 1
      BY <1>3, <1>11, <3>1, <3>3
    <3> QED BY <1>14, <3>2, <3>3 DEF Quiet
  <2>4. w + gone <= w1 + gone1 /\ c + gone <= c1 + gone1
    <3> HIDE DEF gone, gone1
    <3> QED BY <1>3, <1>9, <1>10, <2>3
  <2> QED BY <1>13, <2>2, <2>4
<1>15. CASE Mailing(r, p, k)
  <2> DEFINE x0 == <<now, mailed[p][k][now] + 1>>
  <2>1. \A t \in Time : mailed'[p][k][t] = IF t = now THEN mailed[p][k][now] + 1
                                                      ELSE mailed[p][k][t]
    BY <1>1, <1>2, <1>15 DEF Mailing, Added, Counts
  <2>2. \A t \in Time : mailed[p][k][t] \in Nat
    BY <1>1 DEF Counts
  <2>3. S1 = S /\ E1 = E /\ gone1 = gone
    <3>1. S1 = S
      BY <1>5, <1>15 DEF Mailing
    <3> QED BY <1>6, <1>15, <3>1 DEF Mailing
  <2>4. ~o /\ ~g /\ (o1 <=> now > from) /\ (g1 <=> now > from)
    BY <1>11, <1>15 DEF Mailing
  <2>5. M1 \subseteq M \cup {x0}
    <3> SUFFICES ASSUME NEW x \in M1, x # x0 PROVE x \in M
      OBVIOUS
    <3>1. /\ x \in Time \X (1 .. MaxArrivals) /\ x[1] > from /\ x[2] <= mailed'[p][k][x[1]]
          /\ x[1] \in Time /\ x[2] \in Nat /\ x = <<x[1], x[2]>>
      BY <1>5
    <3>2. x[1] = now => x[2] # mailed[p][k][now] + 1
      BY <3>1
    <3>3. x[2] <= mailed[p][k][x[1]]
      BY <2>1, <2>2, <3>1, <3>2
    <3> QED BY <1>5, <3>1, <3>3
  <2>6. CASE now > from
    <3>1. D1 \subseteq D \cup {x0} /\ D1 \cup E1 \subseteq (D \cup E) \cup {x0}
      BY <1>4, <2>3, <2>5
    <3>2. /\ Cardinality(D1) <= Cardinality(D) + 1 /\ Cardinality(D1) \in Nat
          /\ Cardinality(D1 \cup E1) <= Cardinality(D \cup E) + 1
          /\ Cardinality(D1 \cup E1) \in Nat
      BY <1>7, <3>1, OneMore
    <3>3. w1 = w + 1 /\ c1 = c + 1
      BY <1>9, <1>10, <2>4, <2>6
    <3> HIDE DEF gone, gone1
    <3> QED BY <1>3, <1>7, <1>8, <1>9, <1>10, <2>3, <3>2, <3>3
  <2>7. CASE ~(now > from)
    <3>1. x0 \notin M1
      BY <1>5, <2>7
    <3>2. D1 \subseteq D /\ D1 \cup E1 \subseteq D \cup E
      BY <1>4, <2>3, <2>5, <3>1
    <3>3. w1 = w /\ c1 = c
      BY <1>9, <1>10, <2>4, <2>7
    <3>4. w + gone <= w1 + gone1 /\ c + gone <= c1 + gone1
      <4> HIDE DEF gone, gone1
      <4> QED BY <1>3, <1>9, <1>10, <2>3, <3>3
    <3> QED BY <1>13, <3>2, <3>4
  <2> QED BY <2>6, <2>7
<1>16. CASE Consuming(r, p, k)
  <2> DEFINE s == request[r].at
             x0 == <<s, sends[p][k][s] + 1>>
  <2>1. M1 = M /\ ttl'[p][k] = ttl[p][k] /\ gone1 = gone
    BY <1>5, <1>16 DEF Consuming
  <2>2. \A t \in Time : sends'[p][k][t] = IF t = s THEN sends[p][k][t] + 1
                                                   ELSE sends[p][k][t]
    BY <1>1, <1>16 DEF Consuming, Added, Counts
  <2>3. \A t \in Time : sends[p][k][t] \in Nat
    BY <1>1 DEF Counts
  <2>4. S \subseteq S1 /\ S1 \subseteq S \cup {x0}
    <3>1. ASSUME NEW x \in S PROVE x \in S1
      <4>1. /\ x \in Time \X (1 .. MaxArrivals) /\ x[1] > from /\ x[2] <= sends[p][k][x[1]]
            /\ x[1] \in Time /\ x[2] \in Nat
        BY <1>5, <3>1
      <4>2. x[2] <= sends'[p][k][x[1]]
        BY <2>2, <2>3, <4>1
      <4> QED BY <1>5, <4>1, <4>2
    <3>2. ASSUME NEW x \in S1, x # x0 PROVE x \in S
      <4>1. /\ x \in Time \X (1 .. MaxArrivals) /\ x[1] > from /\ x[2] <= sends'[p][k][x[1]]
            /\ x[1] \in Time /\ x[2] \in Nat /\ x = <<x[1], x[2]>>
        BY <1>5, <3>2
      <4>2. x[1] = s => x[2] # sends[p][k][s] + 1
        BY <3>2, <4>1
      <4>3. x[2] <= sends[p][k][x[1]]
        BY <2>2, <2>3, <4>1, <4>2
      <4> QED BY <1>5, <4>1, <4>3
    <3> QED BY <3>1, <3>2
  <2>5. ~o1 /\ (o <=> s > from) /\ (g <=> g1)
    BY <1>11, <1>16 DEF Consuming
  <2>6. c1 = c
    BY <1>10, <2>5
  <2>7. CASE s > from
    <3>1. x0 \in M /\ x0 \notin S /\ x0 \in S1
      <4>1. /\ sends[p][k][s] \in Nat /\ mailed[p][k][s] \in Nat
            /\ arrivals \in Nat /\ MaxArrivals \in Nat
            /\ Cardinality(Unsent) \in Nat /\ Cardinality(OwingAt(p, k, s)) \in Nat
        BY <1>1, <1>2, SlotSets, LimitsAssumption DEF Counts, Typed
      <4>2. sends[p][k][s] + 1 <= mailed[p][k][s]
        <5>1. r \in OwingAt(p, k, s)
          BY <1>16 DEF Consuming, OwingAt
        <5>2. Cardinality(OwingAt(p, k, s)) # 0
          BY <5>1, SlotSets, FS_EmptySet
        <5>3. s > now - SendWindow
          BY <1>2, <2>7
        <5>4. sends[p][k][s] + Cardinality(OwingAt(p, k, s)) <= mailed[p][k][s]
          BY <1>2, <5>3 DEF SlotsCovered
        <5> QED BY <4>1, <5>2, <5>4
      <4>3. mailed[p][k][s] <= MaxArrivals
        <5>1. mailed[p][k][s] + Cardinality(Unsent) <= arrivals
          BY <1>2 DEF MailsArrived
        <5> QED BY <4>1, <5>1
      <4>4. x0 \in Time \X (1 .. MaxArrivals) /\ x0[1] = s /\ x0[2] = sends[p][k][s] + 1
        BY <1>2, <4>1, <4>2, <4>3
      <4>5. sends'[p][k][s] = sends[p][k][s] + 1
        BY <1>2, <2>2
      <4> QED BY <1>5, <2>7, <4>1, <4>2, <4>4, <4>5
    <3> HIDE DEF x0
    <3>2. D1 \subseteq D \ {x0} /\ x0 \in D
      BY <1>4, <2>1, <2>4, <3>1
    <3>3. D1 \cup E1 \subseteq D \cup E
      <4>1. E1 \subseteq E \cup {x0}
        BY <1>6, <2>1, <2>4
      <4> QED BY <3>2, <4>1
    <3>4. Cardinality(D1) <= Cardinality(D) - 1 /\ Cardinality(D1) \in Nat
      BY <1>7, <3>2, OneLess
    <3>5. Cardinality(D1 \cup E1) <= Cardinality(D \cup E) /\ Cardinality(D1 \cup E1) \in Nat
      BY <1>7, <3>3, NoMore
    <3>6. w1 = w - 1
      BY <1>9, <2>5, <2>7
    <3> HIDE DEF gone, gone1
    <3> QED BY <1>3, <1>7, <1>8, <1>9, <1>10, <2>1, <2>6, <3>4, <3>5, <3>6
  <2>8. CASE ~(s > from)
    <3>1. x0 \notin S1
      BY <1>5, <2>8
    <3>2. S1 = S
      BY <2>4, <3>1
    <3>3. D1 = D /\ E1 = E
      BY <1>4, <1>6, <2>1, <3>2
    <3>4. w1 = w
      BY <1>9, <2>5, <2>8
    <3>5. w + gone <= w1 + gone1 /\ c + gone <= c1 + gone1
      <4> HIDE DEF gone, gone1
      <4> QED BY <1>3, <1>9, <1>10, <2>1, <2>6, <3>4
    <3> QED BY <1>13, <3>3, <3>5
  <2> QED BY <2>7, <2>8
<1>17. CASE Prolonging(r, p, k)
  <2>1. M1 = M /\ S1 = S /\ gone1 = gone
    BY <1>5, <1>17 DEF Prolonging
  <2>2. D1 = D /\ E1 = {}
    <3>1. ASSUME NEW x \in S1 PROVE x \notin E1
      <4>1. x[1] \in Time /\ x[1] \in Int /\ x[2] \in Nat \ {0} /\ x[2] <= sends[p][k][x[1]]
        BY <1>5, <2>1, <3>1
      <4>2. sends[p][k][x[1]] \in Nat /\ sends[p][k][x[1]] > 0
        BY <1>1, <4>1 DEF Counts
      <4>3. x[1] <= now
        BY <4>1, <4>2 DEF NotInFuture
      <4>4. sends[p][k] # Empty
        BY <4>1, <4>2 DEF Empty
      <4>5. ttl'[p][k] = now + SendWindow
        BY <1>17, <4>4 DEF Prolonging
      <4>6. ~(x[1] + SendWindow > ttl'[p][k])
        BY <1>2, <4>1, <4>3, <4>5
      <4> QED BY <1>6, <4>6
    <3> QED BY <1>4, <1>6, <2>1, <3>1
  <2>3. ~o /\ ~o1 /\ ~g1
    BY <1>11, <1>17 DEF Prolonging
  <2>4. w <= c1
    <3>1. OwingSince(p, k, from) \subseteq ChargingSince(p, k, from)'
      BY <1>12, <2>3 DEF o
    <3>2. IsFiniteSet(ChargingSince(p, k, from)')
      <4>1. IsFiniteSet(ChargingSince(p, k, from))
        BY SlotSets
      <4> QED BY <1>12, <4>1, SameBut
    <3> QED BY <3>1, <3>2, NoMore DEF w, c1
  <2>5. w1 = w
    BY <1>9, <2>3
  <2>6. Cardinality(D1) = Cardinality(D) /\ Cardinality(D1 \cup E1) = Cardinality(D)
    <3>1. D1 \cup E1 = D
      BY <2>2
    <3> QED BY <2>2, <3>1
  <2> HIDE DEF gone, gone1
  <2> QED BY <1>3, <1>7, <1>8, <1>9, <1>10, <2>1, <2>4, <2>5, <2>6
<1> QED BY <1>14, <1>15, <1>16, <1>17 DEF Move

LEMMA GoneType ==
  ASSUME Typed, Typed'
  PROVE  lost + dropped \in Nat /\ lost' + dropped' \in Nat
<1>1. lost \in Nat /\ lost' \in Nat
  BY DEF Typed
<1>2. dropped \in Nat /\ dropped' \in Nat
  BY DEF Typed
<1> QED BY <1>1, <1>2, NatSum

LEMMA BoundedMove ==
  ASSUME Typed, Typed', NEW r \in Requests, OthersSame(r), now' = now,
         NEW p \in Prefix, NEW k \in Keys, MailsBounded(p, k), SlotsOwed(p, k)',
         Move(r, p, k)
  PROVE  MailsBounded(p, k)'
<1> DEFINE from == now - SendWindow
           c == CountAfter(mailed[p][k], from)
           c1 == CountAfter(mailed'[p][k], from)
           n == Cardinality(MayMail(p, k))
           n1 == Cardinality(MayMail(p, k)')
           m == r \in MayMail(p, k)
           m1 == r \in MayMail(p, k)'
           all == Cardinality(Requests)
           gone == lost + dropped
           gone1 == lost' + dropped'
<1>1. mailed[p][k] \in Counts /\ sends[p][k] \in Counts
  BY DEF Typed, Keys
<1>2. /\ from \in Int /\ now \in Time /\ Limit(k) \in Int
      /\ c \in Nat /\ c1 \in Nat /\ all \in Nat
  <2>1. from \in Int
    BY NowType, LimitsAssumption DEF Sorts
  <2>2. Limit(k) \in Int
    BY LimitsAssumption DEF Limit, SendIpMax
  <2>3. now \in Time
    BY DEF Typed
  <2> QED BY <2>1, <2>2, <2>3, MembersFinite, SlotSets
<1>3. /\ gone \in Nat /\ gone1 \in Nat
      /\ lost \in Nat /\ lost' \in Nat /\ dropped \in Nat /\ dropped' \in Nat
  <2>1. lost \in Nat /\ lost' \in Nat
    BY DEF Typed
  <2>2. dropped \in Nat /\ dropped' \in Nat
    BY DEF Typed
  <2> QED BY <2>1, <2>2, GoneType
<1>4. c + n <= Limit(k) - 1 + all + gone
  <2>1. c + n <= Limit(k) - 1 + all + lost + dropped
    BY DEF MailsBounded, InWindow
  <2> QED BY <1>2, <1>3, <2>1
<1>5. c1 + n1 <= Limit(k) - 1 + all + gone1 => MailsBounded(p, k)'
  <2>1. c1 + n1 <= Limit(k) - 1 + all + lost' + dropped' => MailsBounded(p, k)'
    BY DEF MailsBounded, InWindow, Limit, SendIpMax
  <2>2. Limit(k) - 1 + all + gone1 = Limit(k) - 1 + all + lost' + dropped'
    BY <1>2, <1>3
  <2> QED BY <2>1, <2>2
<1>6. /\ n \in Nat /\ n1 \in Nat
      /\ (m1 => m) => n1 <= n
      /\ m /\ ~m1 => n1 = n - 1
  <2>1. IsFiniteSet(MayMail(p, k)) /\ MayMail(p, k) \ {r} = MayMail(p, k)' \ {r}
    BY SlotSets, MoveSets
  <2> QED BY <2>1, SameBut
<1> HIDE DEF gone, gone1
\* A step without a mail, by a request that comes to mail only if it could.
<1>7. ASSUME mailed'[p][k] = mailed[p][k], m1 => m, gone <= gone1
      PROVE  MailsBounded(p, k)'
  <2>1. c1 = c
    BY <1>7
  <2> HIDE DEF c, c1, n, n1, m, m1, all, from
  <2> QED BY <1>2, <1>3, <1>4, <1>5, <1>6, <1>7, <2>1
<1>8. CASE Quiet(r, p, k)
  <2>1. mailed'[p][k] = mailed[p][k] /\ c1 = c
    BY <1>8 DEF Quiet
  <2>2. gone <= gone1
    <3>1. lost <= lost' /\ dropped' = dropped
      BY <1>8 DEF Quiet
    <3>2. \A x, y, n0 \in Nat : x <= y => x + n0 <= y + n0
      OBVIOUS
    <3> QED BY <1>3, <3>1, <3>2 DEF gone, gone1
  <2>3. CASE CountAfter(sends[p][k], from) <= Limit(k) - 1
    <3> DEFINE w1 == Cardinality(OwingSince(p, k, from)')
               miss == Cardinality(Members(mailed[p][k], from) \ Members(sends[p][k], from))
    <3>1. Members(sends'[p][k], from) = Members(sends[p][k], from)
      BY <1>8 DEF Quiet, Members
    <3>2. miss <= w1 + gone1
      <4>1. from \in Starts'
        BY <1>2 DEF Starts
      <4>2. Cardinality(Members(mailed'[p][k], from) \ Members(sends'[p][k], from))
              <= w1 + lost' + dropped'
        BY <4>1 DEF SlotsOwed, Missing
      <4>3. w1 \in Nat
        BY OwingOrMailing
      <4>4. w1 + gone1 = w1 + lost' + dropped'
        BY <1>3, <4>3 DEF gone1
      <4> QED BY <2>1, <3>1, <4>2, <4>4
    <3>3. w1 + n1 <= all /\ w1 \in Nat
      BY OwingOrMailing
    <3>4. c <= CountAfter(sends[p][k], from) + miss
      BY MissingCount
    <3>5. miss \in Nat /\ CountAfter(sends[p][k], from) \in Nat
      BY MissingCount, MembersFinite
    <3> HIDE DEF c, c1, n, n1, all, from, w1, miss
    <3>6. c <= Limit(k) - 1 + w1 + gone1
      BY <1>2, <1>3, <2>3, <3>2, <3>3, <3>4, <3>5 DEF from
    <3>7. c1 + n1 <= Limit(k) - 1 + all + gone1
      BY <1>2, <1>3, <1>6, <2>1, <3>3, <3>6
    <3> QED BY <1>5, <3>7
  <2> QED BY <1>7, <1>8, <2>1, <2>2, <2>3 DEF Quiet
<1>9. CASE Mailing(r, p, k)
  <2>1. c1 <= c + 1
    BY <1>1, <1>2, <1>9, CountAdded DEF Mailing
  <2>2. m /\ ~m1 /\ gone1 = gone
    BY <1>9 DEF Mailing, gone, gone1
  <2> HIDE DEF c, c1, n, n1, m, m1, all, from
  <2> QED BY <1>2, <1>3, <1>4, <1>5, <1>6, <2>1, <2>2
<1>10. CASE Consuming(r, p, k) \/ Prolonging(r, p, k)
  <2>1. mailed'[p][k] = mailed[p][k] /\ ~m1 /\ gone1 = gone
    BY <1>10 DEF Consuming, Prolonging, gone, gone1
  <2> QED BY <1>3, <1>7, <2>1
<1> QED BY <1>8, <1>9, <1>10 DEF Move

LimitType == \A k \in Keys : Limit(k) \in Nat /\ Limit(k) >= 1
LEMMA LimitNat == LimitType
BY LimitsAssumption DEF LimitType, Limit, SendIpMax

LEMMA SlotsTick ==
  ASSUME Typed, Typed', Tick, NEW p \in Prefix, NEW k \in Keys, SlotsInv(p, k)
  PROVE  SlotsInv(p, k)'
<1> DEFINE start == now - SendWindow
           z == mailed[p][k]
           z1 == mailed'[p][k]
<1>1. /\ now' = now + 1 /\ sends' = sends /\ ttl' = ttl /\ request' = request
      /\ arrivals' = arrivals /\ lost' = lost /\ dropped' = dropped
  BY DEF Tick
<1>2. z \in Counts /\ z1 \in Counts
  BY DEF Typed, Keys
<1>3. start \in Int /\ now' - SendWindow = start + 1 /\ now \in Nat /\ Time \subseteq Int
  <2>1. Time \subseteq Int
    BY LimitsAssumption DEF Time
  <2> QED BY <1>1, <2>1, NowType, LimitsAssumption DEF Sorts
<1>4. z1 = Pruned(z, start + 1)
  <2>1. mailed' = [q \in Prefix |-> [j \in Accounts \cup Ips |->
                    Pruned(mailed[q][j], now' - SendWindow)]]
    BY DEF Tick
  <2> QED BY <1>3, <2>1 DEF Keys
<1>5. /\ \A t \in Time : z1[t] <= z[t]
      /\ \A t \in Time : t > start + 1 => z1[t] = z[t]
      /\ \A t \in Time : z[t] \in Nat /\ z1[t] \in Nat
  <2>1. start + 1 \in Int
    BY <1>3
  <2> HIDE DEF start, z, z1
  <2>2. /\ \A t \in Time : z1[t] <= z[t]
        /\ \A t \in Time : t > start + 1 => z1[t] = z[t]
    BY <1>2, <1>4, <2>1, PrunedCounts
  <2> QED BY <1>2, <2>2 DEF Counts
\* A window that starts later holds what it held.
<1>6. ASSUME NEW from \in Starts'
      PROVE  /\ from \in Starts
             /\ Missing(p, k, from)' = Missing(p, k, from)
             /\ Exposed(p, k, from)' = Exposed(p, k, from)
             /\ OwingSince(p, k, from)' = OwingSince(p, k, from)
             /\ ChargingSince(p, k, from)' = ChargingSince(p, k, from)
  <2>1. from \in Int /\ from >= start + 1
    BY <1>3 DEF Starts
  <2>2. from \in Starts
    BY <1>3, <2>1 DEF Starts
  <2>3. Members(z1, from) = Members(z, from)
    <3>1. \A t \in Time : t > from => z1[t] = z[t]
      BY <1>3, <1>5, <2>1
    <3> HIDE DEF z, z1
    <3> QED BY <3>1 DEF Members
  <2>4. /\ Missing(p, k, from)' = Missing(p, k, from)
        /\ Exposed(p, k, from)' = Exposed(p, k, from)
    BY <1>1, <2>3 DEF Missing, Exposed, Members
  <2>5. /\ OwingSince(p, k, from)' = OwingSince(p, k, from)
        /\ ChargingSince(p, k, from)' = ChargingSince(p, k, from)
    BY <1>1 DEF OwingSince, Owing, ChargingSince, Charging, Sends, PrefixOf
  <2> QED BY <2>2, <2>4, <2>5
<1>7. SlotsOwed(p, k)' /\ SlotsExposed(p, k)'
  BY <1>1, <1>6 DEF SlotsInv, SlotsOwed, SlotsExposed
<1>8. MailsArrived(p, k)' /\ NotInFuture(sends[p][k])'
  <2>1. ASSUME NEW t \in Time PROVE z1[t] + Cardinality(Unsent') <= arrivals'
    <3>1. z[t] + Cardinality(Unsent) <= arrivals
      BY DEF SlotsInv, MailsArrived
    <3>2. Unsent' = Unsent
      BY <1>1 DEF Unsent
    <3>3. Cardinality(Unsent) \in Nat /\ arrivals \in Nat
      BY SlotSets DEF Typed
    <3> HIDE DEF z, z1
    <3> QED BY <1>1, <1>5, <3>1, <3>2, <3>3
  <2>2. ASSUME NEW t \in Time, sends'[p][k][t] > 0 PROVE t <= now'
    <3>1. t <= now /\ t \in Int
      BY <1>1, <1>3, <2>2 DEF SlotsInv, NotInFuture
    <3> QED BY <1>1, <1>3, <3>1
  <2> QED BY <2>1, <2>2 DEF MailsArrived, NotInFuture
<1>9. SlotsCovered(p, k)'
  <2> SUFFICES ASSUME NEW t \in Time, t > now' - SendWindow
               PROVE  sends'[p][k][t] + Cardinality(OwingAt(p, k, t)') <= z1[t]
    BY DEF SlotsCovered
  <2>1. t > start + 1 /\ t > now - SendWindow
    BY <1>3
  <2>2. sends[p][k][t] + Cardinality(OwingAt(p, k, t)) <= z[t]
    BY <2>1 DEF SlotsInv, SlotsCovered
  <2>3. OwingAt(p, k, t)' = OwingAt(p, k, t)
    BY <1>1 DEF OwingAt, Owing, Sends, PrefixOf
  <2>4. z1[t] = z[t]
    BY <1>5, <2>1
  <2> QED BY <1>1, <2>2, <2>3, <2>4
<1>10. MailsBounded(p, k)'
  <2>1. CountAfter(z1, start + 1) <= CountAfter(z, start)
    <3>1. start <= start + 1 /\ start + 1 \in Int /\ start \in Int
      BY <1>3
    <3> HIDE DEF start, z, z1
    <3>2. \A t \in Time : t > start + 1 => z1[t] <= z[t]
      BY <1>5
    <3> QED BY <1>2, <3>1, <3>2, CountLess
  <2>2. CountAfter(z1, start + 1) \in Nat /\ CountAfter(z, start) \in Nat
    BY MembersFinite
  <2>3. MayMail(p, k)' = MayMail(p, k) /\ Limit(k)' = Limit(k)
    BY <1>1 DEF MayMail, Sends, PrefixOf, Limit, SendIpMax
  <2>4. CountAfter(z, start) + Cardinality(MayMail(p, k))
          <= Limit(k) - 1 + Cardinality(Requests) + lost + dropped
    BY DEF SlotsInv, MailsBounded, InWindow
  <2>5. Limit(k) \in Int /\ Cardinality(MayMail(p, k)) \in Nat
        /\ Cardinality(Requests) \in Nat
    BY SlotSets, LimitNat DEF LimitType
  <2>6. lost \in Nat /\ dropped \in Nat
    BY DEF Typed
  <2>7. CountAfter(z1, start + 1) + Cardinality(MayMail(p, k))
          <= Limit(k) - 1 + Cardinality(Requests) + lost + dropped
    <3> HIDE DEF z, z1, start
    <3> QED BY <2>1, <2>2, <2>4, <2>5, <2>6
  <2> QED BY <1>1, <1>3, <2>3, <2>7 DEF MailsBounded, InWindow
<1> QED BY <1>7, <1>8, <1>9, <1>10 DEF SlotsInv

\* An expired key takes along what was exposed: the slots of requests that had
\* not reached their EXPIRE, counted in dropped.
LEMMA SlotsExpire ==
  ASSUME Typed, Typed', NEW q \in Prefix, NEW j \in Keys, KeyExpires(q, j),
         NEW p \in Prefix, NEW k \in Keys, SlotsInv(p, k)
  PROVE  SlotsInv(p, k)'
<1> DEFINE b == Cardinality({r \in Bare(q, j) : request[r].at > now - SendWindow})
<1>1. /\ now' = now /\ request' = request /\ arrivals' = arrivals /\ mailed' = mailed
      /\ lost' = lost /\ dropped' = dropped + b
  BY DEF KeyExpires
<1>2. /\ MayMail(p, k)' = MayMail(p, k) /\ Unsent' = Unsent /\ Starts' = Starts
      /\ \A t : OwingAt(p, k, t)' = OwingAt(p, k, t)
      /\ \A t : OwingSince(p, k, t)' = OwingSince(p, k, t)
      /\ \A t : ChargingSince(p, k, t)' = ChargingSince(p, k, t)
      /\ Limit(k)' = Limit(k)
  BY <1>1 DEF MayMail, Unsent, OwingAt, OwingSince, Owing, ChargingSince, Charging, Sends,
     PrefixOf, Limit, SendIpMax, Starts
<1>3. b \in Nat /\ lost \in Nat /\ dropped \in Nat /\ dropped' \in Nat /\ dropped <= dropped'
  <2>1. b \in Nat
    <3>1. {r \in Bare(q, j) : request[r].at > now - SendWindow} \subseteq Requests
      BY DEF Bare
    <3> QED BY <3>1, KeysAssumption, NoMore
  <2>2. lost \in Nat /\ dropped \in Nat
    BY DEF Typed
  <2> HIDE DEF b
  <2> QED BY <1>1, <2>1, <2>2
<1> HIDE DEF b
<1>4. MailsArrived(p, k)'
  BY <1>1, <1>2 DEF SlotsInv, MailsArrived
<1>5. MailsBounded(p, k)'
  <2>1. InWindow(mailed[p][k], SendWindow) + Cardinality(MayMail(p, k))
          <= Limit(k) - 1 + Cardinality(Requests) + lost + dropped
    BY DEF SlotsInv, MailsBounded
  <2>2. /\ Limit(k) \in Int /\ Cardinality(MayMail(p, k)) \in Nat
        /\ Cardinality(Requests) \in Nat /\ InWindow(mailed[p][k], SendWindow) \in Nat
    BY SlotSets, LimitNat, MembersFinite DEF LimitType, InWindow
  <2>3. InWindow(mailed[p][k], SendWindow) + Cardinality(MayMail(p, k))
          <= Limit(k) - 1 + Cardinality(Requests) + lost + dropped'
    BY <1>3, <2>1, <2>2
  <2>4. InWindow(mailed[p][k], SendWindow)' = InWindow(mailed[p][k], SendWindow)
    BY <1>1 DEF InWindow
  <2> QED BY <1>1, <1>2, <2>3, <2>4 DEF MailsBounded
<1>6. CASE p = q /\ k = j
  <2>1. /\ sends'[p][k] = Empty /\ ttl'[p][k] = NoTtl
        /\ ttl[p][k] # NoTtl /\ ttl[p][k] <= now
    BY <1>6 DEF KeyExpires, Typed, Keys
  <2>2. \A t \in Time : Empty[t] = 0
    BY DEF Empty
  <2>3. NotInFuture(sends[p][k])'
    BY <2>1, <2>2 DEF NotInFuture
  <2>4. SlotsCovered(p, k)'
    <3> SUFFICES ASSUME NEW t \in Time, t > now - SendWindow
                 PROVE  0 + Cardinality(OwingAt(p, k, t)) <= mailed[p][k][t]
      BY <1>1, <1>2, <2>1, <2>2 DEF SlotsCovered
    <3>1. sends[p][k][t] + Cardinality(OwingAt(p, k, t)) <= mailed[p][k][t]
      BY DEF SlotsInv, SlotsCovered
    <3>2. sends[p][k] \in Counts /\ mailed[p][k] \in Counts
      BY DEF Typed, Keys
    <3>3. sends[p][k][t] \in Nat /\ mailed[p][k][t] \in Nat
          /\ Cardinality(OwingAt(p, k, t)) \in Nat
      BY <3>2, SlotSets DEF Counts
    <3> QED BY <3>1, <3>3
  <2>5. ASSUME NEW from \in Starts
        PROVE  /\ Cardinality(Missing(p, k, from)')
                    <= Cardinality(OwingSince(p, k, from)) + lost + dropped'
               /\ Cardinality(OwingSince(p, k, from)) <= Cardinality(ChargingSince(p, k, from))
               /\ Exposed(p, k, from)' = {}
    <3> DEFINE D == Missing(p, k, from)
               E == Exposed(p, k, from)
               O == OwingSince(p, k, from)
               C == ChargingSince(p, k, from)
               B == {r \in Bare(p, k) : request[r].at > now - SendWindow}
    <3>1. /\ from \in Int /\ from >= now - SendWindow /\ SendWindow \in Nat /\ now \in Nat
          /\ Time \subseteq Int
      <4>1. Time \subseteq Int
        BY LimitsAssumption DEF Time
      <4> QED BY <4>1, NowType DEF Starts, Sorts
    <3>2. Members(Empty, from) = {}
      BY <2>2, LimitsAssumption DEF Members
    <3>3. E = Members(sends[p][k], from)
      <4>1. \A x \in Members(sends[p][k], from) : x[1] \in Time /\ x[1] > from
        BY DEF Members
      <4>2. ttl[p][k] \in Int
        BY LimitsAssumption DEF Typed, Keys, NoTtl
      <4>3. \A t \in Int : t > from => t + SendWindow > ttl[p][k]
        BY <2>1, <3>1, <4>2
      <4>4. \A x \in Members(sends[p][k], from) : x[1] + SendWindow > ttl[p][k]
        BY <3>1, <4>1, <4>3
      <4> QED BY <2>1, <4>4 DEF Exposed
    <3>4. Missing(p, k, from)' \subseteq D \cup E
      BY <1>1, <2>1, <3>2, <3>3 DEF Missing
    <3>5. Exposed(p, k, from)' = {}
      BY <2>1 DEF Exposed
    <3>6. Cardinality(D \cup E) <= Cardinality(C) + lost + dropped
      BY DEF SlotsInv, SlotsExposed
    <3>7. C \subseteq O \cup B
      <4>1. ASSUME NEW r \in C PROVE r \in O \cup B
        <5>1. /\ r \in Requests /\ r \in Charging(p, k) /\ request[r].at > from
              /\ request[r].at \in Int
          BY <4>1, NowType DEF ChargingSince, Charging, Sorts
        <5>2. request[r].at > now - SendWindow
          BY <3>1, <5>1
        <5>3. r \in Owing(p, k) \/ r \in Bare(p, k)
          BY <5>1 DEF Charging, Owing, Bare, Sends, Keys
        <5> QED BY <5>1, <5>2, <5>3 DEF OwingSince
      <4> QED BY <4>1
    <3>8. /\ IsFiniteSet(O) /\ IsFiniteSet(C) /\ IsFiniteSet(B)
          /\ Cardinality(O) \in Nat /\ Cardinality(C) \in Nat /\ Cardinality(B) = b
      <4>1. B \subseteq Requests
        BY DEF Bare
      <4>2. IsFiniteSet(B)
        BY <4>1, KeysAssumption, NoMore
      <4> QED BY <1>6, <4>2, SlotSets DEF b
    <3>9. O \subseteq C
      BY OwingCharges
    <3>10. IsFiniteSet(D \cup E) /\ Cardinality(D \cup E) \in Nat
      BY SlotsFinite
    <3> HIDE DEF B, C, O, D, E
    <3>11. Cardinality(C) <= Cardinality(O) + b
      <4>1. IsFiniteSet(O \cup B) /\ Cardinality(O \cup B)
               = Cardinality(O) + Cardinality(B) - Cardinality(O \cap B)
        BY <3>8, FS_Union
      <4>2. Cardinality(O \cap B) \in Nat
        BY <3>8, NoMore
      <4>3. Cardinality(C) <= Cardinality(O \cup B)
        BY <3>7, <4>1, NoMore
      <4> QED BY <1>3, <3>8, <4>1, <4>2, <4>3
    <3>12. Cardinality(Missing(p, k, from)') <= Cardinality(D \cup E)
           /\ Cardinality(Missing(p, k, from)') \in Nat
      BY <3>4, <3>10, NoMore
    <3>13. Cardinality(O) <= Cardinality(C)
      BY <3>8, <3>9, NoMore
    <3>14. Cardinality(Missing(p, k, from)') <= Cardinality(O) + lost + dropped'
      BY <1>1, <1>3, <3>6, <3>8, <3>10, <3>11, <3>12
    <3> QED BY <3>5, <3>13, <3>14 DEF O, C
  <2>6. SlotsOwed(p, k)'
    BY <1>1, <1>2, <2>5 DEF SlotsOwed
  <2>7. SlotsExposed(p, k)'
    <3> SUFFICES ASSUME NEW from \in Starts
                 PROVE  Cardinality(Missing(p, k, from)')
                          <= Cardinality(ChargingSince(p, k, from)) + lost + dropped'
      <4>1. \A from \in Starts : Missing(p, k, from)' \cup Exposed(p, k, from)'
                                   = Missing(p, k, from)'
        BY <2>5
      <4> QED BY <1>1, <1>2, <4>1 DEF SlotsExposed
    <3>1. /\ Cardinality(Missing(p, k, from)')
               <= Cardinality(OwingSince(p, k, from)) + lost + dropped'
          /\ Cardinality(OwingSince(p, k, from)) <= Cardinality(ChargingSince(p, k, from))
      BY <2>5
    <3>2. /\ Cardinality(OwingSince(p, k, from)) \in Nat
          /\ Cardinality(ChargingSince(p, k, from)) \in Nat
          /\ Cardinality(Missing(p, k, from)') \in Nat
      BY SlotSets, SlotsFinite, FS_CardinalityType
    <3> QED BY <1>3, <3>1, <3>2
  <2> QED BY <1>4, <1>5, <2>3, <2>4, <2>6, <2>7 DEF SlotsInv
<1>7. CASE ~(p = q /\ k = j)
  <2>1. sends'[p][k] = sends[p][k] /\ ttl'[p][k] = ttl[p][k]
    BY <1>7 DEF KeyExpires, Typed, Keys
  <2>2. NotInFuture(sends[p][k])' /\ SlotsCovered(p, k)'
    BY <1>1, <1>2, <2>1 DEF SlotsInv, NotInFuture, SlotsCovered
  <2>3. /\ \A from : Missing(p, k, from)' = Missing(p, k, from)
        /\ \A from : Exposed(p, k, from)' = Exposed(p, k, from)
    BY <1>1, <2>1 DEF Missing, Exposed
  <2>4. ASSUME NEW from \in Starts
        PROVE  /\ Cardinality(Missing(p, k, from))
                    <= Cardinality(OwingSince(p, k, from)) + lost + dropped'
               /\ Cardinality(Missing(p, k, from) \cup Exposed(p, k, from))
                    <= Cardinality(ChargingSince(p, k, from)) + lost + dropped'
    <3>1. /\ Cardinality(Missing(p, k, from))
               <= Cardinality(OwingSince(p, k, from)) + lost + dropped
          /\ Cardinality(Missing(p, k, from) \cup Exposed(p, k, from))
               <= Cardinality(ChargingSince(p, k, from)) + lost + dropped
      BY DEF SlotsInv, SlotsOwed, SlotsExposed
    <3>2. /\ Cardinality(OwingSince(p, k, from)) \in Nat
          /\ Cardinality(ChargingSince(p, k, from)) \in Nat
          /\ Cardinality(Missing(p, k, from)) \in Nat
          /\ Cardinality(Missing(p, k, from) \cup Exposed(p, k, from)) \in Nat
      BY SlotSets, SlotsFinite
    <3> QED BY <1>3, <3>1, <3>2
  <2>5. SlotsOwed(p, k)' /\ SlotsExposed(p, k)'
    BY <1>1, <1>2, <2>3, <2>4 DEF SlotsOwed, SlotsExposed
  <2> QED BY <1>4, <1>5, <2>2, <2>5 DEF SlotsInv
<1> QED BY <1>6, <1>7

LEMMA SendsInit == Init => SendsInv
<1> HAVE Init
<1>1. Typed /\ \A r \in Requests : RequestOK(r)
  BY LockInit DEF LockInv
<1>2. arrivals = 0 /\ lost = 0 /\ dropped = 0 /\ arrivals <= mix.arrivals
  BY MixesAssumption DEF Init
<1>3. ASSUME NEW p \in Prefix, NEW k \in Keys PROVE SlotsInv(p, k)
  <2>1. mailed[p][k] = Empty /\ sends[p][k] = Empty /\ ttl[p][k] = NoTtl
    BY <1>3 DEF Init, Keys
  <2>2. now - SendWindow \in Int
    BY <1>1, NowType, LimitsAssumption DEF Sorts
  <2>3. \A r \in Requests : request[r].pc = "idle"
    BY IdleType DEF Init
  <2>4. /\ Owing(p, k) = {} /\ MayMail(p, k) = {} /\ Unsent = {}
    BY <2>3 DEF Owing, MayMail, Unsent, LoginSteps, Sent
  <2>5. Cardinality(Unsent) = 0 /\ Cardinality(MayMail(p, k)) = 0
        /\ \A t \in Time : Cardinality(OwingAt(p, k, t)) = 0
    BY <2>4, FS_EmptySet DEF OwingAt
  <2>6. \A t \in Time : Empty[t] = 0
    BY DEF Empty
  <2>7. MailsArrived(p, k) /\ SlotsCovered(p, k) /\ NotInFuture(sends[p][k])
    BY <1>2, <2>1, <2>5, <2>6 DEF MailsArrived, SlotsCovered, NotInFuture
  <2>8. ASSUME NEW from \in Starts
        PROVE  /\ Cardinality(Missing(p, k, from)) = 0
               /\ Cardinality(Missing(p, k, from) \cup Exposed(p, k, from)) = 0
               /\ 0 <= Cardinality(OwingSince(p, k, from)) + lost + dropped
               /\ 0 <= Cardinality(ChargingSince(p, k, from)) + lost + dropped
    <3>1. Missing(p, k, from) = {} /\ Exposed(p, k, from) = {}
      BY <2>1 DEF Missing, Exposed
    <3>2. /\ Cardinality(OwingSince(p, k, from)) \in Nat
          /\ Cardinality(ChargingSince(p, k, from)) \in Nat
      BY SlotSets
    <3>3. /\ Cardinality(Missing(p, k, from)) = 0
          /\ Cardinality(Missing(p, k, from) \cup Exposed(p, k, from)) = 0
      BY <3>1, FS_EmptySet
    <3> QED BY <1>2, <3>2, <3>3
  <2>9. SlotsOwed(p, k) /\ SlotsExposed(p, k)
    BY <2>8 DEF SlotsOwed, SlotsExposed
  <2>10. MailsBounded(p, k)
    <3>1. InWindow(mailed[p][k], SendWindow) = 0
      BY <2>1, <2>2, CountEmpty DEF InWindow
    <3>2. Cardinality(Requests) \in Nat
      BY SlotSets
    <3>3. Limit(k) \in Nat /\ Limit(k) >= 1
      BY LimitNat DEF LimitType
    <3> QED BY <1>2, <2>5, <3>1, <3>2, <3>3 DEF MailsBounded
  <2> QED BY <2>7, <2>9, <2>10 DEF SlotsInv
<1> QED BY <1>1, <1>2, <1>3 DEF SendsInv

LEMMA ArrivalsStep ==
  ASSUME Typed, arrivals <= mix.arrivals, [Next]_vars
  PROVE  arrivals' <= mix'.arrivals
<1>1. ASSUME NEW r \in Requests, Arrive(r) PROVE arrivals' <= mix'.arrivals
  <2>1. arrivals \in Nat /\ mix.arrivals \in Int
    BY MixesAssumption, LimitsAssumption DEF Typed
  <2> QED BY <1>1, <2>1 DEF Arrive
<1>2. ASSUME NEW r \in Requests, Plain(r) \/ FailMark(r) PROVE UNCHANGED calls
  BY <1>2, ConsumeFrame DEF Plain, IpCheck, LockoutCheck, ClearMarker, ClearFailures, Verify,
     FailAccount, FailIp, FailCount, ResetFailures, ResetMarker, RecordIp, SendIpCheck,
     SendAccountCheck, Mail, Leaves, FailMark
<1>3. Tick \/ UNCHANGED limits => UNCHANGED calls
  BY DEF Tick, limits
<1> QED BY <1>1, <1>2, <1>3, Splits

LEMMA ArrivalsBound ==
  ASSUME Typed, arrivals <= mix.arrivals
  PROVE  arrivals <= MaxArrivals
<1>1. arrivals \in Nat /\ mix.arrivals \in 0 .. MaxArrivals /\ MaxArrivals \in Nat
  BY MixesAssumption, LimitsAssumption DEF Typed
<1> QED BY <1>1

LEMMA SendsStep == SendsInv /\ [Next]_vars => SendsInv'
<1> SUFFICES ASSUME SendsInv, [Next]_vars PROVE SendsInv'
  OBVIOUS
<1>1. Typed /\ arrivals <= mix.arrivals /\ \A r \in Requests : RequestOK(r)
  BY DEF SendsInv
<1>2. Typed' /\ \A r \in Requests : RequestOK(r)'
  BY <1>1, TypedStep, RequestStep
<1>3. arrivals' <= mix'.arrivals /\ arrivals <= MaxArrivals
  BY <1>1, ArrivalsStep, ArrivalsBound
<1>4. ASSUME NEW p \in Prefix, NEW k \in Keys PROVE SlotsInv(p, k)'
  <2>1. SlotsInv(p, k)
    BY <1>4 DEF SendsInv
  <2>2. CASE Tick
    BY <1>1, <1>2, <2>1, <2>2, SlotsTick
  <2>3. CASE UNCHANGED <<limits, send>>
    BY <2>1, <2>3
    DEF limits, login, SlotsInv, NotInFuture, MailsArrived, SlotsCovered, SlotsOwed,
        SlotsExposed, MailsBounded, Missing, Exposed, Members, InWindow, CountAfter,
        OwingSince, OwingAt, Owing, ChargingSince, Charging, MayMail, Unsent, Sends,
        PrefixOf, Limit, SendIpMax, Starts
  <2>4. ASSUME NEW q \in Prefix, NEW j \in Keys, KeyExpires(q, j) PROVE SlotsInv(p, k)'
    BY <1>1, <1>2, <2>1, <2>4, SlotsExpire
  <2>5. ASSUME NEW r \in Requests, Arrive(r) \/ Plain(r) \/ FailMark(r)
        PROVE  SlotsInv(p, k)'
    <3>1. now' = now
      BY <2>5, ConsumeFrame DEF Arrive, Plain, IpCheck, LockoutCheck, ClearMarker,
         ClearFailures, Verify, FailAccount, FailIp, FailCount, ResetFailures, ResetMarker,
         RecordIp, SendIpCheck, SendAccountCheck, Mail, Leaves, FailMark
    <3>2. OthersSame(r)
      BY <1>1, <2>5, OthersStay DEF OthersSame
    <3>3. Move(r, p, k)
      BY <1>1, <1>2, <2>5, Moves
    <3>4. MailsArrived(p, k)' /\ SlotsCovered(p, k)' /\ NotInFuture(sends[p][k])'
      BY <1>1, <1>2, <2>1, <3>1, <3>2, <3>3, ArrivedMove, CoveredMove, PastMove DEF SlotsInv
    <3>5. SlotsOwed(p, k)' /\ SlotsExposed(p, k)'
      BY <1>1, <1>2, <1>3, <2>1, <3>1, <3>2, <3>3, OwedMove DEF SlotsInv
    <3>6. MailsBounded(p, k)'
      BY <1>1, <1>2, <2>1, <3>1, <3>2, <3>3, <3>5, BoundedMove DEF SlotsInv
    <3> QED BY <3>4, <3>5, <3>6 DEF SlotsInv
  <2> QED BY <2>2, <2>3, <2>4, <2>5, SendSplits DEF Keys
<1> QED BY <1>2, <1>3, <1>4 DEF SendsInv, Prefix, Keys

LEMMA SendsEnough == SendsInv => SendsBounded
<1> HAVE SendsInv
<1>1. ASSUME NEW p \in Prefix, NEW k \in Keys
      PROVE  InWindow(mailed[p][k], SendWindow)
               <= Limit(k) - 1 + Cardinality(Requests) + lost + dropped
  <2>1. MailsBounded(p, k)
    BY <1>1 DEF SendsInv, SlotsInv
  <2>2. /\ InWindow(mailed[p][k], SendWindow) \in Nat
        /\ Cardinality(MayMail(p, k)) \in Nat /\ Cardinality(Requests) \in Nat
        /\ Limit(k) \in Int
    BY MembersFinite, SlotSets, LimitNat DEF InWindow, LimitType
  <2>3. lost \in Nat /\ dropped \in Nat
    BY DEF SendsInv, Typed
  <2> QED BY <2>1, <2>2, <2>3 DEF MailsBounded
<1>2. ASSUME NEW a \in Accounts PROVE a \in Keys /\ Limit(a) = SendMax
  BY <1>2 DEF Keys, Limit
<1>3. ASSUME NEW i \in Ips PROVE i \in Keys /\ Limit(i) = SendIpMax
  BY <1>3, KeysAssumption DEF Keys, Limit
<1> QED BY <1>1, <1>2, <1>3 DEF SendsBounded

\* The mails of any window stay below the limit plus the requests that ran at
\* the same time, plus those that failed between the mail and the last EXPIRE,
\* plus the slots that an expiring key took along before their EXPIRE.
THEOREM SendsStayBounded == Spec => []SendsBounded
BY SendsInit, SendsStep, SendsEnough, PTL DEF Spec

-----------------------------------------------------------------------------
(* Resends: what is let through in the window is still a member of it, for a *)
(* call prunes only what has left its own, earlier window.                   *)

Recent(i) == {t \in resent[i] : t > now - ResendWindow}

LEMMA RecentFinite ==
  ASSUME ResendInv, NEW i \in Ips
  PROVE  /\ IsFiniteSet(Recent(i)) /\ Cardinality(Recent(i)) <= ResendMax
         /\ now \in Nat /\ ResendWindow \in Nat /\ ResendMax \in Nat
<1>1. IsFiniteSet(Time) /\ Recent(i) \subseteq Time
  BY FS_Interval, LimitsAssumption DEF Time, Recent, ResendInv
<1>2. now \in Nat
  BY NowType DEF ResendInv, Sorts
<1> QED BY <1>1, <1>2, FS_Subset, LimitsAssumption DEF ResendInv, ResendsBounded, Recent

LEMMA ResendOthers ==
  ASSUME [Next]_vars
  PROVE  \/ UNCHANGED resend
         \/ Tick
         \/ \E r \in Requests : Resend(r)
         \/ \E i \in Ips : Expire(i)
<1>1. ASSUME NEW r \in Requests, Arrive(r) \/ FailMark(r) \/ Fail(r) PROVE UNCHANGED resend
  BY <1>1 DEF Arrive, FailMark, Fail
<1>2. ASSUME NEW r \in Requests, CheckLogin(r) \/ Verify(r) \/ RecordSuccess(r) \/ RecordIp(r)
      PROVE  UNCHANGED resend
  BY <1>2 DEF CheckLogin, IpCheck, LockoutCheck, ClearMarker, ClearFailures, Verify,
     RecordSuccess, ResetFailures, ResetMarker, RecordIp
<1>3. ASSUME NEW r \in Requests, RecordFailure(r) PROVE UNCHANGED resend
  BY <1>3 DEF RecordFailure, FailAccount, FailIp, FailCount, FailMark
<1>4. ASSUME NEW r \in Requests, CheckSend(r) \/ Mail(r) \/ ConsumeOnSend(r)
      PROVE  UNCHANGED resend
  BY <1>4, ConsumeFrame DEF CheckSend, SendIpCheck, SendAccountCheck, Mail
<1>5. UNCHANGED vars => UNCHANGED resend
  BY DEF vars, resend
<1>6. ASSUME NEW p \in Prefix, NEW k \in Accounts \cup Ips, KeyExpires(p, k)
      PROVE  UNCHANGED resend
  BY <1>6 DEF KeyExpires
<1> QED BY <1>1, <1>2, <1>3, <1>4, <1>5, <1>6 DEF Next

\* The window moves on, and nothing is let through.
LEMMA ResendIdle ==
  ASSUME ResendInv, Typed', [Next]_vars, NEW i \in Ips,
         resent'[i] \subseteq resent[i],
         \A t \in resends[i] : t > now' - ResendWindow => t \in resends'[i]
  PROVE  ResentKept(i)' /\ Cardinality(Recent(i)') <= ResendMax
<1>1. now \in Nat /\ now' \in Nat /\ now <= now' /\ ResendWindow \in Nat
  BY Clock, RecentFinite DEF ResendInv
<1>2. \A t \in resent'[i] : t \in Nat
  BY LimitsAssumption DEF ResendInv, Time
<1>3. \A t \in resent'[i] : t > now' - ResendWindow => t > now - ResendWindow
  BY <1>1, <1>2
<1>4. Recent(i)' \subseteq Recent(i)
  BY <1>3 DEF Recent
<1>5. ResentKept(i)'
  BY <1>3 DEF ResentKept, ResendInv
<1>6. Cardinality(Recent(i)') <= ResendMax
  BY <1>4, RecentFinite, NoMore, FS_CardinalityType
<1> QED BY <1>5, <1>6

LEMMA ResendCall ==
  ASSUME ResendInv, NEW r \in Requests, Resend(r)
  PROVE  /\ resends' \in [Ips -> SUBSET Time] /\ resent' \in [Ips -> SUBSET Time]
         /\ \A i \in Ips : ResentKept(i)' /\ Cardinality(Recent(i)') <= ResendMax
<1> DEFINE ip == request[r].ip
           at == request[r].at
           kept == Extended(resends[ip], at)
<1>1. ip \in Ips /\ at \in Time /\ at \in Nat /\ at <= now
  BY NowType DEF Sorts, ResendInv, RequestOK
<1>2. kept \subseteq Time /\ at \in kept
  BY <1>1 DEF Extended, ResendInv
<1>3. now' = now /\ resends' = [resends EXCEPT ![ip] = kept]
  BY DEF Resend
<1>4. resent' = [resent EXCEPT ![ip] = IF Permitted(kept) THEN @ \cup {at} ELSE @]
  BY <1>1, <1>3 DEF Resend, ResendInv
<1>5. resends' \in [Ips -> SUBSET Time] /\ resent' \in [Ips -> SUBSET Time]
  BY <1>1, <1>2, <1>3, <1>4 DEF ResendInv
<1>6. ASSUME NEW i \in Ips PROVE ResentKept(i)' /\ Cardinality(Recent(i)') <= ResendMax
  <2>1. CASE i # ip
    <3>1. resent'[i] = resent[i] /\ resends'[i] = resends[i]
      BY <1>3, <1>4, <2>1 DEF ResendInv
    <3> QED BY <1>3, <3>1, RecentFinite DEF Recent, ResentKept, ResendInv
  <2>2. CASE i = ip
    <3>1. resends'[i] = kept
      BY <1>1, <1>3, <2>2 DEF ResendInv
    <3>2. resent'[i] = IF Permitted(kept) THEN resent[i] \cup {at} ELSE resent[i]
      BY <1>1, <1>4, <2>2 DEF ResendInv
    <3>3. \A t \in resends[i] : t > now - ResendWindow => t \in kept
      <4>1. now \in Nat /\ ResendWindow \in Nat
        BY RecentFinite
      <4>2. \A t \in resends[i] : t \in Nat
        BY LimitsAssumption DEF ResendInv, Time
      <4>3. \A t \in resends[i] : t > now - ResendWindow => t > at - ResendWindow
        BY <1>1, <4>1, <4>2
      <4> QED BY <2>2, <4>3 DEF Extended
    <3>4. \A t \in resent[i] : t > now - ResendWindow => t \in kept
      BY <3>3 DEF ResendInv, ResentKept
    <3>5. ResentKept(i)'
      BY <1>2, <1>3, <3>1, <3>2, <3>4 DEF ResentKept
    <3>6. CASE Permitted(kept)
      <4>1. Recent(i)' \subseteq kept
        BY <1>3, <3>1, <3>5 DEF Recent, ResentKept
      <4>2. IsFiniteSet(kept)
        <5>1. IsFiniteSet(Time)
          BY FS_Interval, LimitsAssumption DEF Time
        <5> HIDE DEF kept
        <5> QED BY <1>2, <5>1, FS_Subset
      <4>3. Cardinality(kept) <= ResendMax
        BY <3>6 DEF Permitted
      <4> HIDE DEF kept
      <4> QED BY <3>5, <4>1, <4>2, <4>3, RecentFinite, NoMore
    <3>7. CASE ~Permitted(kept)
      BY <1>3, <3>2, <3>5, <3>7, RecentFinite DEF Recent
    <3> QED BY <3>6, <3>7
  <2> QED BY <2>1, <2>2
<1> QED BY <1>5, <1>6

LEMMA ResendInit == Init => ResendInv
<1> HAVE Init
<1>1. Typed /\ \A r \in Requests : RequestOK(r)
  BY LockInit DEF LockInv
<1>2. resends \in [Ips -> SUBSET Time] /\ resent \in [Ips -> SUBSET Time]
  BY DEF Init
<1>3. ASSUME NEW i \in Ips PROVE ResentKept(i) /\ Cardinality(Recent(i)) <= ResendMax
  <2>1. Recent(i) = {} /\ ResentKept(i)
    BY DEF Init, Recent, ResentKept
  <2> QED BY <2>1, FS_EmptySet, LimitsAssumption
<1> QED BY <1>1, <1>2, <1>3 DEF ResendInv, ResendsBounded, Recent

LEMMA ResendStep == ResendInv /\ [Next]_vars => ResendInv'
<1> SUFFICES ASSUME ResendInv, [Next]_vars PROVE ResendInv'
  OBVIOUS
<1>1. Typed' /\ \A r \in Requests : RequestOK(r)'
  BY TypedStep, RequestStep DEF ResendInv
<1> DEFINE Goal == /\ resends' \in [Ips -> SUBSET Time] /\ resent' \in [Ips -> SUBSET Time]
                   /\ \A i \in Ips : ResentKept(i)' /\ Cardinality(Recent(i)') <= ResendMax
<1>2. ASSUME UNCHANGED resend PROVE Goal
  <2>1. resends' = resends /\ resent' = resent
    BY <1>2 DEF resend
  <2> QED BY <1>1, <2>1, ResendIdle DEF ResendInv
<1>3. ASSUME Tick PROVE Goal
  <2>1. /\ resends' = resends
        /\ resent' = [i \in Ips |-> {t \in resent[i] : t > now' - ResendWindow}]
    BY <1>3 DEF Tick
  <2>2. resent' \in [Ips -> SUBSET Time] /\ \A i \in Ips : resent'[i] \subseteq resent[i]
    BY <2>1 DEF ResendInv
  <2> QED BY <1>1, <2>1, <2>2, ResendIdle DEF ResendInv
<1>4. ASSUME NEW r \in Requests, Resend(r) PROVE Goal
  BY <1>4, ResendCall
<1>5. ASSUME NEW j \in Ips, Expire(j) PROVE Goal
  <2>1. resends' = [resends EXCEPT ![j] = {}] /\ resent' = resent /\ now' = now
    BY <1>5 DEF Expire
  <2>2. \A t \in resends[j] : t \in Nat /\ ~(t > now - ResendWindow)
    BY <1>5, RecentFinite, LimitsAssumption DEF Expire, ResendInv, Time
  <2>3. ASSUME NEW i \in Ips
        PROVE  \A t \in resends[i] : t > now' - ResendWindow => t \in resends'[i]
    BY <2>1, <2>2 DEF ResendInv
  <2>4. resends' \in [Ips -> SUBSET Time]
    BY <2>1 DEF ResendInv
  <2> QED BY <1>1, <2>1, <2>3, <2>4, ResendIdle DEF ResendInv
<1>6. Goal
  BY <1>2, <1>3, <1>4, <1>5, ResendOthers
<1> QED BY <1>1, <1>6 DEF ResendInv, ResendsBounded, Recent

\* Of one address resends of at most ResendMax instants are let through in any
\* window, however late and in whatever order their transactions take place.
THEOREM ResendsStayBounded == Spec => []ResendsBounded
<1>1. ResendInv => ResendsBounded
  BY DEF ResendInv
<1> QED BY <1>1, ResendInit, ResendStep, PTL DEF Spec

-----------------------------------------------------------------------------
(* Sizes: each request adds at most one member to a sorted set, with a score *)
(* it has read from the clock before.                                        *)

LEMMA RoomStep ==
  ASSUME Typed, Typed', NEW r \in Requests, NEW done,
         \A q \in Requests \ {r} : request'[q].pc = request[q].pc,
         NEW z \in Counts, NEW y \in Counts, Room(z, done),
         \/ /\ arrivals' = arrivals /\ \A t \in Time : y[t] <= z[t]
            /\ request[r].pc \in done => request'[r].pc \in done
         \/ arrivals' = arrivals + 1 /\ y = z
         \/ /\ arrivals' = arrivals /\ \A t \in Time : y[t] <= z[t] + 1
            /\ request[r].pc \notin done /\ request'[r].pc \in done
  PROVE  \A t \in Time : y[t] + Cardinality(Before(done)') <= arrivals'
<1> SUFFICES ASSUME NEW t \in Time
             PROVE  y[t] + Cardinality(Before(done)') <= arrivals'
  OBVIOUS
<1>1. z[t] \in Nat /\ y[t] \in Nat /\ arrivals \in Nat /\ arrivals' \in Nat
  BY DEF Counts, Typed
<1>2. z[t] + Cardinality(Before(done)) <= arrivals
  BY DEF Room
<1>3. IsFiniteSet(Before(done))
  BY KeysAssumption, FS_Subset DEF Before
<1>4. Before(done) \ {r} = Before(done)' \ {r}
  BY DEF Before
<1>5. /\ Cardinality(Before(done)) \in Nat /\ Cardinality(Before(done)') \in Nat
      /\ Cardinality(Before(done)') <= Cardinality(Before(done)) + 1
      /\ (r \in Before(done)' => r \in Before(done))
           => Cardinality(Before(done)') <= Cardinality(Before(done))
      /\ r \in Before(done) /\ r \notin Before(done)'
           => Cardinality(Before(done)') = Cardinality(Before(done)) - 1
  BY <1>3, <1>4, SameBut
<1>6. /\ r \in Before(done) <=> request[r].pc \notin done
      /\ r \in Before(done)' <=> request'[r].pc \notin done
  BY DEF Before
<1> QED BY <1>1, <1>2, <1>5, <1>6

\* A member more, whose score the request has read.
LEMMA AddedOne ==
  ASSUME Typed, NEW z \in Counts, NEW t \in Time
  PROVE  /\ \A s \in Time : Added(z, t)[s] <= z[s] + 1
         /\ \A s \in Time : Added(z, t)[s] > 0 => z[s] > 0 \/ s = t
BY DEF Added, Counts

\* Nothing but a member whose score lies in the past.
Grows(y, z, r) ==
  /\ \A t \in Time : y[t] <= z[t] + 1
  /\ \A t \in Time : y[t] > 0 => z[t] > 0 \/ t = request[r].at
Shrinks(y, z) == \A t \in Time : y[t] <= z[t]

LEMMA ShrinksTo ==
  ASSUME NEW z \in Counts
  PROVE  /\ Shrinks(z, z) /\ Shrinks(Empty, z)
         /\ \A from \in Int : Shrinks(Pruned(z, from), z)
<1>1. \A t \in Time : z[t] \in Nat
  BY DEF Counts
<1>2. Shrinks(z, z) /\ Shrinks(Empty, z)
  BY <1>1 DEF Shrinks, Empty
<1> QED BY <1>2, PrunedCounts DEF Shrinks

LEMMA FailuresMove ==
  ASSUME Typed, \A r \in Requests : RequestOK(r), NEW r \in Requests,
         Arrive(r) \/ Plain(r) \/ FailMark(r), NEW a \in Accounts
  PROVE  \/ /\ Shrinks(failures'[a], failures[a])
            /\ arrivals' = arrivals
            /\ request[r].pc \in Failed => request'[r].pc \in Failed
         \/ failures' = failures /\ arrivals' = arrivals + 1
         \/ /\ Grows(failures'[a], failures[a], r)
            /\ arrivals' = arrivals
            /\ request[r].pc \notin Failed /\ request'[r].pc \in Failed
<1>0. Sorts /\ failures[a] \in Counts
  BY NowType DEF Typed
<1>1. ASSUME failures' = failures PROVE Shrinks(failures'[a], failures[a])
  BY <1>0, <1>1, ShrinksTo
<1>2. CASE Arrive(r)
  BY <1>2 DEF Arrive, login
<1>3. CASE IpCheck(r) \/ LockoutCheck(r) \/ ClearMarker(r) \/ Verify(r)
  BY <1>1, <1>3
  DEF IpCheck, LockoutCheck, ClearMarker, Verify, login, Failed, Sent
<1>4. CASE FailIp(r) \/ ResetMarker(r) \/ RecordIp(r)
  <2>1. Ends(r) \/ GoesTo(r, Failed)
    BY <1>4, Flow DEF GoesTo, Failed, Sent
  <2>2. request'[r].pc \in Failed
    BY <2>1, IdleType DEF Ends, GoesTo, Failed, Sent
  <2> QED BY <1>1, <1>4, <2>2 DEF FailIp, ResetMarker, RecordIp
<1>5. CASE FailMark(r)
  BY <1>1, <1>5, IdleType DEF FailMark, Failed, Sent
<1>6. CASE SendIpCheck(r) \/ SendAccountCheck(r)
  BY <1>1, <1>6 DEF SendIpCheck, SendAccountCheck, login, Failed, Sent
<1>7. CASE Mail(r) \/ ConsumeOnSend(r) \/ Leaves(r)
  <2>1. Ends(r) \/ GoesTo(r, Sent)
    BY <1>7, Flow DEF GoesTo, Sent
  <2>2. request'[r].pc \in Failed
    BY <2>1, IdleType DEF Ends, GoesTo, Failed, Sent
  <2> QED BY <1>1, <1>7, <2>2, ConsumeFrame DEF Mail, Leaves, login
<1>8. CASE ClearFailures(r) \/ ResetFailures(r)
  <2>1. failures' = [failures EXCEPT ![request[r].account] = Empty]
    BY <1>8 DEF ClearFailures, ResetFailures
  <2>2. failures'[a] = failures[a] \/ failures'[a] = Empty
    BY <2>1 DEF Typed
  <2>3. request[r].pc \in Failed => request'[r].pc \in Failed
    <3>1. CASE ClearFailures(r)
      BY <3>1 DEF ClearFailures, Failed, Sent
    <3>2. CASE ResetFailures(r)
      BY <3>2, Flow DEF GoesTo, Failed, Sent
    <3> QED BY <1>8, <3>1, <3>2
  <2> QED BY <1>0, <1>8, <2>2, <2>3, ShrinksTo DEF ClearFailures, ResetFailures
<1>9. CASE FailCount(r)
  <2>1. failures'[a] \in
          {failures[a], Pruned(failures[a], request[r].at - AccountWindow)}
    BY <1>9 DEF FailCount, Typed
  <2>2. request[r].at - AccountWindow \in Int
    BY <1>0, LimitsAssumption DEF Sorts
  <2>3. Ends(r) \/ GoesTo(r, {"fail_mark"})
    BY <1>9, Flow
  <2>4. request'[r].pc \in Failed
    BY <2>3, IdleType DEF Ends, GoesTo, Failed, Sent
  <2> QED BY <1>0, <1>9, <2>1, <2>2, <2>4, ShrinksTo DEF FailCount
<1>10. CASE FailAccount(r)
  <2>1. failures'[a] \in {failures[a], Added(failures[a], request[r].at)}
    BY <1>10 DEF FailAccount, Typed
  <2>2. request[r].pc \notin Failed /\ request'[r].pc \in Failed
    BY <1>10, Flow DEF FailAccount, GoesTo, Failed, Sent
  <2>3. Grows(failures'[a], failures[a], r)
    <3>1. CASE failures'[a] = failures[a]
      BY <1>0, <3>1 DEF Grows, Counts
    <3>2. CASE failures'[a] = Added(failures[a], request[r].at)
      BY <1>0, <3>2, AddedOne DEF Grows, Sorts
    <3> QED BY <2>1, <3>1, <3>2
  <2> QED BY <1>10, <2>2, <2>3 DEF FailAccount
<1> QED BY <1>2, <1>3, <1>4, <1>5, <1>6, <1>7, <1>8, <1>9, <1>10 DEF Plain

LEMMA AttemptsMove ==
  ASSUME Typed, \A r \in Requests : RequestOK(r), NEW r \in Requests,
         Arrive(r) \/ Plain(r) \/ FailMark(r), NEW i \in Ips
  PROVE  \/ /\ Shrinks(attempts'[i], attempts[i])
            /\ arrivals' = arrivals
            /\ request[r].pc \in Attempted => request'[r].pc \in Attempted
         \/ attempts' = attempts /\ arrivals' = arrivals + 1
         \/ /\ Grows(attempts'[i], attempts[i], r)
            /\ arrivals' = arrivals
            /\ request[r].pc \notin Attempted /\ request'[r].pc \in Attempted
<1>0. Sorts /\ attempts[i] \in Counts
  BY NowType DEF Typed
<1>1. ASSUME attempts' = attempts PROVE Shrinks(attempts'[i], attempts[i])
  BY <1>0, <1>1, ShrinksTo
<1>2. CASE Arrive(r)
  BY <1>2 DEF Arrive, login
<1>3. CASE IpCheck(r)
  <2>1. attempts'[i] \in
          {attempts[i], Pruned(attempts[i], request[r].at - IpWindow)}
    BY <1>3 DEF IpCheck, Typed
  <2>2. request[r].at - IpWindow \in Int
    BY <1>0, LimitsAssumption DEF Sorts
  <2> QED BY <1>0, <1>3, <2>1, <2>2, ShrinksTo DEF IpCheck, Attempted, Sent
<1>4. CASE LockoutCheck(r) \/ ClearMarker(r) \/ ClearFailures(r) \/ Verify(r)
           \/ FailAccount(r) \/ ResetFailures(r) \/ ResetMarker(r)
  BY <1>1, <1>4
  DEF LockoutCheck, ClearMarker, ClearFailures, Verify, FailAccount, ResetFailures,
      ResetMarker, login, Attempted, Sent
<1>5. CASE FailMark(r)
  BY <1>1, <1>5, IdleType DEF FailMark, Attempted, Sent
<1>6. CASE FailCount(r) \/ Mail(r) \/ ConsumeOnSend(r) \/ Leaves(r)
  <2>1. Ends(r) \/ GoesTo(r, {"fail_mark"} \cup Sent)
    BY <1>6, Flow DEF GoesTo, Sent
  <2>2. request'[r].pc \in Attempted
    BY <2>1, IdleType DEF Ends, GoesTo, Attempted, Sent
  <2> QED BY <1>1, <1>6, <2>2, ConsumeFrame DEF FailCount, Mail, Leaves, login
<1>7. CASE SendIpCheck(r) \/ SendAccountCheck(r)
  BY <1>1, <1>7 DEF SendIpCheck, SendAccountCheck, login, Attempted, Sent
<1>8. CASE FailIp(r) \/ RecordIp(r)
  <2>1. attempts'[i] \in {attempts[i], Added(attempts[i], request[r].at)}
    BY <1>8 DEF FailIp, RecordIp, Typed
  <2>2. Ends(r) \/ GoesTo(r, {"fail_count"})
    BY <1>8, Flow
  <2>3. request[r].pc \notin Attempted /\ request'[r].pc \in Attempted
    BY <1>8, <2>2, IdleType DEF FailIp, RecordIp, Ends, GoesTo, Attempted, Sent
  <2>4. Grows(attempts'[i], attempts[i], r)
    <3>1. CASE attempts'[i] = attempts[i]
      BY <1>0, <3>1 DEF Grows, Counts
    <3>2. CASE attempts'[i] = Added(attempts[i], request[r].at)
      BY <1>0, <3>2, AddedOne DEF Grows, Sorts
    <3> QED BY <2>1, <3>1, <3>2
  <2> QED BY <1>8, <2>3, <2>4 DEF FailIp, RecordIp
<1> QED BY <1>2, <1>3, <1>4, <1>5, <1>6, <1>7, <1>8 DEF Plain

LEMMA SlotsMove ==
  ASSUME Typed, \A r \in Requests : RequestOK(r), NEW r \in Requests,
         Arrive(r) \/ Plain(r) \/ FailMark(r), NEW p \in Prefix, NEW k \in Keys
  PROVE  \/ /\ Shrinks(sends'[p][k], sends[p][k])
            /\ arrivals' = arrivals
            /\ request[r].pc \in Charged(k) => request'[r].pc \in Charged(k)
         \/ sends' = sends /\ arrivals' = arrivals + 1
         \/ /\ Grows(sends'[p][k], sends[p][k], r)
            /\ arrivals' = arrivals
            /\ request[r].pc \notin Charged(k) /\ request'[r].pc \in Charged(k)
<1>0. Sorts /\ sends[p][k] \in Counts
  BY NowType DEF Typed, Keys
<1>1. ASSUME sends' = sends PROVE Shrinks(sends'[p][k], sends[p][k])
  BY <1>0, <1>1, ShrinksTo
<1>2. CASE Arrive(r)
  BY <1>2 DEF Arrive
<1>3. CASE IpCheck(r) \/ LockoutCheck(r) \/ ClearMarker(r) \/ ClearFailures(r) \/ Verify(r)
           \/ FailAccount(r) \/ FailIp(r) \/ FailCount(r) \/ ResetFailures(r)
           \/ ResetMarker(r) \/ RecordIp(r) \/ Mail(r)
  <2>1. request[r].pc \notin Charged(k)
    BY <1>3
    DEF IpCheck, LockoutCheck, ClearMarker, ClearFailures, Verify, FailAccount, FailIp,
        FailCount, ResetFailures, ResetMarker, RecordIp, Mail, Charged, Sent
  <2> QED BY <1>1, <1>3, <2>1
      DEF IpCheck, LockoutCheck, ClearMarker, ClearFailures, Verify, FailAccount, FailIp,
          FailCount, ResetFailures, ResetMarker, RecordIp, Mail, login
<1>4. CASE FailMark(r) \/ Leaves(r)
  <2>1. request'[r].pc \in Charged(k)
    BY <1>4, FailMarkType, Flow, IdleType DEF Ends, Charged, Sent
  <2> QED BY <1>1, <1>4, <2>1 DEF FailMark, Leaves
<1>5. CASE SendIpCheck(r) \/ SendAccountCheck(r)
  <2>1. sends'[p][k] = sends[p][k]
        \/ sends'[p][k] = Pruned(sends[p][k], request[r].at - SendWindow)
    <3>1. PICK key \in Keys :
            sends' = [sends EXCEPT ![PrefixOf(r)][key] = SendKept(r, key)]
      BY <1>0, <1>5 DEF SendIpCheck, SendAccountCheck, PruneSends, Sorts, Keys
    <3>2. SendKept(r, key) = Pruned(sends[PrefixOf(r)][key], request[r].at - SendWindow)
      BY DEF SendKept
    <3> QED BY <1>0, <3>1, <3>2 DEF Typed, Sorts, Keys
  <2>2. request[r].at - SendWindow \in Int
    BY <1>0, LimitsAssumption DEF Sorts
  <2>3. request[r].pc \notin Charged(k)
    BY <1>5 DEF SendIpCheck, SendAccountCheck, Charged, Sent
  <2> QED BY <1>0, <1>5, <2>1, <2>2, <2>3, ShrinksTo DEF SendIpCheck, SendAccountCheck
<1>6. ASSUME sends'[p][k] \in {sends[p][k], Added(sends[p][k], request[r].at)}
      PROVE  Grows(sends'[p][k], sends[p][k], r)
  <2>1. CASE sends'[p][k] = sends[p][k]
    BY <1>0, <2>1 DEF Grows, Counts
  <2>2. CASE sends'[p][k] = Added(sends[p][k], request[r].at)
    BY <1>0, <2>2, AddedOne DEF Grows, Sorts
  <2> QED BY <1>6, <2>1, <2>2
<1>7. CASE ConsumeAccount(r)
  <2>1. /\ request[r].pc = "consume_account" /\ arrivals' = arrivals
        /\ sends' = [sends EXCEPT ![PrefixOf(r)][request[r].account] = Added(@, request[r].at)]
    BY <1>7 DEF ConsumeAccount, TakeSlot
  <2>2. request'[r].pc = "consume_ip"
    BY <1>7, GotoGoes DEF ConsumeAccount, GoesTo, Pcs
  <2>3. CASE k \in Accounts
    <3>1. sends'[p][k] \in {sends[p][k], Added(sends[p][k], request[r].at)}
      BY <1>0, <2>1 DEF Typed, Sorts, Keys
    <3> QED BY <1>6, <2>1, <2>2, <2>3, <3>1 DEF Charged, Sent
  <2>4. CASE k \notin Accounts
    <3>1. sends'[p][k] = sends[p][k]
      BY <1>0, <2>1, <2>4 DEF Typed, Sorts, Keys
    <3> QED BY <1>0, <2>1, <2>4, <3>1, ShrinksTo DEF Charged, Sent
  <2> QED BY <2>3, <2>4
<1>8. CASE ConsumeIp(r)
  <2>1. /\ request[r].pc = "consume_ip" /\ arrivals' = arrivals
        /\ sends' = [sends EXCEPT ![PrefixOf(r)][request[r].ip] = Added(@, request[r].at)]
    BY <1>8 DEF ConsumeIp, TakeSlot
  <2>2. request'[r].pc = "expire_account"
    BY <1>8, GotoGoes DEF ConsumeIp, GoesTo, Pcs
  <2>3. CASE k \in Ips
    <3>1. sends'[p][k] \in {sends[p][k], Added(sends[p][k], request[r].at)}
      BY <1>0, <2>1 DEF Typed, Sorts, Keys
    <3> QED BY <1>6, <2>1, <2>2, <2>3, <3>1, KeysAssumption DEF Charged, Sent
  <2>4. CASE k \notin Ips
    <3>1. sends'[p][k] = sends[p][k]
      BY <1>0, <2>1, <2>4 DEF Typed, Sorts, Keys
    <3> QED BY <1>0, <2>1, <2>2, <3>1, ShrinksTo DEF Charged, Sent
  <2> QED BY <2>3, <2>4
<1>9. CASE ExpireAccount(r) \/ ExpireIp(r)
  <2>1. sends' = sends /\ arrivals' = arrivals
    BY <1>9 DEF ExpireAccount, ExpireIp, Prolong
  <2>2. request'[r].pc \in {"expire_ip", "idle"}
    <3>1. ExpireAccount(r) => request'[r].pc = "expire_ip"
      BY GotoGoes DEF ExpireAccount, GoesTo, Pcs
    <3>2. ExpireIp(r) => request'[r].pc = "idle"
      BY FinishEnds, IdleType DEF ExpireIp, Ends
    <3> QED BY <1>9, <3>1, <3>2
  <2> QED BY <1>1, <2>1, <2>2 DEF Charged, Sent
<1> QED BY <1>2, <1>3, <1>4, <1>5, <1>7, <1>8, <1>9 DEF Plain, ConsumeOnSend

\* What one step of a request does to a sorted set: room and scores.
LEMMA SizeStep ==
  ASSUME Typed, Typed', \A r \in Requests : RequestOK(r), NEW r \in Requests,
         now' = now, NEW done,
         \A q \in Requests \ {r} : request'[q].pc = request[q].pc,
         NEW z \in Counts, NEW y \in Counts, Room(z, done),
         \/ /\ Shrinks(y, z)
            /\ arrivals' = arrivals
            /\ request[r].pc \in done => request'[r].pc \in done
         \/ y = z /\ arrivals' = arrivals + 1
         \/ /\ Grows(y, z, r)
            /\ arrivals' = arrivals
            /\ request[r].pc \notin done /\ request'[r].pc \in done
  PROVE  /\ \A t \in Time : y[t] + Cardinality(Before(done)') <= arrivals'
         /\ NotInFuture(z) => \A t \in Time : y[t] > 0 => t <= now'
<1>1. \A t \in Time : y[t] + Cardinality(Before(done)') <= arrivals'
  BY RoomStep DEF Shrinks, Grows
<1>2. request[r].at <= now
  BY DEF RequestOK
<1>3. \A t \in Time : y[t] \in Nat /\ z[t] \in Nat
  BY DEF Counts
<1>4. ASSUME NotInFuture(z), NEW t \in Time, y[t] > 0 PROVE t <= now'
  <2>1. z[t] > 0 \/ t = request[r].at
    BY <1>3, <1>4 DEF Shrinks, Grows
  <2> QED BY <1>2, <1>4, <2>1 DEF NotInFuture
<1> QED BY <1>1, <1>4

LEMMA LostStep ==
  ASSUME Typed, lost <= MaxLost, [Next]_vars
  PROVE  lost' <= MaxLost
<1>1. ASSUME NEW r \in Requests, Leaves(r) PROVE lost' <= MaxLost
  BY <1>1, LimitsAssumption DEF Leaves, Typed
<1>2. ASSUME NEW r \in Requests, Arrive(r) \/ Plain(r) \/ FailMark(r), ~Leaves(r)
      PROVE  lost' = lost
  BY <1>2, ConsumeFrame DEF Arrive, Plain, IpCheck, LockoutCheck, ClearMarker, ClearFailures, Verify,
     FailAccount, FailIp, FailCount, ResetFailures, ResetMarker, RecordIp, SendIpCheck,
     SendAccountCheck, Mail, FailMark
<1>3. Tick \/ UNCHANGED limits => lost' = lost
  BY DEF Tick, limits
<1> QED BY <1>1, <1>2, <1>3, Splits

LEMMA DroppedStep ==
  ASSUME Typed, dropped <= MaxLost, [Next]_vars
  PROVE  dropped' <= MaxLost
<1>1. ASSUME NEW r \in Requests, Arrive(r) \/ Plain(r) \/ FailMark(r)
      PROVE  dropped' = dropped
  BY <1>1, ConsumeFrame DEF Arrive, Plain, IpCheck, LockoutCheck, ClearMarker, ClearFailures,
     Verify, FailAccount, FailIp, FailCount, ResetFailures, ResetMarker, RecordIp,
     SendIpCheck, SendAccountCheck, Mail, Leaves, FailMark
<1>2. ASSUME NEW p \in Prefix, NEW k \in Accounts \cup Ips, KeyExpires(p, k)
      PROVE  dropped' <= MaxLost
  BY <1>2 DEF KeyExpires
<1>3. Tick \/ UNCHANGED <<limits, send>> => dropped' = dropped
  BY DEF Tick
<1> QED BY <1>1, <1>2, <1>3, SendSplits

\* A key lives for a window at most, from the EXPIRE that names it.
LEMMA TtlStep ==
  ASSUME Typed, Typed', [Next]_vars, NEW p \in Prefix, NEW k \in Keys,
         ttl[p][k] <= now + SendWindow
  PROVE  ttl'[p][k] <= now' + SendWindow
<1>1. /\ now \in Nat /\ now' \in Nat /\ now <= now' /\ SendWindow \in Nat
      /\ ttl[p][k] \in Int
  <2>1. ttl[p][k] \in Nat \cup {NoTtl}
    BY DEF Typed, Keys
  <2>2. now \in Nat /\ SendWindow \in Nat
    BY NowType DEF Sorts
  <2> QED BY <2>1, <2>2, Clock DEF NoTtl
<1>2. ASSUME ttl'[p][k] \in {ttl[p][k], NoTtl, now + SendWindow}
      PROVE  ttl'[p][k] <= now' + SendWindow
  BY <1>1, <1>2 DEF NoTtl
<1>3. ASSUME NEW r \in Requests, Arrive(r) \/ Plain(r) \/ FailMark(r), ~CheckSend(r),
             ~ConsumeOnSend(r)
      PROVE  ttl' = ttl
  BY <1>3 DEF CheckSend, Arrive, Plain, IpCheck, LockoutCheck, ClearMarker, ClearFailures,
     Verify, FailAccount, FailIp, FailCount, ResetFailures, ResetMarker, RecordIp, Mail,
     Leaves, FailMark
<1>4. ASSUME NEW r \in Requests, CheckSend(r) \/ ConsumeOnSend(r)
      PROVE  ttl'[p][k] \in {ttl[p][k], NoTtl, now + SendWindow}
  <2>1. \/ ttl' = ttl
        \/ \E q \in Prefix, j \in Keys : \E x \in {ttl[q][j], NoTtl, now + SendWindow} :
             ttl' = [ttl EXCEPT ![q][j] = x]
    <3>1. PrefixOf(r) \in Prefix /\ request[r].ip \in Keys /\ request[r].account \in Keys
      BY NowType DEF Sorts, Keys
    <3>2. ASSUME NEW j \in Keys, PruneSends(r, j)
          PROVE  \E x \in {ttl[PrefixOf(r)][j], NoTtl, now + SendWindow} :
                   ttl' = [ttl EXCEPT ![PrefixOf(r)][j] = x]
      <4>1. CASE SendKept(r, j) = Empty
        BY <3>2, <4>1 DEF PruneSends
      <4>2. CASE SendKept(r, j) # Empty
        BY <3>2, <4>2 DEF PruneSends
      <4> QED BY <4>1, <4>2
    <3>3. ASSUME NEW j \in Keys, Prolong(r, j)
          PROVE  \E x \in {ttl[PrefixOf(r)][j], NoTtl, now + SendWindow} :
                   ttl' = [ttl EXCEPT ![PrefixOf(r)][j] = x]
      <4>1. CASE sends[PrefixOf(r)][j] = Empty
        BY <3>3, <4>1 DEF Prolong
      <4>2. CASE sends[PrefixOf(r)][j] # Empty
        BY <3>3, <4>2 DEF Prolong
      <4> QED BY <4>1, <4>2
    <3> QED BY <1>4, <3>1, <3>2, <3>3 DEF CheckSend, SendIpCheck, SendAccountCheck,
        ConsumeOnSend, ConsumeAccount, ConsumeIp, TakeSlot, ExpireAccount, ExpireIp
  <2>2. ttl \in [Prefix -> [Keys -> Nat \cup {NoTtl}]]
    BY DEF Typed, Keys
  <2>3. CASE ttl' = ttl
    BY <2>3
  <2>4. ASSUME NEW q \in Prefix, NEW j \in Keys, NEW x \in {ttl[q][j], NoTtl, now + SendWindow},
               ttl' = [ttl EXCEPT ![q][j] = x]
        PROVE  ttl'[p][k] \in {ttl[p][k], NoTtl, now + SendWindow}
    <3>1. CASE q = p /\ j = k
      BY <2>2, <2>4, <3>1
    <3>2. CASE ~(q = p /\ j = k)
      <4>1. ttl'[p][k] = ttl[p][k]
        BY <2>2, <2>4, <3>2
      <4> QED BY <4>1
    <3> QED BY <3>1, <3>2
  <2> QED BY <2>1, <2>3, <2>4
<1>5. ASSUME NEW q \in Prefix, NEW j \in Accounts \cup Ips, KeyExpires(q, j)
      PROVE  ttl'[p][k] \in {ttl[p][k], NoTtl, now + SendWindow}
  BY <1>5 DEF KeyExpires, Typed, Keys
<1>6. Tick \/ UNCHANGED <<limits, send>> => ttl' = ttl
  BY DEF Tick
<1> QED BY <1>2, <1>3, <1>4, <1>5, <1>6, SendSplits

LEMMA PastStep ==
  ASSUME Typed, \A r \in Requests : RequestOK(r),
         resends \in [Ips -> SUBSET (0 .. now)], resent \in [Ips -> SUBSET (0 .. now)],
         [Next]_vars
  PROVE  /\ resends' \in [Ips -> SUBSET (0 .. now')]
         /\ resent' \in [Ips -> SUBSET (0 .. now')]
<1>1. now \in Nat /\ now' \in Nat /\ now <= now'
  BY Clock, NowType DEF Sorts
<1>2. 0 .. now \subseteq 0 .. now'
  BY <1>1
<1>3. resends \in [Ips -> SUBSET (0 .. now')] /\ resent \in [Ips -> SUBSET (0 .. now')]
  BY <1>2
<1>4. CASE UNCHANGED resend
  BY <1>3, <1>4 DEF resend
<1>5. CASE Tick
  BY <1>3, <1>5 DEF Tick
<1>6. ASSUME NEW i \in Ips, Expire(i)
      PROVE  /\ resends' \in [Ips -> SUBSET (0 .. now')]
             /\ resent' \in [Ips -> SUBSET (0 .. now')]
  BY <1>3, <1>6 DEF Expire
<1>7. ASSUME NEW r \in Requests, Resend(r)
      PROVE  /\ resends' \in [Ips -> SUBSET (0 .. now')]
             /\ resent' \in [Ips -> SUBSET (0 .. now')]
  <2> DEFINE ip == request[r].ip
             at == request[r].at
  <2>1. ip \in Ips /\ at \in 0 .. now'
    BY <1>1, NowType DEF Sorts, RequestOK
  <2>2. Extended(resends[ip], at) \subseteq 0 .. now'
    BY <1>3, <2>1 DEF Extended
  <2>3. resends' = [resends EXCEPT ![ip] = Extended(@, at)]
    BY <1>7 DEF Resend
  <2>4. PICK let \in BOOLEAN : resent' = [resent EXCEPT ![ip] = IF let THEN @ \cup {at} ELSE @]
    <3>1. resent' = [resent EXCEPT ![ip] =
                       IF Permitted(resends'[ip]) THEN @ \cup {at} ELSE @]
      BY <1>7 DEF Resend
    <3>2. CASE Permitted(resends'[ip])
      BY <3>1, <3>2
    <3>3. CASE ~Permitted(resends'[ip])
      BY <3>1, <3>3
    <3> QED BY <3>2, <3>3
  <2> HIDE DEF ip, at
  <2>5. resends' \in [Ips -> SUBSET (0 .. now')]
    BY <1>3, <2>1, <2>2, <2>3
  <2>6. resent' \in [Ips -> SUBSET (0 .. now')]
    BY <1>3, <2>1, <2>4
  <2> QED BY <2>5, <2>6
<1> QED BY <1>4, <1>5, <1>6, <1>7, ResendOthers

LEMMA SizesInit == Init => SizesInv
<1> HAVE Init
<1>1. Typed /\ \A r \in Requests : RequestOK(r)
  BY LockInit DEF LockInv
<1>2. arrivals = 0 /\ lost = 0 /\ dropped = 0 /\ MaxLost \in Nat /\ mix.arrivals \in Nat
  BY LimitsAssumption, MixesAssumption DEF Init
<1>3. ASSUME NEW done, "idle" \in done PROVE Room(Empty, done) /\ NotInFuture(Empty)
  <2>1. Before(done) = {}
    BY <1>3, IdleType DEF Init, Before
  <2> QED BY <1>2, <2>1, FS_EmptySet DEF Room, NotInFuture, Empty
<1>4. "idle" \in Failed /\ "idle" \in Attempted /\ \A k \in Keys : "idle" \in Charged(k)
  BY DEF Failed, Attempted, Charged, Sent
<1>5. /\ \A a \in Accounts : failures[a] = Empty
      /\ \A i \in Ips : attempts[i] = Empty
      /\ \A p \in Prefix, k \in Keys : sends[p][k] = Empty /\ ttl[p][k] = NoTtl
  BY DEF Init, Keys
<1>6. resends \in [Ips -> SUBSET (0 .. now)] /\ resent \in [Ips -> SUBSET (0 .. now)]
  BY DEF Init
<1>7. arrivals <= mix.arrivals /\ lost <= MaxLost /\ dropped <= MaxLost
      /\ NoTtl <= now + SendWindow
  BY <1>1, <1>2, NowType DEF Sorts, NoTtl
<1>8. /\ \A a \in Accounts : Room(failures[a], Failed) /\ NotInFuture(failures[a])
      /\ \A i \in Ips : Room(attempts[i], Attempted) /\ NotInFuture(attempts[i])
      /\ \A p \in Prefix, k \in Keys :
           Room(sends[p][k], Charged(k)) /\ ttl[p][k] <= now + SendWindow
  BY <1>3, <1>4, <1>5, <1>7
<1> QED BY <1>1, <1>6, <1>7, <1>8 DEF SizesInv

LEMMA SizesStep == SizesInv /\ [Next]_vars => SizesInv'
<1> SUFFICES ASSUME SizesInv, [Next]_vars PROVE SizesInv'
  OBVIOUS
<1> USE DEF SizesInv
<1>1. Typed' /\ \A r \in Requests : RequestOK(r)'
  BY TypedStep, RequestStep
<1>2. arrivals' <= mix'.arrivals /\ lost' <= MaxLost /\ dropped' <= MaxLost
  BY ArrivalsStep, LostStep, DroppedStep
<1>3. /\ resends' \in [Ips -> SUBSET (0 .. now')]
      /\ resent' \in [Ips -> SUBSET (0 .. now')]
      /\ \A p \in Prefix, k \in Keys : ttl'[p][k] <= now' + SendWindow
  BY <1>1, PastStep, TtlStep
<1> DEFINE Sized == /\ \A a \in Accounts : Room(failures[a], Failed) /\ NotInFuture(failures[a])
                    /\ \A i \in Ips : Room(attempts[i], Attempted) /\ NotInFuture(attempts[i])
                    /\ \A p \in Prefix, k \in Keys : Room(sends[p][k], Charged(k))
<1>4. ASSUME UNCHANGED <<limits, send>> PROVE Sized'
  <2>1. UNCHANGED <<now, failures, attempts, sends, request, arrivals>>
    BY <1>4 DEF limits, login
  <2> QED BY <2>1 DEF Room, NotInFuture, Before, Charged
<1>5. ASSUME Tick PROVE Sized'
  <2>1. now \in Nat /\ now' \in Nat /\ now <= now'
    BY Clock, NowType DEF Sorts
  <2>2. \A t \in Time : t \in Nat
    BY LimitsAssumption DEF Time
  <2>3. UNCHANGED <<failures, attempts, sends, request, arrivals>>
    BY <1>5 DEF Tick, login
  <2> QED BY <2>1, <2>2, <2>3 DEF Room, NotInFuture, Before
<1>6. ASSUME NEW r \in Requests, Arrive(r) \/ Plain(r) \/ FailMark(r) PROVE Sized'
  <2>1. now' = now
    BY <1>6, ConsumeFrame DEF Arrive, Plain, IpCheck, LockoutCheck, ClearMarker,
       ClearFailures, Verify, FailAccount, FailIp, FailCount, ResetFailures, ResetMarker,
       RecordIp, SendIpCheck, SendAccountCheck, Mail, Leaves, FailMark
  <2>2. \A q \in Requests \ {r} : request'[q].pc = request[q].pc
    BY <1>6, OthersStay
  <2>3. ASSUME NEW a \in Accounts
        PROVE  Room(failures[a], Failed)' /\ NotInFuture(failures[a])'
    <3>1. failures[a] \in Counts /\ failures'[a] \in Counts
      BY <1>1 DEF Typed
    <3> QED BY <1>1, <1>6, <2>1, <2>2, <3>1, FailuresMove, SizeStep DEF Room, NotInFuture
  <2>4. ASSUME NEW i \in Ips
        PROVE  Room(attempts[i], Attempted)' /\ NotInFuture(attempts[i])'
    <3>1. attempts[i] \in Counts /\ attempts'[i] \in Counts
      BY <1>1 DEF Typed
    <3> QED BY <1>1, <1>6, <2>1, <2>2, <3>1, AttemptsMove, SizeStep DEF Room, NotInFuture
  <2>5. ASSUME NEW p \in Prefix, NEW k \in Keys
        PROVE  Room(sends[p][k], Charged(k))'
    <3>1. sends[p][k] \in Counts /\ sends'[p][k] \in Counts
      BY <1>1 DEF Typed, Keys
    <3>2. Charged(k)' = Charged(k)
      BY DEF Charged
    <3> QED BY <1>1, <1>6, <2>1, <2>2, <3>1, <3>2, SlotsMove, SizeStep DEF Room
  <2> QED BY <2>3, <2>4, <2>5 DEF Prefix, Keys
<1>7. ASSUME NEW q \in Prefix, NEW j \in Keys, KeyExpires(q, j) PROVE Sized'
  <2>1. UNCHANGED <<now, failures, attempts, request, arrivals>>
    BY <1>7 DEF KeyExpires, login
  <2>2. ASSUME NEW p \in Prefix, NEW k \in Keys
        PROVE  Room(sends[p][k], Charged(k))'
    <3>1. sends'[p][k] = sends[p][k] \/ sends'[p][k] = Empty
      BY <1>7 DEF KeyExpires, Typed, Keys
    <3>2. sends[p][k] \in Counts
      BY DEF Typed, Keys
    <3>3. Before(Charged(k))' = Before(Charged(k))
      BY <2>1 DEF Before, Charged
    <3>4. ASSUME NEW t \in Time
          PROVE  sends'[p][k][t] + Cardinality(Before(Charged(k))) <= arrivals
      <4>1. sends[p][k][t] + Cardinality(Before(Charged(k))) <= arrivals
        BY DEF Room
      <4>2. sends[p][k][t] \in Nat /\ arrivals \in Nat /\ Empty[t] = 0
        BY <3>2 DEF Typed, Counts, Empty
      <4>3. Cardinality(Before(Charged(k))) \in Nat
        BY KeysAssumption, FS_Subset, FS_CardinalityType DEF Before
      <4> QED BY <3>1, <4>1, <4>2, <4>3
    <3> QED BY <2>1, <3>3, <3>4 DEF Room
  <2>3. /\ \A a \in Accounts : Room(failures[a], Failed)' /\ NotInFuture(failures[a])'
        /\ \A i \in Ips : Room(attempts[i], Attempted)' /\ NotInFuture(attempts[i])'
    BY <2>1 DEF Room, NotInFuture, Before
  <2> QED BY <2>2, <2>3 DEF Prefix, Keys
<1>8. Sized'
  BY <1>4, <1>5, <1>6, <1>7, SendSplits DEF Keys
<1> QED BY <1>1, <1>2, <1>3, <1>8

LEMMA SizesEnough == SizesInv /\ SendsInv => TypeOK
<1> SUFFICES ASSUME SizesInv, SendsInv PROVE TypeOK
  OBVIOUS
<1>1. Typed /\ lost <= MaxLost /\ dropped <= MaxLost /\ arrivals <= mix.arrivals
  BY DEF SizesInv
<1>2. /\ arrivals \in Nat /\ lost \in Nat /\ dropped \in Nat /\ mix \in Mixes
      /\ MaxArrivals \in Nat /\ MaxLost \in Nat /\ arrivals <= MaxArrivals
  <2>1. arrivals \in Nat /\ lost \in Nat /\ mix \in Mixes
    BY <1>1 DEF Typed
  <2>2. dropped \in Nat
    BY <1>1 DEF Typed
  <2> QED BY <1>1, <2>1, <2>2, ArrivalsBound, LimitsAssumption
<1>3. ASSUME NEW z \in Counts, NEW done, Room(z, done) PROVE z \in Window
  <2>1. Cardinality(Before(done)) \in Nat
    BY KeysAssumption, FS_Subset, FS_CardinalityType DEF Before
  <2>2. \A t \in Time : z[t] \in 0 .. MaxArrivals
    BY <1>2, <1>3, <2>1 DEF Room, Counts
  <2> QED BY <2>2 DEF Window, Counts
<1>4. failures \in [Accounts -> Window] /\ attempts \in [Ips -> Window]
  BY <1>3 DEF SizesInv, Typed
<1>5. sends \in [Prefix -> [Accounts \cup Ips -> Window]]
  <2>1. ASSUME NEW p \in Prefix, NEW k \in Keys PROVE sends[p][k] \in Window
    BY <1>3 DEF SizesInv, Typed, Keys
  <2> QED BY <2>1 DEF SizesInv, Typed, Keys
<1>6. ASSUME NEW p \in Prefix, NEW k \in Keys PROVE mailed[p][k] \in Window
  <2>1. mailed[p][k] \in Counts /\ MailsArrived(p, k)
    BY DEF SendsInv, SlotsInv, Typed, Keys
  <2>2. Cardinality(Unsent) \in Nat
    BY SlotSets
  <2>3. \A t \in Time : mailed[p][k][t] \in 0 .. MaxArrivals
    BY <1>2, <2>1, <2>2 DEF MailsArrived, Counts
  <2> QED BY <2>1, <2>3 DEF Window, Counts
<1>7. mailed \in [Prefix -> [Accounts \cup Ips -> Window]]
  BY <1>6 DEF SizesInv, Typed, Keys
<1>8. ttl \in [Prefix -> [Accounts \cup Ips -> {NoTtl} \cup (0 .. now + SendWindow)]]
  <2>1. ttl \in [Prefix -> [Accounts \cup Ips -> Nat \cup {NoTtl}]]
    BY <1>1 DEF Typed
  <2>2. now \in Nat /\ SendWindow \in Nat
    BY <1>1, NowType DEF Sorts
  <2>3. ASSUME NEW p \in Prefix, NEW k \in Keys
        PROVE  ttl[p][k] \in {NoTtl} \cup (0 .. now + SendWindow)
    <3>1. ttl[p][k] <= now + SendWindow
      BY DEF SizesInv
    <3>2. ttl[p][k] \in Nat \cup {NoTtl}
      BY <2>1 DEF Keys
    <3> QED BY <2>2, <3>1, <3>2
  <2> QED BY <2>1, <2>3 DEF Keys
<1>9. ASSUME NEW a \in Accounts, NEW i \in Ips, NEW t \in Time,
             failures[a][t] + attempts[i][t] > 0
      PROVE  t <= now
  <2>1. failures[a][t] \in Nat /\ attempts[i][t] \in Nat
    BY DEF SizesInv, Typed, Counts
  <2>2. failures[a][t] > 0 \/ attempts[i][t] > 0
    BY <1>9, <2>1
  <2> QED BY <2>2 DEF SizesInv, NotInFuture
<1>10. /\ arrivals \in 0 .. mix.arrivals /\ lost \in 0 .. MaxLost
       /\ dropped \in 0 .. MaxLost
  <2>1. mix.arrivals \in Nat
    BY <1>2, MixesAssumption
  <2> QED BY <1>1, <1>2, <2>1
<1>11. /\ now \in Time /\ lifted \subseteq Accounts
       /\ marker \in [Accounts -> Time \cup {NoMarker}]
       /\ request \in [Requests -> RequestState] /\ mix \in Mixes
       /\ resends \in [Ips -> SUBSET (0 .. now)] /\ resent \in [Ips -> SUBSET (0 .. now)]
  BY DEF SizesInv, Typed
<1> QED BY <1>4, <1>5, <1>7, <1>8, <1>9, <1>10, <1>11 DEF TypeOK

\* Types of the limiters: no sorted set outgrows the requests that have
\* arrived, for a request leaves one member in it at most, and no score lies
\* in the future, for a request scores with a clock it has read.
THEOREM SetsStayTyped == Spec => []TypeOK
BY SizesInit, SizesStep, SendsInit, SendsStep, SizesEnough, PTL DEF Spec
=============================================================================
