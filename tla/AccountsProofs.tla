--------------------------- MODULE AccountsProofs ---------------------------
(***************************************************************************)
(* Proof that IInv, RedeemedInv, OwnInv and HoldInv are invariants of      *)
(* Accounts for every value of the constants, the safety properties that   *)
(* follow, and that Accounts implements AccountLifecycle.                  *)
(*                                                                         *)
(* Of each invariant: one lemma for each shape of a step (a request        *)
(* begins, writes, commits, ends), then the actions.                       *)
(***************************************************************************)
EXTENDS AccountsInv, TLAPS, FiniteSetTheorems

LEMMA Types ==
  ASSUME IInv
  PROVE  /\ TypeOK
         /\ \A r \in Requests : request[r] \in RequestState
         /\ \A t \in Tok : token[t] \in TokenRow /\ stamp[t] \in Stamp
         /\ \A u \in Users : account[u] \in AccountRow /\ gen[u] \in Nat
BY DEF IInv, TypeOK

LEMMA Constants ==
  /\ None \notin Users /\ None \notin Emails /\ None \notin Tok /\ None \notin Nat
  /\ Hold \in Nat /\ TokenLife \in Nat /\ ResetLife \in Nat
BY NoneAssumption, BoundsAssumption

LEMMA StampForType ==
  ASSUME IInv, NEW u \in Users
  PROVE  /\ StampFor(u) \in Stamp /\ StampFor(u).gen = gen[u]
         /\ StampFor(u).raced <=> ChangeUnderWay(u)
<1>1. gen[u] \in Nat /\ ChangeUnderWay(u) \in BOOLEAN
  BY Types DEF ChangeUnderWay
<1> QED BY <1>1 DEF StampFor, Stamp

\* What the steps of others leave of a request.
Kept(q) ==
  /\ request'[q].pc = request[q].pc /\ request'[q].kind = request[q].kind
  /\ request'[q].uid = request[q].uid /\ request'[q].tok = request[q].tok
  /\ request'[q].email = request[q].email
  /\ request'[q].old_email = request[q].old_email
  /\ request'[q].sets = request[q].sets
  /\ request'[q].lock = request[q].lock /\ request'[q].row = request[q].row
  /\ request'[q].del = request[q].del /\ request'[q].ins = request[q].ins
  /\ request'[q].new = request[q].new
  /\ request'[q].stamp.gen = request[q].stamp.gen
  /\ request[q].stamp.raced => request'[q].stamp.raced

\* A request that is marked as raced is otherwise as it was.
LEMMA MarkedKept ==
  ASSUME IInv, NEW q \in Requests,
         request'[q] = [request[q] EXCEPT !.stamp.raced = TRUE]
  PROVE  request'[q] \in RequestState /\ Kept(q) /\ request'[q].stamp.raced
<1> DEFINE m == [request[q] EXCEPT !.stamp.raced = TRUE]
<1>1. request[q] \in RequestState
  BY Types
<1>2. request[q].stamp \in Stamp
  BY <1>1 DEF RequestState
<1>3. m.stamp = [request[q].stamp EXCEPT !.raced = TRUE]
  BY <1>1 DEF RequestState
<1>4. m.stamp \in Stamp /\ m.stamp.raced /\ m.stamp.gen = request[q].stamp.gen
  BY <1>2, <1>3 DEF Stamp
<1>5. m = [request[q] EXCEPT !.stamp = m.stamp]
  BY <1>1 DEF RequestState
<1>6. m \in RequestState
  BY <1>1, <1>4, <1>5 DEF RequestState
<1>7. /\ m.pc = request[q].pc /\ m.kind = request[q].kind
      /\ m.uid = request[q].uid /\ m.tok = request[q].tok
      /\ m.email = request[q].email /\ m.old_email = request[q].old_email
      /\ m.sets = request[q].sets
      /\ m.lock = request[q].lock /\ m.row = request[q].row
      /\ m.del = request[q].del /\ m.ins = request[q].ins /\ m.new = request[q].new
  BY <1>1 DEF RequestState
<1>8. request'[q] = m
  OBVIOUS
<1> HIDE DEF m
<1> QED BY <1>4, <1>6, <1>7, <1>8 DEF Kept

\* A request as the invariant wants it, but for locks and open changes.
Fits(w) ==
  /\ w.pc = "idle" => w.kind = "none"
  /\ w.pc # "idle" => Reads(w) /\ LinkOK(w)
  /\ w.pc = "select" => w.kind \in Selecting
  /\ w.pc # "commit" => ~Writes(w)
  /\ ~Holding(w) => w.del = {} /\ w.ins = None
  /\ Holding(w) => TokensDeleted(w) /\ TokenInserted(w) /\ TokenMarked(w)
  /\ w.pc = "commit" => RowWritten(w)

\* A request takes a step of its own; the tables stay as they are.
LEMMA LocalStep ==
  ASSUME IInv, NEW r \in Requests, NEW w \in RequestState, Fits(w),
         UNCHANGED <<now, account, token, gen, stamp, redeemed>>,
         request' \in [Requests -> RequestState], request'[r] = w,
         \A q \in Requests \ {r} : Kept(q),
         \A q \in Requests \ {r} :
           /\ request[q].uid = w.uid => ~(Writes(w) /\ Writes(request[q]))
           /\ ((w.del \cup {w.ins}) \ {None}) \cap TokensLocked(q) = {},
         w.pc = "commit" /\ w.kind \in Changing =>
           /\ TokensOf("reset", w.uid) \subseteq w.del
           /\ \A f \in Requests \ {r} :
                request[f].kind = "forgot" /\ request[f].uid = w.uid =>
                  request'[f].stamp.raced,
         w.kind = "forgot" =>
           \A q \in Requests \ {r} :
             request[q].kind \in Changing /\ request[q].uid = w.uid
             /\ request[q].pc = "commit" => w.stamp.raced
  PROVE  IInv'
<1>1. TypeOK'
  BY DEF IInv, TypeOK
<1>2. /\ \A u \in Users : RowOK(account[u])'
      /\ \A t \in Tok : TokenOK(t)'
      /\ PendingVerifiable'
  BY DEF IInv, RowOK, TokenOK, PendingVerifiable, TokensOf, LinkTo, Exists
<1>3. ASSUME NEW q \in Requests PROVE RequestOK(q)'
  <2>1. CASE q = r
    <3>1. w.pc # "idle" => Reads(request[r])' /\ LinkOK(request[r])'
      BY DEF Fits, Reads, Redeems, Exists, Settled, LinkOK, LinkTo
    <3> QED BY <2>1, <3>1 DEF Fits, RequestOK, Writes, Holding
  <2>2. CASE q # r
    <3>1. Kept(q) /\ RequestOK(q)
      BY <2>2 DEF IInv
    <3>2. request[q].pc # "idle" => Reads(request[q])'
      BY <3>1 DEF RequestOK, Kept, Reads, Redeems, Exists, Settled
    <3>3. request[q].pc # "idle" => LinkOK(request[q])'
      BY <3>1 DEF RequestOK, Kept, LinkOK, LinkTo
    <3> QED BY <3>1, <3>2, <3>3 DEF RequestOK, Kept, Writes, Holding
  <2> QED BY <2>1, <2>2
<1>4. ASSUME NEW q \in Requests PROVE WriteOK(q)'
  <2>1. CASE q = r
    <3>1. Holding(w) => TokensDeleted(w)' /\ TokenInserted(w)' /\ TokenMarked(w)'
      BY DEF Fits, TokensDeleted, TokenInserted, TokenMarked
    <3>2. w.pc = "commit" => RowWritten(w)'
      BY DEF Fits, RowWritten, RowOK, Writes, LinkTo
    <3>3. w.pc = "commit" => ChangeSeen(w)'
      <4> SUFFICES ASSUME w.pc = "commit", w.kind \in Changing PROVE ChangeSeen(w)'
        BY DEF ChangeSeen
      <4>1. \A t \in Tok \ w.del : ~(token[t].kind = "reset" /\ token[t].user_id = w.uid)
        BY DEF TokensOf
      <4>2. \A f \in Requests :
              request'[f].kind = "forgot" /\ request'[f].uid = w.uid =>
                request'[f].stamp.raced
        BY DEF Kept, Changing
      <4> QED BY <4>1, <4>2 DEF ChangeSeen
    <3> QED BY <2>1, <3>1, <3>2, <3>3 DEF WriteOK, Holding
  <2>2. CASE q # r
    <3> DEFINE old == request[q]
    <3>1. Kept(q) /\ WriteOK(q)
      BY <2>2 DEF IInv
    <3>2. RowWritten(old) => RowWritten(request[q])'
      BY <3>1 DEF Kept, RowWritten, RowOK, Writes, LinkTo
    <3>3. TokensDeleted(old) => TokensDeleted(request[q])'
      BY <3>1 DEF Kept, TokensDeleted
    <3>4. TokenInserted(old) => TokenInserted(request[q])'
      BY <3>1 DEF Kept, TokenInserted
    <3>5. TokenMarked(old) => TokenMarked(request[q])'
      BY <3>1 DEF Kept, TokenMarked
    <3>6. old.pc = "commit" /\ ChangeSeen(old) => ChangeSeen(request[q])'
      <4> SUFFICES ASSUME old.pc = "commit", ChangeSeen(old), old.kind \in Changing
                   PROVE  ChangeSeen(request[q])'
        BY <3>1 DEF ChangeSeen, Kept
      <4>1. \A f \in Requests :
              request'[f].kind = "forgot" /\ request'[f].uid = old.uid =>
                request'[f].stamp.raced
        BY <2>2 DEF Kept, ChangeSeen
      <4> QED BY <3>1, <4>1 DEF ChangeSeen, Kept
    <3> QED BY <3>1, <3>2, <3>3, <3>4, <3>5, <3>6 DEF WriteOK, Kept, Holding
  <2> QED BY <2>1, <2>2
<1>5. LocksExclude'
  <2>1. ASSUME NEW q \in Requests \ {r}, NEW p \in Requests \ {r}, p # q
        PROVE  Apart(p, q)'
    BY <2>1 DEF IInv, LocksExclude, Apart, TokensLocked, Writes, Kept
  <2>2. ASSUME NEW q \in Requests \ {r} PROVE Apart(r, q)' /\ Apart(q, r)'
    <3>1. request'[q].uid = w.uid => ~(Writes(w) /\ Writes(request'[q]))
      BY DEF Writes, Kept
    <3>2. \A t \in Tok : ~(t \in w.del \cup {w.ins}
                           /\ t \in request'[q].del \cup {request'[q].ins})
      BY Constants DEF TokensLocked, Kept
    <3> QED BY <3>1, <3>2 DEF Apart, TokensLocked, Writes
  <2> QED BY <2>1, <2>2 DEF LocksExclude
<1> QED BY <1>1, <1>2, <1>3, <1>4, <1>5 DEF IInv

\* As LocalStep, of a request that takes no row lock; the others are as they
\* were.
LEMMA QuietInv ==
  ASSUME IInv, NEW r \in Requests, NEW w \in RequestState, Fits(w),
         UNCHANGED <<now, account, token, gen, stamp, redeemed>>,
         request' = [request EXCEPT ![r] = w], w.pc # "commit",
         \A q \in Requests \ {r} :
           ((w.del \cup {w.ins}) \ {None}) \cap TokensLocked(q) = {},
         w.kind = "forgot" => (w.stamp.raced <=> ChangeUnderWay(w.uid))
  PROVE  IInv'
<1>1. TypeOK /\ request'[r] = w /\ \A q \in Requests \ {r} : request'[q] = request[q]
  BY DEF IInv, TypeOK
<1>2. request' \in [Requests -> RequestState]
  BY <1>1 DEF TypeOK
<1>3. \A q \in Requests \ {r} : Kept(q)
  BY <1>1 DEF Kept
<1>4. ~Writes(w)
  BY DEF Fits
<1>5. w.kind = "forgot" =>
        \A q \in Requests \ {r} :
          request[q].kind \in Changing /\ request[q].uid = w.uid
          /\ request[q].pc = "commit" => w.stamp.raced
  BY DEF ChangeUnderWay
<1> QED BY <1>1, <1>2, <1>3, <1>4, <1>5, LocalStep

LEMMA NoRequestType ==
  /\ NoRequest \in RequestState /\ NoRequest.pc = "idle" /\ NoRequest.kind = "none"
  /\ NoRequest.lock = "none" /\ NoRequest.del = {} /\ NoRequest.ins = None
  /\ ~NoRequest.stamp.raced
BY DEF NoRequest, RequestState, NoAccount, AccountRow, Status, NoToken, TokenRow,
       NoStamp, Stamp

\* A request begins: it has locked nothing.
LEMMA BeginStep ==
  ASSUME IInv, NEW r \in Requests, NEW new \in RequestState, Begin(r, new),
         new.lock = "none", new.del = {}, new.ins = None,
         Reads([new EXCEPT !.pc = "select"]),
         new.kind = "forgot" => new.email = LinkTo(account[new.uid])
  PROVE  IInv'
<1> DEFINE pc == IF new.kind \in Selecting THEN "select" ELSE "write"
           st == IF new.kind = "forgot" THEN StampFor(new.uid) ELSE NoStamp
           b == [new EXCEPT !.pc = pc, !.stamp = st]
           s == [new EXCEPT !.pc = "select"]
<1>1. /\ request' = [request EXCEPT ![r] = b]
      /\ UNCHANGED <<now, account, token, gen, stamp, redeemed>>
  BY DEF Begin
<1>2. /\ Reads(s) /\ s.kind = new.kind /\ s.uid = new.uid /\ s.tok = new.tok
      /\ s.email = new.email /\ s.old_email = new.old_email /\ s.pc = "select"
      /\ s.sets = new.sets
  BY DEF RequestState
<1> HIDE DEF s
<1>3. /\ st \in Stamp
      /\ new.kind = "forgot" =>
           st.gen = gen[new.uid] /\ (st.raced <=> ChangeUnderWay(new.uid))
  BY <1>2, StampForType DEF Reads, NoStamp, Stamp
<1> HIDE DEF st
<1>4. pc \in {"select", "write"} /\ (pc = "select" <=> new.kind \in Selecting)
  OBVIOUS
<1> HIDE DEF pc
<1>5. /\ b \in RequestState /\ b.pc = pc /\ b.kind = new.kind /\ b.uid = new.uid
      /\ b.tok = new.tok /\ b.email = new.email /\ b.old_email = new.old_email
      /\ b.sets = new.sets
      /\ b.lock = "none" /\ b.del = {} /\ b.ins = None /\ b.stamp = st
  BY <1>3, <1>4 DEF RequestState
<1> HIDE DEF b
<1>6. Reads(b)
  BY <1>2, <1>4, <1>5 DEF Reads, Redeems, Selecting, Activating
<1>7. LinkOK(b)
  BY <1>3, <1>5 DEF LinkOK
<1>8. Fits(b)
  BY <1>4, <1>5, <1>6, <1>7 DEF Fits, Holding, Writes, Selecting, Activating
<1>9. \A q \in Requests \ {r} : ((b.del \cup {b.ins}) \ {None}) \cap TokensLocked(q) = {}
  BY <1>5
<1> QED BY <1>1, <1>3, <1>4, <1>5, <1>8, <1>9, QuietInv

\* A transaction that ends without a trace.
LEMMA RollBackInv ==
  ASSUME IInv, NEW r \in Requests, RollBack(r) PROVE IInv'
<1>1. request' = [request EXCEPT ![r] = NoRequest]
      /\ UNCHANGED <<now, account, token, gen, stamp, redeemed>>
  BY DEF RollBack
<1>2. Fits(NoRequest)
  BY NoRequestType DEF Fits, Holding, Writes
<1> QED BY <1>1, <1>2, NoRequestType, QuietInv

\* A request whose writes agree with the committed rows takes its locks.
LEMMA WriteStep ==
  ASSUME IInv, NEW r \in Requests, request[r].pc = "write",
         NEW mode \in {"none", "share", "nokey", "email"}, NEW row \in AccountRow,
         NEW del \in SUBSET Tok, NEW ins \in Tok \cup {None}, NEW new \in TokenRow,
         Write(r, mode, row, del, ins, new),
         NEW w, w = [request[r] EXCEPT !.pc = "commit", !.lock = mode, !.row = row,
                                       !.del = del, !.ins = ins, !.new = new],
         RowWritten(w), TokensDeleted(w), TokenInserted(w), TokenMarked(w),
         w.kind \in Changing => TokensOf("reset", w.uid) \subseteq del
  PROVE  IInv'
<1> DEFINE races(q) == /\ request[r].kind \in Changing
                       /\ request[q].kind = "forgot"
                       /\ request[q].uid = request[r].uid
           marked(q) == [request[q] EXCEPT !.stamp.raced = TRUE]
<1>1. /\ TypeOK /\ UNCHANGED <<now, account, token, gen, stamp, redeemed>>
      /\ CanLock(r, mode)
      /\ \A q \in Requests \ {r} :
           ((del \cup {ins}) \ {None}) \cap TokensLocked(q) = {}
  BY DEF IInv, Write, CanLockTokens
<1>2. request' = [q \in Requests |->
        IF q = r THEN w ELSE IF races(q) THEN marked(q) ELSE request[q]]
  BY DEF Write
<1>3. /\ w \in RequestState /\ w.pc = "commit" /\ w.kind = request[r].kind
      /\ w.uid = request[r].uid /\ w.tok = request[r].tok /\ w.email = request[r].email
      /\ w.old_email = request[r].old_email /\ w.stamp = request[r].stamp
      /\ w.sets = request[r].sets
      /\ w.lock = mode /\ w.row = row /\ w.del = del /\ w.ins = ins /\ w.new = new
  BY Types DEF RequestState
<1>4. ASSUME NEW q \in Requests \ {r}
      PROVE  /\ request'[q] \in RequestState /\ Kept(q)
             /\ races(q) => request'[q].stamp.raced
  <2>1. request'[q] = IF races(q) THEN marked(q) ELSE request[q]
    BY <1>2
  <2>2. CASE races(q)
    BY <2>1, <2>2, MarkedKept
  <2>3. CASE ~races(q)
    BY <2>1, <2>3, Types DEF Kept
  <2> QED BY <2>2, <2>3
<1>5. request'[r] = w
  BY <1>2
<1>6. request' \in [Requests -> RequestState]
  BY <1>2, <1>3, <1>4, <1>5
<1>7. RequestOK(r) /\ Reads(request[r]) /\ LinkOK(request[r])
  BY DEF IInv, RequestOK
<1>8. Fits(w)
  <2>1. Reads(w)
    BY <1>3, <1>7 DEF Reads, Redeems
  <2>2. LinkOK(w)
    BY <1>3, <1>7 DEF LinkOK
  <2> QED BY <1>3, <2>1, <2>2 DEF Fits, Holding
<1>9. ASSUME NEW q \in Requests \ {r}
      PROVE  request[q].uid = w.uid => ~(Writes(w) /\ Writes(request[q]))
  BY <1>1, <1>3 DEF CanLock, Conflict, Writes
<1>10. w.kind = "forgot" =>
         \A q \in Requests \ {r} :
           request[q].kind \in Changing /\ request[q].uid = w.uid
           /\ request[q].pc = "commit" => w.stamp.raced
  <2> SUFFICES ASSUME w.kind = "forgot", NEW q \in Requests \ {r},
                      request[q].kind \in Changing, request[q].uid = w.uid,
                      request[q].pc = "commit"
               PROVE  w.stamp.raced
    OBVIOUS
  <2>1. ChangeSeen(request[q])
    BY DEF IInv, WriteOK
  <2> QED BY <1>3, <2>1 DEF ChangeSeen
<1>11. w.pc = "commit" /\ w.kind \in Changing =>
         /\ TokensOf("reset", w.uid) \subseteq w.del
         /\ \A f \in Requests \ {r} :
              request[f].kind = "forgot" /\ request[f].uid = w.uid =>
                request'[f].stamp.raced
  BY <1>3, <1>4
<1>12. \A q \in Requests \ {r} :
         /\ Kept(q)
         /\ ((w.del \cup {w.ins}) \ {None}) \cap TokensLocked(q) = {}
  BY <1>1, <1>3, <1>4
<1> HIDE DEF races, marked
<1> QED BY <1>1, <1>3, <1>5, <1>6, <1>8, <1>9, <1>10, <1>11, <1>12, LocalStep

\* What a request knows at its commit.
LEMMA Committing ==
  ASSUME IInv, NEW r \in Requests, Commit(r)
  PROVE  LET q == request[r] IN
         /\ q \in RequestState /\ q.uid \in Users /\ q.kind # "none"
         /\ Reads(q) /\ LinkOK(q)
         /\ RowWritten(q) /\ TokensDeleted(q) /\ TokenInserted(q) /\ TokenMarked(q)
         /\ ChangeSeen(q)
BY Types DEF IInv, RequestOK, WriteOK, Reads, Commit, Holding

\* What a commit does to the other requests.
LEMMA CommitKept ==
  ASSUME IInv, NEW r \in Requests, Commit(r)
  PROVE  /\ request' \in [Requests -> RequestState] /\ request'[r] = NoRequest
         /\ \A p \in Requests \ {r} :
              /\ Kept(p)
              /\ request'[p].stamp.raced /\ ~request[p].stamp.raced =>
                   /\ request[r].lock = "email" /\ request[p].uid = request[r].uid
                   /\ Overtaken(request[p])
              /\ request[r].lock = "email" /\ request[p].uid = request[r].uid
                 /\ Overtaken(request[p]) => request'[p].stamp.raced
<1> DEFINE moves(p) == /\ request[r].lock = "email"
                       /\ request[p].uid = request[r].uid
                       /\ Overtaken(request[p])
           marked(p) == [request[p] EXCEPT !.stamp.raced = TRUE]
<1>1. request' = [p \in Requests |->
        IF p = r THEN NoRequest ELSE IF moves(p) THEN marked(p) ELSE request[p]]
  BY DEF Commit
<1>2. ASSUME NEW p \in Requests \ {r}
      PROVE  /\ request'[p] \in RequestState /\ Kept(p)
             /\ moves(p) => request'[p].stamp.raced
             /\ ~moves(p) => request'[p] = request[p]
  <2>1. request'[p] = IF moves(p) THEN marked(p) ELSE request[p]
    BY <1>1
  <2>2. CASE moves(p)
    BY <2>1, <2>2, MarkedKept
  <2>3. CASE ~moves(p)
    BY <2>1, <2>3, Types DEF Kept
  <2> QED BY <2>2, <2>3
<1>3. request'[r] = NoRequest
  BY <1>1
<1>4. request' \in [Requests -> RequestState]
  BY <1>1, <1>2, <1>3, NoRequestType
<1>5. ASSUME NEW p \in Requests \ {r}, request'[p].stamp.raced, ~request[p].stamp.raced
      PROVE  moves(p)
  BY <1>2, <1>5
<1> QED BY <1>2, <1>3, <1>4, <1>5

\* The users rows after a commit: nobody disappears or becomes PENDING again,
\* and links go where they went, but for the user of a change.
LEMMA CommitAccounts ==
  ASSUME IInv, NEW r \in Requests, Commit(r), NEW u \in Users
  PROVE  LET q == request[r] IN
         /\ account'[u] = IF Writes(q) /\ u = q.uid THEN q.row ELSE account[u]
         /\ account'[u] \in AccountRow /\ RowOK(account'[u])
         /\ Exists(u) => Exists(u)'
         /\ Settled(u) => Settled(u)'
         /\ Exists(u) /\ ~(q.kind \in Changing /\ u = q.uid) =>
              LinkTo(account'[u]) = LinkTo(account[u]) /\ gen'[u] = gen[u]
         /\ gen'[u] \in Nat
<1> DEFINE q == request[r]
<1>1. /\ TypeOK /\ q \in RequestState /\ q.uid \in Users /\ RowWritten(q)
      /\ RowOK(account[u]) /\ account[u] \in AccountRow /\ gen[u] \in Nat
      /\ account \in [Users -> AccountRow] /\ gen \in [Users -> Nat]
  BY Committing, Types DEF IInv, TypeOK
<1>2. account'[u] = IF Writes(q) /\ u = q.uid THEN q.row ELSE account[u]
  BY <1>1 DEF Commit, Writes
<1>3. gen'[u] = IF q.kind \in Changing /\ u = q.uid THEN gen[u] + 1 ELSE gen[u]
  BY <1>1 DEF Commit
<1>4. q.row \in AccountRow /\ q.kind \in {"signup", "verify", "activate", "resend",
        "password", "forgot", "reset", "change", "confirm", "revert"}
  BY <1>1, Committing DEF RequestState
<1> HIDE DEF q
<1>5. RowOK(account'[u]) /\ account'[u] \in AccountRow
  BY <1>1, <1>2, <1>4 DEF RowWritten
<1>6. (Exists(u) => Exists(u)') /\ (Settled(u) => Settled(u)')
  BY <1>1, <1>2, <1>4 DEF RowWritten, Exists, Settled
<1>7. Exists(u) /\ ~(q.kind \in Changing /\ u = q.uid) =>
        LinkTo(account'[u]) = LinkTo(account[u])
  BY <1>1, <1>2, <1>4 DEF RowWritten, Exists, Changing, Activating
<1> QED BY <1>1, <1>2, <1>3, <1>5, <1>6, <1>7 DEF q

\* The token a commit inserts or updates.
LEMMA CommitToken ==
  ASSUME IInv, NEW r \in Requests, Commit(r), request[r].ins \in Tok
  PROVE  LET q == request[r] IN
         \/ /\ q.kind \in Issuing
            /\ token[q.ins].kind = "none" /\ q.ins \notin q.del
            /\ q.new.kind = CASE q.kind = "forgot" -> "reset"
                              [] q.kind = "change" -> "change"
                              [] OTHER -> "verify"
            /\ q.new.user_id = q.uid /\ q.new.email = q.email /\ q.email \in Emails
            /\ q.kind # "activate" => q.new.used_at = "null"
            /\ q.kind = "change" =>
                 q.new.old_email = q.old_email /\ q.old_email \in Emails
         \/ /\ q.kind \in {"verify", "confirm", "revert"} /\ q.ins = q.tok
            /\ token[q.ins].kind = IF q.kind = "verify" THEN "verify" ELSE "change"
            /\ token[q.ins].user_id = q.uid
            /\ q.new.kind = token[q.ins].kind
            /\ q.new.user_id = token[q.ins].user_id
            /\ q.new.email = token[q.ins].email
            /\ q.new.old_email = token[q.ins].old_email
            /\ q.new.used_at = IF q.kind = "revert" THEN token[q.ins].used_at ELSE "set"
<1> DEFINE q == request[r]
<1>1. /\ q \in RequestState /\ q.kind # "none" /\ Reads(q) /\ q.pc = "commit"
      /\ TokenInserted(q) /\ TokenMarked(q)
  BY Committing DEF Commit
<1>2. q.kind \in Issuing \cup {"verify", "password", "reset", "confirm", "revert"}
  BY <1>1 DEF RequestState, Issuing
<1> HIDE DEF q
<1>3. CASE q.kind \in Issuing
  BY <1>1, <1>3 DEF TokenInserted, Reads, Issuing, q
<1>4. CASE q.kind \in {"verify", "confirm", "revert"}
  <2>1. q.ins = q.tok /\ token[q.tok].kind # "deleted"
    BY <1>1, <1>4, Constants DEF TokenMarked, q
  <2>2. token[q.tok].kind = IF q.kind = "verify" THEN "verify" ELSE "change"
    BY <1>1, <1>4, <2>1 DEF Reads, Redeems
  <2>3. token[q.tok].user_id = q.uid
    BY <1>1, <1>4, <2>1, <2>2 DEF Reads, Redeems
  <2>4. /\ q.new.kind = token[q.tok].kind
        /\ q.new.user_id = token[q.tok].user_id
        /\ q.new.email = token[q.tok].email
        /\ q.new.old_email = token[q.tok].old_email
        /\ q.new.used_at = IF q.kind = "revert" THEN token[q.tok].used_at ELSE "set"
    BY <1>1, <1>4, <2>1 DEF TokenMarked
  <2> QED BY <1>4, <2>1, <2>2, <2>3, <2>4 DEF q
<1>5. CASE q.kind \in {"password", "reset"}
  BY <1>1, <1>5, Constants DEF TokenMarked, q
<1> QED BY <1>2, <1>3, <1>4, <1>5

\* The tokens after a commit.
LEMMA CommitTokens ==
  ASSUME IInv, NEW r \in Requests, Commit(r), NEW t \in Tok
  PROVE  LET q == request[r] IN
         /\ t \in q.del => /\ token'[t] = Deleted(token[t])
                          /\ token'[t] \in TokenRow /\ token'[t].kind = "deleted"
         /\ t \notin q.del /\ t = q.ins => token'[t] = q.new
         /\ t \notin q.del /\ t # q.ins => token'[t] = token[t]
         /\ q.new \in TokenRow
         /\ stamp'[t] = IF q.kind \in {"forgot", "change"} /\ t = q.ins THEN q.stamp
                        ELSE IF q.kind = "confirm" /\ q.stamp.raced /\ t = q.tok
                          THEN q.stamp
                        ELSE stamp[t]
<1>1. /\ request[r] \in RequestState /\ TypeOK
      /\ token' = [x \in Tok |->
           IF x \in request[r].del THEN Deleted(token[x])
           ELSE IF x = request[r].ins THEN request[r].new
           ELSE token[x]]
      /\ stamp' = IF request[r].kind \in {"forgot", "change"}
                    THEN [stamp EXCEPT ![request[r].ins] = request[r].stamp]
                  ELSE IF request[r].kind = "confirm" /\ request[r].stamp.raced
                    THEN [stamp EXCEPT ![request[r].tok] = request[r].stamp]
                  ELSE stamp
  BY Committing DEF IInv, Commit
<1>2. request[r].new \in TokenRow /\ stamp \in [Tok -> Stamp]
  BY <1>1 DEF RequestState, TypeOK
<1>3. Deleted(token[t]) \in TokenRow /\ Deleted(token[t]).kind = "deleted"
  BY Types DEF Deleted, TokenRow
<1> QED BY <1>1, <1>2, <1>3

LEMMA CommitTokenOK ==
  ASSUME IInv, NEW r \in Requests, Commit(r), NEW t \in Tok
  PROVE  /\ TokenOK(t)' /\ token'[t] \in TokenRow /\ stamp'[t] \in Stamp
         /\ token'[t].kind \in Mailed => token'[t].email \in Emails
<1> DEFINE q == request[r]
<1>1. /\ q \in RequestState /\ q.uid \in Users /\ Reads(q) /\ LinkOK(q)
      /\ RowWritten(q) /\ ChangeSeen(q) /\ TokenOK(t) /\ token[t] \in TokenRow
      /\ stamp[t] \in Stamp /\ q.stamp \in Stamp
      /\ token[t].kind \in Mailed => token[t].email \in Emails
  BY Committing, Types DEF IInv, TypeOK, Mailed, RequestState
<1> HIDE DEF q
<1>2. CASE t \in q.del
  <2>1. token'[t] \in TokenRow /\ token'[t].kind = "deleted"
    BY <1>2, CommitTokens DEF q
  <2>2. stamp'[t] \in Stamp
    BY <1>1, CommitTokens DEF q
  <2> QED BY <2>1, <2>2 DEF TokenOK, Mailed
<1>3. CASE t \notin q.del /\ t = q.ins
  <2>1. /\ token'[t] = q.new /\ q.new \in TokenRow
        /\ q.kind = "forgot" => stamp'[t] = q.stamp
        /\ stamp'[t] \in Stamp
    BY <1>1, <1>3, CommitTokens DEF q
  <2>2. CASE q.kind \in Issuing
    <3>1. /\ q.new.kind = CASE q.kind = "forgot" -> "reset"
                            [] q.kind = "change" -> "change"
                            [] OTHER -> "verify"
          /\ q.new.user_id = q.uid /\ q.new.email = q.email /\ q.email \in Emails
          /\ q.kind # "activate" => q.new.used_at = "null"
          /\ q.kind = "change" => q.new.old_email \in Emails
      BY <1>3, <2>2, CommitToken DEF q, Issuing
    <3>2. account'[q.uid].status # "absent"
      BY <1>1, <2>2, CommitAccounts
         DEF q, Reads, RowWritten, Exists, Settled, Issuing, Activating
    <3>3. q.kind = "forgot" /\ ~q.stamp.raced =>
            q.stamp.gen = gen'[q.uid] /\ q.email = LinkTo(account'[q.uid])
      <4> SUFFICES ASSUME q.kind = "forgot", ~q.stamp.raced
                   PROVE  q.stamp.gen = gen'[q.uid] /\ q.email = LinkTo(account'[q.uid])
        OBVIOUS
      <4>1. Exists(q.uid)
        BY <1>1 DEF Reads, Settled, Exists
      <4>2. LinkTo(account'[q.uid]) = LinkTo(account[q.uid]) /\ gen'[q.uid] = gen[q.uid]
        BY <1>1, <4>1, CommitAccounts DEF q, Changing
      <4> QED BY <1>1, <4>2 DEF LinkOK
    <3>4. token'[t].kind = "reset" <=> q.kind = "forgot"
      BY <2>1, <2>2, <3>1
    <3>5. /\ token'[t].kind \in {"verify", "reset", "change"}
          /\ token'[t].kind = "change" => q.kind = "change"
      BY <2>1, <2>2, <3>1
    <3>6. token'[t].kind = "reset" /\ ~stamp'[t].raced =>
            /\ stamp'[t].gen = gen'[token'[t].user_id]
            /\ token'[t].email = LinkTo(account'[token'[t].user_id])
      BY <2>1, <3>1, <3>3, <3>4
    <3>7. TokenOK(t)'
      BY <1>1, <2>1, <3>1, <3>2, <3>5, <3>6 DEF TokenOK, LinkTo, Exists
    <3> QED BY <1>1, <2>1, <3>1, <3>7
  <2>3. CASE q.kind \notin Issuing
    <3>1. /\ token[t].kind \in {"verify", "change"} /\ token[t].user_id = q.uid
          /\ q.new.kind = token[t].kind /\ q.new.user_id = token[t].user_id
          /\ q.new.email = token[t].email /\ q.new.old_email = token[t].old_email
      BY <1>3, <2>3, CommitToken DEF q, Issuing
    <3>2. account'[q.uid].status # "absent"
      BY <1>1, <3>1, CommitAccounts DEF TokenOK, Mailed, Exists
    <3> QED BY <1>1, <2>1, <2>3, <3>1, <3>2 DEF TokenOK, Mailed, Exists
  <2> QED BY <2>2, <2>3
<1>4. CASE t \notin q.del /\ t # q.ins
  <2>1. /\ token'[t] = token[t] /\ stamp'[t] \in Stamp
        /\ token[t].kind = "reset" => stamp'[t] = stamp[t]
    <3>1. q.kind = "confirm" => token[q.tok].kind # "reset"
      BY <1>1 DEF Reads, Redeems
    <3> QED BY <1>1, <1>4, <3>1, CommitTokens DEF q
  <2>2. token[t].kind \in Mailed =>
          token[t].user_id \in Users /\ Exists(token[t].user_id)
    BY <1>1 DEF TokenOK
  <2>3. token[t].kind \in Mailed => account'[token[t].user_id].status # "absent"
    BY <2>2, CommitAccounts DEF Exists
  <2>4. token[t].kind = "reset" /\ ~stamp[t].raced =>
          /\ stamp[t].gen = gen'[token[t].user_id]
          /\ token[t].email = LinkTo(account'[token[t].user_id])
    <3> SUFFICES ASSUME token[t].kind = "reset", ~stamp[t].raced
                 PROVE  /\ stamp[t].gen = gen'[token[t].user_id]
                        /\ token[t].email = LinkTo(account'[token[t].user_id])
      OBVIOUS
    <3>1. ~(q.kind \in Changing /\ token[t].user_id = q.uid)
      BY <1>1, <1>4 DEF ChangeSeen
    <3>2. /\ LinkTo(account'[token[t].user_id]) = LinkTo(account[token[t].user_id])
          /\ gen'[token[t].user_id] = gen[token[t].user_id]
      BY <2>2, <3>1, CommitAccounts DEF q, Mailed
    <3> QED BY <1>1, <3>2 DEF TokenOK
  <2>5. TokenOK(t)'
    BY <1>1, <2>1, <2>2, <2>3, <2>4 DEF TokenOK, LinkTo, Mailed, Exists
  <2> QED BY <1>1, <2>1, <2>5
<1> QED BY <1>2, <1>3, <1>4

\* What another request has read stays true.
LEMMA CommitReads ==
  ASSUME IInv, NEW r \in Requests, Commit(r), NEW p \in Requests \ {r}
  PROVE  RequestOK(p)'
<1> DEFINE q == request[r]
           o == request[p]
<1>1. /\ q.uid \in Users /\ ChangeSeen(q) /\ RequestOK(p) /\ o \in RequestState
      /\ q \in RequestState /\ TypeOK
  BY Committing, Types DEF IInv
<1>2. Kept(p)
  BY CommitKept
<1>3. ASSUME NEW kind \in {"verify", "reset", "change"}, Redeems(o, kind)
      PROVE  /\ o.tok \in Tok /\ token'[o.tok].kind \in {kind, "deleted"}
             /\ token'[o.tok].kind = kind => token'[o.tok].user_id = o.uid
  <2>1. CASE o.tok \in q.del
    BY <1>3, <2>1, CommitTokens DEF Redeems
  <2>2. CASE o.tok \notin q.del /\ o.tok = q.ins
    <3>1. q.ins \in Tok /\ token[q.ins].kind # "none"
      BY <1>3, <2>2 DEF Redeems
    <3>2. q.new.kind = token[q.ins].kind /\ q.new.user_id = token[q.ins].user_id
      BY <3>1, CommitToken
    <3>3. token'[o.tok] = q.new
      BY <1>3, <2>2, CommitTokens DEF Redeems
    <3> QED BY <1>3, <2>2, <3>2, <3>3 DEF Redeems
  <2>3. CASE o.tok \notin q.del /\ o.tok # q.ins
    <3>1. token'[o.tok] = token[o.tok]
      BY <1>3, <2>3, CommitTokens DEF Redeems
    <3> QED BY <1>3, <3>1 DEF Redeems
  <2> QED BY <2>1, <2>2, <2>3
<1> HIDE DEF q
<1>4. o.pc # "idle" => Reads(request[p])'
  <2> SUFFICES ASSUME o.pc # "idle" PROVE Reads(request[p])'
    OBVIOUS
  <2>1. Reads(o)
    BY <1>1 DEF RequestOK
  <2>2. /\ Exists(o.uid) => account'[o.uid].status # "absent"
        /\ Settled(o.uid) => account'[o.uid].status \notin {"absent", "PENDING"}
    BY <2>1, CommitAccounts DEF Reads, Exists, Settled
  <2> HIDE DEF o
  <2>3. o.kind = "verify" => Redeems(request[p], "verify")'
    BY <1>2, <1>3, <2>1 DEF Reads, Redeems, Kept, o
  <2>4. o.kind = "reset" => Redeems(request[p], "reset")'
    BY <1>2, <1>3, <2>1 DEF Reads, Redeems, Kept, o
  <2>5. o.kind \in {"confirm", "revert"} => Redeems(request[p], "change")'
    BY <1>2, <1>3, <2>1 DEF Reads, Redeems, Kept, o
  <2> QED BY <1>2, <2>1, <2>2, <2>3, <2>4, <2>5 DEF Reads, Exists, Settled, Kept, o
<1>5. o.pc # "idle" => LinkOK(request[p])'
  <2> SUFFICES ASSUME o.pc # "idle", o.kind = "forgot", ~o.stamp.raced
               PROVE  o.stamp.gen = gen'[o.uid] /\ o.email = LinkTo(account'[o.uid])
    BY <1>2 DEF LinkOK, LinkTo, Kept
  <2>1. o.uid \in Users /\ Exists(o.uid) /\ LinkOK(o)
    BY <1>1 DEF RequestOK, Reads, Settled, Exists
  <2>2. ~(q.kind \in Changing /\ o.uid = q.uid)
    BY <1>1 DEF ChangeSeen
  <2>3. LinkTo(account'[o.uid]) = LinkTo(account[o.uid]) /\ gen'[o.uid] = gen[o.uid]
    BY <2>1, <2>2, CommitAccounts DEF q
  <2> QED BY <2>1, <2>3 DEF LinkOK
<1> QED BY <1>1, <1>2, <1>4, <1>5 DEF RequestOK, Kept, Writes, Holding

\* What another request has written still fits the rows.
LEMMA CommitWrites ==
  ASSUME IInv, NEW r \in Requests, Commit(r), NEW p \in Requests \ {r}
  PROVE  WriteOK(p)'
<1> DEFINE q == request[r]
           o == request[p]
<1>1. /\ q.uid \in Users /\ ChangeSeen(q) /\ WriteOK(p) /\ o \in RequestState
      /\ q \in RequestState /\ TypeOK /\ q.kind # "none" /\ Reads(q)
      /\ Apart(p, r)
  BY Committing, Types DEF IInv, LocksExclude
<1>2. Kept(p) /\ request'[r] = NoRequest
      /\ \A f \in Requests \ {r} : Kept(f)
  BY CommitKept
<1> SUFFICES ASSUME Holding(o)
             PROVE  /\ TokensDeleted(request[p])' /\ TokenInserted(request[p])'
                    /\ TokenMarked(request[p])'
                    /\ o.pc = "commit" => RowWritten(request[p])' /\ ChangeSeen(request[p])'
  BY <1>2 DEF WriteOK, Holding, Kept
<1>3. /\ TokensDeleted(o) /\ TokenInserted(o) /\ TokenMarked(o)
      /\ o.pc = "commit" => RowWritten(o) /\ ChangeSeen(o)
      /\ o.uid \in Users /\ o.kind # "none"
      /\ o.del \subseteq Tok /\ o.ins \in Tok \cup {None} /\ Reads(o)
  BY <1>1 DEF WriteOK, IInv, RequestOK, Reads, RequestState, Holding
<1>4. Writes(o) => account'[o.uid] = account[o.uid]
  BY <1>1, <1>3, CommitAccounts DEF Apart
<1>5. \A t \in Tok : t \in o.del \/ t = o.ins => token'[t] = token[t]
  BY <1>1, CommitTokens DEF Apart, TokensLocked
<1>6. \A t \in Tok : token[t].kind = "deleted" => token'[t].kind = "deleted"
  <2>1. ASSUME NEW t \in Tok, token[t].kind = "deleted"
        PROVE  token'[t].kind = "deleted"
    <3>1. q.ins \in Tok => token[q.ins].kind \in {"none", "verify", "change"}
      BY CommitToken
    <3> QED BY <2>1, <3>1, CommitTokens
  <2> QED BY <2>1
<1>7. o.pc = "commit" => RowWritten(request[p])'
  BY <1>2, <1>3, <1>4 DEF RowWritten, Writes, RowOK, LinkTo, Kept
<1>8. TokensDeleted(request[p])'
  <2>1. o.kind = "reset" => o.tok \in Tok
    BY <1>3 DEF Reads, Redeems
  <2> QED BY <1>2, <1>3, <1>5, <1>6, <2>1 DEF TokensDeleted, Kept
<1>9. TokenInserted(request[p])'
  BY <1>2, <1>3, <1>5 DEF TokenInserted, Kept
<1>10. TokenMarked(request[p])'
  <2>1. o.kind \in {"verify", "confirm", "revert"} => o.tok \in Tok
    BY <1>3 DEF Reads, Redeems
  <2>2. o.ins = o.tok /\ o.tok \in Tok => token'[o.tok] = token[o.tok]
    BY <1>5
  <2>3. Kept(p) /\ o = request[p]
    BY <1>2
  <2> HIDE DEF o
  <2> QED BY <1>3, <1>6, <2>1, <2>2, <2>3 DEF TokenMarked, Kept
<1>11. o.pc = "commit" => ChangeSeen(request[p])'
  <2> SUFFICES ASSUME o.pc = "commit", o.kind \in Changing PROVE ChangeSeen(request[p])'
    BY <1>2 DEF ChangeSeen, Kept
  <2>1. ASSUME NEW t \in Tok \ o.del, token'[t].kind = "reset", token'[t].user_id = o.uid
        PROVE  stamp'[t].raced
    <3>1. t \notin q.del
      BY <2>1, CommitTokens
    <3>2. CASE t = q.ins
      <4>1. token'[t] = q.new
        BY <3>1, <3>2, CommitTokens
      <4>2. q.kind = "forgot" /\ q.uid = o.uid
        BY <2>1, <3>2, <4>1, CommitToken
      <4>3. q.stamp.raced /\ stamp'[t] = q.stamp
        BY <1>3, <3>2, <4>2, CommitTokens DEF ChangeSeen
      <4> QED BY <4>3
    <3>3. CASE t # q.ins
      <4>1. token'[t] = token[t]
        BY <3>1, <3>3, CommitTokens
      <4>2. q.kind = "confirm" => token[q.tok].kind # "reset"
        BY <1>1 DEF Reads, Redeems
      <4>3. stamp'[t] = stamp[t]
        BY <2>1, <3>1, <3>3, <4>1, <4>2, CommitTokens
      <4> QED BY <1>3, <2>1, <4>1, <4>3 DEF ChangeSeen
    <3> QED BY <3>2, <3>3
  <2>2. NoRequest.kind = "none"
    BY DEF NoRequest
  <2>3. \A f \in Requests :
          request'[f].kind = "forgot" /\ request'[f].uid = o.uid => request'[f].stamp.raced
    BY <1>2, <1>3, <2>2 DEF ChangeSeen, Kept
  <2> QED BY <1>2, <2>1, <2>3 DEF ChangeSeen, Kept
<1> QED BY <1>7, <1>8, <1>9, <1>10, <1>11

\* A signup brings its token along, a resend replaces the token it deletes, a
\* verification that uses the token activates the account.
LEMMA CommitPending ==
  ASSUME IInv, NEW r \in Requests, Commit(r) PROVE PendingVerifiable'
<1> DEFINE q == request[r]
           Unused(t, u) == /\ token'[t].kind = "verify" /\ token'[t].user_id = u
                           /\ token'[t].used_at = "null"
<1> SUFFICES ASSUME NEW u \in Users, account'[u].status = "PENDING"
             PROVE  \E t \in Tok : Unused(t, u)
  BY DEF PendingVerifiable, TokensOf
<1>1. /\ q \in RequestState /\ q.kind # "none" /\ q.uid \in Users
      /\ RowWritten(q) /\ TokensDeleted(q) /\ TokenInserted(q) /\ PendingVerifiable
      /\ q.pc = "commit"
      /\ account'[u] = IF Writes(q) /\ u = q.uid THEN q.row ELSE account[u]
  BY Committing, CommitAccounts DEF IInv, Commit
<1>2. q.kind \in {"signup", "resend"} => Unused(q.ins, q.uid) /\ q.ins \in Tok
  <2> SUFFICES ASSUME q.kind \in {"signup", "resend"}
               PROVE  Unused(q.ins, q.uid) /\ q.ins \in Tok
    OBVIOUS
  <2>1. /\ q.ins \in Tok /\ q.ins \notin q.del /\ q.new.kind = "verify"
        /\ q.new.user_id = q.uid /\ q.new.used_at = "null"
    BY <1>1 DEF TokenInserted, Issuing
  <2>2. token'[q.ins] = q.new
    BY <2>1, CommitTokens
  <2> QED BY <2>1, <2>2
<1>3. CASE Writes(q) /\ u = q.uid
  BY <1>1, <1>2, <1>3 DEF RowWritten
<1>4. CASE ~(Writes(q) /\ u = q.uid)
  <2>1. PICK t \in Tok : /\ token[t].kind = "verify" /\ token[t].user_id = u
                         /\ token[t].used_at = "null"
    BY <1>1, <1>4 DEF PendingVerifiable, TokensOf
  <2>2. CASE t \in q.del
    <3>1. q.kind \in {"activate", "resend"} /\ q.uid = u
      BY <1>1, <2>1, <2>2 DEF TokensDeleted, RequestState, Changing
    <3>2. q.kind # "activate"
      BY <1>1, <1>4, <3>1 DEF RowWritten, Activating
    <3> QED BY <1>2, <3>1, <3>2
  <2>3. CASE t \notin q.del /\ t = q.ins
    <3>1. q.kind = "verify" /\ q.uid = u
      BY <2>1, <2>3, CommitToken DEF Issuing
    <3> QED BY <1>1, <1>4, <3>1 DEF RowWritten, Activating
  <2>4. CASE t \notin q.del /\ t # q.ins
    <3>1. token'[t] = token[t]
      BY <2>4, CommitTokens
    <3> QED BY <2>1, <3>1
  <2> QED BY <2>2, <2>3, <2>4
<1> QED BY <1>3, <1>4

LEMMA CommitInv ==
  ASSUME IInv, NEW r \in Requests, Commit(r) PROVE IInv'
<1>1. /\ TypeOK /\ now' = now /\ request[r] \in RequestState
      /\ request' \in [Requests -> RequestState]
  BY Types, CommitKept DEF IInv, Commit
<1>2. /\ NoRequest \in RequestState /\ NoRequest.pc = "idle" /\ NoRequest.kind = "none"
      /\ NoRequest.lock = "none" /\ NoRequest.del = {} /\ NoRequest.ins = None
  BY NoRequestType
<1>3. request'[r] = NoRequest /\ \A q \in Requests \ {r} : Kept(q)
  BY CommitKept
<1>4. TypeOK'
  <2>1. account' \in [Users -> AccountRow]
    <3>1. account' = [u \in Users |-> account'[u]]
      BY <1>1 DEF Commit, TypeOK
    <3> QED BY <3>1, CommitAccounts
  <2>2. gen' \in [Users -> Nat]
    <3>1. gen' = [u \in Users |-> gen'[u]]
      BY <1>1 DEF Commit, TypeOK
    <3> QED BY <3>1, CommitAccounts
  <2>3. token' \in [Tok -> TokenRow]
    <3>1. token' = [t \in Tok |-> token'[t]]
      BY DEF Commit
    <3> QED BY <3>1, CommitTokenOK
  <2>4. stamp' \in [Tok -> Stamp]
    <3>1. stamp' = [t \in Tok |-> stamp'[t]]
      BY <1>1 DEF Commit, TypeOK
    <3> QED BY <3>1, CommitTokenOK
  <2>5. redeemed' \in [Tok -> Nat]
    <3>1. request[r].kind \in {"verify", "reset", "confirm"} => request[r].tok \in Tok
      BY Committing DEF Reads, Redeems
    <3> QED BY <1>1, <3>1 DEF Commit, TypeOK
  <2>6. \A t \in Tok : token'[t].kind \in Mailed => token'[t].email \in Emails
    BY CommitTokenOK
  <2> QED BY <1>1, <2>1, <2>2, <2>3, <2>4, <2>5, <2>6 DEF TypeOK, Mailed
<1>5. \A u \in Users : RowOK(account[u])'
  BY CommitAccounts DEF RowOK
<1>6. \A t \in Tok : TokenOK(t)'
  BY CommitTokenOK
<1>7. \A q \in Requests : RequestOK(q)'
  <2>1. RequestOK(r)'
    BY <1>2, <1>3 DEF RequestOK, Writes, Holding
  <2> QED BY <2>1, CommitReads
<1>8. \A q \in Requests : WriteOK(q)'
  <2>1. WriteOK(r)'
    BY <1>2, <1>3 DEF WriteOK, Holding
  <2> QED BY <2>1, CommitWrites
<1>9. LocksExclude'
  <2>1. \A t \in Tok : t \notin TokensLocked(r)'
    BY <1>2, <1>3, Constants DEF TokensLocked
  <2>2. ~Writes(NoRequest)
    BY <1>2 DEF Writes
  <2> QED BY <1>3, <2>1, <2>2 DEF IInv, LocksExclude, Apart, TokensLocked, Writes, Kept
<1> QED BY <1>4, <1>5, <1>6, <1>7, <1>8, <1>9, CommitPending DEF IInv

-----------------------------------------------------------------------------
(* The actions *)

LEMMA InitInv == Init => IInv
<1> SUFFICES ASSUME Init PROVE IInv
  OBVIOUS
<1>1. PICK home \in [Registered -> Emails] :
        account = [u \in Users |->
          IF u \in Registered THEN Verified(u, home[u]) ELSE NoAccount]
  BY DEF Init
<1>2. /\ NoRequest \in RequestState /\ NoRequest.pc = "idle" /\ NoRequest.kind = "none"
      /\ NoRequest.lock = "none" /\ NoRequest.del = {} /\ NoRequest.ins = None
  BY NoRequestType
<1>3. ASSUME NEW u \in Users
      PROVE  account[u] \in AccountRow /\ RowOK(account[u]) /\ account[u].status # "PENDING"
  <2>1. CASE u \in Registered
    <3> DEFINE v == Verified(u, home[u])
    <3>1. account[u] = v /\ home[u] \in Emails
      BY <1>1, <2>1
    <3>2. /\ v \in AccountRow /\ v.status = "ACTIVE" /\ v.email = home[u]
          /\ v.previous_email = None /\ v.email_changed_at = None
      BY <3>1 DEF Verified, NoAccount, AccountRow, Status
    <3> HIDE DEF v
    <3> QED BY <3>1, <3>2, Constants DEF RowOK
  <2>2. CASE u \notin Registered
    BY <1>1, <2>2 DEF NoAccount, AccountRow, Status, RowOK
  <2> QED BY <2>1, <2>2
<1>4. /\ NoToken \in TokenRow /\ NoToken.kind = "none" /\ NoToken.used_at = "null"
      /\ NoStamp \in Stamp
  BY DEF NoToken, TokenRow, NoStamp, Stamp
<1>5. account = [u \in Users |-> account[u]]
  BY <1>1
<1>6. TypeOK
  BY <1>2, <1>3, <1>4, <1>5 DEF Init, TypeOK
<1>7. \A t \in Tok : TokenOK(t)
  BY <1>4 DEF Init, TokenOK, Mailed
<1>8. \A r \in Requests : RequestOK(r) /\ WriteOK(r)
  BY <1>2 DEF Init, RequestOK, WriteOK, Holding, Writes
<1>9. LocksExclude
  BY <1>2, Constants DEF Init, LocksExclude, Apart, TokensLocked, Writes
<1> QED BY <1>3, <1>6, <1>7, <1>8, <1>9 DEF IInv, PendingVerifiable

\* A request that has locked nothing.
Fresh(new, kind, u) ==
  /\ new \in RequestState /\ new.kind = kind /\ new.uid = u
  /\ new.lock = "none" /\ new.del = {} /\ new.ins = None

LEMMA SignupInv ==
  ASSUME IInv, NEW r \in Requests, Signup(r) PROVE IInv'
<1>1. PICK u \in Users, e \in Emails :
        Begin(r, [NoRequest EXCEPT !.kind = "signup", !.uid = u, !.email = e])
  BY DEF Signup
<1> DEFINE new == [NoRequest EXCEPT !.kind = "signup", !.uid = u, !.email = e]
<1>2. Fresh(new, "signup", u) /\ new.email = e
  BY DEF Fresh, NoRequest, RequestState, NoAccount, AccountRow, Status, NoToken,
         TokenRow, NoStamp, Stamp
<1>3. Begin(r, new)
  BY <1>1
<1> HIDE DEF new
<1>4. Reads([new EXCEPT !.pc = "select"])
  BY <1>2 DEF Fresh, RequestState, Reads, Changing, Activating
<1> QED BY <1>2, <1>3, <1>4, BeginStep DEF Fresh

LEMMA VerifyEmailInv ==
  ASSUME IInv, NEW r \in Requests, VerifyEmail(r) PROVE IInv'
<1>1. PICK t \in Tok :
        /\ token[t].kind = "verify"
        /\ Begin(r, [NoRequest EXCEPT
                       !.kind = "verify", !.uid = token[t].user_id, !.tok = t])
  BY DEF VerifyEmail
<1> DEFINE u == token[t].user_id
           new == [NoRequest EXCEPT !.kind = "verify", !.uid = u, !.tok = t]
<1>2. u \in Users /\ Exists(u)
  BY <1>1 DEF IInv, TokenOK, Mailed
<1>3. Begin(r, new)
  BY <1>1
<1>4. Fresh(new, "verify", u) /\ new.tok = t
  BY <1>2
     DEF Fresh, NoRequest, RequestState, NoAccount, AccountRow, Status, NoToken,
         TokenRow, NoStamp, Stamp
<1> HIDE DEF new
<1>5. Reads([new EXCEPT !.pc = "select"])
  BY <1>1, <1>2, <1>4 DEF Fresh, RequestState, Reads, Redeems, Changing, Activating
<1> QED BY <1>3, <1>4, <1>5, BeginStep DEF Fresh

LEMMA VerifyUserInv ==
  ASSUME IInv, NEW r \in Requests, VerifyUser(r) PROVE IInv'
<1>1. PICK u \in Users :
        /\ account[u].status # "absent"
        /\ Begin(r, [NoRequest EXCEPT
                       !.kind = "activate", !.uid = u, !.email = account[u].email])
  BY DEF VerifyUser
<1> DEFINE e == account[u].email
           new == [NoRequest EXCEPT !.kind = "activate", !.uid = u, !.email = e]
<1>2. e \in Emails /\ Exists(u)
  BY <1>1 DEF IInv, RowOK, Exists
<1>3. Begin(r, new)
  BY <1>1
<1>4. Fresh(new, "activate", u) /\ new.email = e
  BY <1>2 DEF Fresh, NoRequest, RequestState, NoAccount, AccountRow, Status, NoToken,
              TokenRow, NoStamp, Stamp
<1> HIDE DEF new
<1>5. Reads([new EXCEPT !.pc = "select"])
  BY <1>2, <1>4 DEF Fresh, RequestState, Reads, Changing, Activating
<1> QED BY <1>3, <1>4, <1>5, BeginStep DEF Fresh

\* A resend is begun by its own handler and by request_password_reset.
LEMMA ResendStep ==
  ASSUME IInv, NEW r \in Requests, NEW u \in Users, account[u].status = "PENDING",
         Begin(r, [NoRequest EXCEPT
                     !.kind = "resend", !.uid = u, !.email = account[u].email])
  PROVE  IInv'
<1> DEFINE e == account[u].email
           new == [NoRequest EXCEPT !.kind = "resend", !.uid = u, !.email = e]
<1>1. e \in Emails /\ Exists(u)
  BY DEF IInv, RowOK, Exists
<1>2. Begin(r, new)
  OBVIOUS
<1>3. Fresh(new, "resend", u) /\ new.email = e
  BY <1>1
     DEF Fresh, NoRequest, RequestState, NoAccount, AccountRow, Status, NoToken,
         TokenRow, NoStamp, Stamp
<1> HIDE DEF new
<1>4. Reads([new EXCEPT !.pc = "select"])
  BY <1>1, <1>3 DEF Fresh, RequestState, Reads, Changing, Activating
<1> QED BY <1>2, <1>3, <1>4, BeginStep DEF Fresh

LEMMA ResendVerificationInv ==
  ASSUME IInv, NEW r \in Requests, ResendVerification(r) PROVE IInv'
BY ResendStep DEF ResendVerification

LEMMA ChangePasswordInv ==
  ASSUME IInv, NEW r \in Requests, ChangePassword(r) PROVE IInv'
<1>1. PICK u \in Users :
        SignedIn(u) /\ Begin(r, [NoRequest EXCEPT !.kind = "password", !.uid = u])
  BY DEF ChangePassword
<1> DEFINE new == [NoRequest EXCEPT !.kind = "password", !.uid = u]
<1>2. Begin(r, new)
  BY <1>1
<1>3. Fresh(new, "password", u)
  BY DEF Fresh, NoRequest, RequestState, NoAccount, AccountRow, Status, NoToken,
         TokenRow, NoStamp, Stamp
<1> HIDE DEF new
<1>4. Reads([new EXCEPT !.pc = "select"])
  BY <1>1, <1>3 DEF Fresh, RequestState, Reads, Changing, SignedIn, Settled, Activating
<1> QED BY <1>2, <1>3, <1>4, BeginStep DEF Fresh

LEMMA RequestPasswordResetInv ==
  ASSUME IInv, NEW r \in Requests, RequestPasswordReset(r) PROVE IInv'
<1>1. PICK u \in Users :
        \/ /\ account[u].status = "PENDING"
           /\ Begin(r, [NoRequest EXCEPT
                          !.kind = "resend", !.uid = u, !.email = account[u].email])
        \/ /\ account[u].status = "ACTIVE"
           /\ Begin(r, [NoRequest EXCEPT
                          !.kind = "forgot", !.uid = u, !.email = LinkTo(account[u])])
  BY DEF RequestPasswordReset
<1>2. CASE account[u].status = "PENDING"
  BY <1>1, <1>2, ResendStep
<1>3. CASE account[u].status = "ACTIVE"
  <2> DEFINE e == LinkTo(account[u])
             new == [NoRequest EXCEPT !.kind = "forgot", !.uid = u, !.email = e]
  <2>1. e \in Emails /\ Settled(u)
    BY <1>3, Types DEF IInv, RowOK, Settled, LinkTo, AccountRow
  <2>2. Begin(r, new)
    BY <1>1, <1>3
  <2>3. Fresh(new, "forgot", u) /\ new.email = e
    BY <2>1
     DEF Fresh, NoRequest, RequestState, NoAccount, AccountRow, Status, NoToken,
         TokenRow, NoStamp, Stamp
  <2> HIDE DEF new
  <2>4. Reads([new EXCEPT !.pc = "select"])
    BY <2>1, <2>3 DEF Fresh, RequestState, Reads, Changing, Activating
  <2> QED BY <2>2, <2>3, <2>4, BeginStep DEF Fresh
<1> QED BY <1>1, <1>2, <1>3

\* The user of a mailed token.
LEMMA OwnerOf ==
  ASSUME IInv, NEW t \in Tok, token[t].kind \in Mailed
  PROVE  token[t].user_id \in Users
BY DEF IInv, TokenOK

LEMMA ResetPasswordInv ==
  ASSUME IInv, NEW r \in Requests, ResetPassword(r) PROVE IInv'
<1>1. PICK t \in Tok :
        /\ token[t].kind = "reset" /\ account[token[t].user_id].status = "ACTIVE"
        /\ Begin(r, [NoRequest EXCEPT
                       !.kind = "reset", !.uid = token[t].user_id, !.tok = t])
  BY DEF ResetPassword
<1> DEFINE u == token[t].user_id
           new == [NoRequest EXCEPT !.kind = "reset", !.uid = u, !.tok = t]
<1>2. u \in Users /\ Settled(u)
  BY <1>1, OwnerOf DEF Mailed, Settled
<1>3. Begin(r, new)
  BY <1>1
<1>4. Fresh(new, "reset", u) /\ new.tok = t
  BY <1>2
     DEF Fresh, NoRequest, RequestState, NoAccount, AccountRow, Status, NoToken,
         TokenRow, NoStamp, Stamp
<1> HIDE DEF new
<1>5. Reads([new EXCEPT !.pc = "select"])
  BY <1>1, <1>2, <1>4 DEF Fresh, RequestState, Reads, Redeems, Changing, Activating
<1> QED BY <1>3, <1>4, <1>5, BeginStep DEF Fresh

LEMMA RequestEmailChangeInv ==
  ASSUME IInv, NEW r \in Requests, RequestEmailChange(r) PROVE IInv'
<1>1. PICK u \in Users :
        /\ SignedIn(u)
        /\ Begin(r, [NoRequest EXCEPT
                       !.kind = "change", !.uid = u, !.old_email = account[u].email])
  BY DEF RequestEmailChange
<1> DEFINE old == account[u].email
           new == [NoRequest EXCEPT !.kind = "change", !.uid = u, !.old_email = old]
<1>2. old \in Emails /\ Settled(u)
  BY <1>1 DEF IInv, RowOK, SignedIn, Settled
<1>3. Begin(r, new)
  BY <1>1
<1>4. Fresh(new, "change", u) /\ new.old_email = old
  BY <1>2 DEF Fresh, NoRequest, RequestState, NoAccount, AccountRow, Status, NoToken,
              TokenRow, NoStamp, Stamp
<1> HIDE DEF new
<1>5. Reads([new EXCEPT !.pc = "select"])
  BY <1>2, <1>4 DEF Fresh, RequestState, Reads, Changing, Activating
<1> QED BY <1>3, <1>4, <1>5, BeginStep DEF Fresh

LEMMA ConfirmEmailChangeInv ==
  ASSUME IInv, NEW r \in Requests, ConfirmEmailChange(r) PROVE IInv'
<1>1. PICK t \in Tok :
        /\ token[t].kind = "change" /\ account[token[t].user_id].status = "ACTIVE"
        /\ Begin(r, [NoRequest EXCEPT
                       !.kind = "confirm", !.uid = token[t].user_id, !.tok = t,
                       !.email = token[t].email, !.old_email = token[t].old_email])
  BY DEF ConfirmEmailChange
<1> DEFINE u == token[t].user_id
           e == token[t].email
           old == token[t].old_email
           new == [NoRequest EXCEPT !.kind = "confirm", !.uid = u, !.tok = t,
                                    !.email = e, !.old_email = old]
<1>2. u \in Users /\ Settled(u)
  BY <1>1, OwnerOf DEF Mailed, Settled
<1>3. e \in Emails /\ old \in Emails
  BY <1>1 DEF IInv, TypeOK, TokenOK
<1>4. Begin(r, new)
  BY <1>1
<1>5. Fresh(new, "confirm", u) /\ new.tok = t /\ new.email = e /\ new.old_email = old
  BY <1>2, <1>3 DEF Fresh, NoRequest, RequestState, NoAccount, AccountRow, Status,
                    NoToken, TokenRow, NoStamp, Stamp
<1> HIDE DEF new
<1>6. Reads([new EXCEPT !.pc = "select"])
  BY <1>1, <1>2, <1>3, <1>5 DEF Fresh, RequestState, Reads, Redeems, Changing, Activating
<1> QED BY <1>4, <1>5, <1>6, BeginStep DEF Fresh

LEMMA RevertEmailChangeInv ==
  ASSUME IInv, NEW r \in Requests, RevertEmailChange(r) PROVE IInv'
<1>1. PICK t \in Tok :
        /\ token[t].kind = "change" /\ account[token[t].user_id].status = "ACTIVE"
        /\ Begin(r, [NoRequest EXCEPT
                       !.kind = "revert", !.uid = token[t].user_id, !.tok = t])
  BY DEF RevertEmailChange
<1> DEFINE u == token[t].user_id
           new == [NoRequest EXCEPT !.kind = "revert", !.uid = u, !.tok = t]
<1>2. u \in Users /\ Settled(u)
  BY <1>1, OwnerOf DEF Mailed, Settled
<1>3. Begin(r, new)
  BY <1>1
<1>4. Fresh(new, "revert", u) /\ new.tok = t
  BY <1>2
     DEF Fresh, NoRequest, RequestState, NoAccount, AccountRow, Status, NoToken,
         TokenRow, NoStamp, Stamp
<1> HIDE DEF new
<1>5. Reads([new EXCEPT !.pc = "select"])
  BY <1>1, <1>2, <1>4 DEF Fresh, RequestState, Reads, Redeems, Changing, Activating
<1> QED BY <1>3, <1>4, <1>5, BeginStep DEF Fresh

\* What a request knows when it comes to write.
LEMMA Reading ==
  ASSUME IInv, NEW r \in Requests, request[r].pc = "write"
  PROVE  request[r] \in RequestState /\ Reads(request[r]) /\ request[r].uid \in Users
BY Types DEF IInv, RequestOK, Reads

\* A request as its write leaves it.
Written(q, w, mode, row, del, ins, new) ==
  /\ w.kind = q.kind /\ w.uid = q.uid /\ w.tok = q.tok
  /\ w.email = q.email /\ w.old_email = q.old_email /\ w.sets = q.sets
  /\ w.lock = mode /\ w.row = row /\ w.del = del /\ w.ins = ins /\ w.new = new

\* The verification token of a signup or a resend.
LEMMA VerificationRowOK ==
  ASSUME IInv, NEW r \in Requests, request[r].uid \in Users, request[r].email \in Emails
  PROVE  LET new == VerificationRow(r) IN
         /\ new \in TokenRow /\ new.kind = "verify" /\ new.user_id = request[r].uid
         /\ new.email = request[r].email /\ new.used_at = "null"
<1>1. now + TokenLife \in Nat
  BY Constants DEF IInv, TypeOK
<1> QED BY <1>1 DEF VerificationRow, NoToken, TokenRow

LEMMA WriteSignupInv ==
  ASSUME IInv, NEW r \in Requests, WriteSignup(r) PROVE IInv'
<1> DEFINE row == [NoAccount EXCEPT !.status = "PENDING", !.email = request[r].email]
           new == VerificationRow(r)
<1>1. PICK t \in Tok :
        /\ Ready(r, {"signup"}) /\ FreshTok(t)
        /\ account[request[r].uid].status = "absent"
        /\ Write(r, "email", row, {}, t, new)
  BY DEF WriteSignup
<1>2. /\ request[r].pc = "write" /\ request[r] \in RequestState /\ request[r].kind = "signup"
      /\ request[r].uid \in Users /\ request[r].email \in Emails
  BY <1>1, Reading DEF Ready, Reads
<1>3. row \in AccountRow /\ row.status = "PENDING" /\ RowOK(row)
  BY <1>2, Constants DEF NoAccount, AccountRow, Status, RowOK
<1>4. /\ new \in TokenRow /\ new.kind = "verify" /\ new.user_id = request[r].uid
      /\ new.email = request[r].email /\ new.used_at = "null"
  BY <1>2, VerificationRowOK
<1> DEFINE w == [request[r] EXCEPT !.pc = "commit", !.lock = "email", !.row = row,
                                   !.del = {}, !.ins = t, !.new = new]
<1>5. Written(request[r], w, "email", row, {}, t, new)
  BY <1>2 DEF RequestState, Written
<1> HIDE DEF row, new
<1>6. w = [request[r] EXCEPT !.pc = "commit", !.lock = "email", !.row = row,
                             !.del = {}, !.ins = t, !.new = new]
  OBVIOUS
<1> HIDE DEF w
<1>7. RowWritten(w)
  BY <1>1, <1>2, <1>3, <1>5 DEF RowWritten, Writes, Written, Activating
<1>8. TokensDeleted(w) /\ TokenMarked(w) /\ w.kind \notin Changing
  BY <1>2, <1>5 DEF TokensDeleted, TokenMarked, Written, Changing
<1>9. TokenInserted(w)
  BY <1>1, <1>2, <1>4, <1>5 DEF TokenInserted, Written, Issuing, FreshTok
<1> QED BY <1>1, <1>2, <1>3, <1>4, <1>6, <1>7, <1>8, <1>9, WriteStep

\* The token rows that an update writes.
LEMMA UpdatedToken ==
  ASSUME IInv, NEW t \in Tok
  PROVE  /\ Marked(t) \in Tok \cup {None}
         /\ token[t].kind = "deleted" => Marked(t) = None
         /\ token[t].kind # "deleted" => Marked(t) = t
         /\ LET new == [token[t] EXCEPT !.used_at = "set"] IN
            /\ new \in TokenRow /\ new.used_at = "set" /\ new.kind = token[t].kind
            /\ new.user_id = token[t].user_id /\ new.email = token[t].email
            /\ new.old_email = token[t].old_email
         /\ LET new == [token[t] EXCEPT !.revert_used_at = "set"] IN
            /\ new \in TokenRow /\ new.used_at = token[t].used_at
            /\ new.kind = token[t].kind
            /\ new.user_id = token[t].user_id /\ new.email = token[t].email
            /\ new.old_email = token[t].old_email
<1>1. token[t] \in TokenRow
  BY Types
<1> QED BY <1>1 DEF Marked, TokenRow

LEMMA WriteVerifyInv ==
  ASSUME IInv, NEW r \in Requests, WriteVerify(r) PROVE IInv'
<1> DEFINE q == request[r]
           old == account[q.uid]
           row == Activated(r, old)
           del == q.del
           ins == q.ins
           new == q.new
           w == [q EXCEPT !.pc = "commit", !.lock = "nokey", !.row = row,
                          !.del = del, !.ins = ins, !.new = new]
<1>1. /\ q.pc = "write" /\ q.kind \in Activating
      /\ Write(r, "nokey", row, del, ins, new)
  BY DEF WriteVerify, Ready, Activating
<1>2. /\ q \in RequestState /\ q.uid \in Users /\ Exists(q.uid)
      /\ ~q.sets => Settled(q.uid)
      /\ del \in SUBSET Tok /\ ins \in Tok \cup {None} /\ new \in TokenRow
  BY <1>1, Reading DEF Reads, RequestState
<1>3. TokensDeleted(q) /\ TokenInserted(q) /\ TokenMarked(q)
  BY <1>1 DEF IInv, WriteOK, Holding
<1>4. old \in AccountRow /\ RowOK(old) /\ old.status # "absent"
  BY <1>2, Types DEF IInv, Exists
<1>5. /\ row \in AccountRow /\ row.status \notin {"absent", "PENDING"} /\ RowOK(row)
      /\ LinkTo(row) = LinkTo(old)
  BY <1>2, <1>4 DEF Activated, AccountRow, Status, RowOK, LinkTo, Settled
<1> HIDE DEF row
<1>6. Written(q, w, "nokey", row, del, ins, new)
  BY <1>2 DEF RequestState, Written
<1>7. w = [q EXCEPT !.pc = "commit", !.lock = "nokey", !.row = row,
                    !.del = del, !.ins = ins, !.new = new]
  OBVIOUS
<1> HIDE DEF w
<1>8. RowWritten(w)
  BY <1>1, <1>2, <1>5, <1>6 DEF RowWritten, Writes, Written, Activating
<1>9. TokensDeleted(w) /\ TokenInserted(w) /\ TokenMarked(w)
  BY <1>3, <1>6 DEF TokensDeleted, TokenInserted, TokenMarked, Written
<1>10. w.kind \notin Changing
  BY <1>1, <1>6 DEF Written, Activating, Changing
<1> HIDE DEF del, ins, new
<1> QED BY <1>1, <1>2, <1>5, <1>7, <1>8, <1>9, <1>10, WriteStep

LEMMA WriteResendInv ==
  ASSUME IInv, NEW r \in Requests, WriteResend(r) PROVE IInv'
<1> DEFINE del == TokensOf("verify", request[r].uid)
           new == VerificationRow(r)
<1>1. PICK t \in Tok :
        Ready(r, {"resend"}) /\ FreshTok(t) /\ Write(r, "share", NoAccount, del, t, new)
  BY DEF WriteResend, Rotated
<1>2. /\ request[r].pc = "write" /\ request[r] \in RequestState /\ request[r].kind = "resend"
      /\ request[r].uid \in Users /\ request[r].email \in Emails
  BY <1>1, Reading DEF Ready, Reads, Changing
<1>3. NoAccount \in AccountRow
  BY DEF NoAccount, AccountRow, Status
<1>4. /\ new \in TokenRow /\ new.kind = "verify" /\ new.user_id = request[r].uid
      /\ new.email = request[r].email /\ new.used_at = "null"
  BY <1>2, VerificationRowOK
<1>5. /\ del \subseteq Tok /\ t \notin del /\ token[t].kind = "none"
      /\ \A x \in del : token[x].kind = "verify" /\ token[x].user_id = request[r].uid
  BY <1>1 DEF TokensOf, FreshTok
<1> DEFINE w == [request[r] EXCEPT !.pc = "commit", !.lock = "share", !.row = NoAccount,
                                   !.del = del, !.ins = t, !.new = new]
<1>6. Written(request[r], w, "share", NoAccount, del, t, new)
  BY <1>2 DEF RequestState, Written
<1> HIDE DEF del, new
<1>7. w = [request[r] EXCEPT !.pc = "commit", !.lock = "share", !.row = NoAccount,
                             !.del = del, !.ins = t, !.new = new]
  OBVIOUS
<1> HIDE DEF w
<1>8. RowWritten(w) /\ TokenMarked(w) /\ w.kind \notin Changing
  BY <1>2, <1>6 DEF RowWritten, TokenMarked, Writes, Written, Changing, Activating
<1>9. TokensDeleted(w)
  BY <1>2, <1>5, <1>6 DEF TokensDeleted, Written, Changing
<1>10. TokenInserted(w)
  BY <1>2, <1>4, <1>5, <1>6 DEF TokenInserted, Written, Issuing
<1> QED BY <1>1, <1>2, <1>3, <1>4, <1>5, <1>7, <1>8, <1>9, <1>10, WriteStep

LEMMA WriteForgotInv ==
  ASSUME IInv, NEW r \in Requests, WriteForgot(r) PROVE IInv'
<1> DEFINE del == TokensOf("reset", request[r].uid)
           new == [NoToken EXCEPT !.kind = "reset", !.user_id = request[r].uid,
                             !.email = request[r].email, !.expires_at = now + ResetLife]
<1>1. PICK t \in Tok :
        Ready(r, {"forgot"}) /\ FreshTok(t) /\ Write(r, "share", NoAccount, del, t, new)
  BY DEF WriteForgot, Rotated
<1>2. /\ request[r].pc = "write" /\ request[r] \in RequestState /\ request[r].kind = "forgot"
      /\ request[r].uid \in Users /\ request[r].email \in Emails
  BY <1>1, Reading DEF Ready, Reads, Changing
<1>3. NoAccount \in AccountRow
  BY DEF NoAccount, AccountRow, Status
<1>4. /\ new \in TokenRow /\ new.kind = "reset" /\ new.user_id = request[r].uid
      /\ new.email = request[r].email /\ new.used_at = "null"
  <2>1. now + ResetLife \in Nat
    BY Constants DEF IInv, TypeOK
  <2> QED BY <1>2, <2>1 DEF NoToken, TokenRow
<1>5. /\ del \subseteq Tok /\ t \notin del /\ token[t].kind = "none"
      /\ \A x \in del : token[x].kind = "reset" /\ token[x].user_id = request[r].uid
  BY <1>1 DEF TokensOf, FreshTok
<1> DEFINE w == [request[r] EXCEPT !.pc = "commit", !.lock = "share", !.row = NoAccount,
                                   !.del = del, !.ins = t, !.new = new]
<1>6. Written(request[r], w, "share", NoAccount, del, t, new)
  BY <1>2 DEF RequestState, Written
<1> HIDE DEF del, new
<1>7. w = [request[r] EXCEPT !.pc = "commit", !.lock = "share", !.row = NoAccount,
                             !.del = del, !.ins = t, !.new = new]
  OBVIOUS
<1> HIDE DEF w
<1>8. RowWritten(w) /\ TokenMarked(w) /\ w.kind \notin Changing
  BY <1>2, <1>6 DEF RowWritten, TokenMarked, Writes, Written, Changing, Activating
<1>9. TokensDeleted(w)
  BY <1>2, <1>5, <1>6 DEF TokensDeleted, Written, Changing
<1>10. TokenInserted(w)
  BY <1>2, <1>4, <1>5, <1>6 DEF TokenInserted, Written, Issuing
<1> QED BY <1>1, <1>2, <1>3, <1>4, <1>5, <1>7, <1>8, <1>9, <1>10, WriteStep

LEMMA WriteChangeInv ==
  ASSUME IInv, NEW r \in Requests, WriteChange(r) PROVE IInv'
<1> DEFINE del == TokensOf("change", request[r].uid)
           new == [NoToken EXCEPT !.kind = "change", !.user_id = request[r].uid,
                             !.email = request[r].email,
                             !.old_email = request[r].old_email,
                             !.expires_at = now + TokenLife]
<1>1. PICK t \in Tok :
        Ready(r, {"change"}) /\ FreshTok(t) /\ Write(r, "share", NoAccount, del, t, new)
  BY DEF WriteChange, Rotated
<1>2. /\ request[r].pc = "write" /\ request[r] \in RequestState /\ request[r].kind = "change"
      /\ request[r].uid \in Users /\ request[r].email \in Emails
      /\ request[r].old_email \in Emails
  BY <1>1, Reading DEF Ready, Reads, Changing
<1>3. NoAccount \in AccountRow
  BY DEF NoAccount, AccountRow, Status
<1>4. /\ new \in TokenRow /\ new.kind = "change" /\ new.user_id = request[r].uid
      /\ new.email = request[r].email /\ new.used_at = "null"
      /\ new.old_email = request[r].old_email
  <2>1. now + TokenLife \in Nat
    BY Constants DEF IInv, TypeOK
  <2> QED BY <1>2, <2>1 DEF NoToken, TokenRow
<1>5. /\ del \subseteq Tok /\ t \notin del /\ token[t].kind = "none"
      /\ \A x \in del : token[x].kind = "change" /\ token[x].user_id = request[r].uid
  BY <1>1 DEF TokensOf, FreshTok
<1> DEFINE w == [request[r] EXCEPT !.pc = "commit", !.lock = "share", !.row = NoAccount,
                                   !.del = del, !.ins = t, !.new = new]
<1>6. Written(request[r], w, "share", NoAccount, del, t, new)
  BY <1>2 DEF RequestState, Written
<1> HIDE DEF del, new
<1>7. w = [request[r] EXCEPT !.pc = "commit", !.lock = "share", !.row = NoAccount,
                             !.del = del, !.ins = t, !.new = new]
  OBVIOUS
<1> HIDE DEF w
<1>8. RowWritten(w) /\ TokenMarked(w) /\ w.kind \notin Changing
  BY <1>2, <1>6 DEF RowWritten, TokenMarked, Writes, Written, Changing, Activating
<1>9. TokensDeleted(w)
  BY <1>2, <1>5, <1>6 DEF TokensDeleted, Written, Changing
<1>10. TokenInserted(w)
  BY <1>2, <1>4, <1>5, <1>6 DEF TokenInserted, Written, Issuing
<1> QED BY <1>1, <1>2, <1>3, <1>4, <1>5, <1>7, <1>8, <1>9, <1>10, WriteStep

\* The reset tokens of the user, all of them deleted.
LEMMA InvalidatedTokens ==
  ASSUME IInv, NEW r \in Requests
  PROVE  LET del == Invalidated(r) IN
         /\ del \in SUBSET Tok /\ del = TokensOf("reset", request[r].uid)
         /\ \A t \in del : token[t].kind = "reset" /\ token[t].user_id = request[r].uid
BY DEF Invalidated, TokensOf

LEMMA WritePasswordInv ==
  ASSUME IInv, NEW r \in Requests, WritePassword(r) PROVE IInv'
<1> DEFINE del == Invalidated(r)
           old == account[request[r].uid]
<1>1. Ready(r, {"password", "reset"}) /\ Write(r, "nokey", old, del, None, NoToken)
  BY DEF WritePassword
<1>2. /\ request[r].pc = "write" /\ request[r] \in RequestState
      /\ request[r].kind \in {"password", "reset"} /\ Reads(request[r])
      /\ request[r].uid \in Users /\ Settled(request[r].uid)
  BY <1>1, Reading DEF Ready, Reads, Changing
<1>3. /\ old \in AccountRow /\ RowOK(old) /\ old.status \notin {"absent", "PENDING"}
      /\ NoToken \in TokenRow
  BY <1>2, Types DEF IInv, Settled, NoToken, TokenRow
<1>4. /\ del \in SUBSET Tok /\ del = TokensOf("reset", request[r].uid)
      /\ \A t \in del : token[t].kind = "reset" /\ token[t].user_id = request[r].uid
  BY InvalidatedTokens
<1>5. request[r].kind = "reset" =>
        request[r].tok \in del \/ token[request[r].tok].kind = "deleted"
  BY <1>2, <1>4 DEF Reads, Redeems, TokensOf
<1> DEFINE w == [request[r] EXCEPT !.pc = "commit", !.lock = "nokey", !.row = old,
                                   !.del = del, !.ins = None, !.new = NoToken]
<1>6. Written(request[r], w, "nokey", old, del, None, NoToken)
  BY <1>2 DEF RequestState, Written
<1> HIDE DEF del, old
<1>7. w = [request[r] EXCEPT !.pc = "commit", !.lock = "nokey", !.row = old,
                             !.del = del, !.ins = None, !.new = NoToken]
  OBVIOUS
<1> HIDE DEF w
<1>8. RowWritten(w)
  BY <1>2, <1>3, <1>6 DEF RowWritten, Writes, Written, Activating
<1>9. TokensDeleted(w)
  BY <1>2, <1>4, <1>5, <1>6 DEF TokensDeleted, Written, Changing
<1>10. TokenInserted(w) /\ TokenMarked(w)
  BY <1>2, <1>6 DEF TokenInserted, TokenMarked, Written, Issuing
<1>11. TokensOf("reset", w.uid) \subseteq del
  BY <1>4, <1>6 DEF Written
<1> QED BY <1>1, <1>2, <1>3, <1>4, <1>7, <1>8, <1>9, <1>10, <1>11, WriteStep

\* The address is written under either lock.
LEMMA AddressWritten ==
  ASSUME NEW r \in Requests, NEW row, NEW del, NEW ins, NEW new,
         WriteAddress(r, row, del, ins, new)
  PROVE  \E mode \in {"nokey", "email"} : Write(r, mode, row, del, ins, new)
BY DEF WriteAddress

\* The row with the address that was loaded or read.
LEMMA AddressedRow ==
  ASSUME IInv, NEW r \in Requests, request[r].uid \in Users, Settled(request[r].uid),
         request[r].email \in Emails
  PROVE  LET row == Addressed(r) IN
         /\ row \in AccountRow /\ row.status \notin {"absent", "PENDING"}
         /\ row.email \in Emails
<1>1. /\ account[request[r].uid] \in AccountRow /\ RowOK(account[request[r].uid])
      /\ account[request[r].uid].status \notin {"absent", "PENDING"}
  BY Types DEF IInv, Settled
<1> QED BY <1>1 DEF Addressed, AccountRow, Status, RowOK

LEMMA WriteConfirmInv ==
  ASSUME IInv, NEW r \in Requests, WriteConfirm(r) PROVE IInv'
<1> DEFINE t == request[r].tok
           del == Invalidated(r)
           old == Addressed(r)
           row == [old EXCEPT !.previous_email = request[r].old_email,
                              !.email_changed_at = now]
           ins == Marked(t)
           new == [token[t] EXCEPT !.used_at = "set"]
<1>1. Ready(r, {"confirm"}) /\ WriteAddress(r, row, del, ins, new)
  BY DEF WriteConfirm
<1>2. PICK mode \in {"nokey", "email"} : Write(r, mode, row, del, ins, new)
  BY <1>1, AddressWritten
<1>3. /\ request[r].pc = "write" /\ request[r] \in RequestState
      /\ request[r].kind = "confirm" /\ t \in Tok
      /\ request[r].uid \in Users /\ Settled(request[r].uid)
      /\ request[r].email \in Emails /\ request[r].old_email \in Emails
  BY <1>1, Reading DEF Ready, Reads, Redeems, Changing
<1>4. /\ old \in AccountRow /\ old.status \notin {"absent", "PENDING"}
      /\ old.email \in Emails /\ now \in Nat
  BY <1>3, AddressedRow, Types DEF TypeOK
<1> HIDE DEF old
<1>5. row \in AccountRow /\ RowOK(row) /\ row.status \notin {"absent", "PENDING"}
  BY <1>3, <1>4, Constants DEF AccountRow, Status, RowOK
<1>6. /\ del \in SUBSET Tok /\ del = TokensOf("reset", request[r].uid)
      /\ \A x \in del : token[x].kind = "reset" /\ token[x].user_id = request[r].uid
  BY InvalidatedTokens
<1>7. /\ ins \in Tok \cup {None} /\ new \in TokenRow
      /\ token[t].kind = "deleted" => ins = None
      /\ token[t].kind # "deleted" => ins = t
      /\ new.used_at = "set" /\ new.kind = token[t].kind
      /\ new.user_id = token[t].user_id /\ new.email = token[t].email
      /\ new.old_email = token[t].old_email
  BY <1>3, UpdatedToken
<1> DEFINE w == [request[r] EXCEPT !.pc = "commit", !.lock = mode, !.row = row,
                                   !.del = del, !.ins = ins, !.new = new]
<1>8. Written(request[r], w, mode, row, del, ins, new)
  BY <1>3 DEF RequestState, Written
<1> HIDE DEF row, del, ins, new
<1>9. w = [request[r] EXCEPT !.pc = "commit", !.lock = mode, !.row = row,
                             !.del = del, !.ins = ins, !.new = new]
  OBVIOUS
<1> HIDE DEF w
<1>10. RowWritten(w)
  BY <1>3, <1>5, <1>8 DEF RowWritten, Writes, Written, Activating
<1>11. TokensDeleted(w)
  BY <1>3, <1>6, <1>8 DEF TokensDeleted, Written, Changing
<1>12. TokenInserted(w) /\ TokenMarked(w)
  BY <1>3, <1>7, <1>8 DEF TokenInserted, TokenMarked, Written, Issuing
<1>13. TokensOf("reset", w.uid) \subseteq del
  BY <1>6, <1>8 DEF Written
<1>14. mode \in {"none", "share", "nokey", "email"}
  OBVIOUS
<1> QED BY <1>2, <1>3, <1>5, <1>6, <1>7, <1>9, <1>10, <1>11, <1>12, <1>13, <1>14, WriteStep

\* The ways of a revert, by their lock and row.
LEMMA RevertStep ==
  ASSUME IInv, NEW r \in Requests, Ready(r, {"revert"}),
         NEW mode \in {"none", "nokey", "email"}, NEW row \in AccountRow,
         mode # "none" => RowOK(row) /\ row.status \notin {"absent", "PENDING"},
         Write(r, mode, row, Invalidated(r), Marked(request[r].tok),
               [token[request[r].tok] EXCEPT !.revert_used_at = "set"])
  PROVE  IInv'
<1> DEFINE t == request[r].tok
           del == Invalidated(r)
           ins == Marked(t)
           new == [token[t] EXCEPT !.revert_used_at = "set"]
<1>1. Write(r, mode, row, del, ins, new)
  OBVIOUS
<1>2. /\ request[r].pc = "write" /\ request[r] \in RequestState
      /\ request[r].kind = "revert" /\ t \in Tok /\ request[r].uid \in Users
  BY Reading DEF Ready, Reads, Redeems, Changing
<1>3. /\ del \in SUBSET Tok /\ del = TokensOf("reset", request[r].uid)
      /\ \A x \in del : token[x].kind = "reset" /\ token[x].user_id = request[r].uid
  BY InvalidatedTokens
<1>4. /\ ins \in Tok \cup {None} /\ new \in TokenRow
      /\ token[t].kind = "deleted" => ins = None
      /\ token[t].kind # "deleted" => ins = t
      /\ new.used_at = token[t].used_at /\ new.kind = token[t].kind
      /\ new.user_id = token[t].user_id /\ new.email = token[t].email
      /\ new.old_email = token[t].old_email
  BY <1>2, UpdatedToken
<1> DEFINE w == [request[r] EXCEPT !.pc = "commit", !.lock = mode, !.row = row,
                                   !.del = del, !.ins = ins, !.new = new]
<1>5. Written(request[r], w, mode, row, del, ins, new)
  BY <1>2 DEF RequestState, Written
<1> HIDE DEF del, ins, new
<1>6. w = [request[r] EXCEPT !.pc = "commit", !.lock = mode, !.row = row,
                             !.del = del, !.ins = ins, !.new = new]
  OBVIOUS
<1> HIDE DEF w
<1>7. RowWritten(w)
  BY <1>2, <1>5 DEF RowWritten, Writes, Written, Activating
<1>8. TokensDeleted(w)
  BY <1>2, <1>3, <1>5 DEF TokensDeleted, Written, Changing
<1>9. TokenInserted(w) /\ TokenMarked(w)
  BY <1>2, <1>4, <1>5 DEF TokenInserted, TokenMarked, Written, Issuing
<1>10. TokensOf("reset", w.uid) \subseteq del
  BY <1>3, <1>5 DEF Written
<1>11. mode \in {"none", "share", "nokey", "email"}
  OBVIOUS
<1> HIDE DEF t
<1> QED BY <1>1, <1>2, <1>3, <1>4, <1>6, <1>7, <1>8, <1>9, <1>10, <1>11, WriteStep

LEMMA WriteRevertInv ==
  ASSUME IInv, NEW r \in Requests, WriteRevert(r) PROVE IInv'
<1> DEFINE t == request[r].tok
           mark == [token[t] EXCEPT !.revert_used_at = "set"]
           old == Addressed(r)
           row == HoldCleared(old)
<1>1. /\ Ready(r, {"revert"})
      /\ IF request[r].email = None
           THEN Write(r, "none", NoAccount, Invalidated(r), Marked(t), mark)
           ELSE WriteAddress(r, row, Invalidated(r), Marked(t), mark)
  BY DEF WriteRevert
<1>2. CASE request[r].email = None
  <2>1. NoAccount \in AccountRow
    BY DEF NoAccount, AccountRow, Status
  <2> QED BY <1>1, <1>2, <2>1, RevertStep
<1>3. CASE request[r].email # None
  <2>1. PICK mode \in {"nokey", "email"} :
          Write(r, mode, row, Invalidated(r), Marked(t), mark)
    BY <1>1, <1>3, AddressWritten
  <2>2. /\ request[r].email \in Emails /\ request[r].uid \in Users
        /\ Settled(request[r].uid)
    BY <1>1, <1>3, Reading DEF Ready, Reads, Changing, RequestState
  <2>3. /\ old \in AccountRow /\ old.status \notin {"absent", "PENDING"}
        /\ old.email \in Emails
    BY <2>2, AddressedRow
  <2> HIDE DEF old
  <2>4. row \in AccountRow /\ RowOK(row) /\ row.status \notin {"absent", "PENDING"}
    BY <2>3, Constants DEF HoldCleared, AccountRow, Status, RowOK
  <2> HIDE DEF row
  <2> QED BY <1>1, <2>1, <2>4, RevertStep
<1> QED BY <1>2, <1>3

\* A request that has read the row of its user goes on to write.
LEMMA SelectStep ==
  ASSUME IInv, NEW r \in Requests, request[r].pc = "select",
         NEW w \in RequestState, request' = [request EXCEPT ![r] = w],
         UNCHANGED <<now, account, token, gen, stamp, redeemed>>,
         w.pc = "write", w.kind = request[r].kind, w.lock \in {"none", "share"},
         Reads(w), ~Holding(w) => w.del = {} /\ w.ins = None,
         Holding(w) => TokensDeleted(w) /\ TokenInserted(w) /\ TokenMarked(w),
         CanLockTokens(r, w.del \cup {w.ins})
  PROVE  IInv'
<1>1. request[r].kind \in Selecting
  BY DEF IInv, RequestOK
<1>2. LinkOK(w) /\ w.kind # "forgot"
  BY <1>1 DEF LinkOK, Selecting
<1>3. Fits(w)
  BY <1>2 DEF Fits, Writes
<1> QED BY <1>2, <1>3, QuietInv DEF CanLockTokens

\* What a request knows before it reads the row.
LEMMA SelectingState ==
  ASSUME IInv, NEW r \in Requests, request[r].pc = "select"
  PROVE  /\ request[r] \in RequestState /\ Reads(request[r]) /\ request[r].uid \in Users
         /\ account[request[r].uid] \in AccountRow /\ RowOK(account[request[r].uid])
         /\ request[r].lock \in {"none", "share"}
         /\ request[r].del = {} /\ request[r].ins = None
<1>1. RequestOK(r) /\ request[r] \in RequestState
  BY Types DEF IInv
<1>2. request[r].lock \in {"none", "share"}
  BY <1>1 DEF RequestOK, Writes, RequestState
<1> QED BY <1>1, <1>2, Types DEF IInv, RequestOK, Reads, Holding

\* The request with what it has learned and locked.
Learns(r, email, sets, lock, del, ins, new) ==
  LET q == request[r]
      w == request'[r]
  IN
  /\ q.pc = "select" /\ request' = [request EXCEPT ![r] = w]
  /\ UNCHANGED <<now, account, token, gen, stamp, redeemed>>
  /\ w \in RequestState /\ w.pc = "write" /\ w.kind = q.kind /\ w.uid = q.uid
  /\ w.tok = q.tok /\ w.old_email = q.old_email /\ w.row = q.row /\ w.stamp = q.stamp
  /\ w.email = email /\ w.sets = sets /\ w.lock = lock /\ w.del = del /\ w.ins = ins
  /\ w.new = new

LEMMA SelectedLearns ==
  ASSUME IInv, NEW r \in Requests, request[r].pc = "select",
         NEW email \in Emails \cup {None}, NEW sets \in BOOLEAN,
         NEW lock \in {"none", "share"}, NEW del \in SUBSET Tok,
         NEW ins \in Tok \cup {None}, NEW new \in TokenRow, NEW w, Selected(r, w),
         w = [request[r] EXCEPT !.pc = "write", !.email = email, !.sets = sets,
                                !.lock = lock, !.del = del, !.ins = ins, !.new = new]
  PROVE  Learns(r, email, sets, lock, del, ins, new)
<1> DEFINE q == request[r]
<1>1. q \in RequestState /\ TypeOK
  BY Types
<1>2. q.pc = "select" /\ q = request[r]
  OBVIOUS
<1>3. w = [pc |-> "write", kind |-> q.kind, uid |-> q.uid, tok |-> q.tok, email |-> email,
           old_email |-> q.old_email, sets |-> sets, lock |-> lock, row |-> q.row,
           del |-> del, ins |-> ins, new |-> new, stamp |-> q.stamp]
  BY <1>1 DEF RequestState
<1>4. /\ q.kind \in {"none", "signup", "verify", "activate", "resend", "password",
                    "forgot", "reset", "change", "confirm", "revert"}
      /\ q.uid \in Users \cup {None} /\ q.tok \in Tok \cup {None}
      /\ q.old_email \in Emails \cup {None} /\ q.row \in AccountRow /\ q.stamp \in Stamp
      /\ lock \in {"none", "share", "nokey", "email"}
  BY <1>1 DEF RequestState
<1>5. /\ request' = [request EXCEPT ![r] = w]
      /\ UNCHANGED <<now, account, token, gen, stamp, redeemed>>
  BY DEF Selected
<1>7. /\ w.pc = "write" /\ w.kind = q.kind /\ w.uid = q.uid /\ w.tok = q.tok
      /\ w.old_email = q.old_email /\ w.row = q.row /\ w.stamp = q.stamp
      /\ w.email = email /\ w.sets = sets /\ w.lock = lock /\ w.del = del
      /\ w.ins = ins /\ w.new = new
  BY <1>1 DEF RequestState
<1> HIDE DEF q
<1>6. w \in RequestState
  BY <1>3, <1>4 DEF RequestState
<1>8. request'[r] = w
  BY <1>1, <1>5 DEF TypeOK
<1> QED BY <1>2, <1>5, <1>6, <1>7, <1>8 DEF Learns

LEMMA LearnsForVerify ==
  ASSUME IInv, NEW r \in Requests, SelectForVerify(r)
  PROVE  LET q == request[r] IN
         Learns(r, q.email, SetsStatus(r), q.lock, {}, Marked(q.tok),
                [token[q.tok] EXCEPT !.used_at = "set"])
<1> DEFINE q == request[r]
           ins == Marked(q.tok)
           new == [token[q.tok] EXCEPT !.used_at = "set"]
           sets == SetsStatus(r)
<1>1. /\ q.pc = "select" /\ q.kind = "verify"
      /\ Selected(r, [q EXCEPT !.pc = "write", !.ins = ins, !.new = new, !.sets = sets])
  BY DEF SelectForVerify, Selects
<1>2. /\ q \in RequestState /\ q.tok \in Tok /\ q.lock \in {"none", "share"}
      /\ q.del = {} /\ q.email \in Emails \cup {None}
  BY <1>1, SelectingState DEF Reads, Redeems, RequestState
<1>3. ins \in Tok \cup {None} /\ new \in TokenRow /\ sets \in BOOLEAN
  BY <1>2, UpdatedToken DEF SetsStatus
<1> HIDE DEF ins, new, sets
<1> DEFINE e == q.email
           lock == q.lock
           n == [q EXCEPT !.pc = "write", !.ins = ins, !.new = new, !.sets = sets]
<1>7. Selected(r, n)
  BY <1>1
<1>4. n = [q EXCEPT !.pc = "write", !.email = e, !.sets = sets, !.lock = lock,
                  !.del = {}, !.ins = ins, !.new = new]
  BY <1>2 DEF RequestState
<1>5. e \in Emails \cup {None} /\ lock \in {"none", "share"}
  BY <1>2
<1> HIDE DEF e, lock, n
<1>6. Learns(r, e, sets, lock, {}, ins, new)
  BY <1>1, <1>3, <1>4, <1>5, <1>7, SelectedLearns
<1> QED BY <1>6 DEF ins, new, sets, e, lock

LEMMA LearnsForActivation ==
  ASSUME IInv, NEW r \in Requests, SelectForActivation(r)
  PROVE  LET q == request[r] IN
         \E t \in Tok :
           /\ FreshTok(t)
           /\ Learns(r, q.email, SetsStatus(r), "share", Rotated("verify", q.uid), t,
                     [VerificationRow(r) EXCEPT !.used_at = "set"])
<1> DEFINE q == request[r]
           del == Rotated("verify", q.uid)
           new == [VerificationRow(r) EXCEPT !.used_at = "set"]
           sets == SetsStatus(r)
<1>1. PICK t \in Tok :
        /\ FreshTok(t) /\ q.pc = "select" /\ q.kind = "activate"
        /\ Selected(r, [q EXCEPT !.pc = "write", !.lock = "share", !.del = del, !.ins = t, !.new = new,
                                 !.sets = sets])
  BY DEF SelectForActivation, Selects
<1>2. q \in RequestState /\ q.uid \in Users /\ q.email \in Emails
  BY <1>1, SelectingState DEF Reads
<1>3. del \in SUBSET Tok /\ sets \in BOOLEAN
  BY DEF Rotated, TokensOf, SetsStatus
<1>4. new \in TokenRow
  BY <1>2, VerificationRowOK DEF TokenRow
<1> HIDE DEF del, new, sets
<1> DEFINE e == q.email
           n == [q EXCEPT !.pc = "write", !.lock = "share", !.del = del, !.ins = t, !.new = new,
                          !.sets = sets]
<1>8. Selected(r, n)
  BY <1>1
<1>5. n = [q EXCEPT !.pc = "write", !.email = e, !.sets = sets, !.lock = "share",
                  !.del = del, !.ins = t, !.new = new]
  BY <1>2 DEF RequestState
<1>6. e \in Emails
  BY <1>2
<1> HIDE DEF e, n
<1>7. Learns(r, e, sets, "share", del, t, new)
  BY <1>1, <1>3, <1>4, <1>5, <1>6, <1>8, SelectedLearns
<1> QED BY <1>1, <1>7 DEF del, new, sets, e

\* What the other operations read is the address.
LEMMA AddressLearned ==
  ASSUME IInv, NEW r \in Requests, request[r].pc = "select",
         NEW e \in Emails \cup {None}, NEW sets \in BOOLEAN,
         Selected(r, [request[r] EXCEPT !.pc = "write", !.email = e, !.sets = sets])
  PROVE  LET q == request[r] IN Learns(r, e, sets, q.lock, {}, None, q.new)
<1>1. /\ request[r] \in RequestState /\ request[r].lock \in {"none", "share"}
      /\ request[r].del = {} /\ request[r].ins = None /\ request[r].new \in TokenRow
  BY SelectingState DEF RequestState
<1> DEFINE lock == request[r].lock
           new == request[r].new
           n == [request[r] EXCEPT !.pc = "write", !.email = e, !.sets = sets]
<1>5. Selected(r, n)
  OBVIOUS
<1>2. n = [request[r] EXCEPT !.pc = "write", !.email = e, !.sets = sets, !.lock = lock,
                           !.del = {}, !.ins = None, !.new = new]
  BY <1>1 DEF RequestState
<1>3. lock \in {"none", "share"} /\ new \in TokenRow
  BY <1>1
<1> HIDE DEF lock, new, n
<1>4. Learns(r, e, sets, lock, {}, None, new)
  BY <1>2, <1>3, <1>5, SelectedLearns
<1> QED BY <1>4 DEF lock, new

LEMMA LearnsForChange ==
  ASSUME IInv, NEW r \in Requests, SelectForChange(r)
  PROVE  LET q == request[r] IN
         \E e \in Emails : Holders(e) = {} /\ Learns(r, e, q.sets, q.lock, {}, None, q.new)
<1>1. PICK e \in Emails :
        Holders(e) = {} /\ Selected(r, [request[r] EXCEPT !.pc = "write", !.email = e])
  BY DEF SelectForChange
<1>2. request[r].pc = "select" /\ request[r].kind = "change"
  BY DEF SelectForChange, Selects
<1>3. /\ request[r].sets \in BOOLEAN
      /\ [request[r] EXCEPT !.pc = "write", !.email = e] =
           [request[r] EXCEPT !.pc = "write", !.email = e, !.sets = request[r].sets]
  BY Types DEF RequestState
<1> QED BY <1>1, <1>2, <1>3, AddressLearned

LEMMA LearnsForConfirm ==
  ASSUME IInv, NEW r \in Requests, SelectForConfirm(r)
  PROVE  LET q == request[r] IN
         Learns(r, q.email, SetsEmail(r, q.email), q.lock, {}, None, q.new)
<1> DEFINE sets == SetsEmail(r, request[r].email)
<1>1. /\ request[r].pc = "select" /\ request[r].kind = "confirm"
      /\ Selected(r, [request[r] EXCEPT !.pc = "write", !.sets = sets])
  BY DEF SelectForConfirm, Selects
<1>2. request[r] \in RequestState /\ request[r].email \in Emails
  BY <1>1, SelectingState DEF Reads
<1>3. sets \in BOOLEAN
  BY DEF SetsEmail
<1> HIDE DEF sets
<1>4. [request[r] EXCEPT !.pc = "write", !.sets = sets] =
        [request[r] EXCEPT !.pc = "write", !.email = request[r].email, !.sets = sets]
  BY <1>2 DEF RequestState
<1> QED BY <1>1, <1>2, <1>3, <1>4, AddressLearned DEF sets

LEMMA LearnsForRevert ==
  ASSUME IInv, NEW r \in Requests, SelectForRevert(r)
  PROVE  LET q == request[r]
             e == account[q.uid].previous_email
         IN  Learns(r, e, SetsEmail(r, e), q.lock, {}, None, q.new)
<1> DEFINE e == account[request[r].uid].previous_email
           sets == SetsEmail(r, e)
<1>1. /\ request[r].pc = "select" /\ request[r].kind = "revert"
      /\ Selected(r, [request[r] EXCEPT !.pc = "write", !.email = e, !.sets = sets])
  BY DEF SelectForRevert, Selects
<1>2. e \in Emails \cup {None}
  BY <1>1, SelectingState DEF AccountRow
<1>3. sets \in BOOLEAN
  BY DEF SetsEmail
<1> HIDE DEF e, sets
<1>4. Learns(r, e, sets, request[r].lock, {}, None, request[r].new)
  BY <1>1, <1>2, <1>3, AddressLearned
<1> QED BY <1>4 DEF e, sets

LEMMA SelectForVerifyInv ==
  ASSUME IInv, NEW r \in Requests, SelectForVerify(r) PROVE IInv'
<1> DEFINE q == request[r]
           w == request'[r]
           ins == Marked(q.tok)
           new == [token[q.tok] EXCEPT !.used_at = "set"]
           sets == SetsStatus(r)
<1>1. /\ q.pc = "select" /\ q.kind = "verify" /\ CanLockTokens(r, {ins})
      /\ Learns(r, q.email, sets, q.lock, {}, ins, new)
  BY LearnsForVerify DEF SelectForVerify, Selects
<1>2. /\ Reads(q) /\ q.uid \in Users /\ q.tok \in Tok /\ q.lock \in {"none", "share"}
  BY <1>1, SelectingState DEF Reads, Redeems
<1>3. /\ token[q.tok].kind = "deleted" => ins = None
      /\ token[q.tok].kind # "deleted" => ins = q.tok
      /\ new.used_at = "set" /\ new.kind = token[q.tok].kind
      /\ new.user_id = token[q.tok].user_id /\ new.email = token[q.tok].email
      /\ new.old_email = token[q.tok].old_email
  BY <1>2, UpdatedToken
<1>4. ~sets => Settled(q.uid)
  BY <1>2 DEF SetsStatus, Settled
<1> HIDE DEF ins, new, sets
<1>5. /\ w \in RequestState /\ w.pc = "write" /\ w.kind = q.kind /\ w.uid = q.uid
      /\ w.tok = q.tok /\ w.lock = q.lock /\ w.del = {} /\ w.ins = ins /\ w.new = new
      /\ w.sets = sets /\ request' = [request EXCEPT ![r] = w]
      /\ UNCHANGED <<now, account, token, gen, stamp, redeemed>>
  BY <1>1 DEF Learns
<1> HIDE DEF w
<1>6. Reads(w)
  BY <1>1, <1>2, <1>4, <1>5 DEF Reads, Redeems, Changing
<1>7. TokensDeleted(w) /\ TokenInserted(w)
  BY <1>1, <1>5 DEF TokensDeleted, TokenInserted, Changing, Issuing
<1>8. TokenMarked(w)
  BY <1>1, <1>3, <1>5 DEF TokenMarked
<1>9. Holding(w) /\ CanLockTokens(r, w.del \cup {w.ins})
  BY <1>1, <1>5 DEF Holding, Activating, CanLockTokens
<1> QED BY <1>1, <1>2, <1>5, <1>6, <1>7, <1>8, <1>9, SelectStep

\* Nobody has deleted a token that has not been issued.
LEMMA FreshUnlocked ==
  ASSUME IInv, NEW t \in Tok, FreshTok(t), NEW p \in Requests
  PROVE  t \notin TokensLocked(p)
<1>1. /\ request[p] \in RequestState /\ RequestOK(p)
      /\ Holding(request[p]) => TokensDeleted(request[p])
  BY Types DEF IInv, WriteOK
<1>2. token[t].kind = "none" /\ request[p].ins # t
  BY DEF FreshTok
<1>3. Holding(request[p]) => request[p].pc # "idle"
  BY DEF Holding
<1>4. Holding(request[p]) => t \notin request[p].del
  <2> SUFFICES ASSUME Holding(request[p]), t \in request[p].del PROVE FALSE
    OBVIOUS
  <2>1. request[p].kind # "none"
    BY <1>1, <1>3 DEF RequestOK, Reads
  <2> QED BY <1>1, <1>2, <2>1 DEF TokensDeleted, RequestState, Changing
<1> QED BY <1>1, <1>2, <1>4 DEF RequestOK, TokensLocked

LEMMA SelectForActivationInv ==
  ASSUME IInv, NEW r \in Requests, SelectForActivation(r) PROVE IInv'
<1> DEFINE q == request[r]
           w == request'[r]
           del == Rotated("verify", q.uid)
           new == [VerificationRow(r) EXCEPT !.used_at = "set"]
           sets == SetsStatus(r)
<1>1. /\ q.pc = "select" /\ q.kind = "activate" /\ CanLockTokens(r, del)
  BY DEF SelectForActivation, Selects
<1>2. PICK t \in Tok : FreshTok(t) /\ Learns(r, q.email, sets, "share", del, t, new)
  BY LearnsForActivation
<1>3. q \in RequestState /\ Reads(q) /\ q.uid \in Users /\ q.email \in Emails
  BY <1>1, SelectingState DEF Reads
<1>4. /\ new.kind = "verify" /\ new.user_id = q.uid
      /\ new.email = q.email /\ new.used_at = "set"
  BY <1>3, VerificationRowOK DEF TokenRow
<1>5. /\ del \subseteq Tok /\ t \notin del /\ token[t].kind = "none"
      /\ \A x \in del : token[x].kind = "verify" /\ token[x].user_id = q.uid
  BY <1>2 DEF Rotated, TokensOf, FreshTok
<1>6. ~sets => Settled(q.uid)
  BY <1>3 DEF SetsStatus, Settled
<1> HIDE DEF del, new, sets
<1>7. /\ w \in RequestState /\ w.pc = "write" /\ w.kind = q.kind /\ w.uid = q.uid
      /\ w.email = q.email /\ w.lock = "share" /\ w.del = del /\ w.ins = t
      /\ w.new = new /\ w.sets = sets /\ request' = [request EXCEPT ![r] = w]
      /\ UNCHANGED <<now, account, token, gen, stamp, redeemed>>
  BY <1>2 DEF Learns
<1> HIDE DEF w
<1>8. Reads(w)
  BY <1>1, <1>3, <1>6, <1>7 DEF Reads, Changing
<1>9. TokensDeleted(w) /\ TokenMarked(w)
  BY <1>1, <1>5, <1>7 DEF TokensDeleted, TokenMarked, Changing
<1>10. TokenInserted(w)
  BY <1>1, <1>4, <1>5, <1>7 DEF TokenInserted, Issuing
<1>11. Holding(w) /\ CanLockTokens(r, w.del \cup {w.ins})
  <2>1. \A p \in Requests \ {r} : t \notin TokensLocked(p)
    BY <1>2, FreshUnlocked
  <2>2. CanLockTokens(r, del \cup {t})
    BY <1>1, <2>1 DEF CanLockTokens
  <2> QED BY <1>1, <1>7, <2>2 DEF Holding, Activating
<1> QED BY <1>1, <1>7, <1>8, <1>9, <1>10, <1>11, SelectStep

LEMMA SelectAddressInv ==
  ASSUME IInv, NEW r \in Requests, request[r].kind \in {"change", "confirm", "revert"},
         NEW e \in Emails \cup {None}, NEW sets, NEW lock \in {"none", "share"}, NEW new,
         request[r].kind # "revert" => e \in Emails,
         Learns(r, e, sets, lock, {}, None, new)
  PROVE  IInv'
<1> DEFINE q == request[r]
           w == request'[r]
<1>1. /\ q.pc = "select" /\ w \in RequestState /\ w.pc = "write" /\ w.kind = q.kind
      /\ w.uid = q.uid /\ w.tok = q.tok /\ w.email = e /\ w.old_email = q.old_email
      /\ w.lock = lock /\ w.del = {} /\ w.ins = None
      /\ request' = [request EXCEPT ![r] = w]
      /\ UNCHANGED <<now, account, token, gen, stamp, redeemed>>
  BY DEF Learns
<1>2. Reads(q)
  BY <1>1, SelectingState
<1> HIDE DEF w
<1>3. Reads(w)
  BY <1>1, <1>2 DEF Reads, Redeems, Activating
<1>4. ~Holding(w) /\ CanLockTokens(r, w.del \cup {w.ins})
  BY <1>1 DEF Holding, Activating, CanLockTokens
<1> QED BY <1>1, <1>3, <1>4, SelectStep

LEMMA SelectForChangeInv ==
  ASSUME IInv, NEW r \in Requests, SelectForChange(r) PROVE IInv'
<1>1. request[r].pc = "select" /\ request[r].kind = "change"
  BY DEF SelectForChange, Selects
<1> QED BY <1>1, LearnsForChange, SelectingState, SelectAddressInv

LEMMA SelectForConfirmInv ==
  ASSUME IInv, NEW r \in Requests, SelectForConfirm(r) PROVE IInv'
<1>1. request[r].pc = "select" /\ request[r].kind = "confirm"
  BY DEF SelectForConfirm, Selects
<1>2. request[r].email \in Emails /\ request[r].lock \in {"none", "share"}
  BY <1>1, SelectingState DEF Reads
<1> QED BY <1>1, <1>2, LearnsForConfirm, SelectAddressInv

LEMMA SelectForRevertInv ==
  ASSUME IInv, NEW r \in Requests, SelectForRevert(r) PROVE IInv'
<1>1. request[r].pc = "select" /\ request[r].kind = "revert"
  BY DEF SelectForRevert, Selects
<1>2. /\ account[request[r].uid].previous_email \in Emails \cup {None}
      /\ request[r].lock \in {"none", "share"}
  BY <1>1, SelectingState DEF AccountRow
<1> QED BY <1>1, <1>2, LearnsForRevert, SelectAddressInv

\* Nothing in the invariant depends on the clock or on who redeemed what.
LEMMA SameRows ==
  ASSUME IInv, now' \in Nat, redeemed' \in [Tok -> Nat],
         UNCHANGED <<account, token, request, gen, stamp>>
  PROVE  IInv'
<1>1. TypeOK'
  BY DEF IInv, TypeOK
<1>2. /\ \A u \in Users : RowOK(account[u])'
      /\ \A t \in Tok : TokenOK(t)'
      /\ PendingVerifiable'
  BY DEF IInv, RowOK, TokenOK, PendingVerifiable, TokensOf, LinkTo, Exists
<1>3. \A q \in Requests : RequestOK(q)'
  BY DEF IInv, RequestOK, Reads, LinkOK, Redeems, Exists, Settled, LinkTo, Holding, Writes
<1>4. ASSUME NEW q \in Requests PROVE WriteOK(q)'
  <2>1. request'[q] = request[q] /\ WriteOK(q)
    BY DEF IInv
  <2>2. RowWritten(request[q]) => RowWritten(request[q])'
    BY <2>1 DEF RowWritten, RowOK, Writes, LinkTo
  <2>3. /\ TokensDeleted(request[q]) => TokensDeleted(request[q])'
        /\ TokenInserted(request[q]) => TokenInserted(request[q])'
        /\ TokenMarked(request[q]) => TokenMarked(request[q])'
        /\ ChangeSeen(request[q]) => ChangeSeen(request[q])'
    BY <2>1 DEF TokensDeleted, TokenInserted, TokenMarked, ChangeSeen
  <2> QED BY <2>1, <2>2, <2>3 DEF WriteOK, Holding
<1>5. LocksExclude'
  BY DEF IInv, LocksExclude, Apart, TokensLocked, Writes
<1> QED BY <1>1, <1>2, <1>3, <1>4, <1>5 DEF IInv

\* An operator waits for the row; what requests have read of it stays true.
LEMMA AdministerInv ==
  ASSUME IInv, Administer PROVE IInv'
<1>1. PICK u \in Users, status \in {"ACTIVE", "SUSPENDED"} :
        /\ account[u].status # "absent"
        /\ \A q \in Requests :
             request[q].uid = u => request[q].lock \notin {"nokey", "email"}
        /\ account' = [account EXCEPT ![u].status = status]
  BY DEF Administer
<1> DEFINE row == [account[u] EXCEPT !.status = status]
<1>2. UNCHANGED <<now, token, request, gen, stamp, redeemed>>
  BY DEF Administer
<1>3. /\ TypeOK /\ account[u] \in AccountRow /\ RowOK(account[u])
      /\ account \in [Users -> AccountRow]
  BY Types DEF IInv, TypeOK
<1>4. /\ row \in AccountRow /\ row.status = status /\ row.email = account[u].email
      /\ row.previous_email = account[u].previous_email
      /\ row.email_changed_at = account[u].email_changed_at
  BY <1>3 DEF AccountRow, Status
<1> HIDE DEF row
<1>5. account' = [account EXCEPT ![u] = row]
  BY <1>1, <1>3 DEF row
<1>6. account'[u] = row /\ \A v \in Users \ {u} : account'[v] = account[v]
  BY <1>3, <1>5
<1>7. ASSUME NEW v \in Users
      PROVE  /\ account'[v] \in AccountRow /\ RowOK(account'[v])
             /\ LinkTo(account'[v]) = LinkTo(account[v])
             /\ (account[v].status = "absent" <=> account'[v].status = "absent")
             /\ account'[v].status = "PENDING" => account[v].status = "PENDING"
             /\ Settled(v) => Settled(v)'
  <2>1. CASE v = u
    BY <1>1, <1>3, <1>4, <1>6, <2>1 DEF RowOK, LinkTo, Settled
  <2>2. CASE v # u
    BY <1>6, <2>2, Types DEF IInv, Settled
  <2> QED BY <2>1, <2>2
<1>8. TypeOK'
  BY <1>2, <1>3, <1>4, <1>5 DEF TypeOK
<1>9. /\ \A v \in Users : RowOK(account[v])'
      /\ PendingVerifiable'
  BY <1>2, <1>7 DEF IInv, RowOK, PendingVerifiable, TokensOf
<1>10. ASSUME NEW t \in Tok PROVE TokenOK(t)'
  BY <1>2, <1>7 DEF IInv, TokenOK, Mailed, Exists
<1>11. ASSUME NEW q \in Requests PROVE RequestOK(q)'
  <2>1. request'[q] = request[q] /\ RequestOK(q)
    BY <1>2 DEF IInv
  <2>2. request[q].pc # "idle" => Reads(request[q])'
    BY <1>2, <1>7, <2>1 DEF RequestOK, Reads, Redeems, Exists
  <2>3. request[q].pc # "idle" => LinkOK(request[q])'
    BY <1>2, <1>7, <2>1 DEF RequestOK, Reads, LinkOK
  <2> QED BY <2>1, <2>2, <2>3 DEF RequestOK, Holding, Writes
<1>12. ASSUME NEW q \in Requests PROVE WriteOK(q)'
  <2>1. request'[q] = request[q] /\ WriteOK(q) /\ RequestOK(q)
    BY <1>2 DEF IInv
  <2>2. ASSUME request[q].pc = "commit" PROVE RowWritten(request[q])'
    <3>1. RowWritten(request[q]) /\ request[q].uid \in Users
      BY <2>1, <2>2 DEF WriteOK, RequestOK, Reads
    <3>2. request[q].kind \notin {"resend", "forgot", "change"} /\ Writes(request[q])
            => request[q].uid # u
      BY <1>1 DEF Writes
    <3> QED BY <1>7, <2>1, <3>1 DEF RowWritten, RowOK, Writes
  <2>3. /\ TokensDeleted(request[q]) => TokensDeleted(request[q])'
        /\ TokenInserted(request[q]) => TokenInserted(request[q])'
        /\ TokenMarked(request[q]) => TokenMarked(request[q])'
        /\ ChangeSeen(request[q]) => ChangeSeen(request[q])'
    BY <1>2, <2>1 DEF TokensDeleted, TokenInserted, TokenMarked, ChangeSeen
  <2> QED BY <2>1, <2>2, <2>3 DEF WriteOK, Holding
<1>13. LocksExclude'
  BY <1>2 DEF IInv, LocksExclude, Apart, TokensLocked, Writes
<1> QED BY <1>8, <1>9, <1>10, <1>11, <1>12, <1>13 DEF IInv

LEMMA StepInv ==
  ASSUME IInv, [Next]_vars PROVE IInv'
<1>1. ASSUME NEW r \in Requests, Arrive(r) PROVE IInv'
  BY <1>1, SignupInv, VerifyEmailInv, VerifyUserInv, ResendVerificationInv, ChangePasswordInv,
     RequestPasswordResetInv, ResetPasswordInv, RequestEmailChangeInv,
     ConfirmEmailChangeInv, RevertEmailChangeInv DEF Arrive
<1>2. ASSUME NEW r \in Requests, Step(r) PROVE IInv'
  BY <1>2, SelectForVerifyInv, SelectForActivationInv, SelectForChangeInv,
     SelectForConfirmInv, SelectForRevertInv, WriteSignupInv, WriteVerifyInv, WriteResendInv, WritePasswordInv,
     WriteForgotInv, WriteChangeInv, WriteConfirmInv, WriteRevertInv, CommitInv,
     RollBackInv DEF Step
<1>3. ASSUME Tick PROVE IInv'
  BY <1>3, SameRows, Types DEF Tick, TypeOK
<1>4. ASSUME UNCHANGED vars PROVE IInv'
  BY <1>4, SameRows, Types DEF vars, TypeOK
<1> QED BY <1>1, <1>2, <1>3, <1>4, AdministerInv DEF Next

-----------------------------------------------------------------------------
(* What follows from the invariant *)

\* The invariant holds in every state of every run.
THEOREM Invariance == Spec => []IInv
<1>1. Init => IInv
  BY InitInv
<1>2. IInv /\ [Next]_vars => IInv'
  BY StepInv
<1> QED BY <1>1, <1>2, PTL DEF Spec

\* Types; a link that was mailed has an address.
THEOREM TypeCorrect == Spec => []TypeOK
<1>1. IInv => TypeOK
  BY DEF IInv
<1> QED BY <1>1, Invariance, PTL

\* A change of password or address leaves no reset token behind, but for one
\* whose request overlapped it.
THEOREM TokensInvalidated == Spec => []ResetTokensInvalidated
<1>1. IInv => ResetTokensInvalidated
  BY DEF IInv, TokenOK, ResetTokensInvalidated
<1> QED BY <1>1, Invariance, PTL

\* A reset link that works during a hold went to the held address.
THEOREM LinkHeld == Spec => []ResetLinkHeld
<1>1. ASSUME IInv PROVE ResetLinkHeld
  <2> SUFFICES ASSUME NEW t \in Tok, token[t].kind = "reset", ~stamp[t].raced,
                      HoldOpen(account[token[t].user_id])
               PROVE  token[t].email = account[token[t].user_id].previous_email
    BY DEF ResetLinkHeld
  <2>1. /\ token[t].user_id \in Users
        /\ token[t].email = LinkTo(account[token[t].user_id])
    BY <1>1 DEF IInv, TokenOK, Mailed
  <2>2. account[token[t].user_id].previous_email # None
    BY <1>1, <2>1 DEF IInv, RowOK, HoldOpen
  <2> QED BY <2>1, <2>2 DEF LinkTo
<1> QED BY <1>1, Invariance, PTL

\* A PENDING account can always be verified.
THEOREM PendingSafe == Spec => []PendingVerifiable
<1>1. IInv => PendingVerifiable
  BY DEF IInv
<1> QED BY <1>1, Invariance, PTL

-----------------------------------------------------------------------------
(* How often a token is redeemed *)

LEMMA ReadersSize ==
  ASSUME NEW t \in Tok
  PROVE  /\ IsFiniteSet(Readers(t)) /\ Cardinality(Readers(t)) \in Nat
         /\ Cardinality(Readers(t)) <= Cardinality(Requests)
         /\ Cardinality(Requests) \in Nat
<1>1. Readers(t) \in SUBSET Requests
  BY DEF Readers
<1> QED BY <1>1, RequestsAssumption, FS_Subset, FS_CardinalityType

\* Steps that redeem nothing and add no reader to a token that is spent.
LEMMA NoMoreReaders ==
  ASSUME TypeOK, RedeemedInv, UNCHANGED redeemed,
         \A t \in Tok : Spent(t) => Spent(t)' /\ Readers(t)' \subseteq Readers(t),
         \A t \in Tok : ~Spent(t) => Readers(t)' \subseteq Requests
  PROVE  RedeemedInv'
<1> SUFFICES ASSUME NEW t \in Tok
             PROVE  /\ (redeemed[t] # 0 => Spent(t))'
                    /\ redeemed'[t] + Cardinality(Readers(t)') <= Cardinality(Requests)
  BY DEF RedeemedInv
<1>1. redeemed'[t] = redeemed[t] /\ redeemed[t] \in Nat
  BY DEF TypeOK
<1>2. CASE Spent(t)
  <2> DEFINE R == Readers(t)
             S == Readers(t)'
  <2>1. IsFiniteSet(R) /\ Cardinality(R) \in Nat /\ Cardinality(Requests) \in Nat
    BY ReadersSize
  <2>2. S \in SUBSET R
    BY <1>2
  <2>3. redeemed[t] + Cardinality(R) <= Cardinality(Requests)
    BY DEF RedeemedInv
  <2> HIDE DEF R, S
  <2>4. Cardinality(S) <= Cardinality(R) /\ IsFiniteSet(S)
    BY <2>1, <2>2, FS_Subset
  <2>5. Cardinality(S) \in Nat
    BY <2>4, FS_CardinalityType
  <2>6. redeemed'[t] + Cardinality(S) <= Cardinality(Requests)
    BY <1>1, <2>1, <2>3, <2>4, <2>5
  <2> QED BY <1>2, <2>6 DEF S
<1>3. CASE ~Spent(t)
  <2> DEFINE S == Readers(t)'
  <2>1. redeemed[t] = 0
    BY <1>3 DEF RedeemedInv
  <2>2. S \in SUBSET Requests
    BY <1>3
  <2> HIDE DEF S
  <2>3. Cardinality(S) <= Cardinality(Requests) /\ IsFiniteSet(S)
    BY <2>2, RequestsAssumption, FS_Subset
  <2>4. Cardinality(S) \in Nat /\ Cardinality(Requests) \in Nat
    BY <2>3, RequestsAssumption, FS_CardinalityType
  <2>5. redeemed'[t] + Cardinality(S) <= Cardinality(Requests)
    BY <1>1, <2>1, <2>3, <2>4
  <2> QED BY <1>1, <2>1, <2>5 DEF S
<1> QED BY <1>2, <1>3

\* A request reads a token only if it has not been spent.
LEMMA BeginReaders ==
  ASSUME TypeOK, RedeemedInv, NEW r \in Requests, NEW new, Begin(r, new),
         request'[r].kind \in Redeeming => ~Spent(request'[r].tok)
  PROVE  RedeemedInv'
<1>1. /\ UNCHANGED <<token, redeemed>>
      /\ \A q \in Requests \ {r} : request'[q] = request[q]
  BY DEF Begin, TypeOK
<1>2. \A t \in Tok : Spent(t) <=> Spent(t)'
  BY <1>1 DEF Spent
<1>3. \A t \in Tok : Spent(t) => Readers(t)' \subseteq Readers(t)
  BY <1>1 DEF Readers, Redeeming
<1>4. \A t \in Tok : Readers(t)' \subseteq Requests
  BY DEF Readers
<1> QED BY <1>1, <1>2, <1>3, <1>4, NoMoreReaders

\* Every request that begins, by what it reads.
LEMMA ArriveReaders ==
  ASSUME TypeOK, RedeemedInv, NEW r \in Requests, Arrive(r) PROVE RedeemedInv'
<1>1. request \in [Requests -> RequestState]
  BY DEF TypeOK
<1>2. CASE Signup(r)
  <2>1. PICK u \in Users, e \in Emails :
          Begin(r, [NoRequest EXCEPT !.kind = "signup", !.uid = u, !.email = e])
    BY <1>2 DEF Signup
  <2>2. request'[r].kind = "signup"
    BY <1>1, <2>1 DEF Begin, NoRequest
  <2> QED BY <2>1, <2>2, BeginReaders DEF Redeeming
<1>3. CASE VerifyEmail(r)
  <2>1. PICK t \in Tok :
          /\ Begin(r, [NoRequest EXCEPT !.kind = "verify",
                                         !.uid = token[t].user_id, !.tok = t])
          /\ Usable(token[t]) /\ token[t].kind = "verify"
    BY <1>3 DEF VerifyEmail
  <2>2. request'[r].kind = "verify" /\ request'[r].tok = t
    BY <1>1, <2>1 DEF Begin, NoRequest
  <2> QED BY <2>1, <2>2, BeginReaders DEF Redeeming, Spent, Usable
<1>11. CASE VerifyUser(r)
  <2>1. PICK u \in Users :
          Begin(r, [NoRequest EXCEPT !.kind = "activate", !.uid = u,
                                      !.email = account[u].email])
    BY <1>11 DEF VerifyUser
  <2>2. request'[r].kind = "activate"
    BY <1>1, <2>1 DEF Begin, NoRequest
  <2> QED BY <2>1, <2>2, BeginReaders DEF Redeeming
<1>4. CASE ResendVerification(r)
  <2>1. PICK u \in Users :
          Begin(r, [NoRequest EXCEPT !.kind = "resend", !.uid = u,
                                      !.email = account[u].email])
    BY <1>4 DEF ResendVerification
  <2>2. request'[r].kind = "resend"
    BY <1>1, <2>1 DEF Begin, NoRequest
  <2> QED BY <2>1, <2>2, BeginReaders DEF Redeeming
<1>5. CASE ChangePassword(r)
  <2>1. PICK u \in Users :
          Begin(r, [NoRequest EXCEPT !.kind = "password", !.uid = u])
    BY <1>5 DEF ChangePassword
  <2>2. request'[r].kind = "password"
    BY <1>1, <2>1 DEF Begin, NoRequest
  <2> QED BY <2>1, <2>2, BeginReaders DEF Redeeming
<1>6. CASE RequestPasswordReset(r)
  <2>1. PICK u \in Users :
          \/ Begin(r, [NoRequest EXCEPT !.kind = "resend", !.uid = u,
                                        !.email = account[u].email])
          \/ Begin(r, [NoRequest EXCEPT !.kind = "forgot", !.uid = u,
                                        !.email = LinkTo(account[u])])
    BY <1>6 DEF RequestPasswordReset
  <2>2. ASSUME NEW e, Begin(r, [NoRequest EXCEPT !.kind = "resend", !.uid = u,
                                                 !.email = e])
        PROVE  RedeemedInv'
    <3>1. request'[r].kind = "resend"
      BY <1>1, <2>2 DEF Begin, NoRequest
    <3> QED BY <2>2, <3>1, BeginReaders DEF Redeeming
  <2>3. ASSUME NEW e, Begin(r, [NoRequest EXCEPT !.kind = "forgot", !.uid = u,
                                                 !.email = e])
        PROVE  RedeemedInv'
    <3>1. request'[r].kind = "forgot"
      BY <1>1, <2>3 DEF Begin, NoRequest
    <3> QED BY <2>3, <3>1, BeginReaders DEF Redeeming
  <2> QED BY <2>1, <2>2, <2>3
<1>7. CASE ResetPassword(r)
  <2>1. PICK t \in Tok :
          /\ Begin(r, [NoRequest EXCEPT !.kind = "reset",
                                         !.uid = token[t].user_id, !.tok = t])
          /\ Usable(token[t]) /\ token[t].kind = "reset"
    BY <1>7 DEF ResetPassword
  <2>2. request'[r].kind = "reset" /\ request'[r].tok = t
    BY <1>1, <2>1 DEF Begin, NoRequest
  <2> QED BY <2>1, <2>2, BeginReaders DEF Redeeming, Spent, Usable
<1>8. CASE RequestEmailChange(r)
  <2>1. PICK u \in Users :
          Begin(r, [NoRequest EXCEPT !.kind = "change", !.uid = u,
                                      !.old_email = account[u].email])
    BY <1>8 DEF RequestEmailChange
  <2>2. request'[r].kind = "change"
    BY <1>1, <2>1 DEF Begin, NoRequest
  <2> QED BY <2>1, <2>2, BeginReaders DEF Redeeming
<1>9. CASE ConfirmEmailChange(r)
  <2>1. PICK t \in Tok :
          /\ Begin(r, [NoRequest EXCEPT
                           !.kind = "confirm", !.uid = token[t].user_id, !.tok = t,
                           !.email = token[t].email, !.old_email = token[t].old_email])
          /\ Usable(token[t]) /\ token[t].kind = "change"
    BY <1>9 DEF ConfirmEmailChange
  <2>2. request'[r].kind = "confirm" /\ request'[r].tok = t
    BY <1>1, <2>1 DEF Begin, NoRequest
  <2> QED BY <2>1, <2>2, BeginReaders DEF Redeeming, Spent, Usable
<1>10. CASE RevertEmailChange(r)
  <2>1. PICK t \in Tok :
          Begin(r, [NoRequest EXCEPT !.kind = "revert",
                                      !.uid = token[t].user_id, !.tok = t])
    BY <1>10 DEF RevertEmailChange
  <2>2. request'[r].kind = "revert"
    BY <1>1, <2>1 DEF Begin, NoRequest
  <2> QED BY <2>1, <2>2, BeginReaders DEF Redeeming
<1> QED BY <1>2, <1>3, <1>4, <1>5, <1>6, <1>7, <1>8, <1>9, <1>10, <1>11 DEF Arrive

\* A write leaves every request the token it redeems.
LEMMA WriteReaders ==
  ASSUME IInv, RedeemedInv, NEW r \in Requests, NEW mode, NEW row, NEW del, NEW ins,
         NEW new, Write(r, mode, row, del, ins, new)
  PROVE  RedeemedInv'
<1>1. /\ UNCHANGED <<token, redeemed>>
      /\ \A q \in Requests : request'[q].kind = request[q].kind
                           /\ request'[q].tok = request[q].tok
  <2>1. ASSUME NEW q \in Requests
        PROVE  request'[q].kind = request[q].kind /\ request'[q].tok = request[q].tok
    <3>1. request[q] \in RequestState
      BY Types
    <3>2. CASE q = r
      BY <3>1, <3>2 DEF Write, RequestState
    <3>3. CASE q # r /\ request'[q] = request[q]
      BY <3>3
    <3>4. CASE q # r /\ request'[q] = [request[q] EXCEPT !.stamp.raced = TRUE]
      BY <3>4, MarkedKept DEF Kept
    <3> QED BY <3>2, <3>3, <3>4 DEF Write
  <2> QED BY <2>1 DEF Write
<1>2. \A t \in Tok : Readers(t)' = Readers(t) /\ (Spent(t) <=> Spent(t)')
  BY <1>1 DEF Readers, Spent
<1>3. \A t \in Tok : Readers(t) \subseteq Requests
  BY DEF Readers
<1> QED BY <1>1, <1>2, <1>3, NoMoreReaders DEF IInv

\* The commit of a request that redeems a token spends it.
LEMMA CommitSpends ==
  ASSUME IInv, NEW r \in Requests, Commit(r), NEW t \in Tok
  PROVE  /\ Spent(t) => Spent(t)'
         /\ request[r].kind \in Redeeming /\ request[r].tok = t => Spent(t)'
<1> DEFINE q == request[r]
<1>1. /\ q \in RequestState /\ Reads(q) /\ TokensDeleted(q) /\ TokenMarked(q) /\ TokenOK(t)
  BY Committing DEF IInv
<1>2. /\ t \in q.del => token'[t].kind = "deleted"
      /\ t \notin q.del /\ t = q.ins => token'[t] = q.new
      /\ t \notin q.del /\ t # q.ins => token'[t] = token[t]
  BY CommitTokens
<1>3. t = q.ins =>
        \/ token[t].kind = "none"
        \/ /\ token[t].kind # "deleted"
           /\ q.new.used_at = IF q.kind = "revert" THEN token[t].used_at ELSE "set"
  BY CommitToken
<1>4. ASSUME q.kind \in Redeeming, q.tok = t PROVE Spent(t)'
  <2>1. q.kind = "reset" => t \in q.del \/ token[t].kind = "deleted"
    BY <1>1, <1>4 DEF TokensDeleted
  <2>2. q.kind = "reset" => q.ins = None
    BY <1>1 DEF TokenMarked
  <2>3. q.kind \in {"verify", "confirm"} =>
          \/ q.ins = None /\ token[t].kind = "deleted"
          \/ q.ins = t /\ q.new.used_at = "set"
    BY <1>1, <1>4 DEF TokenMarked
  <2> HIDE DEF q
  <2> QED BY <1>2, <1>4, <2>1, <2>2, <2>3, Constants DEF Spent, Redeeming
<1>5. Spent(t) => Spent(t)'
  <2> HIDE DEF q
  <2> QED BY <1>1, <1>2, <1>3 DEF Spent, TokenOK
<1> QED BY <1>4, <1>5

LEMMA CommitReaders ==
  ASSUME IInv, RedeemedInv, NEW r \in Requests, Commit(r) PROVE RedeemedInv'
<1> DEFINE q == request[r]
<1>1. /\ TypeOK
      /\ redeemed' = IF q.kind \in Redeeming
                       THEN [redeemed EXCEPT ![q.tok] = @ + 1] ELSE redeemed
  BY DEF IInv, Commit, Redeeming
<1>2. /\ request'[r].kind = "none"
      /\ \A p \in Requests \ {r} : request'[p].kind = request[p].kind
                                 /\ request'[p].tok = request[p].tok
  BY CommitKept, NoRequestType DEF Kept
<1>3. \A t \in Tok : Readers(t)' = Readers(t) \ {r}
  BY <1>2 DEF Readers
<1> SUFFICES ASSUME NEW t \in Tok
             PROVE  /\ (redeemed[t] # 0 => Spent(t))'
                    /\ redeemed'[t] + Cardinality(Readers(t)') <= Cardinality(Requests)
  BY DEF RedeemedInv
<1>4. redeemed[t] \in Nat /\ redeemed \in [Tok -> Nat]
  BY <1>1 DEF TypeOK
<1>5. /\ redeemed[t] + Cardinality(Readers(t)) <= Cardinality(Requests)
      /\ redeemed[t] # 0 => Spent(t)
  BY DEF RedeemedInv
<1>6. /\ Cardinality(Readers(t)) \in Nat /\ Cardinality(Requests) \in Nat
      /\ Cardinality(Readers(t) \ {r}) =
           IF r \in Readers(t) THEN Cardinality(Readers(t)) - 1
                                 ELSE Cardinality(Readers(t))
  BY ReadersSize, FS_RemoveElement
<1>7. CASE r \in Readers(t)
  <2>1. q.kind \in Redeeming /\ q.tok = t
    BY <1>7 DEF Readers, Redeeming
  <2>2. redeemed'[t] = redeemed[t] + 1 /\ Spent(t)'
    BY <1>1, <1>4, <2>1, CommitSpends
  <2> QED BY <1>3, <1>4, <1>5, <1>6, <1>7, <2>2
<1>8. CASE r \notin Readers(t)
  <2>1. ~(q.kind \in Redeeming /\ q.tok = t)
    BY <1>8 DEF Readers, Redeeming
  <2>2. redeemed'[t] = redeemed[t]
    BY <1>1, <1>4, <2>1
  <2>3. Spent(t) => Spent(t)'
    BY CommitSpends
  <2> QED BY <1>3, <1>4, <1>5, <1>6, <1>8, <2>2, <2>3
<1> QED BY <1>7, <1>8

LEMMA StepReaders ==
  ASSUME IInv, RedeemedInv, [Next]_vars PROVE RedeemedInv'
<1>1. TypeOK
  BY DEF IInv
<1>2. ASSUME NEW r \in Requests, Arrive(r) PROVE RedeemedInv'
  BY <1>1, <1>2, ArriveReaders
<1>3. ASSUME NEW r \in Requests,
             \/ WriteSignup(r) \/ WriteVerify(r) \/ WriteResend(r) \/ WritePassword(r)
             \/ WriteForgot(r) \/ WriteChange(r) \/ WriteConfirm(r) \/ WriteRevert(r)
      PROVE  RedeemedInv'
  BY <1>3, WriteReaders
     DEF WriteSignup, WriteVerify, WriteResend, WritePassword, WriteForgot,
         WriteChange, WriteConfirm, WriteRevert, WriteAddress
<1>4. ASSUME UNCHANGED <<token, redeemed>>,
             \A t \in Tok : Readers(t)' \subseteq Readers(t)
      PROVE  RedeemedInv'
  <2>1. \A t \in Tok : Spent(t) => Spent(t)'
    BY <1>4 DEF Spent
  <2>2. \A t \in Tok : Readers(t) \subseteq Requests
    BY DEF Readers
  <2> QED BY <1>1, <1>4, <2>1, <2>2, NoMoreReaders
<1>5. ASSUME NEW r \in Requests, RollBack(r) PROVE RedeemedInv'
  <2>1. /\ UNCHANGED <<token, redeemed>> /\ request'[r].kind = "none"
        /\ \A q \in Requests \ {r} : request'[q] = request[q]
    BY <1>1, <1>5 DEF RollBack, TypeOK, NoRequest
  <2> QED BY <1>4, <2>1 DEF Readers
<1>6. ASSUME NEW r \in Requests, NEW e, NEW sets, NEW lock, NEW del, NEW ins, NEW new,
             Learns(r, e, sets, lock, del, ins, new)
      PROVE  RedeemedInv'
  <2>1. /\ UNCHANGED <<token, redeemed>>
        /\ \A q \in Requests : request'[q].kind = request[q].kind
                             /\ request'[q].tok = request[q].tok
    BY <1>1, <1>6 DEF Learns, TypeOK
  <2> QED BY <1>4, <2>1 DEF Readers
<1>9. ASSUME NEW r \in Requests,
             \/ SelectForVerify(r) \/ SelectForActivation(r) \/ SelectForChange(r)
             \/ SelectForConfirm(r) \/ SelectForRevert(r)
      PROVE  RedeemedInv'
  BY <1>6, <1>9, LearnsForVerify, LearnsForActivation, LearnsForChange,
     LearnsForConfirm, LearnsForRevert
<1>7. ASSUME UNCHANGED <<token, request, redeemed>> PROVE RedeemedInv'
  BY <1>4, <1>7 DEF Readers
<1>8. Tick \/ Administer \/ UNCHANGED vars => RedeemedInv'
  BY <1>7 DEF Tick, Administer, vars
<1> QED BY <1>2, <1>3, <1>5, <1>8, <1>9, CommitReaders DEF Next, Step

LEMMA Redemption == Spec => []RedeemedInv
<1>1. Init => RedeemedInv
  BY ReadersSize DEF Init, RedeemedInv
<1>2. IInv /\ RedeemedInv /\ [Next]_vars => RedeemedInv'
  BY StepReaders
<1> QED BY <1>1, <1>2, Invariance, PTL DEF Spec

\* A token is redeemed by at most as many requests as run at the same time.
THEOREM RedemptionsSafe == Spec => []RedemptionsBounded
<1>1. IInv /\ RedeemedInv => RedemptionsBounded
  BY ReadersSize DEF IInv, TypeOK, RedeemedInv, RedemptionsBounded
<1> QED BY <1>1, Invariance, Redemption, PTL

-----------------------------------------------------------------------------
(* Whose address is whose *)

\* The address sets depend on the accounts and tokens only.
LEMMA SameSets ==
  ASSUME UNCHANGED <<account, token, redeemed>>
  PROVE  /\ \A u \in Users : Own(u)' = Own(u) /\ Past(u)' = Past(u) /\ Left(u)' = Left(u)
         /\ \A t \in Tok, u \in Users : IsChange(t, u)' <=> IsChange(t, u)
BY DEF Own, Past, Left, IsChange

LEMMA SameRowsOwn ==
  ASSUME OwnInv, UNCHANGED <<account, token, redeemed>>
  PROVE  /\ AddressesDistinct' /\ \A t \in Tok : TokenKnown(t)'
         /\ \A u \in Users : AccountKnown(u)'
<1>1. AddressesDistinct' /\ \A t \in Tok : TokenKnown(t)'
  BY DEF OwnInv, AddressesDistinct, TokenKnown
<1>2. ASSUME NEW u \in Users PROVE AccountKnown(u)'
  BY SameSets DEF OwnInv, AccountKnown
<1> QED BY <1>1, <1>2

\* What a request knows depends on the rows and on its own state.
LEMMA KeptKnows ==
  ASSUME OwnInv, UNCHANGED <<account, token, redeemed>>, NEW q \in Requests, Kept(q),
         request[q].pc # "idle" => request[q].uid \in Users
  PROVE  /\ RequestKnown(q)'
         /\ (Holding(request[q]) => NewKnown(request[q]))'
         /\ (request[q].pc = "commit" => RowKnown(request[q]))'
<1>1. RequestKnown(q)'
  <2> SUFFICES ASSUME request[q].pc # "idle" PROVE RequestKnown(q)'
    BY DEF RequestKnown, Kept
  <2>1. PICK u \in Users : u = request[q].uid
    OBVIOUS
  <2>2. Own(u)' = Own(u) /\ Past(u)' = Past(u) /\ Left(u)' = Left(u)
    BY SameSets
  <2>3. token' = token /\ RequestKnown(q)
    BY DEF OwnInv
  <2> QED BY <2>1, <2>2, <2>3 DEF RequestKnown, Kept
<1>2. ASSUME Holding(request[q]) PROVE NewKnown(request[q])'
  <2>1. NewKnown(request[q])
    BY <1>2 DEF OwnInv
  <2> QED BY <2>1 DEF NewKnown, Kept
<1>3. ASSUME request[q].pc = "commit" PROVE RowKnown(request[q])'
  <2>1. RowKnown(request[q])
    BY <1>3 DEF OwnInv
  <2> QED BY <2>1 DEF RowKnown, Kept
<1>4. request'[q].pc = request[q].pc /\ request'[q].kind = request[q].kind
  BY DEF Kept
<1>5. Holding(request[q])' => Holding(request[q])
  BY <1>4 DEF Holding
<1> QED BY <1>1, <1>2, <1>3, <1>4, <1>5

\* A step of one request that commits nothing.
LEMMA QuietStep ==
  ASSUME IInv, OwnInv, UNCHANGED <<account, token, redeemed>>, NEW r \in Requests,
         \A q \in Requests \ {r} : Kept(q),
         RequestKnown(r)', Claims(r)',
         (Holding(request[r]) => NewKnown(request[r]))',
         (request[r].pc = "commit" => RowKnown(request[r]))'
  PROVE  OwnInv'
<1> SUFFICES ASSUME NEW q \in Requests \ {r}
             PROVE  /\ RequestKnown(q)' /\ Claims(q)'
                    /\ (Holding(request[q]) => NewKnown(request[q]))'
                    /\ (request[q].pc = "commit" => RowKnown(request[q]))'
  BY SameRowsOwn DEF OwnInv
<1>1. request[q].pc # "idle" => request[q].uid \in Users
  BY DEF IInv, RequestOK, Reads
<1>2. Claims(q)'
  <2> SUFFICES ASSUME (request[q].lock = "email")'
               PROVE  /\ \A v \in Users \ {request'[q].uid} :
                           account'[v].email # request'[q].row.email
                      /\ \A p \in Requests \ {q} :
                           request'[p].lock = "email" =>
                             request'[p].row.email # request'[q].row.email
    BY DEF Claims
  <2>1. \A v \in Users \ {request'[q].uid} : account'[v].email # request'[q].row.email
    BY DEF OwnInv, Claims, Kept
  <2>2. ASSUME NEW p \in Requests \ {q}, request'[p].lock = "email"
        PROVE  request'[p].row.email # request'[q].row.email
    <3>1. CASE p = r
      BY <2>2, <3>1 DEF Claims
    <3>2. CASE p # r
      BY <2>2, <3>2 DEF OwnInv, Claims, Kept
    <3> QED BY <3>1, <3>2
  <2> QED BY <2>1, <2>2
<1> QED BY <1>1, <1>2, KeptKnows

LEMMA RollBackOwn ==
  ASSUME IInv, OwnInv, NEW r \in Requests, RollBack(r) PROVE OwnInv'
<1>1. /\ UNCHANGED <<account, token, redeemed>>
      /\ request'[r].pc = "idle" /\ request'[r].lock = "none"
      /\ \A q \in Requests \ {r} : request'[q] = request[q]
  BY NoRequestType DEF RollBack, IInv, TypeOK
<1>2. \A q \in Requests \ {r} : Kept(q)
  BY <1>1 DEF Kept
<1> QED BY <1>1, <1>2, QuietStep DEF RequestKnown, Claims, Holding

\* A request that starts with what it has to know.
LEMMA BeginOwn ==
  ASSUME IInv, OwnInv, NEW r \in Requests, NEW new, Begin(r, new), new.lock = "none",
         NEW u \in Users, new.uid = u,
         new.kind \in {"activate", "resend", "forgot"} => new.email \in Own(u),
         new.kind = "change" => new.old_email \in Own(u),
         new.kind \in Redeeming \cup {"revert"} =>
           token[new.tok].kind # "none" /\ token[new.tok].user_id = u,
         new.kind \in {"confirm", "revert"} => token[new.tok].old_email # None,
         new.kind = "confirm" =>
           new.email = token[new.tok].email /\ new.old_email = token[new.tok].old_email
  PROVE  OwnInv'
<1>1. TypeOK
  BY Types
<1>2. /\ UNCHANGED <<account, token, redeemed>>
      /\ \A q \in Requests \ {r} : request'[q] = request[q]
  BY <1>1 DEF Begin, TypeOK
<1> DEFINE pc == IF new.kind \in Selecting THEN "select" ELSE "write"
           s == IF new.kind = "forgot" THEN StampFor(new.uid) ELSE NoStamp
           w == [new EXCEPT !.pc = pc, !.stamp = s]
<1>3. request'[r] = w
  BY <1>1 DEF Begin, TypeOK
<1>4. /\ request'[r].kind = new.kind /\ request'[r].lock = new.lock
      /\ request'[r].uid = u /\ request'[r].tok = new.tok /\ request'[r].email = new.email
      /\ request'[r].old_email = new.old_email
  BY <1>3
<1>5. /\ request'[r].pc # "commit" /\ ~Holding(request'[r])
      /\ new.kind \in {"confirm", "revert"} => request'[r].pc = "select"
  BY <1>3, <1>4 DEF Holding, Selecting, Activating
<1> HIDE DEF w, s, pc
<1>6. \A q \in Requests \ {r} : Kept(q)
  BY <1>2 DEF Kept
<1>7. Own(u)' = Own(u) /\ token' = token
  BY <1>2, SameSets
<1>8. RequestKnown(r)'
  BY <1>4, <1>5, <1>7 DEF RequestKnown
<1> QED BY <1>2, <1>4, <1>5, <1>6, <1>8, QuietStep DEF Claims, Holding

\* A link whose user is known.
LEMMA LiveLink ==
  ASSUME IInv, NEW t \in Tok, token[t].kind \in Mailed
  PROVE  /\ token[t].kind # "none" /\ token[t].user_id \in Users
         /\ token[t].kind = "change" => token[t].old_email # None
BY Constants DEF IInv, TokenOK, Mailed

\* Where a verification or a reset link goes: to an address of the user's.
LEMMA LinkIsOwn ==
  ASSUME OwnInv, NEW u \in Users
  PROVE  account[u].email \in Own(u) /\ LinkTo(account[u]) \in Own(u)
BY DEF OwnInv, AccountKnown, LinkTo, Own, Past

\* A request for a link that is sent to address e.
LEMMA LinkOwn ==
  ASSUME IInv, OwnInv, NEW r \in Requests, NEW u \in Users, NEW e \in Own(u),
         NEW kind \in {"activate", "resend", "forgot"},
         Begin(r, [NoRequest EXCEPT !.kind = kind, !.uid = u, !.email = e])
  PROVE  OwnInv'
<1> DEFINE new == [NoRequest EXCEPT !.kind = kind, !.uid = u, !.email = e]
<1>1. new.kind = kind /\ new.uid = u /\ new.email = e /\ new.lock = "none"
  BY DEF NoRequest
<1>2. Begin(r, new)
  OBVIOUS
<1> HIDE DEF new
<1> QED BY <1>1, <1>2, BeginOwn DEF Redeeming

\* A request that redeems token t.
LEMMA RedeemOwn ==
  ASSUME IInv, OwnInv, NEW r \in Requests, NEW t \in Tok,
         NEW kind \in {"verify", "reset", "revert"},
         token[t].kind = CASE kind = "verify" -> "verify" [] kind = "reset" -> "reset"
                           [] OTHER -> "change",
         Begin(r, [NoRequest EXCEPT !.kind = kind, !.uid = token[t].user_id, !.tok = t])
  PROVE  OwnInv'
<1> DEFINE u == token[t].user_id
           new == [NoRequest EXCEPT !.kind = kind, !.uid = u, !.tok = t]
<1>1. new.kind = kind /\ new.uid = u /\ new.tok = t /\ new.lock = "none"
  BY DEF NoRequest
<1>2. Begin(r, new)
  OBVIOUS
<1>3. /\ token[t].kind # "none" /\ u \in Users /\ token[t].user_id = u
      /\ kind = "revert" => token[t].old_email # None
  BY LiveLink DEF Mailed
<1> HIDE DEF new, u
<1> QED BY <1>1, <1>2, <1>3, BeginOwn DEF Redeeming

LEMMA ArriveOwn ==
  ASSUME IInv, OwnInv, NEW r \in Requests, Arrive(r) PROVE OwnInv'
<1>2. CASE Signup(r)
  <2>1. PICK u \in Users, e \in Emails :
          Begin(r, [NoRequest EXCEPT !.kind = "signup", !.uid = u, !.email = e])
    BY <1>2 DEF Signup
  <2> DEFINE new == [NoRequest EXCEPT !.kind = "signup", !.uid = u, !.email = e]
  <2>2. new.kind = "signup" /\ new.uid = u /\ new.lock = "none" /\ Begin(r, new)
    BY <2>1 DEF NoRequest
  <2> HIDE DEF new
  <2> QED BY <2>2, BeginOwn DEF Redeeming
<1>3. CASE VerifyEmail(r)
  BY <1>3, RedeemOwn DEF VerifyEmail
<1>4. CASE VerifyUser(r)
  BY <1>4, LinkOwn, LinkIsOwn DEF VerifyUser
<1>5. CASE ResendVerification(r)
  BY <1>5, LinkOwn, LinkIsOwn DEF ResendVerification
<1>6. CASE ChangePassword(r)
  <2>1. PICK u \in Users : Begin(r, [NoRequest EXCEPT !.kind = "password", !.uid = u])
    BY <1>6 DEF ChangePassword
  <2> DEFINE new == [NoRequest EXCEPT !.kind = "password", !.uid = u]
  <2>2. new.kind = "password" /\ new.uid = u /\ new.lock = "none" /\ Begin(r, new)
    BY <2>1 DEF NoRequest
  <2> HIDE DEF new
  <2> QED BY <2>2, BeginOwn DEF Redeeming
<1>7. CASE RequestPasswordReset(r)
  BY <1>7, LinkOwn, LinkIsOwn DEF RequestPasswordReset
<1>8. CASE ResetPassword(r)
  BY <1>8, RedeemOwn DEF ResetPassword
<1>9. CASE RequestEmailChange(r)
  <2>1. PICK u \in Users :
          Begin(r, [NoRequest EXCEPT !.kind = "change", !.uid = u,
                                      !.old_email = account[u].email])
    BY <1>9 DEF RequestEmailChange
  <2> DEFINE new == [NoRequest EXCEPT !.kind = "change", !.uid = u,
                                      !.old_email = account[u].email]
  <2>2. /\ new.kind = "change" /\ new.uid = u /\ new.lock = "none"
        /\ new.old_email = account[u].email /\ Begin(r, new)
    BY <2>1 DEF NoRequest
  <2> HIDE DEF new
  <2> QED BY <2>2, BeginOwn, LinkIsOwn DEF Redeeming
<1>10. CASE ConfirmEmailChange(r)
  <2>1. PICK t \in Tok :
          /\ Begin(r, [NoRequest EXCEPT
                           !.kind = "confirm", !.uid = token[t].user_id, !.tok = t,
                           !.email = token[t].email, !.old_email = token[t].old_email])
          /\ token[t].kind = "change"
    BY <1>10 DEF ConfirmEmailChange
  <2> DEFINE u == token[t].user_id
             new == [NoRequest EXCEPT
                       !.kind = "confirm", !.uid = u, !.tok = t,
                       !.email = token[t].email, !.old_email = token[t].old_email]
  <2>2. /\ new.kind = "confirm" /\ new.uid = u /\ new.lock = "none" /\ new.tok = t
        /\ new.email = token[t].email /\ new.old_email = token[t].old_email
        /\ Begin(r, new)
    BY <2>1 DEF NoRequest
  <2>3. /\ token[t].kind # "none" /\ u \in Users /\ token[t].user_id = u
        /\ token[t].old_email # None
    BY <2>1, LiveLink DEF Mailed
  <2> HIDE DEF new, u
  <2> QED BY <2>2, <2>3, BeginOwn DEF Redeeming
<1>11. CASE RevertEmailChange(r)
  BY <1>11, RedeemOwn DEF RevertEmailChange
<1> QED BY <1>2, <1>3, <1>4, <1>5, <1>6, <1>7, <1>8, <1>9, <1>10, <1>11 DEF Arrive

\* A request that has read the row of its user.
LEMMA LearnsOwn ==
  ASSUME IInv, OwnInv, NEW r \in Requests, NEW email, NEW sets,
         NEW lock \in {"none", "share"}, NEW del, NEW ins, NEW new,
         Learns(r, email, sets, lock, del, ins, new),
         request[r].kind = "activate" =>
           email = request[r].email /\ new.revert_used_at = "null" /\ new.old_email = None,
         request[r].kind = "verify" /\ ins # None =>
           new.revert_used_at = token[request[r].tok].revert_used_at,
         request[r].kind = "confirm" =>
           email = request[r].email /\ (~sets => email \in Past(request[r].uid)),
         request[r].kind = "revert" => email = None \/ email \in Left(request[r].uid)
  PROVE  OwnInv'
<1> DEFINE q == request[r]
           u == q.uid
<1>0. u \in Users
  BY SelectingState DEF Learns
<1> DEFINE w == request'[r]
<1>1. /\ q.pc = "select" /\ w.pc = "write" /\ w.kind = q.kind /\ w.uid = u /\ w.tok = q.tok
      /\ w.old_email = q.old_email /\ w.email = email /\ w.sets = sets /\ w.lock = lock
      /\ w.ins = ins /\ w.new = new
      /\ UNCHANGED <<account, token, redeemed>>
      /\ \A p \in Requests \ {r} : request'[p] = request[p]
  BY Types DEF Learns, TypeOK
<1>2. q.kind \in Selecting /\ RequestKnown(r)
  BY <1>1 DEF IInv, RequestOK, OwnInv
<1>3. /\ Own(u)' = Own(u) /\ Past(u)' = Past(u) /\ Left(u)' = Left(u) /\ token' = token
  BY <1>0, <1>1, SameSets
<1>4. RequestKnown(r)'
  BY <1>1, <1>2, <1>3 DEF RequestKnown, Selecting, Redeeming
<1>5. (Holding(request[r]) => NewKnown(request[r]))'
  <2> SUFFICES ASSUME q.kind \in Activating PROVE NewKnown(request[r])'
    BY <1>1 DEF Holding
  <2> QED BY <1>1, <1>3 DEF NewKnown, Activating, Issuing
<1>6. \A p \in Requests \ {r} : Kept(p)
  BY <1>1 DEF Kept
<1>7. Claims(r)' /\ (request[r].pc = "commit" => RowKnown(request[r]))'
  BY <1>1 DEF Claims
<1> QED BY <1>1, <1>4, <1>5, <1>6, <1>7, QuietStep

LEMMA SelectOwn ==
  ASSUME IInv, OwnInv, NEW r \in Requests,
         \/ SelectForVerify(r) \/ SelectForActivation(r) \/ SelectForChange(r)
         \/ SelectForConfirm(r) \/ SelectForRevert(r)
  PROVE  OwnInv'
<1> DEFINE q == request[r]
           u == q.uid
<1>1. q.pc = "select"
  BY DEF SelectForVerify, SelectForActivation, SelectForChange, SelectForConfirm,
         SelectForRevert, Selects
<1>2. /\ q \in RequestState /\ u \in Users /\ q.lock \in {"none", "share"} /\ Reads(q)
      /\ RequestKnown(r) /\ AccountKnown(u) /\ u = q.uid /\ q = request[r]
  BY <1>1, SelectingState DEF OwnInv
<1>3. CASE SelectForVerify(r)
  <2> DEFINE ins == Marked(q.tok)
             new == [token[q.tok] EXCEPT !.used_at = "set"]
             email == q.email
             sets == SetsStatus(r)
             lock == q.lock
  <2>1. /\ q.kind = "verify" /\ q.tok \in Tok
        /\ Learns(r, email, sets, lock, {}, ins, new)
    BY <1>2, <1>3, LearnsForVerify DEF SelectForVerify, Selects, Reads, Redeems
  <2>2. new.revert_used_at = token[q.tok].revert_used_at
    BY <2>1, Types DEF TokenRow
  <2>3. lock \in {"none", "share"}
    BY <1>2
  <2> HIDE DEF ins, new, email, sets, lock
  <2> QED BY <1>2, <2>1, <2>2, <2>3, LearnsOwn
<1>4. CASE SelectForActivation(r)
  <2> DEFINE new == [VerificationRow(r) EXCEPT !.used_at = "set"]
             email == q.email
             sets == SetsStatus(r)
             del == Rotated("verify", u)
  <2>1. PICK t \in Tok : Learns(r, email, sets, "share", del, t, new)
    BY <1>4, LearnsForActivation
  <2>2. q.kind = "activate" /\ email = q.email
    BY <1>4 DEF SelectForActivation, Selects
  <2>3. new.revert_used_at = "null" /\ new.old_email = None
    BY DEF VerificationRow, NoToken
  <2> HIDE DEF new, email, sets, del
  <2> QED BY <1>2, <2>1, <2>2, <2>3, LearnsOwn
<1>5. CASE SelectForChange(r)
  <2> DEFINE sets == q.sets
             lock == q.lock
             new == q.new
  <2>1. PICK e \in Emails : Learns(r, e, sets, lock, {}, None, new)
    BY <1>5, LearnsForChange
  <2>2. q.kind = "change" /\ lock \in {"none", "share"}
    BY <1>2, <1>5 DEF SelectForChange, Selects
  <2> HIDE DEF new, sets, lock
  <2> QED BY <1>2, <2>1, <2>2, LearnsOwn
<1>6. CASE SelectForConfirm(r)
  <2> DEFINE email == q.email
             sets == SetsEmail(r, email)
             lock == q.lock
             new == q.new
  <2>1. Learns(r, email, sets, lock, {}, None, new)
    BY <1>6, LearnsForConfirm
  <2>2. q.kind = "confirm" /\ lock \in {"none", "share"} /\ email = q.email
    BY <1>2, <1>6 DEF SelectForConfirm, Selects
  <2>3. ~sets => email \in Past(u)
    <3>1. IsChange(q.tok, u) /\ q.tok \in Tok
      BY <1>1, <1>2, <2>2 DEF RequestKnown, IsChange, Reads, Redeems, Redeeming
    <3>2. account[u].email \in Past(u)
      BY <1>2, <3>1 DEF AccountKnown
    <3> QED BY <3>2 DEF SetsEmail
  <2> HIDE DEF email, new, sets, lock
  <2> QED BY <1>2, <2>1, <2>2, <2>3, LearnsOwn
<1>7. CASE SelectForRevert(r)
  <2> DEFINE email == account[u].previous_email
             sets == SetsEmail(r, email)
             lock == q.lock
             new == q.new
  <2>1. Learns(r, email, sets, lock, {}, None, new)
    BY <1>7, LearnsForRevert
  <2>2. q.kind = "revert" /\ lock \in {"none", "share"}
    BY <1>2, <1>7 DEF SelectForRevert, Selects
  <2>3. email = None \/ email \in Left(u)
    BY <1>2 DEF AccountKnown
  <2> HIDE DEF email, new, sets, lock
  <2> QED BY <1>2, <2>1, <2>2, <2>3, LearnsOwn
<1> QED BY <1>3, <1>4, <1>5, <1>6, <1>7

\* A write of rows that the request knows, on addresses that are free.
LEMMA WriteOwn ==
  ASSUME IInv, OwnInv, NEW r \in Requests, request[r].pc = "write",
         NEW mode \in {"none", "share", "nokey", "email"}, NEW row, NEW del, NEW ins,
         NEW new, Write(r, mode, row, del, ins, new),
         mode = "email" => EmailFree(r, row.email),
         NEW w, w = [request[r] EXCEPT !.pc = "commit", !.lock = mode, !.row = row,
                                       !.del = del, !.ins = ins, !.new = new],
         RowKnown(w), NewKnown(w)
  PROVE  OwnInv'
<1>1. request[r] \in RequestState /\ request[r].uid \in Users
  BY Types DEF IInv, RequestOK, Reads
<1>2. /\ UNCHANGED <<account, token, redeemed>> /\ request'[r] = w
      /\ \A q \in Requests \ {r} : Kept(q)
  <2> DEFINE marked(q) == [request[q] EXCEPT !.stamp.raced = TRUE]
  <2>1. /\ UNCHANGED <<account, token, redeemed>> /\ request'[r] = w
        /\ \A q \in Requests \ {r} :
             request'[q] = marked(q) \/ request'[q] = request[q]
    BY DEF Write
  <2>2. ASSUME NEW q \in Requests \ {r}, request'[q] = marked(q) PROVE Kept(q)
    BY <2>2, MarkedKept
  <2>3. ASSUME NEW q \in Requests \ {r}, request'[q] = request[q] PROVE Kept(q)
    BY <2>3 DEF Kept
  <2> HIDE DEF marked
  <2> QED BY <2>1, <2>2, <2>3
<1>3. Written(request[r], w, mode, row, del, ins, new) /\ w.pc = "commit"
  BY <1>1 DEF RequestState, Written
<1>4. RequestKnown(r)'
  <2>1. PICK u \in Users : u = request[r].uid
    BY <1>1
  <2>2. Own(u)' = Own(u) /\ Past(u)' = Past(u) /\ Left(u)' = Left(u) /\ token' = token
    BY <1>2, SameSets
  <2>3. RequestKnown(r)
    BY DEF OwnInv
  <2> QED BY <1>2, <1>3, <2>1, <2>2, <2>3 DEF RequestKnown, Written
<1>5. Claims(r)'
  BY <1>2, <1>3 DEF Claims, Written, EmailFree, Kept
<1>6. RowKnown(request[r])' /\ NewKnown(request[r])'
  BY <1>2 DEF RowKnown, NewKnown
<1> QED BY <1>2, <1>4, <1>5, <1>6, QuietStep

LEMMA WriteSignupOwn ==
  ASSUME IInv, OwnInv, NEW r \in Requests, WriteSignup(r) PROVE OwnInv'
<1> DEFINE row == [NoAccount EXCEPT !.status = "PENDING", !.email = request[r].email]
           new == VerificationRow(r)
<1>1. PICK t \in Tok :
        /\ Ready(r, {"signup"}) /\ EmailFree(r, request[r].email)
        /\ Write(r, "email", row, {}, t, new)
  BY DEF WriteSignup
<1>2. /\ request[r].pc = "write" /\ request[r] \in RequestState
      /\ request[r].kind = "signup"
  BY <1>1, Types DEF Ready
<1>3. row.email = request[r].email
  BY DEF NoAccount
<1>4. new.revert_used_at = "null" /\ new.old_email = None
  BY DEF VerificationRow, NoToken
<1> DEFINE w == [request[r] EXCEPT !.pc = "commit", !.lock = "email", !.row = row,
                                   !.del = {}, !.ins = t, !.new = new]
<1>5. Written(request[r], w, "email", row, {}, t, new)
  BY <1>2 DEF RequestState, Written
<1> HIDE DEF new
<1>6. w = [request[r] EXCEPT !.pc = "commit", !.lock = "email", !.row = row,
                             !.del = {}, !.ins = t, !.new = new]
  OBVIOUS
<1> HIDE DEF w
<1>7. RowKnown(w)
  BY <1>2, <1>5 DEF RowKnown, Written, Activating
<1> HIDE DEF row
<1>8. NewKnown(w)
  BY <1>2, <1>4, <1>5 DEF NewKnown, Written, Issuing
<1> QED BY <1>1, <1>2, <1>3, <1>6, <1>7, <1>8, WriteOwn

LEMMA WriteVerifyOwn ==
  ASSUME IInv, OwnInv, NEW r \in Requests, WriteVerify(r) PROVE OwnInv'
<1> DEFINE q == request[r]
           old == account[q.uid]
           row == Activated(r, old)
           del == q.del
           ins == q.ins
           new == q.new
<1>1. /\ q.pc = "write" /\ q.kind \in Activating
      /\ Write(r, "nokey", row, del, ins, new)
  BY DEF WriteVerify, Ready, Activating
<1>2. q \in RequestState /\ NewKnown(q)
  BY <1>1, Types DEF OwnInv, Holding
<1>3. row = [old EXCEPT !.status = IF q.sets THEN "ACTIVE" ELSE @]
  BY DEF Activated
<1> DEFINE w == [request[r] EXCEPT !.pc = "commit", !.lock = "nokey", !.row = row,
                                   !.del = del, !.ins = ins, !.new = new]
<1>5. Written(request[r], w, "nokey", row, del, ins, new)
  BY <1>2 DEF RequestState, Written
<1> HIDE DEF row
<1>6. w = [request[r] EXCEPT !.pc = "commit", !.lock = "nokey", !.row = row,
                             !.del = del, !.ins = ins, !.new = new]
  OBVIOUS
<1> HIDE DEF w
<1>7. RowKnown(w)
  BY <1>1, <1>3, <1>5 DEF RowKnown, Written, Activating
<1>8. NewKnown(w)
  BY <1>2, <1>5 DEF NewKnown, Written
<1>9. q.pc = "write" /\ q = request[r]
  BY <1>1
<1> HIDE DEF del, ins, new
<1> QED BY <1>1, <1>6, <1>7, <1>8, WriteOwn

\* The three INSERTs that lock no more than the key of the user's row.
LEMMA InsertOwn ==
  ASSUME IInv, OwnInv, NEW r \in Requests,
         NEW kind \in {"resend", "forgot", "change"}, Ready(r, {kind}),
         NEW del, NEW t, NEW new, Write(r, "share", NoAccount, del, t, new),
         new.revert_used_at = "null", kind # "change" => new.old_email = None
  PROVE  OwnInv'
<1>1. /\ request[r].pc = "write" /\ request[r] \in RequestState
      /\ request[r].kind = kind
  BY Types DEF Ready
<1> DEFINE w == [request[r] EXCEPT !.pc = "commit", !.lock = "share",
                                   !.row = NoAccount, !.del = del, !.ins = t,
                                   !.new = new]
<1>2. Written(request[r], w, "share", NoAccount, del, t, new)
  BY <1>1 DEF RequestState, Written
<1>3. w = [request[r] EXCEPT !.pc = "commit", !.lock = "share", !.row = NoAccount,
                             !.del = del, !.ins = t, !.new = new]
  OBVIOUS
<1> HIDE DEF w
<1>4. RowKnown(w) /\ NewKnown(w)
  BY <1>1, <1>2 DEF RowKnown, NewKnown, Written, Issuing, Activating
<1> QED BY <1>1, <1>3, <1>4, WriteOwn

LEMMA WriteInsertOwn ==
  ASSUME IInv, OwnInv, NEW r \in Requests,
         WriteResend(r) \/ WriteForgot(r) \/ WriteChange(r)
  PROVE  OwnInv'
<1>1. CASE WriteResend(r)
  <2>1. VerificationRow(r).revert_used_at = "null" /\ VerificationRow(r).old_email = None
    BY DEF VerificationRow, NoToken
  <2> QED BY <1>1, <2>1, InsertOwn DEF WriteResend
<1>2. CASE WriteForgot(r)
  <2> DEFINE new == [NoToken EXCEPT !.kind = "reset", !.user_id = request[r].uid,
                                    !.email = request[r].email,
                                    !.expires_at = now + ResetLife]
  <2>1. PICK t \in Tok :
          /\ Ready(r, {"forgot"})
          /\ Write(r, "share", NoAccount, Rotated("reset", request[r].uid), t, new)
    BY <1>2 DEF WriteForgot
  <2>2. new.revert_used_at = "null" /\ new.old_email = None
    BY DEF NoToken
  <2> HIDE DEF new
  <2> QED BY <2>1, <2>2, InsertOwn
<1>3. CASE WriteChange(r)
  <2> DEFINE new == [NoToken EXCEPT !.kind = "change", !.user_id = request[r].uid,
                                    !.email = request[r].email,
                                    !.old_email = request[r].old_email,
                                    !.expires_at = now + TokenLife]
  <2>1. PICK t \in Tok :
          /\ Ready(r, {"change"})
          /\ Write(r, "share", NoAccount, Rotated("change", request[r].uid), t, new)
    BY <1>3 DEF WriteChange
  <2>2. new.revert_used_at = "null"
    BY DEF NoToken
  <2> HIDE DEF new
  <2> QED BY <2>1, <2>2, InsertOwn
<1> QED BY <1>1, <1>2, <1>3

LEMMA WritePasswordOwn ==
  ASSUME IInv, OwnInv, NEW r \in Requests, WritePassword(r) PROVE OwnInv'
<1> DEFINE del == Invalidated(r)
           row == account[request[r].uid]
<1>1. Ready(r, {"password", "reset"}) /\ Write(r, "nokey", row, del, None, NoToken)
  BY DEF WritePassword
<1>2. /\ request[r].pc = "write" /\ request[r] \in RequestState
      /\ request[r].kind \in {"password", "reset"}
  BY <1>1, Types DEF Ready
<1> DEFINE w == [request[r] EXCEPT !.pc = "commit", !.lock = "nokey", !.row = row,
                                   !.del = del, !.ins = None, !.new = NoToken]
<1>3. Written(request[r], w, "nokey", row, del, None, NoToken)
  BY <1>2 DEF RequestState, Written
<1> HIDE DEF del
<1>4. w = [request[r] EXCEPT !.pc = "commit", !.lock = "nokey", !.row = row,
                             !.del = del, !.ins = None, !.new = NoToken]
  OBVIOUS
<1> HIDE DEF w
<1>5. RowKnown(w) /\ NewKnown(w)
  BY <1>2, <1>3 DEF RowKnown, NewKnown, Written, Issuing, Activating
<1> QED BY <1>1, <1>2, <1>4, <1>5, WriteOwn

\* The address a request writes, and the lock it takes for it.
LEMMA AddressMoved ==
  ASSUME IInv, NEW r \in Requests, request[r].uid \in Users, NEW row, NEW del, NEW ins,
         NEW new, WriteAddress(r, row, del, ins, new),
         row.email = Addressed(r).email
  PROVE  LET email == IF request[r].sets THEN request[r].email
                                         ELSE account[request[r].uid].email
         IN \E mode \in {"nokey", "email"} :
              /\ Write(r, mode, row, del, ins, new) /\ row.email = email
              /\ mode = IF email = account[request[r].uid].email THEN "nokey" ELSE "email"
              /\ mode = "email" => EmailFree(r, row.email)
<1>1. account[request[r].uid] \in AccountRow
  BY Types
<1>2. row.email = IF request[r].sets THEN request[r].email
                                     ELSE account[request[r].uid].email
  BY <1>1 DEF Addressed, AccountRow
<1> QED BY <1>2 DEF WriteAddress

LEMMA WriteConfirmOwn ==
  ASSUME IInv, OwnInv, NEW r \in Requests, WriteConfirm(r) PROVE OwnInv'
<1> DEFINE t == request[r].tok
           del == Invalidated(r)
           old == account[request[r].uid]
           email == IF request[r].sets THEN request[r].email ELSE old.email
           row == [Addressed(r) EXCEPT !.previous_email = request[r].old_email,
                                       !.email_changed_at = now]
           ins == Marked(t)
           new == [token[t] EXCEPT !.used_at = "set"]
<1>1. Ready(r, {"confirm"}) /\ WriteAddress(r, row, del, ins, new)
  BY DEF WriteConfirm
<1>2. /\ request[r].pc = "write" /\ request[r] \in RequestState
      /\ request[r].kind = "confirm" /\ t \in Tok /\ old \in AccountRow
      /\ request[r].uid \in Users
  BY <1>1, Reading, Types DEF Ready, Reads, Redeems
<1>3. row = [old EXCEPT !.email = email, !.previous_email = request[r].old_email,
                        !.email_changed_at = now]
  BY <1>2 DEF Addressed, AccountRow
<1>4. row.email = Addressed(r).email
  BY <1>2 DEF Addressed, AccountRow
<1>5. new.revert_used_at = token[t].revert_used_at
  BY <1>2, Types DEF TokenRow
<1>6. row = [old EXCEPT !.email = email, !.previous_email = request[r].old_email,
                        !.email_changed_at = row.email_changed_at]
  BY <1>2, <1>3 DEF AccountRow
<1> HIDE DEF row, del, ins, new
<1>7. PICK mode \in {"nokey", "email"} :
        /\ Write(r, mode, row, del, ins, new)
        /\ mode = IF email = old.email THEN "nokey" ELSE "email"
        /\ mode = "email" => EmailFree(r, row.email)
  BY <1>1, <1>2, <1>4, AddressMoved
<1> DEFINE w == [request[r] EXCEPT !.pc = "commit", !.lock = mode, !.row = row,
                                   !.del = del, !.ins = ins, !.new = new]
<1>8. Written(request[r], w, mode, row, del, ins, new)
  BY <1>2 DEF RequestState, Written
<1>9. w = [request[r] EXCEPT !.pc = "commit", !.lock = mode, !.row = row,
                             !.del = del, !.ins = ins, !.new = new]
  OBVIOUS
<1> HIDE DEF w
<1>10. RowKnown(w)
  BY <1>2, <1>6, <1>7, <1>8 DEF RowKnown, Written, Activating
<1>11. NewKnown(w)
  BY <1>2, <1>5, <1>8 DEF NewKnown, Written, Issuing
<1>12. mode \in {"none", "share", "nokey", "email"}
  OBVIOUS
<1>13. mode = "email" => EmailFree(r, row.email)
  BY <1>7
<1>14. request[r].pc = "write" /\ Write(r, mode, row, del, ins, new)
  BY <1>2, <1>7
<1> HIDE DEF email, old, t
<1> QED BY <1>9, <1>10, <1>11, <1>12, <1>13, <1>14, WriteOwn

\* The ways of a revert, by their lock and row.
RevertRow(r, mode, row) ==
  LET old == account[request[r].uid]
      email == IF request[r].sets THEN request[r].email ELSE old.email
  IN
  mode # "none" =>
    /\ request[r].email # None
    /\ row = [old EXCEPT !.email = email, !.previous_email = None,
                         !.email_changed_at = None]
    /\ mode = IF email = old.email THEN "nokey" ELSE "email"

LEMMA RevertOwn ==
  ASSUME IInv, OwnInv, NEW r \in Requests, Ready(r, {"revert"}),
         NEW mode \in {"none", "nokey", "email"}, NEW row,
         RevertRow(r, mode, row),
         mode = "email" => EmailFree(r, row.email),
         Write(r, mode, row, Invalidated(r), Marked(request[r].tok),
               [token[request[r].tok] EXCEPT !.revert_used_at = "set"])
  PROVE  OwnInv'
<1> DEFINE t == request[r].tok
           del == Invalidated(r)
           ins == Marked(t)
           new == [token[t] EXCEPT !.revert_used_at = "set"]
<1>1. /\ request[r].pc = "write" /\ request[r] \in RequestState
      /\ request[r].kind = "revert" /\ t \in Tok
  BY Reading DEF Ready, Reads, Redeems
<1>2. Write(r, mode, row, del, ins, new)
  OBVIOUS
<1>3. new.revert_used_at = "set"
  BY <1>1, Types DEF TokenRow
<1> DEFINE w == [request[r] EXCEPT !.pc = "commit", !.lock = mode, !.row = row,
                                   !.del = del, !.ins = ins, !.new = new]
<1>5. Written(request[r], w, mode, row, del, ins, new)
  BY <1>1 DEF RequestState, Written
<1> HIDE DEF del, ins, new
<1>6. w = [request[r] EXCEPT !.pc = "commit", !.lock = mode, !.row = row,
                             !.del = del, !.ins = ins, !.new = new]
  OBVIOUS
<1> HIDE DEF w
<1>7. RowKnown(w)
  BY <1>1, <1>5 DEF RowKnown, Written, Activating, RevertRow
<1>8. NewKnown(w)
  BY <1>1, <1>3, <1>5 DEF NewKnown, Written, Issuing
<1>9. mode \in {"none", "share", "nokey", "email"}
  OBVIOUS
<1>10. mode = "email" => EmailFree(r, row.email)
  OBVIOUS
<1>11. request[r].pc = "write"
  BY <1>1
<1> HIDE DEF t
<1> QED BY <1>2, <1>6, <1>7, <1>8, <1>9, <1>10, <1>11, WriteOwn

LEMMA WriteRevertOwn ==
  ASSUME IInv, OwnInv, NEW r \in Requests, WriteRevert(r) PROVE OwnInv'
<1> DEFINE t == request[r].tok
           mark == [token[t] EXCEPT !.revert_used_at = "set"]
           row == HoldCleared(Addressed(r))
           old == account[request[r].uid]
           email == IF request[r].sets THEN request[r].email ELSE old.email
<1>1. /\ Ready(r, {"revert"})
      /\ IF request[r].email = None
           THEN Write(r, "none", NoAccount, Invalidated(r), Marked(t), mark)
           ELSE WriteAddress(r, row, Invalidated(r), Marked(t), mark)
  BY DEF WriteRevert
<1>2. CASE request[r].email = None
  <2>1. RevertRow(r, "none", NoAccount)
    BY DEF RevertRow
  <2> QED BY <1>1, <1>2, <2>1, RevertOwn
<1>3. CASE request[r].email # None
  <2>1. request[r].uid \in Users /\ old \in AccountRow
    BY <1>1, Reading, Types DEF Ready
  <2>2. row.email = Addressed(r).email
    BY <2>1 DEF HoldCleared, Addressed, AccountRow
  <2>3. row = [old EXCEPT !.email = email, !.previous_email = None,
                          !.email_changed_at = None]
    BY <2>1 DEF HoldCleared, Addressed, AccountRow
  <2> HIDE DEF row
  <2>4. PICK mode \in {"nokey", "email"} :
          /\ Write(r, mode, row, Invalidated(r), Marked(t), mark)
          /\ mode = IF email = old.email THEN "nokey" ELSE "email"
          /\ mode = "email" => EmailFree(r, row.email)
    BY <1>1, <1>3, <2>1, <2>2, AddressMoved
  <2>5. RevertRow(r, mode, row)
    BY <1>3, <2>3, <2>4 DEF RevertRow
  <2>6. mode \in {"none", "nokey", "email"}
    OBVIOUS
  <2> HIDE DEF old, email
  <2> QED BY <1>1, <2>4, <2>5, <2>6, RevertOwn
<1> QED BY <1>2, <1>3

\* What a commit leaves of a token: its user and addresses; a use, a revert
\* and a deletion are not undone.
LEMMA CommitLink ==
  ASSUME IInv, OwnInv, NEW r \in Requests, Commit(r), NEW t \in Tok,
         token[t].kind # "none"
  PROVE  /\ token'[t].kind \in {token[t].kind, "deleted"}
         /\ token'[t].user_id = token[t].user_id
         /\ token'[t].email = token[t].email
         /\ token'[t].old_email = token[t].old_email
         /\ token'[t].used_at \in {token[t].used_at, "set"}
         /\ token'[t].revert_used_at \in {token[t].revert_used_at, "set"}
<1> DEFINE q == request[r]
<1>1. /\ q.pc = "commit" /\ NewKnown(q)
      /\ t \in q.del => token'[t] = Deleted(token[t])
      /\ t \notin q.del /\ t = q.ins => token'[t] = q.new
      /\ t \notin q.del /\ t # q.ins => token'[t] = token[t]
  BY CommitTokens DEF Commit, OwnInv, Holding
<1>2. CASE t \in q.del
  BY <1>1, <1>2, Types DEF Deleted, TokenRow
<1>3. CASE t \notin q.del /\ t = q.ins
  <2>1. /\ q.kind \in {"verify", "confirm", "revert"} /\ q.ins = q.tok
        /\ q.new.kind = token[t].kind
        /\ q.new.user_id = token[t].user_id
        /\ q.new.email = token[t].email
        /\ q.new.old_email = token[t].old_email
        /\ q.new.used_at = IF q.kind = "revert" THEN token[t].used_at ELSE "set"
    BY <1>3, CommitToken
  <2>2. q.new.revert_used_at \in {token[t].revert_used_at, "set"}
    BY <1>1, <1>3, <2>1, Constants DEF NewKnown
  <2> HIDE DEF q
  <2> QED BY <1>1, <1>3, <2>1, <2>2
<1>4. CASE t \notin q.del /\ t # q.ins
  BY <1>1, <1>4
<1> QED BY <1>2, <1>3, <1>4

\* A token that a commit brings into being is the one its request has issued.
LEMMA CommitNew ==
  ASSUME IInv, OwnInv, NEW r \in Requests, Commit(r), NEW t \in Tok,
         token[t].kind = "none", token'[t].kind # "none"
  PROVE  LET q == request[r] IN
         /\ q.kind \in Issuing
         /\ t = q.ins /\ token'[t] = q.new
         /\ q.new.kind = CASE q.kind = "forgot" -> "reset"
                           [] q.kind = "change" -> "change"
                           [] OTHER -> "verify"
         /\ q.new.user_id = q.uid /\ q.new.email = q.email /\ q.email \in Emails
         /\ q.new.old_email = IF q.kind = "change" THEN q.old_email ELSE None
         /\ q.kind # "activate" => q.new.used_at = "null"
         /\ q.new.revert_used_at = "null"
<1> DEFINE q == request[r]
<1>1. /\ q.pc = "commit" /\ NewKnown(q) /\ TokensDeleted(q) /\ TokenInserted(q)
      /\ t \notin q.del /\ t = q.ins => token'[t] = q.new
      /\ t \notin q.del /\ t # q.ins => token'[t] = token[t]
  BY CommitTokens, Committing DEF Commit, OwnInv, Holding
<1>2. t \notin q.del
  <2>1. q.kind \in {"signup", "verify", "activate", "resend", "password", "forgot", "reset",
                   "change", "confirm", "revert"}
    BY Committing DEF RequestState
  <2> HIDE DEF q
  <2> QED BY <1>1, <2>1 DEF TokensDeleted, Changing
<1>3. t = q.ins /\ token'[t] = q.new
  BY <1>1, <1>2
<1>4. /\ q.kind \in Issuing
      /\ q.new.kind = CASE q.kind = "forgot" -> "reset"
                        [] q.kind = "change" -> "change"
                        [] OTHER -> "verify"
      /\ q.new.user_id = q.uid /\ q.new.email = q.email /\ q.email \in Emails
      /\ q.kind # "activate" => q.new.used_at = "null"
  BY <1>3, CommitToken
<1>5. /\ q.new.old_email = IF q.kind = "change" THEN q.old_email ELSE None
      /\ q.new.revert_used_at = "null"
  BY <1>1, <1>4 DEF NewKnown, TokenInserted
<1> QED BY <1>3, <1>4, <1>5

LEMMA CommitRedeemed ==
  ASSUME IInv, OwnInv, NEW r \in Requests, Commit(r), NEW t \in Tok
  PROVE  LET q == request[r] IN
         /\ redeemed[t] > 0 => redeemed'[t] > 0
         /\ q.kind \in Redeeming /\ t = q.tok => redeemed'[t] > 0
         /\ ~(q.kind \in Redeeming /\ t = q.tok) => redeemed'[t] = redeemed[t]
BY DEF IInv, TypeOK, Commit, Redeeming

\* The addresses recorded of an account only become more.
LEMMA CommitSets ==
  ASSUME IInv, OwnInv, NEW r \in Requests, Commit(r), NEW u \in Users
  PROVE  /\ \A t \in Tok : IsChange(t, u) => IsChange(t, u)'
         /\ Left(u) \subseteq Left(u)' /\ Past(u) \subseteq Past(u)'
<1>1. \A t \in Tok : IsChange(t, u) => token[t].kind # "none"
  BY DEF OwnInv, TokenKnown, IsChange, NoToken
<1>2. \A t \in Tok : IsChange(t, u) =>
        /\ IsChange(t, u)' /\ token'[t].old_email = token[t].old_email
        /\ token'[t].email = token[t].email
  BY <1>1, CommitLink DEF IsChange
<1>3. \A t \in Tok : redeemed[t] > 0 => redeemed'[t] > 0
  BY CommitRedeemed
<1>4. Left(u) \subseteq Left(u)'
  BY <1>2 DEF Left
<1> QED BY <1>2, <1>3, <1>4 DEF Past

\* The ways in which a commit writes a row of users.
SignedUp(q, u) ==
  /\ q.kind = "signup" /\ account[u] = NoAccount /\ q.email \in Emails
  /\ account'[u] = [NoAccount EXCEPT !.status = "PENDING", !.email = q.email]

Verifies(q, u) ==
  /\ q.kind \in Activating /\ Exists(u)
  /\ account'[u] = [account[u] EXCEPT !.status = IF q.sets THEN "ACTIVE" ELSE @]

Confirms(q, u) ==
  /\ q.kind = "confirm" /\ q.tok \in Tok /\ IsChange(q.tok, u) /\ Exists(u)
  /\ q.email = token[q.tok].email /\ q.email \in Emails
  /\ q.old_email = token[q.tok].old_email /\ q.old_email \in Emails
  /\ ~q.sets => q.email \in Past(u)
  /\ account'[u].status = account[u].status
  /\ account'[u].email = IF q.sets THEN q.email ELSE account[u].email
  /\ account'[u].previous_email = q.old_email

Reverts(q, u) ==
  /\ q.kind = "revert" /\ q.tok \in Tok /\ IsChange(q.tok, u) /\ Exists(u)
  /\ q.email \in Left(u)
  /\ account'[u].status = account[u].status
  /\ account'[u].email = IF q.sets THEN q.email ELSE account[u].email
  /\ account'[u].previous_email = None

\* Only the stronger lock moves an account.
MovesLocked(q, u) ==
  account'[u].email # account[u].email =>
    q.lock = "email" /\ q.row.email = account'[u].email

LEMMA CommitRow ==
  ASSUME IInv, OwnInv, NEW r \in Requests, Commit(r), NEW u \in Users
  PROVE  LET q == request[r] IN
         \/ account'[u] = account[u]
         \/ /\ u = q.uid /\ Writes(q) /\ MovesLocked(q, u)
            /\ SignedUp(q, u) \/ Verifies(q, u) \/ Confirms(q, u) \/ Reverts(q, u)
<1> DEFINE q == request[r]
<1>1. /\ q.kind \in {"signup", "verify", "activate", "resend", "password", "forgot",
                     "reset", "change", "confirm", "revert"}
      /\ q.pc = "commit" /\ q.uid \in Users /\ Reads(q) /\ RowWritten(q)
      /\ RowKnown(q) /\ RequestKnown(r) /\ AccountKnown(u)
  BY Committing DEF RequestState, Commit, OwnInv
<1>2. account'[u] = IF Writes(q) /\ u = q.uid THEN q.row ELSE account[u]
  BY CommitAccounts
<1>3. account[u] \in AccountRow
  BY Types
<1> SUFFICES ASSUME Writes(q), u = q.uid, q.row # account[u]
             PROVE  /\ MovesLocked(q, u)
                    /\ SignedUp(q, u) \/ Verifies(q, u) \/ Confirms(q, u) \/ Reverts(q, u)
  BY <1>2
<1>4. account'[u] = q.row
  BY <1>2
<1> DEFINE email == IF q.sets THEN q.email ELSE account[u].email
<1>5. CASE q.kind = "signup"
  <2>1. /\ q.lock = "email" /\ q.email \in Emails /\ account[u].status = "absent"
        /\ q.row = [NoAccount EXCEPT !.status = "PENDING", !.email = q.email]
    BY <1>1, <1>5 DEF RowKnown, RowWritten, Reads
  <2> QED BY <1>1, <1>4, <1>5, <2>1 DEF SignedUp, AccountKnown, MovesLocked
<1>6. CASE q.kind \in Activating
  <2>1. q.row = [account[u] EXCEPT !.status = IF q.sets THEN "ACTIVE" ELSE @]
    BY <1>1, <1>6 DEF RowKnown
  <2>2. Exists(u)
    BY <1>1, <1>6 DEF Reads
  <2>3. account'[u].email = account[u].email
    BY <1>3, <1>4, <2>1 DEF AccountRow
  <2> QED BY <1>4, <1>6, <2>1, <2>2, <2>3 DEF Verifies, MovesLocked
<1>7. CASE q.kind = "confirm"
  <2>1. /\ q.email \in Emails /\ q.old_email \in Emails
        /\ q.tok \in Tok /\ Settled(u)
        /\ q.row = [account[u] EXCEPT !.email = email, !.previous_email = q.old_email,
                                      !.email_changed_at = q.row.email_changed_at]
        /\ q.lock = IF email = account[u].email THEN "nokey" ELSE "email"
    BY <1>1, <1>7 DEF RowKnown, Reads, Redeems, Changing
  <2>2. /\ IsChange(q.tok, u) /\ q.email = token[q.tok].email
        /\ q.old_email = token[q.tok].old_email
        /\ ~q.sets => q.email \in Past(u)
    BY <1>1, <1>7 DEF RequestKnown, IsChange, Redeeming
  <2>3. /\ q.row.status = account[u].status /\ q.row.email = email
        /\ q.row.previous_email = q.old_email
    BY <1>3, <2>1 DEF AccountRow
  <2>4. MovesLocked(q, u)
    BY <1>4, <2>1, <2>3 DEF MovesLocked
  <2> HIDE DEF q
  <2> QED BY <1>4, <1>7, <2>1, <2>2, <2>3, <2>4 DEF Confirms, Settled, Exists
<1>8. CASE q.kind = "revert"
  <2>1. /\ q.tok \in Tok /\ Settled(u) /\ q.email # None
        /\ q.row = [account[u] EXCEPT !.email = email, !.previous_email = None,
                                      !.email_changed_at = None]
        /\ q.lock = IF email = account[u].email THEN "nokey" ELSE "email"
    BY <1>1, <1>8 DEF RowKnown, Reads, Redeems, Changing, Writes
  <2>2. IsChange(q.tok, u) /\ q.email \in Left(u)
    BY <1>1, <1>8, <2>1 DEF RequestKnown, IsChange, Redeeming
  <2>3. /\ q.row.status = account[u].status /\ q.row.email = email
        /\ q.row.previous_email = None
    BY <1>3, <2>1 DEF AccountRow
  <2>4. MovesLocked(q, u)
    BY <1>4, <2>1, <2>3 DEF MovesLocked
  <2> HIDE DEF q
  <2> QED BY <1>4, <1>8, <2>1, <2>2, <2>3, <2>4 DEF Reverts, Settled, Exists
<1>9. q.kind \notin {"password", "reset"}
  BY <1>1 DEF RowKnown
<1>10. q.kind \notin {"resend", "forgot", "change"}
  BY <1>1 DEF RowWritten
<1> QED BY <1>1, <1>5, <1>6, <1>7, <1>8, <1>9, <1>10 DEF Activating

\* An address of an account's stays one.
LEMMA CommitOwn ==
  ASSUME IInv, OwnInv, NEW r \in Requests, Commit(r), NEW u \in Users,
         NEW e \in Emails, e \in Own(u)
  PROVE  e \in Own(u)'
<1>1. CASE e \in Past(u)
  BY <1>1, CommitSets DEF Own
<1>2. CASE e = account[u].email /\ account'[u].email = account[u].email
  BY <1>2 DEF Own
<1>3. CASE e = account[u].email /\ account'[u].email # account[u].email
  <2> DEFINE q == request[r]
  <2>1. SignedUp(q, u) \/ Confirms(q, u) \/ Reverts(q, u)
    <3>1. SignedUp(q, u) \/ Verifies(q, u) \/ Confirms(q, u) \/ Reverts(q, u)
      BY <1>3, CommitRow
    <3>2. ASSUME Verifies(q, u) PROVE FALSE
      <4>1. account'[u] = [account[u] EXCEPT !.status = IF q.sets THEN "ACTIVE" ELSE @]
        BY <3>2 DEF Verifies
      <4>2. account'[u].email = account[u].email
        BY <4>1, Types DEF AccountRow
      <4> QED BY <1>3, <4>2
    <3> QED BY <3>1, <3>2
  <2>2. ~SignedUp(q, u)
    BY <1>3, Constants DEF SignedUp, NoAccount
  <2>3. IsChange(q.tok, u) /\ q.tok \in Tok
    BY <2>1, <2>2 DEF Confirms, Reverts
  <2>4. e \in Past(u)
    BY <1>3, <2>3 DEF OwnInv, AccountKnown
  <2> QED BY <1>1, <2>4
<1> QED BY <1>1, <1>2, <1>3 DEF Own

LEMMA CommitTokenKnown ==
  ASSUME IInv, OwnInv, NEW r \in Requests, Commit(r), NEW t \in Tok
  PROVE  TokenKnown(t)'
<1> DEFINE q == request[r]
<1>1. TokenKnown(t) /\ RequestKnown(r) /\ q.uid \in Users /\ q.pc # "idle"
  BY Committing DEF OwnInv, Commit
<1>2. CASE token[t].kind # "none"
  <2>1. /\ token'[t].kind \in {token[t].kind, "deleted"}
        /\ token'[t].user_id = token[t].user_id
        /\ token'[t].email = token[t].email
        /\ token'[t].old_email = token[t].old_email
    BY <1>2, CommitLink
  <2> HIDE DEF q
  <2> QED BY <1>1, <1>2, <2>1 DEF TokenKnown
<1>3. CASE token[t].kind = "none" /\ token'[t].kind # "none"
  <2>1. /\ token'[t].user_id = q.uid /\ token'[t].email \in Emails
        /\ q.kind # "change" => token'[t].old_email = None
        /\ q.kind = "change" => token'[t].kind = "change"
    BY <1>3, CommitNew
  <2> HIDE DEF q
  <2> QED BY <1>1, <1>3, <2>1 DEF TokenKnown
<1>4. CASE token[t].kind = "none" /\ token'[t].kind = "none"
  <2>1. /\ t \in q.del => token'[t].kind = "deleted"
        /\ t \notin q.del /\ t = q.ins => token'[t] = q.new
        /\ t \notin q.del /\ t # q.ins => token'[t] = token[t]
    BY CommitTokens
  <2>2. t = q.ins => q.new.kind # "none"
    BY <1>4, CommitToken
  <2>3. ~(q.kind \in Redeeming /\ t = q.tok)
    BY <1>1, <1>4 DEF RequestKnown
  <2>4. redeemed'[t] = redeemed[t]
    BY <2>3, CommitRedeemed
  <2> QED BY <1>1, <1>4, <2>1, <2>2, <2>4 DEF TokenKnown
<1> QED BY <1>2, <1>3, <1>4

\* A change token that a commit issues is for an account that has the address
\* it is to leave.
LEMMA CommitIssued ==
  ASSUME IInv, OwnInv, NEW r \in Requests, Commit(r), NEW u \in Users, NEW t \in Tok,
         IsChange(t, u)', ~IsChange(t, u)
  PROVE  /\ request[r].kind = "change" /\ request[r].uid = u
         /\ request[r].old_email \in Own(u) /\ request[r].old_email \in Left(u)'
<1> DEFINE q == request[r]
<1>1. token[t].kind = "none"
  BY CommitLink DEF IsChange
<1>2. token'[t].kind # "none"
  BY CommitTokenKnown DEF TokenKnown, IsChange, NoToken
<1>3. /\ token'[t].user_id = q.uid /\ token'[t].old_email # None
      /\ token'[t].old_email = IF q.kind = "change" THEN q.old_email ELSE None
  BY <1>1, <1>2, CommitNew DEF IsChange
<1>4. q.uid = u /\ q.kind = "change"
  BY <1>3 DEF IsChange
<1>5. q.old_email \in Own(u) /\ q.old_email \in Emails
  BY <1>4, Committing DEF OwnInv, RequestKnown, Reads, Commit
<1> QED BY <1>3, <1>4, <1>5 DEF Left

LEMMA CommitAccountKnown ==
  ASSUME IInv, OwnInv, NEW r \in Requests, Commit(r), NEW u \in Users
  PROVE  AccountKnown(u)'
<1> DEFINE q == request[r]
<1>1. /\ AccountKnown(u) /\ account[u] \in AccountRow
      /\ Left(u) \subseteq Left(u)' /\ Past(u) \subseteq Past(u)'
      /\ Left(u)' \subseteq Past(u)'
  BY Types, CommitSets DEF OwnInv, Past
<1>2. CASE account'[u] = account[u]
  <2>1. ASSUME NEW t \in Tok, IsChange(t, u)' PROVE account[u].email \in Past(u)'
    <3>1. CASE \E x \in Tok : IsChange(x, u)
      BY <1>1, <3>1 DEF AccountKnown
    <3>2. CASE ~\E x \in Tok : IsChange(x, u)
      <4>1. q.old_email \in Own(u) /\ q.old_email \in Left(u)'
        BY <2>1, <3>2, CommitIssued
      <4>2. Past(u) = {}
        BY <3>2 DEF Past, Left
      <4> QED BY <1>1, <4>1, <4>2 DEF Own
    <3> QED BY <3>1, <3>2
  <2> QED BY <1>1, <1>2, <2>1 DEF AccountKnown
<1>3. CASE Verifies(q, u)
  <2>1. /\ account'[u].status # "absent" /\ account'[u].email = account[u].email
        /\ account'[u].previous_email = account[u].previous_email
    <3>1. /\ account'[u] = [account[u] EXCEPT !.status = IF q.sets THEN "ACTIVE" ELSE @]
          /\ account[u].status # "absent"
      BY <1>3 DEF Verifies, Exists
    <3> QED BY <1>1, <3>1 DEF AccountRow
  <2>2. \A t \in Tok : IsChange(t, u)' => IsChange(t, u)
    BY <1>3, CommitIssued DEF Verifies, Activating
  <2> QED BY <1>1, <2>1, <2>2 DEF AccountKnown
<1>4. CASE SignedUp(q, u)
  <2>1. \A t \in Tok : ~IsChange(t, u)
    BY <1>1, <1>4, Constants DEF AccountKnown, SignedUp, NoAccount, Past, Left
  <2>2. \A t \in Tok : ~IsChange(t, u)'
    BY <1>4, <2>1, CommitIssued DEF SignedUp
  <2>3. account'[u].status = "PENDING" /\ account'[u].previous_email = None
    BY <1>4 DEF SignedUp, NoAccount
  <2> QED BY <2>2, <2>3 DEF AccountKnown
<1>5. CASE Confirms(q, u)
  <2>1. PICK t \in Tok : t = q.tok
    BY <1>5 DEF Confirms
  <2>2. IsChange(t, u) /\ token[t].kind # "none"
    BY <1>5, <2>1 DEF Confirms, OwnInv, TokenKnown, IsChange, NoToken
  <2>3. IsChange(t, u)' /\ token'[t].email = q.email
    BY <1>5, <2>1, <2>2, CommitLink, CommitSets DEF Confirms
  <2>4. redeemed'[t] > 0
    BY <1>5, <2>1, CommitRedeemed DEF Confirms, Redeeming
  <2>5. q.email \in Emails /\ q.old_email \in Left(u)
    BY <1>5, <2>1, <2>2 DEF Confirms, Left
  <2>6. q.email \in Past(u)' /\ account[u].email \in Past(u)'
    BY <1>1, <2>2, <2>3, <2>4, <2>5 DEF Past, AccountKnown
  <2>7. /\ account'[u].email \in Past(u)' /\ account'[u].status # "absent"
        /\ account'[u].previous_email \in Left(u)'
    BY <1>1, <1>5, <2>5, <2>6 DEF Confirms, Exists
  <2> QED BY <2>7 DEF AccountKnown
<1>6. CASE Reverts(q, u)
  <2>1. /\ account'[u].email \in Past(u)' /\ account'[u].status # "absent"
        /\ account'[u].previous_email = None
    BY <1>1, <1>6 DEF Reverts, Exists, AccountKnown
  <2> QED BY <2>1 DEF AccountKnown
<1> QED BY <1>2, <1>3, <1>4, <1>5, <1>6, CommitRow

\* The index: only an UPDATE of users.email moves an address.
LEMMA CommitEmail ==
  ASSUME IInv, OwnInv, NEW r \in Requests, Commit(r), NEW u \in Users
  PROVE  LET q == request[r] IN
         \/ account'[u].email = account[u].email
         \/ u = q.uid /\ q.lock = "email" /\ account'[u].email = q.row.email
BY CommitRow DEF MovesLocked

LEMMA CommitDistinct ==
  ASSUME IInv, OwnInv, NEW r \in Requests, Commit(r) PROVE AddressesDistinct'
<1> SUFFICES ASSUME NEW u \in Users, NEW v \in Users, u # v,
                    account'[u].email = account'[v].email
             PROVE  account'[u].email = None
  BY DEF AddressesDistinct
<1>1. Claims(r) /\ AddressesDistinct
  BY DEF OwnInv
<1>2. request[r].lock = "email" =>
        \A x \in Users \ {request[r].uid} : account[x].email # request[r].row.email
  BY <1>1 DEF Claims
<1> QED BY <1>1, <1>2, CommitEmail DEF AddressesDistinct

\* The row a request is to commit, while nobody else has changed it.
LEMMA RowStaysKnown ==
  ASSUME NEW q \in Requests, Kept(q), RowKnown(request[q]),
         Writes(request[q]) => account'[request[q].uid] = account[request[q].uid]
  PROVE  RowKnown(request[q])'
<1>1. CASE Writes(request[q])
  <2> DEFINE row == account[request[q].uid]
  <2>1. account'[request[q].uid] = row
    BY <1>1
  <2>2. /\ request'[q].kind = request[q].kind /\ request'[q].uid = request[q].uid
        /\ request'[q].lock = request[q].lock /\ request'[q].row = request[q].row
        /\ request'[q].sets = request[q].sets /\ request'[q].email = request[q].email
        /\ request'[q].old_email = request[q].old_email
    BY DEF Kept
  <2>3. account'[request'[q].uid] = row
    BY <2>1, <2>2
  <2>4. row = account[request[q].uid]
    OBVIOUS
  <2> HIDE DEF row
  <2> QED BY <2>2, <2>3, <2>4 DEF RowKnown
<1>2. CASE ~Writes(request[q])
  BY <1>2 DEF RowKnown, Kept, Writes
<1> QED BY <1>1, <1>2

\* What a request knows, when its account and tokens only gain.
LEMMA GainKnows ==
  ASSUME IInv, OwnInv, NEW p \in Requests, Kept(p), NEW u \in Users, u = request[p].uid,
         \A e \in Emails : e \in Own(u) => e \in Own(u)',
         Past(u) \subseteq Past(u)', Left(u) \subseteq Left(u)',
         \A t \in Tok : token[t].kind # "none" =>
           /\ token'[t].kind # "none" /\ token'[t].user_id = token[t].user_id
           /\ token'[t].email = token[t].email
           /\ token'[t].old_email = token[t].old_email
  PROVE  RequestKnown(p)'
<1> DEFINE q == request[p]
<1> SUFFICES ASSUME q.pc # "idle" PROVE RequestKnown(p)'
  BY DEF RequestKnown, Kept
<1>1. RequestKnown(p) /\ Reads(q)
  BY DEF OwnInv, IInv, RequestOK
<1>2. /\ q.kind \in {"activate", "resend", "forgot"} => q.email \in Own(u)'
      /\ q.kind = "change" => q.old_email \in Own(u)'
      /\ q.kind = "confirm" /\ q.pc # "select" /\ ~q.sets => q.email \in Past(u)'
      /\ q.kind = "revert" /\ q.pc # "select" /\ q.email # None => q.email \in Left(u)'
  BY <1>1 DEF RequestKnown, Reads
<1>3. ASSUME q.kind \in Redeeming \cup {"revert"}
      PROVE  LET t == q.tok IN
             /\ token'[t].kind # "none" /\ token'[t].user_id = u
             /\ token'[t].email = token[t].email
             /\ token'[t].old_email = token[t].old_email
  <2>1. q.tok \in Tok /\ token[q.tok].kind # "none" /\ token[q.tok].user_id = u
    BY <1>1, <1>3 DEF RequestKnown, Reads, Redeems, Redeeming
  <2> QED BY <2>1
<1>4. request'[p].uid = u
  BY DEF Kept
<1> HIDE DEF q
<1>5. /\ request'[p].pc = q.pc /\ request'[p].kind = q.kind /\ request'[p].tok = q.tok
      /\ request'[p].email = q.email /\ request'[p].old_email = q.old_email
      /\ request'[p].sets = q.sets
  BY DEF Kept, q
<1>6. /\ q.kind \in {"confirm", "revert"} => token[q.tok].old_email # None
      /\ q.kind = "confirm" =>
           q.email = token[q.tok].email /\ q.old_email = token[q.tok].old_email
  BY <1>1 DEF RequestKnown, q
<1> QED BY <1>2, <1>3, <1>4, <1>5, <1>6 DEF RequestKnown, Redeeming

\* What the others know stays true: the rows they have locked are not those
\* that are committed, and the rest only grows.
LEMMA CommitOthers ==
  ASSUME IInv, OwnInv, NEW r \in Requests, Commit(r), NEW p \in Requests \ {r}
  PROVE  /\ RequestKnown(p)' /\ Claims(p)'
         /\ (Holding(request[p]) => NewKnown(request[p]))'
         /\ (request[p].pc = "commit" => RowKnown(request[p]))'
<1>1. /\ request'[r] = NoRequest
      /\ \A x \in Requests \ {r} : Kept(x)
  BY CommitKept
<1>2. /\ Kept(p) /\ RequestKnown(p) /\ Claims(p) /\ Apart(p, r)
      /\ Holding(request[p]) => NewKnown(request[p]) /\ WriteOK(p)
      /\ request[p].pc = "commit" => RowKnown(request[p])
      /\ request[p].pc # "idle" => Reads(request[p])
  BY <1>1 DEF OwnInv, IInv, LocksExclude, RequestOK
<1>3. RequestKnown(p)'
  <2> SUFFICES ASSUME request[p].pc # "idle" PROVE RequestKnown(p)'
    BY <1>2 DEF RequestKnown, Kept
  <2>1. PICK u \in Users : u = request[p].uid
    BY <1>2 DEF Reads
  <2>2. /\ \A e \in Emails : e \in Own(u) => e \in Own(u)'
        /\ Past(u) \subseteq Past(u)' /\ Left(u) \subseteq Left(u)'
    BY CommitOwn, CommitSets
  <2>3. \A t \in Tok : token[t].kind # "none" =>
          /\ token'[t].kind # "none" /\ token'[t].user_id = token[t].user_id
          /\ token'[t].email = token[t].email
          /\ token'[t].old_email = token[t].old_email
    BY CommitLink
  <2> QED BY <1>2, <2>1, <2>2, <2>3, GainKnows
<1>4. Claims(p)'
  <2> SUFFICES ASSUME request[p].lock = "email" PROVE Claims(p)'
    BY <1>2 DEF Claims, Kept
  <2>1. ASSUME NEW v \in Users \ {request[p].uid}
        PROVE  account'[v].email # request[p].row.email
    BY <1>2, CommitEmail DEF Claims
  <2>2. request'[r].lock # "email"
    BY <1>1, NoRequestType
  <2> QED BY <1>1, <1>2, <2>1, <2>2 DEF Claims, Kept
<1>5. ASSUME request[p].pc = "commit" PROVE RowKnown(request[p])'
  <2>1. RowKnown(request[p]) /\ request[p].uid \in Users
    BY <1>2, <1>5 DEF Reads
  <2>2. Writes(request[p]) => account'[request[p].uid] = account[request[p].uid]
    BY <1>2, <2>1, CommitAccounts DEF Apart
  <2> QED BY <1>2, <2>1, <2>2, RowStaysKnown
<1>6. ASSUME Holding(request[p]) PROVE NewKnown(request[p])'
  <2>1. NewKnown(request[p]) /\ TokenMarked(request[p]) /\ Reads(request[p])
    BY <1>2, <1>6 DEF WriteOK, Holding
  <2>2. ASSUME request[p].kind \in {"verify", "confirm"}, request[p].ins # None
        PROVE  token'[request[p].tok] = token[request[p].tok]
    <3>1. request[p].tok \in Tok /\ request[p].ins = request[p].tok
      BY <2>1, <2>2 DEF TokenMarked, Reads, Redeems
    <3>2. request[p].tok \notin TokensLocked(r)
      BY <1>2, <3>1 DEF Apart, TokensLocked
    <3> QED BY <3>1, <3>2, CommitTokens DEF TokensLocked
  <2> QED BY <1>2, <2>1, <2>2 DEF NewKnown, Kept
<1>7. Holding(request[p])' => Holding(request[p])
  BY <1>2 DEF Holding, Kept
<1>8. (request[p].pc = "commit")' => request[p].pc = "commit"
  BY <1>2 DEF Kept
<1> QED BY <1>3, <1>4, <1>5, <1>6, <1>7, <1>8

LEMMA CommitOwnInv ==
  ASSUME IInv, OwnInv, NEW r \in Requests, Commit(r) PROVE OwnInv'
<1>1. request'[r] = NoRequest
  BY CommitKept
<1>2. /\ RequestKnown(r)' /\ Claims(r)'
      /\ (Holding(request[r]) => NewKnown(request[r]))'
      /\ (request[r].pc = "commit" => RowKnown(request[r]))'
  BY <1>1, NoRequestType DEF RequestKnown, Claims, Holding
<1> QED BY <1>2, CommitDistinct, CommitTokenKnown, CommitAccountKnown, CommitOthers
        DEF OwnInv

\* An operator changes a status; no writer of the row is open.
LEMMA AdministerOwn ==
  ASSUME IInv, OwnInv, Administer PROVE OwnInv'
<1>1. PICK u \in Users, status \in {"ACTIVE", "SUSPENDED"} :
        /\ account[u].status # "absent"
        /\ \A q \in Requests : request[q].uid = u => ~Writes(request[q])
        /\ account' = [account EXCEPT ![u] = [account[u] EXCEPT !.status = status]]
  BY DEF Administer, Writes
<1>2. UNCHANGED <<token, request, redeemed>>
  BY DEF Administer
<1>3. ASSUME NEW v \in Users
      PROVE  /\ account'[v].email = account[v].email
             /\ account'[v].previous_email = account[v].previous_email
             /\ v = u => account'[v].status # "absent"
             /\ v # u => account'[v] = account[v]
  <2>1. account[v] \in AccountRow /\ account \in [Users -> AccountRow]
    BY Types DEF TypeOK
  <2> QED BY <1>1, <2>1 DEF AccountRow
<1>4. \A v \in Users : Own(v)' = Own(v) /\ Past(v)' = Past(v) /\ Left(v)' = Left(v)
  BY <1>2, <1>3 DEF Own, Past, Left, IsChange
<1>5. \A t \in Tok, v \in Users : IsChange(t, v)' <=> IsChange(t, v)
  BY <1>2 DEF IsChange
<1>6. AddressesDistinct' /\ \A t \in Tok : TokenKnown(t)'
  BY <1>2, <1>3 DEF OwnInv, AddressesDistinct, TokenKnown
<1>7. ASSUME NEW v \in Users PROVE AccountKnown(v)'
  BY <1>3, <1>4, <1>5 DEF OwnInv, AccountKnown
<1>8. ASSUME NEW q \in Requests
      PROVE  /\ RequestKnown(q)' /\ Claims(q)'
             /\ (Holding(request[q]) => NewKnown(request[q]))'
             /\ (request[q].pc = "commit" => RowKnown(request[q]))'
  <2>1. Kept(q) /\ request'[q] = request[q] /\ Claims(q)
    BY <1>2 DEF OwnInv, Kept
  <2>2. request[q].pc # "idle" => request[q].uid \in Users
    BY DEF IInv, RequestOK, Reads
  <2>3. ASSUME request[q].pc # "idle" PROVE RequestKnown(q)'
    <3>1. PICK v \in Users : v = request[q].uid
      BY <2>2, <2>3
    <3>2. \A t \in Tok : token[t].kind # "none" =>
            /\ token'[t].kind # "none" /\ token'[t].user_id = token[t].user_id
            /\ token'[t].email = token[t].email
            /\ token'[t].old_email = token[t].old_email
      BY <1>2
    <3> QED BY <1>4, <2>1, <3>1, <3>2, GainKnows
  <2>4. Claims(q)'
    BY <1>2, <1>3, <2>1 DEF Claims
  <2>5. ASSUME request[q].pc = "commit" PROVE RowKnown(request[q])'
    <3>1. RowKnown(request[q]) /\ request[q].uid \in Users
      BY <2>2, <2>5 DEF OwnInv
    <3>2. Writes(request[q]) => account'[request[q].uid] = account[request[q].uid]
      BY <1>1, <1>3, <3>1
    <3> QED BY <2>1, <3>1, <3>2, RowStaysKnown
  <2>6. ASSUME Holding(request[q]) PROVE NewKnown(request[q])'
    <3>1. NewKnown(request[q])
      BY <2>6 DEF OwnInv
    <3> QED BY <1>2, <2>1, <3>1 DEF NewKnown
  <2>7. Holding(request[q])' => Holding(request[q])
    BY <2>1 DEF Holding
  <2> QED BY <2>1, <2>3, <2>4, <2>5, <2>6, <2>7 DEF RequestKnown
<1> QED BY <1>6, <1>7, <1>8 DEF OwnInv

LEMMA InitOwn == Init => OwnInv
<1> SUFFICES ASSUME Init PROVE OwnInv
  OBVIOUS
<1>1. PICK home \in [Registered -> Emails] :
        /\ \A u, v \in Registered : u # v => home[u] # home[v]
        /\ account = [u \in Users |->
             IF u \in Registered THEN Verified(u, home[u]) ELSE NoAccount]
  BY DEF Init
<1>2. \A u \in Users :
        /\ u \in Registered =>
             /\ account[u].status = "ACTIVE" /\ account[u].email = home[u]
             /\ account[u].previous_email = None
        /\ u \notin Registered => account[u] = NoAccount /\ account[u].email = None
  BY <1>1 DEF Verified, NoAccount
<1>3. AddressesDistinct
  BY <1>1, <1>2 DEF AddressesDistinct
<1>4. \A t \in Tok : TokenKnown(t) /\ \A u \in Users : ~IsChange(t, u)
  BY DEF Init, TokenKnown, NoToken, IsChange
<1>5. \A u \in Users : AccountKnown(u)
  BY <1>2, <1>4 DEF AccountKnown, NoAccount
<1>6. \A r \in Requests : request[r].pc = "idle" /\ request[r].lock = "none"
  BY NoRequestType DEF Init
<1> QED BY <1>3, <1>4, <1>5, <1>6 DEF OwnInv, RequestKnown, Claims, Holding

LEMMA StepOwn ==
  ASSUME IInv, OwnInv, [Next]_vars PROVE OwnInv'
<1>1. ASSUME NEW r \in Requests, Step(r) PROVE OwnInv'
  BY <1>1, SelectOwn, WriteSignupOwn, WriteVerifyOwn, WriteInsertOwn, WritePasswordOwn,
     WriteConfirmOwn, WriteRevertOwn, CommitOwnInv, RollBackOwn DEF Step
<1>2. ASSUME UNCHANGED <<account, token, request, redeemed>> PROVE OwnInv'
  <2>1. \A q \in Requests : Kept(q)
    BY <1>2 DEF Kept
  <2>2. \A q \in Requests : request[q].pc # "idle" => request[q].uid \in Users
    BY DEF IInv, RequestOK, Reads
  <2>3. \A q \in Requests : Claims(q)'
    BY <1>2 DEF OwnInv, Claims
  <2> QED BY <1>2, <2>1, <2>2, <2>3, SameRowsOwn, KeptKnows DEF OwnInv
<1>3. Tick \/ UNCHANGED vars => OwnInv'
  BY <1>2 DEF Tick, vars
<1> QED BY <1>1, <1>3, ArriveOwn, AdministerOwn DEF Next

LEMMA Ownership == Spec => []OwnInv
<1>1. Init => OwnInv
  BY InitOwn
<1>2. IInv /\ OwnInv /\ [Next]_vars => OwnInv'
  BY StepOwn
<1> QED BY <1>1, <1>2, Invariance, PTL DEF Spec

\* No two accounts have the same address, whatever signups, changes and
\* reverts overlap.
THEOREM NoAddressShared == Spec => []AddressesDistinct
<1>1. OwnInv => AddressesDistinct
  BY DEF OwnInv
<1> QED BY <1>1, Ownership, PTL

-----------------------------------------------------------------------------
(* Holds *)

\* A step of one request that changes no row.
LEMMA HoldQuiet ==
  ASSUME HoldInv, UNCHANGED <<account, token, stamp, redeemed>>, NEW r \in Requests,
         \A q \in Requests \ {r} : Kept(q), RequestNotRaced(r)'
  PROVE  HoldInv'
<1>1. ASSUME NEW q \in Requests \ {r} PROVE RequestNotRaced(q)'
  BY DEF HoldInv, RequestNotRaced, Kept
<1>2. \A t \in Tok : TokenNotRaced(t)'
  BY DEF HoldInv, TokenNotRaced
<1>3. \A u \in Users : HoldExplained(u)'
  BY DEF HoldInv, HoldExplained
<1> QED BY <1>1, <1>2, <1>3 DEF HoldInv

LEMMA RollBackHold ==
  ASSUME IInv, HoldInv, NEW r \in Requests, RollBack(r) PROVE HoldInv'
<1>1. /\ UNCHANGED <<account, token, stamp, redeemed>>
      /\ request'[r].pc = "idle" /\ request'[r].kind = "none"
      /\ \A q \in Requests \ {r} : request'[q] = request[q]
  BY NoRequestType DEF RollBack, IInv, TypeOK
<1>2. \A q \in Requests \ {r} : Kept(q)
  BY <1>1 DEF Kept
<1>3. RequestNotRaced(r)'
  BY <1>1 DEF RequestNotRaced
<1> QED BY <1>1, <1>2, <1>3, HoldQuiet

\* A request for a change has read the present address.
LEMMA BeginHold ==
  ASSUME IInv, HoldInv, NEW r \in Requests, NEW new, Begin(r, new),
         new.kind = "change" => new.old_email = account[new.uid].email
  PROVE  HoldInv'
<1>1. TypeOK
  BY Types
<1>2. /\ UNCHANGED <<account, token, stamp, redeemed>>
      /\ \A q \in Requests \ {r} : request'[q] = request[q]
  BY <1>1 DEF Begin, TypeOK
<1> DEFINE pc == IF new.kind \in Selecting THEN "select" ELSE "write"
           s == IF new.kind = "forgot" THEN StampFor(new.uid) ELSE NoStamp
           w == [new EXCEPT !.pc = pc, !.stamp = s]
<1>3. request'[r] = w
  BY <1>1 DEF Begin, TypeOK
<1>4. /\ request'[r].kind = new.kind /\ request'[r].uid = new.uid
      /\ request'[r].old_email = new.old_email /\ request'[r].pc = pc
  BY <1>3
<1>5. \A q \in Requests \ {r} : Kept(q)
  BY <1>2 DEF Kept
<1>6. RequestNotRaced(r)'
  BY <1>2, <1>4 DEF RequestNotRaced, Selecting
<1> QED BY <1>2, <1>5, <1>6, HoldQuiet

\* A request for a link that is sent to address e.
LEMMA LinkHold ==
  ASSUME IInv, HoldInv, NEW r \in Requests, NEW u, NEW e,
         NEW kind \in {"signup", "activate", "resend", "forgot"},
         Begin(r, [NoRequest EXCEPT !.kind = kind, !.uid = u, !.email = e])
  PROVE  HoldInv'
<1> DEFINE new == [NoRequest EXCEPT !.kind = kind, !.uid = u, !.email = e]
<1>1. new.kind # "change" /\ Begin(r, new)
  BY DEF NoRequest
<1> HIDE DEF new
<1> QED BY <1>1, BeginHold

\* A request that redeems token t.
LEMMA RedeemHold ==
  ASSUME IInv, HoldInv, NEW r \in Requests, NEW t, NEW u,
         NEW kind \in {"verify", "reset", "revert"},
         Begin(r, [NoRequest EXCEPT !.kind = kind, !.uid = u, !.tok = t])
  PROVE  HoldInv'
<1> DEFINE new == [NoRequest EXCEPT !.kind = kind, !.uid = u, !.tok = t]
<1>1. new.kind # "change" /\ Begin(r, new)
  BY DEF NoRequest
<1> HIDE DEF new
<1> QED BY <1>1, BeginHold

LEMMA ArriveHold ==
  ASSUME IInv, HoldInv, NEW r \in Requests, Arrive(r) PROVE HoldInv'
<1>1. CASE Signup(r) \/ VerifyUser(r) \/ ResendVerification(r) \/ RequestPasswordReset(r)
  BY <1>1, LinkHold DEF Signup, VerifyUser, ResendVerification, RequestPasswordReset
<1>2. CASE VerifyEmail(r) \/ ResetPassword(r) \/ RevertEmailChange(r)
  BY <1>2, RedeemHold DEF VerifyEmail, ResetPassword, RevertEmailChange
<1>3. CASE ChangePassword(r)
  <2>1. PICK u \in Users : Begin(r, [NoRequest EXCEPT !.kind = "password", !.uid = u])
    BY <1>3 DEF ChangePassword
  <2> DEFINE new == [NoRequest EXCEPT !.kind = "password", !.uid = u]
  <2>2. new.kind # "change" /\ Begin(r, new)
    BY <2>1 DEF NoRequest
  <2> HIDE DEF new
  <2> QED BY <2>2, BeginHold
<1>4. CASE RequestEmailChange(r)
  <2>1. PICK u \in Users :
          Begin(r, [NoRequest EXCEPT !.kind = "change", !.uid = u,
                                      !.old_email = account[u].email])
    BY <1>4 DEF RequestEmailChange
  <2> DEFINE new == [NoRequest EXCEPT !.kind = "change", !.uid = u,
                                      !.old_email = account[u].email]
  <2>2. new.uid = u /\ new.old_email = account[u].email /\ Begin(r, new)
    BY <2>1 DEF NoRequest
  <2> HIDE DEF new
  <2> QED BY <2>2, BeginHold
<1>5. CASE ConfirmEmailChange(r)
  <2>1. PICK t \in Tok :
          Begin(r, [NoRequest EXCEPT
                      !.kind = "confirm", !.uid = token[t].user_id, !.tok = t,
                      !.email = token[t].email, !.old_email = token[t].old_email])
    BY <1>5 DEF ConfirmEmailChange
  <2> DEFINE new == [NoRequest EXCEPT
                       !.kind = "confirm", !.uid = token[t].user_id, !.tok = t,
                       !.email = token[t].email, !.old_email = token[t].old_email]
  <2>2. new.kind # "change" /\ Begin(r, new)
    BY <2>1 DEF NoRequest
  <2> HIDE DEF new
  <2> QED BY <2>2, BeginHold
<1> QED BY <1>1, <1>2, <1>3, <1>4, <1>5 DEF Arrive

\* The new address is nobody's; an address that is left out is the current one.
LEMMA LearnsHold ==
  ASSUME IInv, HoldInv, NEW r \in Requests, NEW email, NEW sets, NEW lock, NEW del,
         NEW ins, NEW new, Learns(r, email, sets, lock, del, ins, new),
         request[r].kind = "change" => email # account[request[r].uid].email,
         request[r].kind = "confirm" /\ ~sets => email = account[request[r].uid].email
  PROVE  HoldInv'
<1>1. /\ UNCHANGED <<account, token, stamp, redeemed>> /\ request[r].pc = "select"
      /\ request'[r].pc = "write" /\ request'[r].kind = request[r].kind
      /\ request'[r].uid = request[r].uid /\ request'[r].email = email
      /\ request'[r].sets = sets /\ request'[r].stamp = request[r].stamp
      /\ request'[r].old_email = request[r].old_email
      /\ \A q \in Requests \ {r} : request'[q] = request[q]
  BY Types DEF Learns, TypeOK
<1>2. \A q \in Requests \ {r} : Kept(q)
  BY <1>1 DEF Kept
<1>3. RequestNotRaced(r)'
  BY <1>1 DEF HoldInv, RequestNotRaced
<1> QED BY <1>1, <1>2, <1>3, HoldQuiet

LEMMA SelectHold ==
  ASSUME IInv, HoldInv, NEW r \in Requests,
         \/ SelectForVerify(r) \/ SelectForActivation(r) \/ SelectForChange(r)
         \/ SelectForConfirm(r) \/ SelectForRevert(r)
  PROVE  HoldInv'
<1> DEFINE q == request[r]
<1>1. CASE SelectForVerify(r)
  BY <1>1, LearnsForVerify, LearnsHold DEF SelectForVerify, Selects
<1>2. CASE SelectForActivation(r)
  BY <1>2, LearnsForActivation, LearnsHold DEF SelectForActivation, Selects
<1>3. CASE SelectForChange(r)
  <2>1. PICK e \in Emails : Holders(e) = {} /\ Learns(r, e, q.sets, q.lock, {}, None, q.new)
    BY <1>3, LearnsForChange
  <2>2. q.uid \in Users /\ q.kind = "change"
    BY <1>3, SelectingState DEF SelectForChange, Selects
  <2>3. e # account[q.uid].email
    BY <2>1, <2>2 DEF Holders
  <2> QED BY <2>1, <2>2, <2>3, LearnsHold
<1>4. CASE SelectForConfirm(r)
  <2>1. Learns(r, q.email, SetsEmail(r, q.email), q.lock, {}, None, q.new)
    BY <1>4, LearnsForConfirm
  <2>2. ~SetsEmail(r, q.email) => q.email = account[q.uid].email
    BY DEF SetsEmail
  <2>3. q.kind = "confirm"
    BY <1>4 DEF SelectForConfirm, Selects
  <2> QED BY <2>1, <2>2, <2>3, LearnsHold
<1>5. CASE SelectForRevert(r)
  BY <1>5, LearnsForRevert, LearnsHold DEF SelectForRevert, Selects
<1> QED BY <1>1, <1>2, <1>3, <1>4, <1>5

\* A confirmation that nothing overtook writes the address it was asked for.
LEMMA WriteHold ==
  ASSUME IInv, OwnInv', HoldInv, NEW r \in Requests, request[r].pc = "write",
         NEW mode, NEW row, NEW del, NEW ins, NEW new,
         Write(r, mode, row, del, ins, new)
  PROVE  HoldInv'
<1> DEFINE marked(q) == [request[q] EXCEPT !.stamp.raced = TRUE]
           w == [request[r] EXCEPT !.pc = "commit", !.lock = mode, !.row = row,
                                   !.del = del, !.ins = ins, !.new = new]
<1>1. /\ UNCHANGED <<account, token, stamp, redeemed>> /\ request'[r] = w
      /\ \A q \in Requests \ {r} : request'[q] = marked(q) \/ request'[q] = request[q]
  BY DEF Write
<1>2. ASSUME NEW q \in Requests \ {r} PROVE Kept(q)
  <2>1. CASE request'[q] = marked(q)
    BY <2>1, MarkedKept
  <2>2. CASE request'[q] = request[q]
    BY <2>2 DEF Kept
  <2> HIDE DEF marked
  <2> QED BY <1>1, <2>1, <2>2
<1>3. request[r] \in RequestState /\ account[request[r].uid] \in AccountRow
  BY Reading, Types
<1>4. /\ request'[r].pc = "commit" /\ request'[r].kind = request[r].kind
      /\ request'[r].uid = request[r].uid /\ request'[r].email = request[r].email
      /\ request'[r].sets = request[r].sets /\ request'[r].stamp = request[r].stamp
      /\ request'[r].old_email = request[r].old_email /\ request'[r].row = row
  BY <1>1, <1>3 DEF RequestState
<1> HIDE DEF w, marked
<1>5. RowKnown(request[r])'
  BY <1>4 DEF OwnInv
<1>6. request[r].kind = "confirm" =>
        row.email = IF request[r].sets THEN request[r].email
                                       ELSE account[request[r].uid].email
  <2> SUFFICES ASSUME request[r].kind = "confirm"
               PROVE  row.email = IF request[r].sets THEN request[r].email
                                                     ELSE account[request[r].uid].email
    OBVIOUS
  <2> DEFINE old == account[request[r].uid]
             email == IF request[r].sets THEN request[r].email ELSE old.email
  <2>1. row = [old EXCEPT !.email = email, !.previous_email = request[r].old_email,
                          !.email_changed_at = row.email_changed_at]
    BY <1>1, <1>4, <1>5 DEF RowKnown
  <2> QED BY <1>3, <2>1 DEF AccountRow
<1>7. RequestNotRaced(r)'
  BY <1>1, <1>4, <1>6 DEF HoldInv, RequestNotRaced
<1> QED BY <1>1, <1>2, <1>7, HoldQuiet

\* The stamp of a token that was redeemed only gains a race.
LEMMA CommitStamp ==
  ASSUME IInv, OwnInv, NEW r \in Requests, Commit(r), NEW t \in Tok,
         token[t].kind # "none"
  PROVE  LET q == request[r] IN
         /\ stamp[t].raced => stamp'[t].raced
         /\ q.kind = "confirm" /\ q.stamp.raced /\ t = q.tok => stamp'[t].raced
<1> DEFINE q == request[r]
<1>1. ~(q.kind \in {"forgot", "change"} /\ t = q.ins)
  BY Committing DEF TokenInserted, Issuing
<1>2. stamp'[t] = IF q.kind = "confirm" /\ q.stamp.raced /\ t = q.tok THEN q.stamp
                                                                   ELSE stamp[t]
  BY <1>1, CommitTokens
<1> QED BY <1>2

LEMMA CommitTokenNotRaced ==
  ASSUME IInv, OwnInv, HoldInv, NEW r \in Requests, Commit(r), NEW t \in Tok
  PROVE  TokenNotRaced(t)'
<1> DEFINE q == request[r]
<1>1. CASE token[t].kind # "none"
  <2>1. token'[t].email = token[t].email /\ token'[t].old_email = token[t].old_email
    BY <1>1, CommitLink
  <2>2. stamp[t].raced => stamp'[t].raced
    BY <1>1, CommitStamp
  <2> QED BY <2>1, <2>2 DEF HoldInv, TokenNotRaced
<1>2. CASE token[t].kind = "none" /\ token'[t].kind = "none"
  BY <1>2, CommitTokenKnown DEF TokenKnown, TokenNotRaced, NoToken
<1>3. CASE token[t].kind = "none" /\ token'[t].kind # "none"
  <2>1. /\ t = q.ins /\ token'[t].email = q.email
        /\ token'[t].old_email = IF q.kind = "change" THEN q.old_email ELSE None
    BY <1>3, CommitNew
  <2>2. ASSUME q.kind = "change", ~stamp'[t].raced PROVE q.old_email # q.email
    <3>1. stamp'[t] = q.stamp
      BY <2>1, <2>2, CommitTokens
    <3> QED BY <2>2, <3>1 DEF HoldInv, RequestNotRaced, Commit
  <2> HIDE DEF q
  <2> QED BY <2>1, <2>2 DEF TokenNotRaced
<1> QED BY <1>1, <1>2, <1>3

\* A request that the commit overtakes is marked.
LEMMA CommitRequestNotRaced ==
  ASSUME IInv, OwnInv, HoldInv, NEW r \in Requests, Commit(r), NEW p \in Requests
  PROVE  RequestNotRaced(p)'
<1>1. CASE p = r
  BY <1>1, CommitKept, NoRequestType DEF RequestNotRaced
<1>2. CASE p # r
  <2>1. Kept(p) /\ RequestNotRaced(p)
    BY <1>2, CommitKept DEF HoldInv
  <2>2. ASSUME Overtaken(request[p]), ~request'[p].stamp.raced
        PROVE  account'[request[p].uid].email = account[request[p].uid].email
    <3>1. ~(request[r].lock = "email" /\ request[p].uid = request[r].uid)
      BY <1>2, <2>2, CommitKept
    <3>2. request[p].uid \in Users
      BY <2>2 DEF IInv, RequestOK, Reads, Overtaken
    <3> QED BY <3>1, <3>2, CommitEmail
  <2> QED BY <2>1, <2>2 DEF RequestNotRaced, Kept, Overtaken
<1> QED BY <1>1, <1>2

LEMMA CommitHoldExplained ==
  ASSUME IInv, OwnInv, HoldInv, NEW r \in Requests, Commit(r), NEW u \in Users
  PROVE  HoldExplained(u)'
<1> DEFINE q == request[r]
<1>1. CASE account'[u].email = account[u].email
           /\ account'[u].previous_email = account[u].previous_email
  <2> SUFFICES ASSUME account[u].previous_email # None PROVE HoldExplained(u)'
    BY <1>1 DEF HoldExplained
  <2>1. PICK t \in Tok :
          /\ token[t].user_id = u /\ token[t].old_email = account[u].previous_email
          /\ redeemed[t] > 0
          /\ account[u].email = account[u].previous_email => stamp[t].raced
    BY DEF HoldInv, HoldExplained
  <2>2. token[t].kind # "none"
    BY <2>1 DEF OwnInv, TokenKnown
  <2>3. /\ token'[t].user_id = u /\ token'[t].old_email = token[t].old_email
        /\ redeemed'[t] > 0
        /\ stamp[t].raced => stamp'[t].raced
    BY <2>1, <2>2, CommitLink, CommitRedeemed, CommitStamp
  <2> QED BY <1>1, <2>1, <2>3 DEF HoldExplained
<1>2. CASE Verifies(q, u)
  <2>1. account'[u] = [account[u] EXCEPT !.status = IF q.sets THEN "ACTIVE" ELSE @]
    BY <1>2 DEF Verifies
  <2>2. /\ account'[u].email = account[u].email
        /\ account'[u].previous_email = account[u].previous_email
    BY <2>1, Types DEF AccountRow
  <2> QED BY <1>1, <2>2
<1>3. CASE SignedUp(q, u) \/ Reverts(q, u)
  BY <1>3 DEF SignedUp, Reverts, NoAccount, HoldExplained
<1>4. CASE Confirms(q, u) /\ u = q.uid /\ Writes(q)
  <2>1. PICK t \in Tok : t = q.tok
    BY <1>4 DEF Confirms
  <2>2. /\ token[t].user_id = u /\ token[t].old_email # None /\ token[t].kind # "none"
    BY <1>4, <2>1 DEF Confirms, IsChange, OwnInv, TokenKnown, NoToken
  <2>3. /\ token'[t].user_id = u /\ token'[t].old_email = token[t].old_email
        /\ redeemed'[t] > 0
    BY <1>4, <2>1, <2>2, CommitLink, CommitRedeemed DEF Confirms, Redeeming
  <2>4. account'[u].previous_email = token[t].old_email /\ q.email = token[t].email
    BY <1>4, <2>1 DEF Confirms
  <2>5. ASSUME account'[u].email = account'[u].previous_email, ~stamp'[t].raced
        PROVE  FALSE
    <3>1. ~stamp[t].raced /\ ~q.stamp.raced
      BY <1>4, <2>1, <2>2, <2>5, CommitStamp DEF Confirms
    <3>2. q.row.email = q.email
      BY <1>4, <3>1 DEF HoldInv, RequestNotRaced, Confirms, Commit
    <3>3. account'[u].email = q.row.email
      BY <1>4, CommitAccounts
    <3>4. token[t].old_email # token[t].email
      BY <2>2, <3>1 DEF HoldInv, TokenNotRaced
    <3> QED BY <2>4, <2>5, <3>2, <3>3, <3>4
  <2> QED BY <2>3, <2>4, <2>5 DEF HoldExplained
<1>5. CASE account'[u] = account[u]
  BY <1>1, <1>5
<1> QED BY <1>2, <1>3, <1>4, <1>5, CommitRow

LEMMA AdministerHold ==
  ASSUME IInv, HoldInv, Administer PROVE HoldInv'
<1>1. PICK u \in Users, status \in {"ACTIVE", "SUSPENDED"} :
        account' = [account EXCEPT ![u] = [account[u] EXCEPT !.status = status]]
  BY DEF Administer
<1>2. UNCHANGED <<token, request, redeemed, stamp>>
  BY DEF Administer
<1>3. ASSUME NEW v \in Users
      PROVE  /\ account'[v].email = account[v].email
             /\ account'[v].previous_email = account[v].previous_email
  <2>1. account[v] \in AccountRow /\ account \in [Users -> AccountRow]
    BY Types DEF TypeOK
  <2> QED BY <1>1, <2>1 DEF AccountRow
<1>4. ASSUME NEW q \in Requests PROVE RequestNotRaced(q)'
  <2>1. request[q].kind # "none" => request[q].uid \in Users
    BY DEF IInv, RequestOK, Reads
  <2> QED BY <1>2, <1>3, <2>1 DEF HoldInv, RequestNotRaced
<1>5. \A t \in Tok : TokenNotRaced(t)'
  BY <1>2 DEF HoldInv, TokenNotRaced
<1>6. \A v \in Users : HoldExplained(v)'
  BY <1>2, <1>3 DEF HoldInv, HoldExplained
<1> QED BY <1>4, <1>5, <1>6 DEF HoldInv

LEMMA InitHold == Init => HoldInv
<1> SUFFICES ASSUME Init PROVE HoldInv
  OBVIOUS
<1>1. ASSUME NEW u \in Users PROVE account[u].previous_email = None
  <2>1. PICK home \in [Registered -> Emails] :
          account[u] = IF u \in Registered THEN Verified(u, home[u]) ELSE NoAccount
    BY DEF Init
  <2> QED BY <2>1 DEF Verified, NoAccount
<1>2. \A t \in Tok : token[t].old_email = None
  BY DEF Init, NoToken
<1>3. \A r \in Requests : request[r].kind = "none"
  BY NoRequestType DEF Init
<1> QED BY <1>1, <1>2, <1>3 DEF HoldInv, TokenNotRaced, RequestNotRaced, HoldExplained

LEMMA StepHold ==
  ASSUME IInv, OwnInv, OwnInv', HoldInv, [Next]_vars PROVE HoldInv'
<1>1. ASSUME NEW r \in Requests, Step(r) PROVE HoldInv'
  <2>1. CASE Commit(r)
    BY <2>1, CommitTokenNotRaced, CommitRequestNotRaced, CommitHoldExplained DEF HoldInv
  <2>2. CASE \/ SelectForVerify(r) \/ SelectForActivation(r) \/ SelectForChange(r)
             \/ SelectForConfirm(r) \/ SelectForRevert(r)
    BY <2>2, SelectHold
  <2>3. CASE RollBack(r)
    BY <2>3, RollBackHold
  <2>4. CASE \/ WriteSignup(r) \/ WriteVerify(r) \/ WriteResend(r) \/ WritePassword(r)
             \/ WriteForgot(r) \/ WriteChange(r) \/ WriteConfirm(r) \/ WriteRevert(r)
    <3>1. /\ request[r].pc = "write"
          /\ \E mode, row, del, ins, new : Write(r, mode, row, del, ins, new)
      BY <2>4, Zenon DEF WriteSignup, WriteVerify, WriteResend, WritePassword, WriteForgot,
         WriteChange, WriteConfirm, WriteRevert, WriteAddress, Ready
    <3> QED BY <3>1, WriteHold
  <2> QED BY <1>1, <2>1, <2>2, <2>3, <2>4 DEF Step
<1>2. ASSUME UNCHANGED <<account, token, request, stamp, redeemed>> PROVE HoldInv'
  BY <1>2 DEF HoldInv, TokenNotRaced, RequestNotRaced, HoldExplained
<1>3. Tick \/ UNCHANGED vars => HoldInv'
  BY <1>2 DEF Tick, vars
<1> QED BY <1>1, <1>3, ArriveHold, AdministerHold DEF Next

\* The hold fields of an account are set and cleared together, and the held
\* address is the one a redeemed change was to leave; it is the current one
\* only where another move overtook that change (confirm_email_change,
\* revert_email_change), whatever changes and reverts overlap.
THEOREM HoldSafe == Spec => []HoldConsistent
<1>1. Init => HoldInv
  BY InitHold
<1>2. IInv /\ OwnInv /\ OwnInv' /\ HoldInv /\ [Next]_vars => HoldInv'
  BY StepHold
<1>3. IInv /\ HoldInv => HoldConsistent
  BY DEF IInv, RowOK, HoldInv, HoldExplained, HoldConsistent
<1> QED BY <1>1, <1>2, <1>3, Invariance, Ownership, PTL DEF Spec

-----------------------------------------------------------------------------
(* Accounts implements AccountLifecycle *)

LEMMA Views ==
  /\ \A u \in Users :
       /\ UserView[u].status = account[u].status
       /\ UserView[u].email = account[u].email
       /\ UserView[u].previous_email = account[u].previous_email
  /\ \A t \in Tok :
       /\ LinkView[t].kind = token[t].kind
       /\ LinkView[t].user_id = token[t].user_id
       /\ LinkView[t].email = token[t].email
       /\ LinkView[t].old_email = token[t].old_email
       /\ LinkView[t].used <=> token[t].used_at = "set"
       /\ LinkView[t].reverted <=> token[t].revert_used_at = "set"
       /\ LinkView[t].redeemed <=> redeemed[t] > 0
BY DEF UserView, LinkView

LEMMA ViewsNext ==
  /\ \A u \in Users :
       /\ UserView'[u].status = account'[u].status
       /\ UserView'[u].email = account'[u].email
       /\ UserView'[u].previous_email = account'[u].previous_email
  /\ \A t \in Tok :
       /\ LinkView'[t].kind = token'[t].kind
       /\ LinkView'[t].user_id = token'[t].user_id
       /\ LinkView'[t].email = token'[t].email
       /\ LinkView'[t].old_email = token'[t].old_email
       /\ LinkView'[t].used <=> token'[t].used_at = "set"
       /\ LinkView'[t].reverted <=> token'[t].revert_used_at = "set"
       /\ LinkView'[t].redeemed <=> redeemed'[t] > 0
BY DEF UserView, LinkView

LEMMA UserRecords ==
  ASSUME NEW u \in Users
  PROVE  /\ UserView[u] = [status |-> account[u].status, email |-> account[u].email,
                           previous_email |-> account[u].previous_email]
         /\ UserView'[u] = [status |-> account'[u].status, email |-> account'[u].email,
                            previous_email |-> account'[u].previous_email]
BY DEF UserView

LEMMA NoLinkView ==
  ASSUME NEW t \in Tok, token[t] = NoToken, redeemed[t] = 0
  PROVE  LinkView[t] = Life!NoLink
<1>1. /\ (token[t].used_at = "set") = FALSE /\ (token[t].revert_used_at = "set") = FALSE
      /\ (redeemed[t] > 0) = FALSE
      /\ token[t].kind = "none" /\ token[t].user_id = None /\ token[t].email = None
      /\ token[t].old_email = None
  BY DEF NoToken
<1>2. LinkView[t] =
        [kind |-> token[t].kind, user_id |-> token[t].user_id,
         email |-> token[t].email, old_email |-> token[t].old_email,
         used |-> token[t].used_at = "set", reverted |-> token[t].revert_used_at = "set",
         redeemed |-> redeemed[t] > 0]
  BY DEF LinkView
<1> QED BY <1>1, <1>2 DEF Life!NoLink

\* The address sets of the invariant are within those of the abstraction.
LEMMA ViewSets ==
  ASSUME NEW u \in Users
  PROVE  /\ \A t \in Tok : IsChange(t, u) => t \in Life!Changes(u)
         /\ Left(u) \subseteq Life!Left(u) /\ Own(u) \subseteq Life!Own(u)
<1>1. \A t \in Tok : IsChange(t, u) => t \in Life!Changes(u)
  BY Views DEF IsChange, Life!Changes
<1>2. Left(u) \subseteq Life!Left(u)
  BY <1>1, Views DEF Left, Life!Left
<1>3. Past(u) \subseteq Life!Past(u)
  BY <1>1, <1>2, Views DEF Past, Life!Past
<1> QED BY <1>1, <1>2, <1>3, Views DEF Own, Life!Own

LEMMA ViewSetsNext ==
  ASSUME NEW u \in Users PROVE (Own(u) \subseteq Life!Own(u))'
<1>1. \A t \in Tok : IsChange(t, u)' => (t \in Life!Changes(u))'
  BY ViewsNext DEF IsChange, Life!Changes
<1>2. (Left(u) \subseteq Life!Left(u))'
  BY <1>1, ViewsNext DEF Left, Life!Left
<1>3. (Past(u) \subseteq Life!Past(u))'
  BY <1>1, <1>2, ViewsNext DEF Past, Life!Past
<1> QED BY <1>1, <1>2, <1>3, ViewsNext DEF Own, Life!Own

\* A commit that moves an account takes an address that nobody else has.
LEMMA CommitFree ==
  ASSUME IInv, OwnInv, NEW r \in Requests, Commit(r), NEW u \in Users
  PROVE  account'[u].email = account[u].email \/ Life!Free(u, account'[u].email)
<1> DEFINE q == request[r]
<1>1. CASE u = q.uid /\ q.lock = "email" /\ account'[u].email = q.row.email
  BY <1>1, Views DEF OwnInv, Claims, Life!Free
<1> QED BY <1>1, CommitEmail

LEMMA CommitConfirms ==
  ASSUME IInv, OwnInv, RedeemedInv', NEW r \in Requests, Commit(r), NEW u \in Users,
         Confirms(request[r], u)
  PROVE  Life!Move(u)
<1> DEFINE q == request[r]
<1>1. PICK t \in Tok : t = q.tok
  BY DEF Confirms
<1>2. t \in Life!Changes(u)
  BY <1>1, ViewSets DEF Confirms
<1>3. redeemed'[t] > 0 /\ Spent(t)'
  BY <1>1, CommitRedeemed, CommitSpends DEF Confirms, Redeeming
<1>4. LinkView'[t].redeemed /\ Life!Spent(LinkView'[t])
  BY <1>3, ViewsNext DEF Spent, Life!Spent
<1>5. /\ account'[u].status = account[u].status
      /\ account'[u].previous_email = token[t].old_email
      /\ account'[u].email = IF q.sets THEN token[t].email ELSE account[u].email
      /\ ~q.sets => token[t].email \in Past(u)
  BY <1>1 DEF Confirms
<1>6. \/ account'[u].email = token[t].email /\ Life!Free(u, token[t].email)
      \/ account'[u].email = account[u].email /\ token[t].email \in Own(u)
  <2>1. CASE account'[u].email = account[u].email
    BY <1>5, <2>1 DEF Own
  <2>2. CASE account'[u].email # account[u].email
    BY <1>5, <2>2, CommitFree
  <2> QED BY <2>1, <2>2
<1>7. \/ UserView'[u].email = LinkView[t].email /\ Life!Free(u, LinkView[t].email)
      \/ UserView'[u].email = UserView[u].email /\ LinkView[t].email \in Life!Own(u)
  BY <1>6, Views, ViewsNext, ViewSets
<1>8. UserView'[u] = [status |-> UserView[u].status, email |-> UserView'[u].email,
                      previous_email |-> LinkView[t].old_email]
  <2>1. /\ account'[u].status = UserView[u].status
        /\ account'[u].email = UserView'[u].email
        /\ account'[u].previous_email = LinkView[t].old_email
    BY <1>5, Views, ViewsNext
  <2> QED BY <2>1, UserRecords
<1> QED BY <1>2, <1>4, <1>7, <1>8 DEF Life!Move

LEMMA CommitReverts ==
  ASSUME IInv, OwnInv, NEW r \in Requests, Commit(r), NEW u \in Users,
         Reverts(request[r], u)
  PROVE  Life!MoveBack(u)
<1> DEFINE q == request[r]
<1>1. PICK t \in Tok : t = q.tok
  BY DEF Reverts
<1>2. t \in Life!Changes(u) /\ q.email \in Life!Left(u)
  BY <1>1, ViewSets DEF Reverts
<1>3. token'[t].revert_used_at = "set" \/ token'[t].kind = "deleted"
  <2>1. TokenMarked(q) /\ NewKnown(q) /\ q.kind = "revert"
    BY Committing DEF OwnInv, Commit, Reverts, Holding
  <2>2. \/ token[t].kind = "deleted"
        \/ q.ins = t /\ q.new.revert_used_at = "set"
    BY <1>1, <2>1, Constants DEF TokenMarked, NewKnown
  <2>3. token[t].kind # "none"
    BY <1>1 DEF Reverts, IsChange, OwnInv, TokenKnown, NoToken
  <2> QED BY <2>2, <2>3, CommitTokens, CommitLink
<1>4. LinkView'[t].reverted \/ LinkView'[t].kind = "deleted"
  BY <1>3, ViewsNext
<1>5. /\ account'[u].status = account[u].status /\ account'[u].previous_email = None
      /\ account'[u].email = IF q.sets THEN q.email ELSE account[u].email
  BY DEF Reverts
<1>6. \/ UserView'[u].email \in Life!Left(u) /\ Life!Free(u, UserView'[u].email)
      \/ UserView'[u].email = UserView[u].email
  <2>1. CASE account'[u].email = account[u].email
    BY <2>1, Views, ViewsNext
  <2>2. CASE account'[u].email # account[u].email
    BY <1>2, <1>5, <2>2, CommitFree, ViewsNext
  <2> QED BY <2>1, <2>2
<1>7. UserView'[u] = [status |-> UserView[u].status, email |-> UserView'[u].email,
                      previous_email |-> None]
  <2>1. /\ account'[u].status = UserView[u].status
        /\ account'[u].email = UserView'[u].email
        /\ account'[u].previous_email = None
    BY <1>5, Views, ViewsNext
  <2> QED BY <2>1, UserRecords
<1> QED BY <1>2, <1>4, <1>6, <1>7 DEF Life!MoveBack

\* The commit of a transaction keeps each account or takes one of the steps
\* that the abstraction allows it.
LEMMA CommitUser ==
  ASSUME IInv, OwnInv, RedeemedInv', NEW r \in Requests, Commit(r), NEW u \in Users
  PROVE  \/ Life!Stay(u) \/ Life!SignUp(u) \/ Life!SetStatus(u)
         \/ Life!Move(u) \/ Life!MoveBack(u)
<1> DEFINE q == request[r]
<1>1. CASE account'[u] = account[u]
  <2>1. UserView'[u] = UserView[u]
    BY <1>1 DEF UserView
  <2> QED BY <2>1 DEF Life!Stay
<1>2. CASE Verifies(q, u)
  <2>1. account[u] \in AccountRow
    BY Types DEF TypeOK
  <2>2. CASE ~q.sets
    BY <1>1, <1>2, <2>1, <2>2 DEF Verifies, AccountRow
  <2>3. CASE q.sets
    <3>1. /\ UserView[u].status # "absent" /\ UserView'[u].status = "ACTIVE"
          /\ UserView'[u] = [UserView[u] EXCEPT !.status = "ACTIVE"]
      BY <1>2, <2>1, <2>3 DEF Verifies, Exists, UserView, AccountRow
    <3> QED BY <3>1 DEF Life!SetStatus
  <2> QED BY <2>2, <2>3
<1>3. CASE SignedUp(q, u)
  <2>1. /\ account[u].status = "absent" /\ account[u].email = None
        /\ account[u].previous_email = None /\ q.email \in Emails
        /\ account'[u].status = "PENDING" /\ account'[u].email = q.email
        /\ account'[u].previous_email = None
    BY <1>3 DEF SignedUp, NoAccount
  <2>2. Life!Free(u, q.email)
    BY <2>1, CommitFree, Constants
  <2> HIDE DEF q
  <2>3. /\ UserView[u] = Life!NoUser
        /\ UserView'[u] = [status |-> "PENDING", email |-> q.email, previous_email |-> None]
    BY <2>1, UserRecords DEF Life!NoUser
  <2> QED BY <2>1, <2>2, <2>3 DEF Life!SignUp
<1> QED BY <1>1, <1>2, <1>3, CommitRow, CommitConfirms, CommitReverts

\* A token that a commit redeems is spent by it, and the user of a verification is
\* past PENDING.
LEMMA CommitRedeems ==
  ASSUME IInv, OwnInv, RedeemedInv', NEW r \in Requests, Commit(r), NEW t \in Tok,
         redeemed'[t] > 0
  PROVE  /\ Spent(t)'
         /\ redeemed[t] = 0 /\ token[t].kind = "verify" =>
              /\ token[t].user_id \in Users
              /\ account'[token[t].user_id].status \notin {"absent", "PENDING"}
<1> DEFINE q == request[r]
<1>1. Spent(t)'
  BY DEF RedeemedInv
<1>2. ASSUME redeemed[t] = 0, token[t].kind = "verify"
      PROVE  /\ token[t].user_id \in Users
             /\ account'[token[t].user_id].status \notin {"absent", "PENDING"}
  <2>1. q.kind \in Redeeming /\ t = q.tok
    BY <1>2, CommitRedeemed
  <2>2. q.kind = "verify" /\ token[t].user_id = q.uid /\ q.uid \in Users
    BY <1>2, <2>1, Committing DEF Reads, Redeems, Redeeming
  <2>3. Writes(q) /\ q.row.status \notin {"absent", "PENDING"}
    BY <2>2, Committing DEF RowWritten, Activating
  <2> QED BY <2>2, <2>3, CommitAccounts
<1> QED BY <1>1, <1>2

\* A token is issued by the commit of a request of its user's.
LEMMA CommitIssue ==
  ASSUME IInv, OwnInv, NEW r \in Requests, Commit(r), NEW t \in Tok,
         token[t].kind = "none", token'[t].kind # "none"
  PROVE  Life!Issue(t)
<1> DEFINE q == request[r]
           kind == q.new.kind
           old == q.new.old_email
           used == q.new.used_at = "set"
<1>1. /\ q.kind \in Issuing
      /\ token'[t] = q.new /\ q.new \in TokenRow
      /\ kind = CASE q.kind = "forgot" -> "reset"
                  [] q.kind = "change" -> "change"
                  [] OTHER -> "verify"
      /\ q.new.user_id = q.uid /\ q.new.email = q.email /\ q.email \in Emails
      /\ old = IF q.kind = "change" THEN q.old_email ELSE None
      /\ q.kind # "activate" => q.new.used_at = "null"
      /\ q.new.revert_used_at = "null"
  BY CommitNew, CommitTokens
<1>2. PICK u \in Users : u = q.uid
  BY Committing
<1>3. /\ token[t] = NoToken /\ redeemed[t] = 0 /\ redeemed'[t] = 0
      /\ RequestKnown(r) /\ Reads(q) /\ RowWritten(q) /\ q.pc # "idle"
  <2>1. q.kind \notin Redeeming
    BY <1>1 DEF Redeeming, Issuing
  <2> QED BY <2>1, Committing, CommitRedeemed DEF OwnInv, TokenKnown, Commit
<1>4. LinkView[t] = Life!NoLink
  BY <1>3, NoLinkView
<1>5. LinkView'[t] = [kind |-> kind, user_id |-> u, email |-> q.email, old_email |-> old,
                      used |-> used, reverted |-> FALSE, redeemed |-> FALSE]
  <2>1. /\ (token'[t].used_at = "set") = used
        /\ (token'[t].revert_used_at = "set") = FALSE
        /\ (redeemed'[t] > 0) = FALSE
        /\ token'[t].kind = kind /\ token'[t].user_id = u /\ token'[t].email = q.email
        /\ token'[t].old_email = old
    BY <1>1, <1>2, <1>3
  <2>2. LinkView'[t] =
          [kind |-> token'[t].kind, user_id |-> token'[t].user_id,
           email |-> token'[t].email, old_email |-> token'[t].old_email,
           used |-> token'[t].used_at = "set", reverted |-> token'[t].revert_used_at = "set",
           redeemed |-> redeemed'[t] > 0]
    BY DEF LinkView
  <2> QED BY <2>1, <2>2
<1>6. account'[u].status # "absent"
  <2>1. q.kind # "signup" => Exists(u)
    BY <1>1, <1>2, <1>3 DEF Reads, Settled, Exists, Issuing, Activating
  <2>2. q.kind = "signup" => Writes(q) /\ q.row.status = "PENDING"
    BY <1>3 DEF RowWritten
  <2> QED BY <1>2, <2>1, <2>2, CommitAccounts DEF Exists
<1>7. q.kind = "change" => kind = "change" /\ old \in Own(u)
  BY <1>1, <1>2, <1>3 DEF RequestKnown
<1>8. q.kind # "change" => kind \in {"verify", "reset"} /\ old = None /\ q.email \in Own(u)'
  <2>1. q.kind = "signup" => account'[u].email = q.email
    <3>1. q.kind = "signup" => RowKnown(q) /\ Writes(q)
      BY <1>3 DEF OwnInv, Commit, RowWritten
    <3>2. q.kind = "signup" => q.row.email = q.email
      BY <3>1 DEF RowKnown, NoAccount
    <3> HIDE DEF q
    <3>3. Writes(q) => account'[u] = q.row
      BY <1>2, CommitAccounts DEF q
    <3> QED BY <3>1, <3>2, <3>3
  <2>2. q.kind \in {"activate", "resend", "forgot"} => q.email \in Own(u)
    BY <1>2, <1>3 DEF RequestKnown
  <2> QED BY <1>1, <2>1, <2>2, CommitOwn DEF Own, Issuing
<1>9. old \in Emails \cup {None}
  BY <1>1, <1>3 DEF Reads
<1>10. UserView'[u].status # "absent"
  BY <1>6, ViewsNext
<1>11. IF kind = "change" THEN old \in Life!Own(u)
                          ELSE old = None /\ q.email \in Life!Own(u)'
  BY <1>1, <1>7, <1>8, ViewSets, ViewSetsNext
<1>12. kind \in {"verify", "reset", "change"} /\ q.email \in Emails
  BY <1>1, <1>7, <1>8
<1>13. ASSUME used PROVE kind = "verify" /\ UserView'[u].status # "PENDING"
  <2>1. q.kind = "activate"
    BY <1>1, <1>13
  <2>2. Writes(q) /\ q.row.status # "PENDING"
    BY <1>3, <2>1 DEF RowWritten, Activating
  <2> QED BY <1>1, <1>2, <2>1, <2>2, CommitAccounts, ViewsNext
<1>14. used \in BOOLEAN
  OBVIOUS
<1> DEFINE e == q.email
<1> HIDE DEF kind, old, e, used
<1> QED BY <1>4, <1>5, <1>9, <1>10, <1>11, <1>12, <1>13, <1>14 DEF Life!Issue, e

\* What has been issued only gets spent.
LEMMA CommitSpend ==
  ASSUME IInv, OwnInv, RedeemedInv', NEW r \in Requests, Commit(r), NEW t \in Tok,
         token[t].kind # "none"
  PROVE  Life!Spend(t)
<1>1. /\ token'[t].kind \in {token[t].kind, "deleted"}
      /\ token'[t].user_id = token[t].user_id
      /\ token'[t].email = token[t].email
      /\ token'[t].old_email = token[t].old_email
      /\ token'[t].used_at \in {token[t].used_at, "set"}
      /\ token'[t].revert_used_at \in {token[t].revert_used_at, "set"}
  BY CommitLink
<1>2. /\ LinkView[t].kind # "none"
      /\ LinkView'[t].kind \in {LinkView[t].kind, "deleted"}
      /\ LinkView'[t].user_id = LinkView[t].user_id
      /\ LinkView'[t].email = LinkView[t].email
      /\ LinkView'[t].old_email = LinkView[t].old_email
  BY <1>1, Views, ViewsNext
<1>3. redeemed[t] > 0 => redeemed'[t] > 0
  BY CommitRedeemed
<1>4. /\ LinkView[t].used => LinkView'[t].used
      /\ LinkView[t].reverted => LinkView'[t].reverted
      /\ LinkView[t].redeemed => LinkView'[t].redeemed
  BY <1>1, <1>3, Views, ViewsNext
<1>5. LinkView'[t].redeemed => Life!Spent(LinkView'[t])
  BY ViewsNext, CommitRedeems DEF Spent, Life!Spent
<1>6. ASSUME LinkView'[t].redeemed, ~LinkView[t].redeemed, LinkView[t].kind = "verify"
      PROVE  UserView'[LinkView[t].user_id].status \notin {"absent", "PENDING"}
  <2>1. redeemed'[t] > 0 /\ redeemed[t] = 0 /\ token[t].kind = "verify"
    BY <1>6, Views, ViewsNext DEF IInv, TypeOK
  <2> QED BY <2>1, CommitRedeems, Views, ViewsNext
<1> QED BY <1>2, <1>4, <1>5, <1>6 DEF Life!Spend

LEMMA CommitLife ==
  ASSUME IInv, OwnInv, RedeemedInv', NEW r \in Requests, Commit(r)
  PROVE  Life!Next
<1>1. ASSUME NEW t \in Tok, token[t].kind = "none", token'[t].kind = "none"
      PROVE  Life!Keep(t)
  <2>1. token'[t] = token[t] /\ redeemed'[t] = redeemed[t]
    BY <1>1, CommitTokenKnown DEF OwnInv, TokenKnown
  <2> QED BY <2>1 DEF LinkView, Life!Keep
<1>2. \A t \in Tok : Life!Keep(t) \/ Life!Issue(t) \/ Life!Spend(t)
  BY <1>1, CommitIssue, CommitSpend
<1> QED BY <1>2, CommitUser DEF Life!Next

LEMMA AdministerLife ==
  ASSUME IInv, Administer PROVE Life!Next
<1>1. PICK x \in Users, status \in {"ACTIVE", "SUSPENDED"} :
        /\ account[x].status # "absent"
        /\ account' = [account EXCEPT ![x] = [account[x] EXCEPT !.status = status]]
  BY DEF Administer
<1>2. UNCHANGED <<token, redeemed>>
  BY DEF Administer
<1>3. ASSUME NEW t \in Tok PROVE Life!Keep(t)
  BY <1>2 DEF LinkView, Life!Keep
<1>4. ASSUME NEW u \in Users PROVE Life!Stay(u) \/ Life!SetStatus(u)
  <2>1. account[u] \in AccountRow /\ account \in [Users -> AccountRow]
    BY Types DEF TypeOK
  <2>2. CASE u # x
    BY <1>1, <2>1, <2>2 DEF UserView, Life!Stay
  <2>3. CASE u = x
    <3>1. /\ account'[u].status = status /\ account'[u].email = account[u].email
          /\ account'[u].previous_email = account[u].previous_email
      BY <1>1, <2>1, <2>3 DEF AccountRow
    <3>2. UserView'[u] = [UserView[u] EXCEPT !.status = status]
      BY <3>1 DEF UserView
    <3>3. UserView[u].status # "absent" /\ UserView'[u].status = status
      BY <1>1, <2>3, <3>1, Views, ViewsNext
    <3> QED BY <3>2, <3>3 DEF Life!SetStatus
  <2> QED BY <2>2, <2>3
<1> QED BY <1>3, <1>4 DEF Life!Next

\* Every other step leaves the committed rows alone.
LEMMA StepLife ==
  ASSUME IInv, OwnInv, RedeemedInv', [Next]_vars
  PROVE  Life!Next \/ UNCHANGED <<UserView, LinkView>>
<1>1. ASSUME UNCHANGED <<account, token, redeemed>>
      PROVE  UNCHANGED <<UserView, LinkView>>
  BY <1>1 DEF UserView, LinkView
<1>2. ASSUME NEW r \in Requests, Arrive(r) PROVE UNCHANGED <<account, token, redeemed>>
  BY <1>2 DEF Arrive, Signup, VerifyEmail, VerifyUser, ResendVerification, ChangePassword,
              RequestPasswordReset, ResetPassword, RequestEmailChange,
              ConfirmEmailChange, RevertEmailChange, Begin
<1>3. ASSUME NEW r \in Requests, Step(r), ~Commit(r)
      PROVE  UNCHANGED <<account, token, redeemed>>
  BY <1>3 DEF Step, SelectForVerify, SelectForActivation, SelectForChange,
              SelectForConfirm, SelectForRevert, Selected, WriteAddress, WriteSignup, WriteVerify, WriteResend,
              WritePassword, WriteForgot, WriteChange, WriteConfirm, WriteRevert,
              RollBack, Write
<1>4. Tick \/ UNCHANGED vars => UNCHANGED <<account, token, redeemed>>
  BY DEF Tick, vars
<1> QED BY <1>1, <1>2, <1>3, <1>4, CommitLife, AdministerLife DEF Next

\* The accounts and links of questr, as their transactions commit them, live
\* the life that AccountLifecycle describes (the account, token and e-mail
\* change parts of service.py and repository.py).
THEOREM Implements == Spec => Lifecycle
<1>1. Init => Life!Init
  <2> SUFFICES ASSUME Init PROVE Life!Init
    OBVIOUS
  <2>1. PICK home \in [Registered -> Emails] :
          /\ \A u, v \in Registered : u # v => home[u] # home[v]
          /\ account = [u \in Users |->
               IF u \in Registered THEN Verified(u, home[u]) ELSE NoAccount]
    BY DEF Init
  <2>2. \A u \in Users :
          /\ u \in Registered =>
               /\ account[u].status = "ACTIVE" /\ account[u].email = home[u]
               /\ account[u].previous_email = None
          /\ u \notin Registered =>
               /\ account[u].status = "absent" /\ account[u].email = None
               /\ account[u].previous_email = None
    BY <2>1 DEF Verified, NoAccount
  <2>3. \A u \in Registered : home[u] \in Emails /\ home[u] # None
    BY <2>1, Constants
  <2>4. UserView \in [Users -> [status : {"absent", "ACTIVE"}, email : Emails \cup {None},
                                previous_email : {None}]]
    BY <2>2, <2>3 DEF UserView
  <2>5. ASSUME NEW u \in Users, u \in Registered
        PROVE  /\ UserView[u].status = "ACTIVE" /\ UserView[u].email # None
               /\ Life!Free(u, UserView[u].email)
    BY <2>1, <2>2, <2>3, <2>5, Views DEF Life!Free
  <2>6. ASSUME NEW u \in Users, u \notin Registered PROVE UserView[u] = Life!NoUser
    BY <2>2, <2>6, UserRecords DEF Life!NoUser
  <2>7. \A t \in Tok : LinkView[t] = Life!NoLink
    BY NoLinkView DEF Init
  <2>8. LinkView = [t \in Tok |-> Life!NoLink]
    BY <2>7 DEF LinkView
  <2> QED BY <2>4, <2>5, <2>6, <2>8 DEF Life!Init
<1>2. IInv /\ OwnInv /\ RedeemedInv' /\ [Next]_vars => [Life!Next]_<<UserView, LinkView>>
  BY StepLife
<1> QED BY <1>1, <1>2, Invariance, Ownership, Redemption, PTL
        DEF Spec, Lifecycle, Life!Spec
=============================================================================
