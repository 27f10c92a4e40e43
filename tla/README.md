# A verification project for questr

questr is a FastAPI authentication backend on PostgreSQL and Redis: signup with
e-mail verification, login with server-side sessions, password reset and change,
e-mail change with a 48 h hold, roles, and impersonation of users by superusers
with an audit log. This directory holds TLA+ models of it, the TLC runs that
check them and TLAPS proofs of their main properties. Source paths below are
relative to the repository (`src/questr/...` in `PROJECT.json`).

    tlc -workers 2 -config sessions_password.cfg MCSessions.tla
    tlc -workers 2 -config accounts_email.cfg MCAccounts.tla
    tlc -workers 2 -config csrf_cookies.cfg MCCsrfCookies.tla
    tlc -workers 2 -config limiters.cfg MCLimiters.tla
    tlapm SessionsProofs.tla        # likewise SessionsRoles, SessionsPasswords,
                                    # SessionsLimits, SessionsRefinement,
                                    # AccountsProofs, CsrfProofs, LimitersProofs

`PROJECT.json` lists the runs, the lines each definition stands for (`map`), a
mutation of the code model for every property, the hazards and the theorems.

## 1. The system

| component | state it keeps | operations | interacts with |
|---|---|---|---|
| sessions (`SessionService`, `SessionRepository`) | table `sessions`: owner, `is_active`, idle and absolute expiry, impersonator and his session, CSRF hash | login, validate_session, logout, logout_all, rotate_csrf, start_impersonation, stop_impersonation | reads users; writes audit rows; the login limiter guards login; the CSRF middleware reads the hash |
| transactions (`orm/base.py`, `get_current_user`) | one open transaction per request | commit after the handler, rollback on an exception, an extra commit of an expiry | every repository |
| passwords (`AccountService`) | `users.password_hash` | change_password, reset_password | revokes sessions, deletes reset tokens, writes audit rows |
| account status | `users.status`, table `email_verifications` | signup, verify_email, resend_verification | login and the token operations read the status |
| reset tokens | table `password_reset_tokens` | request_password_reset, reset_password | deleted by password and e-mail changes |
| e-mail change | table `email_change_requests`, `users.email`, `previous_email`, `email_changed_at` | request, confirm, revert | signup and login look addresses up; reset links are routed by the hold |
| roles | `users.role` | change_role | permissions of impersonation and of change_role; audit rows |
| audit log | table `audit_log` (insert only) | insert | written by the five above |
| login limiter | Redis: failures and lockout per account, attempts per IP | check_login_allowed, record_failure, record_success, record_ip_attempt | login, change_password, request_email_change |
| send limiters (`DualRateLimiter`, `RedisRateLimiter`) | Redis: sorted sets of timestamps per account and IP | check_allowed, consume_on_send, is_allowed | forgot password, e-mail change, resend |
| CSRF middleware | the hash in `sessions`, two cookies in the browser | double-submit check | login, impersonation, rotation set the cookies |
| health, e-mail rendering, factory, settings, shell, scripts, deployment | none over time | probes, templates, wiring, tooling | - |

**What is hard.** Several uvicorn workers run requests at the same time. Each
request is one READ COMMITTED transaction that ends after its response has been
built; handlers read, decide and write in separate statements and take no locks
but those of their UPDATEs. So everything that is read before it is used can be
stale: the session cap, the status and password of a user who logs in, the
session row that is slid, tokens that are redeemed, the role of an actor.
Revocation updates many rows and can deadlock. The limiters check, then act, in
separate Redis commands. Time decides in several places (idle window, absolute
expiry, time-box, tokens, hold), and sequences of legal calls across days
(change of e-mail, second change, revert) reach states nobody wrote down.

**What makes each component correct.**

- sessions: a closed or expired session never comes back; a password change
  leaves no earlier session open but its own; the cap holds up to the races the
  code allows; an impersonation can always be traced to its administrator, and
  the audit log tells exactly what happened; every request ends.
- account status and tokens: a token works once, in time, for its user; a change
  that invalidates tokens leaves none; a suspended user is not reinstated; an
  address belongs to one user, held addresses included; a revert restores the
  address that was left.
- roles: an actor cannot change his own role; there is always a superuser.
- login limiter: after the failures the settings allow, the account is locked for
  the lockout period; a success does not erase a lockout.
- send limiters: the number of mails per window is bounded.
- CSRF: the page that holds the current token is accepted, another is not.

## 2. Plan

In order; a module is written so that it can be proved about (no RECURSIVE, one
action per operation, named invariants).

1. **Sessions** (done): sessions, the transaction boundary, the revocation by
   password changes, and change_role, whose permission comes with the session.
   `SessionsInv` states its inductive invariants; `SessionsProofs`,
   `SessionsRoles`, `SessionsPasswords` and `SessionsLimits` prove all of its
   safety properties.
2. **SessionLifecycle** (done): the abstract specification of sessions and audit
   log, which `Sessions` implements (checked in a run, proved in
   `SessionsRefinement`).
3. **Accounts** (done): status, verification, reset tokens, password, e-mail
   change and hold in one module, since they share the `users` row.
   `AccountLifecycle` is their abstract specification: what the owner of an address
   may rely on. `AccountsInv` states the inductive invariants, `AccountsProofs` proves
   all safety properties that hold, and that `Accounts` implements
   `AccountLifecycle`.
4. **CsrfCookies** (done): the cookie jar with its two paths, the middleware and
   the routes that rotate tokens; `CsrfInv` and `CsrfProofs` prove
   `TokenOfItsSession` and `Serial`.
5. **Limiters** (done): the login limiter, the two send limiters and the resend
   limiter, their Redis commands as atomic steps, requests interleaved.
   `LimitersInv` states the inductive invariants, `LimitersProofs` proves the six
   properties.

## 3. Sessions

### How the code becomes a state machine

`session` is the committed `sessions` table, `user` the columns of `users` that
sessions depend on (role, status, and the number of password changes in place of
the hash; `logged` is the `new_role` of the user's last audit row). `audit` counts the committed IMPERSONATION_START and _END rows of each
impersonation session. A request is a record in `request`: its program counter,
what it has read (`uid`, `role`, `at`) and what it is to do. `write[r]` holds the
row versions that `r` has written and not committed. An entry in it is also the
row lock: another UPDATE of that row waits (`CanLock`). `HoldsUser` is the lock
of a `users` row taken by the UPDATE of `password_hash`, `SetsRole` the one taken by
that of `role`.

| action | code |
|---|---|
| `Receive`, `Expire`, `Slide` | `get_current_user` and `validate_session`: SELECT and checks; deactivation with its own commit; UPDATE of the idle window and SELECT of the user |
| `Login`, `Create` | `login`: lookup, status, password; then count, cap and INSERT |
| `Logout` | `logout` |
| `ChangePassword`, `ResetPassword` | up to the UPDATE of `users` |
| `RevokeAll`, `RevokeOne` | `logout_all`: the rows an UPDATE selects, then each row, whose condition is evaluated again when its lock is free |
| `Impersonate` | `start_impersonation_route` and `start_impersonation` |
| `Answer` | the refusals that `start_impersonation_route` and `change_role_route` return (404, 403) and do not raise: the slide of the session commits |
| `CheckStop`, `ExpireAdmin`, `FinishStop` | `stop_impersonation`; its errors are answered 401 by the route, so the transaction still commits |
| `SelectRole`, `WriteRole` | `change_role_route`: permission, own-role guard and SELECT of the target; the UPDATE, which the ORM leaves the column out of when it equals the value loaded, and the audit row |
| `Commit`, `RollBack` | the end of `get_async_session`; RollBack stands for an exception, a lost connection and a deadlock victim |
| `Tick`, `Administer` | the clock; status changes by an operator |

Statements of a request are separate actions wherever another request can make a
difference in between. Merged are: the slide with the SELECT of the user that
follows it (nothing in between reads or writes anything shared but the row of
which the lock is held; the role and status read then could equally have been
read right after); the cap check with the INSERT (an INSERT of a fresh row
conflicts with nobody and is invisible until the commit, so the race between two
cap checks is fully present between Create and Commit); in `stop_impersonation`
the slide of the administrator's session with the deactivation of the
impersonation, whose row the request has locked since its own slide; and the
deactivation of an expired session with the commit that follows at once.

`stamp` is a history variable: the password count a session was opened on, and
whether its opening overlapped a password change. `stale` in `user` and `raced` in a
request's `grant` say that a change of role was decided on a role that had changed
since. No action reads them.

A request whose handler raises just rolls back. RollBack is possible at every
step, so every failure between two statements is in the model.

Left out: the CSRF hash and cookies, IP and user agent, rate limiting (a login may
be refused for more reasons than here), wrong passwords (such a login changes
nothing in the tables).

### Properties

| property | meaning |
|---|---|
| `TypeOK` | types |
| `AuditMatchesSessions` | one START row per impersonation session; at most one END row, however many stops, logouts and revocations race; none for a session still open |
| `ImpersonationLinked` | an impersonation session leads to an existing session of its impersonator, who is not its user |
| `CapOvershootBounded` | concurrent logins exceed `MAX_CONCURRENT_SESSIONS` by less than the number of requests that run at the same time |
| `PasswordChangeRevokes` | after a password change no earlier session of the user is open but the one that made it, and those whose opening overlapped the change |
| `DeadStaysDead` | a closed or expired session on which no earlier request is still at work is never admitted or extended again |
| `AuditTellsRole` | the last audit row of a user tells his role, except when another change of it committed between SELECT and UPDATE |
| `SuperuserRemains` | the last superuser is lost only when superusers demote each other at the same time |
| `Lifecycle` | the committed rows implement `SessionLifecycle` |
| `WorkShrinks` | every statement of a request brings it nearer to its end, and no other request sets it back |
| `OnlyRevocationsDeadlock` | transactions that wait for each other in a cycle include a revocation |
| `RequestsEnd` | every request ends |
| `NoSessionOnOldPassword` | as the docstring of `reset_password_route` has it, without the overlap: violated |

### Runs

| run | instance | shows |
|---|---|---|
| `sessions_impersonation` | 2 users (1 superuser), 3 session ids, 2 concurrent requests, cap 1, clock 0..2, idle 1, lifetimes 2 | the safety properties and the refinement under login, impersonation, stop and logout; 389,594 states |
| `sessions_password` | the same with cap 2, 2 password changes, clock fixed | `PasswordChangeRevokes`, and `IInv`; 1,239,819 states |
| `sessions_nested` | 2 users, 3 session ids, 2 concurrent requests, cap 2, role and status changes, clock fixed | chains of impersonation, roles and their audit rows under concurrent changes, and that none of them deadlock; 1,184,708 states |
| `sessions_liveness` | 1 user, 2 sessions, 2 requests | `RequestsEnd` under `FairSpec`, and its variant `WorkShrinks`; 29,758 states |
| `sessions_old_password` | login and reset | the violation of `NoSessionOnOldPassword` |

Why these bounds are enough: the conflicts are between two requests and at most
two rows (an impersonation and its administrator's session), so three session ids
allow the two and one more login, and a third concurrent request adds only further
waiting. Idle 1 against lifetimes of 2 makes both expiries happen separately, and
administrators' sessions expire before and after the impersonations. Two password
changes let one change overlap another. The proofs do not depend on these bounds.

`Sid` is the supply of session ids and bounds the number of sessions ever created;
`MaxTime` and `MaxPassword` bound clock and password changes; `Kinds` selects the
requests of a run. `sessions_liveness` counts on weak fairness of nothing but what
the system does: a worker keeps running its handler and PostgreSQL serves lock
waiters in turn (strong fairness of `Step(r)`); a refused request and the members
of a cycle of waiting transactions are eventually rolled back (an exception, and
`deadlock_timeout`). Arrivals, the clock and administration are not fair. Deadlock
checking is on: an idle system can always receive or tick in the instances used,
and requests can always be rolled back.

### The disagreement

`NoSessionOnOldPassword` states the docstring of `reset_password_route` (api.py:692).
TLC's trace: a login verifies the old password; the reset updates the password and
revokes what is committed; both commit; the login's session, opened with the old
password, stays active until it expires. `PasswordChangeRevokes` says that this
overlap is the only exception.

### Proofs

`SessionsInv` states `IInv`. The properties are not inductive by themselves:
`AuditMatchesSessions` needs to know that a stop at its commit holds the lock of a
committed row that is still active there, which follows from its re-read of the row
after its own slide; that in turn needs mutual exclusion of locks (`LocksExclude`),
that a row version keeps owner, link and time-box of the row and never reopens it
(`WriteOK`, `Keeps`), and what a request knows at each program counter
(`RequestOK`). `ImpersonationLinked` needs that the administrator's row exists when
the impersonation is inserted.

`SessionsProofs` proves, for every value of the constants that satisfies the
assumptions in `Sessions` (None is no id, superusers are users, finitely many session
ids and requests, the bounds are numbers), `Spec => []IInv` and from it `TypeOK`,
`AuditMatchesSessions` and `ImpersonationLinked`. One lemma says for each shape of a
step what is enough for `IInv'`: `ReadStep`, `UpdateStep`, `InsertStep` (all from
`LocalStep`), `TransactionEnds`, `SameRows`; then there is one lemma per action.

The others build on `IInv`:

- `SessionsRefinement` proves `Spec => Lifecycle`. The refinement mapping takes
  `session` without `expires_at`, the window that slides, and `audit` as it is; `write`
  and `request` are hidden. Every step but `Commit` and `Expire` is a stutter; those
  two close or open rows, and the audit rows come in the same step.
- `SessionsRoles` proves `AuditTellsRole` and `SuperuserRemains` from `RolesInv`: a
  change of role at its write still has its permission and still knows the role it
  replaces unless it is marked as raced, and the lock of a users row has one holder.
- `SessionsPasswords` proves `PasswordChangeRevokes` from `PwInv`: a change that has
  selected its sessions accounts for every open session of its user (still to be
  updated, or inactive in its own versions), and every request that is opening one is
  marked as raced; changes of one user exclude each other.
- `SessionsLimits` proves `CapOvershootBounded` from `CapInv` (a login at its commit
  has inserted one row; a commit turns a login that has passed the cap into one
  session, so the sum stays) and `DeadStaysDead`, an action property, from `IInv`
  alone: nobody slides a row that he has not found alive, and no open version of it
  is active. `RequestsShrink` proves `WorkShrinks` from `IInv`: `Work`
  counts the statements a request has before it, for a revocation the rows it has
  selected. `DeadlockNeedsRevocation` proves `OnlyRevocationsDeadlock` from `WaitInv`.
  Whoever holds the lock of a users row waits, if at all, in the middle of a revocation, so
  a cycle without one consists of stops, each waiting for the session that the next
  was sent with (`OwnRowOnly`: a stop has locked nothing else yet); impersonations
  would lead back in a circle. `Grounded` says that they do not, in a form that needs
  no induction over chains: every set of sessions has a member whose link leads out of
  it.

What is left of `RequestsEnd` to TLC is thus the waiting: that fairness and the
database's deadlock detection end it (fairness and ENABLED are beyond the prover). TLC
finds no violation of `PwInv` and `CapInv` on the instance of `sessions_password`, nor
of `WaitInv` on it and on that of `sessions_nested`.

## 4. Accounts

### How the code becomes a state machine

`account` is the committed `users` table (status, `email`, `previous_email`,
`email_changed_at`). `token` holds the committed rows of `email_verifications`,
`password_reset_tokens` and `email_change_requests`, told apart by `kind`; a token
id is used once, so a deleted row stays `"deleted"`, and keeps, for the properties
only, whose it was and for which addresses (`Deleted`); no action reads those. A change request has one row
for its two links (`used_at`, `revert_used_at`). The address a verification or
reset link is mailed to is kept in the row as `email`, since that is what the
routing is about.

Every operation of `AccountService` reads, then writes, then is committed; those
that go through a method of the repository which reads the row of the user a second
time have that SELECT as a step of its own:

| actions | code |
|---|---|
| `Signup`, `WriteSignup` | `signup` |
| `VerifyEmail`, `SelectForVerify`, `WriteVerify` | `verify_email`; the token is marked, then `update_status` reads the user |
| `VerifyUser`, `SelectForActivation`, `WriteVerify` | the operator's script `verify_user.py`, which issues a token that is used already and activates the user |
| `ResendVerification`, `WriteResend` | `resend_verification`, and `request_password_reset` of a PENDING user |
| `ChangePassword`, `ResetPassword`, `WritePassword` | `change_password`, `reset_password`: their writes to the account and token tables are the same |
| `RequestPasswordReset`, `WriteForgot` | `request_password_reset` |
| `RequestEmailChange`, `SelectForChange`, `WriteChange` | `request_email_change`: the address to leave is read first, the new one checked after the rate limit and the password |
| `ConfirmEmailChange`, `SelectForConfirm`, `WriteConfirm` | `confirm_email_change`; `update_email` reads the row again |
| `RevertEmailChange`, `SelectForRevert`, `WriteRevert` | `revert_email_change`; `revert_email` reads the row again |
| `Commit`, `RollBack` | the end of `get_async_session`; an exception, a unique index, a deadlock victim |
| `Tick`, `Administer` | the clock; an operator sets a status |

`update_status`, `update_email` and `revert_email` set attributes of the row they have
loaded. SQLAlchemy leaves a column out of the UPDATE if it is set to the value it was
loaded with, and by the time the UPDATE has the lock of the row that value may have
changed. `sets` in `request` is what the SELECT decides: whether the UPDATE has the
status (`SetsStatus`) or the address (`SetsEmail`) in it. `Activated` and `Addressed`
keep what the row has when it is not. So a verification that has loaded ACTIVE leaves a
suspension that commits before its UPDATE standing, and a second confirmation that has
found the new address there already leaves the address to a revert that commits before
its UPDATE.

Apart from those SELECTs the reads of an operation are one step, and so are its
writes: between two
writes the request holds the lock of what it has written, and a request that
would wait in the middle is taken to wait before its first write (a verification
marks its token before its SELECT, and holds that lock from there on). Deadlocks
between half-written requests end in a rollback, which is possible at every step
anyway. Locks are those of PostgreSQL: an UPDATE that gives `users.email` (a unique
column) another value excludes every other writer and the foreign key check of an
INSERT into a token table; any other UPDATE excludes UPDATEs only (`WriteAddress`
chooses between them). That difference
matters: a forgot-password INSERT runs beside a password change, but not beside a
change of address. The unique index on `email` makes a writer wait for another
that is about to have the address (`EmailFree`); once the address is taken only
`RollBack` is left.

Left out: password rules, the hash, wrong current passwords and rate limits (the
request is refused and leaves nothing in these tables), audit rows, mail delivery,
and the `logout_all` with which the password, confirm and revert routes end, which
`Sessions` models after a password change.

`gen`, `stamp` and `redeemed` are history variables: the number of credential
changes of a user; of a reset token, what that number was when it was asked for and
whether a change was under way then or before the token was committed; of a change
token, whether the account moved between the two SELECTs of its request, or between
the SELECT and the UPDATE of a confirmation that leaves the address out
(`Overtaken`); and how many commits redeemed a token. No action reads them, but for
`MaxChange`, which bounds `gen`.

### Properties and runs

| property | meaning |
|---|---|
| `TypeOK` | types; every mailed link has an address |
| `ResetTokensInvalidated` | after a password change, a reset, a confirmation or a revert no reset token asked for before is left, but one whose request overlapped the change |
| `ResetLinkHeld` | a reset link that works while a hold is open was mailed to the held address, with the same exception |
| `HoldConsistent` | `previous_email` and `email_changed_at` are set together, and the held address is the one that a redeemed change of the account was to leave; it is the current address as well only when the account moved while such a change was asked for or confirmed |
| `RedemptionsBounded` | a token is redeemed at most as often as requests run at the same time. The docstring of `reset_password` says "single-use"; two requests that have both read the token break that, no more than that does |
| `LinksRotated` | an account never has more reset links, or change links, than requests run at the same time, although a rotation does not see the tokens of open requests. Two overlapping forgot-password requests do leave two links that work |
| `PendingVerifiable` | a PENDING user always has an unused verification token |
| `AddressesDistinct` | no two accounts have the same address, whatever signups, changes and reverts overlap |
| `Lifecycle` | the committed rows implement `AccountLifecycle` |
| `NoReinstatement` | as `signup.md` has it: violated |
| `LinkRoutedByHold` | as the comment in `request_password_reset` has it: violated |

| run | instance | shows |
|---|---|---|
| `accounts_tokens` | 2 users who sign up for the same address, 3 tokens, 2 concurrent requests, token lives 1, clock 0..2, 2 credential changes, suspensions, the operator's script | the token properties, who gets the address, and the refinement of accounts and their verification and reset links; 976,755 states |
| `accounts_email` | 1 registered user, 3 addresses, 3 tokens, 2 concurrent requests, hold 1, lives 1, clock 0..1, 2 credential changes; changes, confirmations, reverts and forgotten passwords | the hold properties, the rotation of links, and the refinement of changes and reverts; 519,027 states |
| `accounts_reinstated` | signup, suspension, verification | the violation of `NoReinstatement` |
| `accounts_link` | change, confirmation, forgotten password | the violation of `LinkRoutedByHold` |

`AccountLifecycle` knows accounts (status, address, held address) and links, no
requests, transactions or clock. In each step an account stays as it is, is signed up
with a free address, has its status set, moves by one of its own change links, which is
spent in the same step, or moves back by one whose revert link is. A move takes it to
the address of the link, or leaves it where it is if that address is one it has had
already; it opens a hold on the address the link was asked from. A move back takes it to
an address it has left, or leaves it where it is; the hold ends. A
link is issued once, for an address its account has (or had, for a change already under
way) and never changes owner or address; used, reverted and redeemed links stay so; no
account is PENDING once a verification of it has been redeemed in the same step. So the
order of second changes,
late confirmations, double reverts and signups that no document describes gives no
account an address, a hold or a link it has not asked for. What it does not promise is
that the held address is the one just left, that a redeemed change brings the new
address, or a redeemed verification the status ACTIVE: where requests overlap, the ORM
leaves the column out (see below).

Why these bounds are enough: tokens and holds belong to one user, and the locks that
decide are on his row, so the conflicts are between two requests of one user; users
meet only in the unique index and the look-up of addresses, for which the two users of
`accounts_tokens` compete. The proofs have no such bounds. Three addresses allow a
change, a second change and a revert; three tokens allow a rotation while the old
token is being redeemed, and a change that is confirmed twice while it is reverted, with
another one asked for meanwhile. In
`accounts_email` the clock reaches the boundary of a hold and of the tokens (`<` in the
look-up of held addresses, where the hold is over, `<=` in the revert and for tokens,
which still work); in `accounts_tokens` it goes on to 2, when tokens are over. Two
credential changes are enough for a change and its revert, and a second confirmation
that began before them may come on top.
`Tok`, `MaxTime`, `MaxChange` and `Kinds` are the bounds. No
fairness is assumed: all properties are safety properties.

### The disagreements

`NoReinstatement` states step 5 of the Email Verification Flow in
`docs/product/use_cases/user/signup.md`. TLC's trace: a user signs up, is suspended,
follows his link, and the request goes through: `verify_email` never reads the
status.

`LinkRoutedByHold` states the comment at service.py:407. TLC's trace: the address is
changed and confirmed, the hold ends, a forgotten password is answered with a link
mailed to the old address, because the code tests `previous_email` without the
window and nothing clears it.

More of what was met, in the model but not stated as runs:

- `signup` does not look at held addresses, so a revert can run into the unique index;
  a second change request
  that is reverted with its own revert link can still be confirmed, which opens a hold
  on an address the user has left already. `AddressesDistinct` and `Lifecycle` say what
  both of them can do no harm to.
- An account can end with a hold on its own address. A confirmation that has found the
  new address there already (a first one has committed) waits for a revert: the revert
  brings back the old address, the confirmation writes the hold alone. Or a request for
  a change reads the address it is to leave, a revert commits, and the check of the new
  address finds free what the request has read as the old one. `HoldConsistent` says
  that these two are the only ways.
- A verification that has loaded the user as ACTIVE (the script, another verification or
  an operator was first) is spent while a suspension that commits before its UPDATE
  stands.
- Two overlapping requests for a reset link leave two links that work: the rotation of
  each deletes the tokens it sees (`LinksRotated`).
- Two overlapping redemptions of one token both succeed, where the docstring of
  `reset_password` says "single-use" (`RedemptionsBounded`).

### Proofs

`AccountsProofs` proves eight of the nine properties of the passing runs for all values
of the constants (finitely many requests), four of them from the `IInv` of `AccountsInv`
alone. `LinksRotated`, which is about numbers of tokens, is only model-checked. None
is inductive by itself, since every operation acts on what it has read before. `IInv`
says what a request has read and may still rely on (`Reads`: the account exists, a
token may have been deleted under its hands but not changed its owner), and what its
open writes have to do with the committed rows: the row version it is about to commit
(`RowWritten`), the tokens it deletes (`TokensDeleted`), inserts (`TokenInserted`) and
marks as used (`TokenMarked`), and that a change has seen every reset token that is
not marked as raced (`ChangeSeen`). Writers of one account, and of one token, exclude
each other (`LocksExclude`). `RedemptionsBounded` needs `RedeemedInv` on top: the
redemptions of a token and the requests that have read it are together no more than
the requests, and nobody reads a token that is spent.

`AddressesDistinct` and `Lifecycle` rest on `OwnInv`, which goes along with `IInv`. An
address is taken at a commit, long after it was looked for, so `AddressesDistinct`
needs `Claims`: nobody else has the address an open UPDATE or INSERT of `email` writes,
and no other open one writes it. It holds at the write by `EmailFree` and afterwards
since any other account that takes the address has to pass `EmailFree` as well. The
rest of `OwnInv` says whose the addresses are that tokens, requests and open rows
carry: an account that has asked for a change has its address recorded in one of its
change tokens, deleted ones included (`AccountKnown`), and a request that was given an
address from a token or a row still finds it among those the account has had
(`RequestKnown`, `RowKnown`, `NewKnown`), although the token may have been deleted and
the account moved meanwhile.

The refinement mapping takes status and addresses of `account` and all of `token` but
the expiry, with `redeemed[t] > 0` in place of the number; `request` and the clock are
hidden. Only `Commit` and `Administer` are not stutters. For a commit the proof shows
for each account and each token which of the abstract steps it takes: the account of
the request does what its `RowKnown` says, the others stay; the tokens it deletes or
marks are spent, the one it inserts is issued. That the move and the spent link come in
one step is `TokenMarked`: the commit marks the token of the request unless somebody
has deleted it, and a deleted link is spent too.

## 5. CSRF protection

### How the code becomes a state machine

`jar` holds the cookies of one browser: `session_id`, and the two cookies named
`csrf_token`, one for path `/` (`root`, set by login and change_password) and one for
`/api/v1/auth` (`scoped`, set by the impersonation routes). `session` holds the
committed rows with their token in place of its hash (a hash is equal exactly when the
token is), `write` the open versions, `minted` and `issued` the tokens drawn and the
session each was drawn for. A tab sends a request with the cookies and the header of
that moment (`Send`); `Middleware` is `CsrfMiddleware`, in a transaction of its own;
`Authenticate` is `get_current_user`; then one action per route: `Login`, `Plain` (a
route that changes nothing here), `Logout`, `LogoutAll`, `ChangePassword`,
`Impersonate`, `Stop` and `Restore`. FastAPI runs what follows the yield of
`get_async_session` after the response is sent, so a request in `"answer"` may have its
response delivered or lost (`Deliver`, `Lose`) before or after its transaction commits
or fails (`Commit`, `CommitFails`). `CloseElsewhere` is an expiry or a revocation from
another device. `clean` is a history variable.

| property | meaning |
|---|---|
| `TypeOK` | types, and one writer per row |
| `TokenOfItsSession` | a state-changing route runs only with a token minted for its own session, unless the session's INSERT was not committed when the middleware looked |
| `Serial` | a browser that sends one request after the other, all committed and answered, and has not touched impersonation since its login, is never refused |
| `StopReachesRoute` | as the docstring of `stop_impersonation_route` has it: violated |

| run | instance | shows |
|---|---|---|
| `csrf_cookies` | 3 session ids, 2 concurrent requests, all kinds, 3 tokens | the three properties; 2,540,684 states |
| `csrf_stop` | login, impersonate, stop | the violation of `StopReachesRoute` |

Three sessions are a login, an impersonation and a second login, three tokens a
rotation on top of two of them; two requests are a rotation and a request that carries
the old token. `Kinds`, `Clients` and `MaxToken` are the bounds; the runs have
`Clients = {"browser"}`, the proofs hold for scripts that choose their cookie too. No
fairness is assumed. Deadlock checking is on: requests can always be sent.

`CsrfProofs` proves `TypeOK`, `TokenOfItsSession` and `Serial` for any numbers of
sessions, tabs and tokens. `IInv` (in `CsrfInv`): the middleware has compared the header
with a committed row; the token of a row, and of every open version of it, was minted
for that session; a row that is inactive stays so, and an id is never drawn again.

`Serial` needs more, `SerialInv`, because a login makes the browser clean whatever
happened before it, its own failed commit and the requests of other tabs included.
`HeardInv`: until the answer of a login arrives, no cookie, request or link of a row
names the session it has drawn (`LoginUnheard`), so nobody can have rotated the token
that the answer brings; an id not drawn yet is nowhere (`FreshUnheard`). Every step of a
request is `Discreet`: it passes on ids it has heard and mints tokens for those only.
`CleanInv`: while the browser is clean there is one request at most, it carries the
session of the jar, which is no impersonation, and the row it sees has the token of the
cookie for `/`, or the one its answer is about to set (`InStep`).

**The disagreement.** `StopReachesRoute` states the docstring "Stop impersonation and
restore the admin session" (api.py:867). After start_impersonation the browser holds
two `csrf_token` cookies. It sends the longer path first, the middleware's parser keeps
the last one, which is the token of the administrator's session and also the one a page
at `/` can read; its hash is not that of the impersonation's row, and the answer is
403. `src/hurl/README.md:211` works around it with an explicit Cookie header.

Also met, and in the model, but not stated as runs: a login whose response overtakes
its commit lets the next request pass the middleware unchecked when the commit comes
between the middleware and the authentication (its docstring expects a 401 there);
`GET /me` answers with the token of the cookie it was sent, so a page at `/` cannot get
the impersonation's token there; after a stop the administrator's new token is in
the scoped cookie only, until the next login.

## 6. Limiters

### How the code becomes a state machine

`failures`, `attempts` and `marker` are the three keys of `LoginRateLimiter` (sorted
sets as the number of members of each score), `sends` the sets of the two
`DualRateLimiter` instances. Each Redis command is one atomic step; a pruning and the
count after it are merged. `IpCheck`, `LockoutCheck`, `ClearMarker`, `ClearFailures`
are `check_login_allowed`; `FailAccount`, `FailIp`, `FailCount`, `FailMark` are
`record_failure`; `ResetFailures`, `ResetMarker` are `record_success`; `RecordIp`,
`record_ip_attempt`; `SendIpCheck`, `SendAccountCheck`, `check_allowed`;
`ConsumeAccount`, `ConsumeIp`, `consume_on_send`. `Verify` stands for the outcome of
the password check in `login`, `change_password` and `request_email_change`, `Mail` for
the mails of `request_password_reset` and `request_email_change`, which are counted
whether or not SMTP takes them. `Fail` is a failure of Redis or the death of a worker
at any step. `resends` holds the sets of `RedisRateLimiter`, whose members are their own
scores: `Resend` is the MULTI transaction of `is_allowed` (prune, add, expire, count),
with the time the call read when it arrived, `Expire` the expiry of its key. `mailed`,
`resent`, `lost`, `lifted` and `raced` are history variables. What `login` and
`resend_verification` do to the database is in `Sessions` and `Accounts`.

| property | meaning |
|---|---|
| `TypeOK` | types; no score lies in the future |
| `LockedWhenFull` | an account whose window is full is locked or about to be, but for a failure of Redis and a success that was under way |
| `LockoutHolds` | a lockout is never moved, and ends early only through a request that was past its check when it began |
| `AttemptsBounded` | recorded attempts of an address and failures of an account exceed their limits by less than the number of concurrent requests; failures may be more when a lockout did not take effect: removed by a racing success, lost by Redis, or just elapsed, until its failures are deleted |
| `SendsBounded` | the same for the mails sent in any window |
| `ResendsBounded` | in any window resends of at most `ResendMax` instants are let through, although the transactions of concurrent calls take place in any order, a late one prunes less than the others did and counts members later than itself, and the key may expire in between |

| run | instance | shows |
|---|---|---|
| `limiters` | 1 account, 1 address, 2 concurrent requests, 4 arrivals, limits 2 (3 per address), windows 1, 1 resend in a window of 2, lockout 2, clock 0..2, 1 failure | all six; 2,144,464 states |

Accounts and addresses have keys of their own, so one of each is enough; four arrivals
fill a window of 2 and overshoot it; the clock reaches the end of windows and of the
lockout. `MaxTime`, `MaxArrivals`, `MaxLost` and `Kinds` are the bounds; change_password,
which does what a login does but for the record of its success, is left out of the run to
keep it small (the proofs include it). Arrivals and
time being bounded, the model stops at the end, hence `CHECK_DEADLOCK FALSE`. No
fairness is assumed. An address is allowed one attempt more than an account has
failures, or the address would always stop the requests before the account does.

`ResendsBounded` speaks of instants since the member that a call adds is the time it has
read: two calls that read the same time are one member, and both are allowed when one
is. The "Maximum 3 resend requests per hour per IP address" of the signup use case
holds up to that.

### Proofs

`LimitersProofs` proves `LockedWhenFull`, `LockoutHolds`, `AttemptsBounded`,
`SendsBounded`, `ResendsBounded` and `TypeOK` for any accounts, addresses, limits, windows and number of requests
that satisfy the assumptions in `Limiters`. Beside that of the types, it uses four invariants of `LimitersInv`:

- `LockInv`: a request past its check has found no lockout, or one that has elapsed,
  unless a lockout began after the check (`raced`). A marker is thus removed only by a
  request that may, or by one that `LockoutHolds` names. `LockedWhenFull` is inductive
  beside it: `lifted` remembers that a racing success has taken the marker of a full
  window away, until the failures are deleted.
- `AttemptsInv`: the attempts in the window of an address together with the requests
  past its check stay within the limit, less one, plus the number of requests. While an
  account is not locked, its failures and the requests that have yet to count theirs
  do the same; from then on only requests already past the check add one.
- `SendsInv`: score by score, the slots taken and the slots owed cover the mails, but
  for the lost ones; and the mails in a window with the requests that may still mail
  stay within the limit, less one, plus the number of requests and what was lost. The
  guard `MaxArrivals` never cuts a score short, for a request mails once.
- `ResendInv`: what was let through in the window is still a member of the set, since a
  call prunes only what has left its own, earlier window; the count of the set is thus
  never less than what it limits. To the other three invariants a resend is a request
  that ends without a trace (`Leaves`).

`TypeOK` is proved from `SizesInv` (checked by TLC on the `limiters` instance first). Its
upper bounds, that no score ever has more members than `MaxArrivals`, are the hard part:
a request adds at most one member to a set (`Failed`, `Attempted` and `Charged` collect
the requests that have done so), so the members of a score together with the requests
that may still add theirs are at most the arrivals (`Room`).

Also met, and in the model, but not stated as runs: a login refused by the session cap,
and the successful check of change_password and request_email_change, are not counted
for the address, where the comment in login_rate_limiter.py:176 has "Every login attempt
counts"; `send_*` swallow SMTP errors, so a slot is consumed by a mail that was not
sent, where the docstring of `DualRateLimiter` promises otherwise; the limiters
catch the builtin `ConnectionError`, `TimeoutError` and `OSError`, which the exceptions
of redis-py do not derive from, so an outage of Redis is a 500 rather than a 503 (the
request is refused in both cases); `record_success` empties the window before it removes
the marker, so a window that fills in between is left without a lockout until the next
failure (`lifted`).

## 7. What is proved, what is only model-checked

Every safety property of the passing runs, every action property and both refinements
(`SessionLifecycle`, `AccountLifecycle`) are theorems, for all values of the constants
that satisfy the assumptions of their modules. Only model-checked is `RequestsEnd`, the
liveness of `sessions_liveness`: it rests on fairness, and fairness on ENABLED, which
the prover does not handle; its two safety halves, `WorkShrinks` and
`OnlyRevocationsDeadlock`, are theorems. The four disagreements are counterexamples of TLC. The
bounds on clocks and counters (`MaxTime` and the like) are constants of the
specifications, so the theorems hold for every value of them, but what they say of an
unbounded system is that no finite stretch of it violates them.

## 8. Not modelled

- Health probes, e-mail templates and SMTP, factory, settings, exception handlers,
  lifespan, routing: they keep no state over time. What an outage of the database or of
  Redis does to a request is `RollBack` and `Fail`.
- The interactive shell, operator scripts, migrations and deployment, but for the
  status changes of an operator (`Administer`).
- Of the routes: validation of names and passwords, response models, IP and user agent.
- Audit rows of password and e-mail operations: they are inserted in the transaction
  they tell of, and nothing reads them.

`components` in `PROJECT.json` has the status of each part.
