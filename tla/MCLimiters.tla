----------------------------- MODULE MCLimiters -----------------------------
(***************************************************************************)
(* TLC instances of Limiters.  The request slots are interchangeable.  So  *)
(* are the addresses, but Idle names one of them.                          *)
(***************************************************************************)
EXTENDS LimitersInv, TLC

\* Only login, change_password and request_email_change share their keys.
MCMixes ==
  {[kinds |-> {"login", "password"}, arrivals |-> 5],
   [kinds |-> {"login", "email"}, arrivals |-> 4],
   [kinds |-> {"forgot"}, arrivals |-> 5],
   [kinds |-> {"resend"}, arrivals |-> 5]}

Symmetry == Permutations(Requests)
=============================================================================
