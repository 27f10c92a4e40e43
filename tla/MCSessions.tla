----------------------------- MODULE MCSessions -----------------------------
(***************************************************************************)
(* TLC instances of Sessions.  Session ids are interchangeable, and so are *)
(* the request slots: neither is ever compared except for equality.        *)
(***************************************************************************)
EXTENDS SessionsInv, TLC

Symmetry == Permutations(Sid) \cup Permutations(Requests)
=============================================================================
