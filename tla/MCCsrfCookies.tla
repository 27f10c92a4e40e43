---------------------------- MODULE MCCsrfCookies ---------------------------
(***************************************************************************)
(* TLC instances of CsrfCookies: session ids and request slots are         *)
(* interchangeable.                                                        *)
(***************************************************************************)
EXTENDS CsrfCookies, TLC

Symmetry == Permutations(Sid) \cup Permutations(Requests)
=============================================================================
