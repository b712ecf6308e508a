------------------------------ MODULE MCSignIn ------------------------------
(***************************************************************************)
(* SignIn with two browsers and two requests at a time, a password and two *)
(* secrets (or a change of the password), one recovery code and two time   *)
(* steps.                                                                  *)
(***************************************************************************)
EXTENDS SignIn, TLC

CONSTANTS b1, b2, r1, r2

MCBrowser == {b1, b2}
MCRequest == {r1, r2}
Symmetry == Permutations(MCBrowser) \cup Permutations(MCRequest)
=============================================================================
