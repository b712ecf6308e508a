------------------------- MODULE MCPasskeyCeremony -------------------------
(***************************************************************************)
(* PasskeyCeremony with one authenticator that counts and one that does    *)
(* not, three ceremonies and two answers at a time.                        *)
(***************************************************************************)
EXTENDS PasskeyCeremony, TLC

CONSTANTS phone, key, r1, r2

MCCounting == {phone}
MCSilent == {key}
MCRequest == {r1, r2}
Symmetry == Permutations(MCRequest)
=============================================================================
