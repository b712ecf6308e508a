------------------------ MODULE MCCertificateRenewal ------------------------
(***************************************************************************)
(* The instance of CertificateRenewal for TLC: one site of two names, the  *)
(* second of them covered by a wildcard.                                   *)
(***************************************************************************)
EXTENDS CertificateRenewal

CONSTANTS a, b, s1

MCNames == [s \in Site |-> {a, b}]
MCPrimary == [s \in Site |-> a]
\* Both complete and valid, or the first without its key and expired.
MCStart == {[n \in Name |-> [gen |-> 2, rest |-> TRUE]],
            [n \in Name |-> [gen |-> IF n = a THEN 1 ELSE 2, rest |-> n # a]]}
=============================================================================
