------------------------- MODULE MCCertificateCache -------------------------
(***************************************************************************)
(* Instances of CertificateCache for TLC; all sets are model values.       *)
(***************************************************************************)
EXTENDS CertificateCache

CONSTANTS d1, d2, c1, c2, c3
=============================================================================
