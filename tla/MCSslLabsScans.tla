--------------------------- MODULE MCSslLabsScans ---------------------------
(***************************************************************************)
(* Instances of SslLabsScans for TLC: the hosts are model values, the      *)
(* identifiers numbers, which are handed out in order.                     *)
(***************************************************************************)
EXTENDS SslLabsScans

CONSTANTS h1, h2

\* The first site comes and goes, the first site changes in every way, both
\* come and go; the second one only keeps its rows.
ComesAndGoes == {h1} \X {"on", "gone"}
AnyChange == {h1} \X {"on", "off", "gone"}
BothComeAndGo == {h1, h2} \X {"on", "gone"}
=============================================================================
