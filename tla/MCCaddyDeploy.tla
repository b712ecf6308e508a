--------------------------- MODULE MCCaddyDeploy ---------------------------
(***************************************************************************)
(* Instances of CaddyDeploy for TLC.                                       *)
(***************************************************************************)
EXTENDS CaddyDeploy, TLC

CONSTANTS p1, p2, w1, w2, s1, s2, d1, d2, d3, b0, b1, b2

\* One worker serves every slot; or each of two slots has its own.
Alone == [p \in Request |-> w1]
Apart == [p \in Request |-> IF p = p1 THEN w1 ELSE w2]

\* The formatter leaves every baseline alone; or b1 is b2 formatted.
Clean == [b \in Baseline |-> b]
Tidy == [b \in Baseline |-> IF b = b2 THEN b1 ELSE b]

\* b1 holds nothing but the options that Settings own; b2 holds them as well.
Optioned == [b \in Baseline |-> IF b = b0 THEN b1 ELSE b]

SecondRejected == {d2}
ThirdSkipped == {d3}

\* With Apart a slot and its worker are exchanged together.
Swapped == (p1 :> p2) @@ (p2 :> p1) @@ (w1 :> w2) @@ (w2 :> w1)
SwapWorkers == {Swapped, [x \in DOMAIN Swapped |-> x]}
=============================================================================
