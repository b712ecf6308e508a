-------------------------- MODULE MCOnboardingWizard --------------------------
(***************************************************************************)
(* The instance of OnboardingWizard for TLC.                               *)
(***************************************************************************)
EXTENDS OnboardingWizard, TLC

\* The operator's file with the Admin API open or off, and a host without one.
MCFiles == {[by |-> "operator", admin |-> a, sites |-> TRUE] : a \in BOOLEAN} \cup {Absent}

Symmetry == Permutations(Client)
=============================================================================
