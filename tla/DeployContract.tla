--------------------------- MODULE DeployContract ---------------------------
(***************************************************************************)
(* What "save and deploy" promises, with no database, no file and no lock: *)
(* Caddy changes only while a deployment is open, and a deployment ends    *)
(* with what Caddy runs stored, so that outside of deployments the         *)
(* database describes what runs (docs/features/sites.md and                *)
(* docs/development/architecture.md).  CaddyDeploy implements it under the *)
(* conditions Steady and Recovering of CaddyDeployProofs.                  *)
(***************************************************************************)
CONSTANTS
    Configuration,
    Nothing         \* stored before onboarding

VARIABLES
    running,   \* what Caddy serves
    stored,    \* what the database describes
    open       \* a deployment is under way

contractVars == <<running, stored, open>>

ContractInit ==
    /\ running \in Configuration
    /\ stored \in {running, Nothing}
    /\ open = FALSE

\* A deployment begins, or Caddy takes a configuration during one.
Deploy ==
    /\ open' = TRUE
    /\ running' \in Configuration
    /\ UNCHANGED stored

Store ==
    /\ open
    /\ open' = FALSE
    /\ stored' = running
    /\ UNCHANGED running

\* Before onboarding there is nothing to store a failure over.
GiveUp ==
    /\ open
    /\ stored = Nothing
    /\ open' = FALSE
    /\ UNCHANGED <<running, stored>>

ContractNext == Deploy \/ Store \/ GiveUp

\* The safety part: what may happen, without what must.
ContractSafety == ContractInit /\ [][ContractNext]_contractVars

ContractSpec == ContractSafety /\ WF_contractVars(Store)
=============================================================================
