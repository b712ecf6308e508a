----------------------------- MODULE MCEventBus -----------------------------
(***************************************************************************)
(* EventBus with three responses for two places, queues of two events, and *)
(* three events.                                                           *)
(***************************************************************************)
EXTENDS EventBus, TLC

CONSTANTS s1, s2, s3
=============================================================================
