---------------------------- MODULE MCDeployment ----------------------------
(* Deployment with three commands, one interruption and one edit. *)
EXTENDS Deployment
=============================================================================
