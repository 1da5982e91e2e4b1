----------------------------- MODULE MCWorkspace -----------------------------
(* Workspace on small instances: the constants are given in the .cfg files. *)
EXTENDS Workspace
=============================================================================
