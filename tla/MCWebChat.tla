------------------------------ MODULE MCWebChat ------------------------------
(* WebChat on small instances: the constants are given in the .cfg files.   *)
EXTENDS WebChat
=============================================================================
