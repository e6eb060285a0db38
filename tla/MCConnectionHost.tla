-------------------------- MODULE MCConnectionHost --------------------------
(* Small instances of ConnectionHost for TLC.                              *)
EXTENDS ConnectionHost
=============================================================================
