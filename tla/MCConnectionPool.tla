-------------------------- MODULE MCConnectionPool --------------------------
(* Small instances of ConnectionPool for TLC.                              *)
EXTENDS ConnectionPool, TLC
=============================================================================
