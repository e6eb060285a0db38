--------------------------- MODULE MCRabbitService ---------------------------
(* Small instances of RabbitService for TLC.                               *)
EXTENDS RabbitService, TLC
=============================================================================
