--------------------------- MODULE MCAutoPublisher ---------------------------
(* Small instances of AutoPublisher for TLC.                               *)
EXTENDS AutoPublisher, TLC
=============================================================================
