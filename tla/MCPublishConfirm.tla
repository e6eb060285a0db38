-------------------------- MODULE MCPublishConfirm --------------------------
(* Small instances of PublishConfirm for TLC.                              *)
EXTENDS PublishConfirm, TLC
=============================================================================
