------------------------------ MODULE MCPayload ------------------------------
(* A small instance of Payload for TLC.                                    *)
EXTENDS Payload, TLC
=============================================================================
