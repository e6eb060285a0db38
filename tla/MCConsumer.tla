----------------------------- MODULE MCConsumer -----------------------------
(* Small instances of Consumer for TLC.                                    *)
EXTENDS Consumer, TLC

\* Channels and stoppers are interchangeable; used by the safety run only.
Symmetry == Permutations(Chans) \cup Permutations(Stoppers)
=============================================================================
