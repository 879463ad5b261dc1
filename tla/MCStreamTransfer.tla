-------------------------- MODULE MCStreamTransfer --------------------------
(* Small instances of StreamTransfer.  The streams are interchangeable.    *)
EXTENDS StreamTransfer, TLC

Symmetry == Permutations(Streams)
=============================================================================
