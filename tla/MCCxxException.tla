--------------------------- MODULE MCCxxException ---------------------------
(* CxxException with two calls into the VM nested, and three exceptions.    *)
EXTENDS CxxException, TLC

Symmetry == Permutations(Exceptions)
=============================================================================
