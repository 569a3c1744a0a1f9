------------------------- MODULE MCWrapperLifecycle -------------------------
EXTENDS WrapperLifecycle, TLC

AddrSymmetry == Permutations(Addr)
WrapSymmetry == Permutations(Wrap)
Symmetry == AddrSymmetry \cup WrapSymmetry
=============================================================================
