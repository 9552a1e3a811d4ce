----------------------------- MODULE MCReflector ----------------------------
(* Reflector for TLC: two names, an enabled and a disabled content and one *)
(* that differs from the first, and pages of one row, so that two rows are *)
(* already read in two pages.                                              *)
EXTENDS Reflector, TLC

Sym == Permutations(Names)
=============================================================================
