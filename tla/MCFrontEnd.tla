----------------------------- MODULE MCFrontEnd -----------------------------
(* FrontEnd for TLC.                                                       *)
EXTENDS FrontEnd, TLC

Symmetry == Permutations(Users)

=============================================================================
