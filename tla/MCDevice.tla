------------------------------ MODULE MCDevice ------------------------------
(* Device on small instances.                                              *)
EXTENDS Device, TLC

RestarterSymmetry == Permutations(Restarters)
=============================================================================
