------------------------------- MODULE MCEcFlash -------------------------------
(* The smallest flash with a block to skip and one to rewrite, and a block  *)
(* with a unit that is not the last.  Nothing tells the images apart; only  *)
(* safety is checked under their symmetry.                                  *)
EXTENDS EcFlash, TLC

ImageSymmetry == Permutations(Images)
=============================================================================
