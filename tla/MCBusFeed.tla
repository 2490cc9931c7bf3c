------------------------------ MODULE MCBusFeed ------------------------------
(***************************************************************************)
(* Instances of BusFeed for TLC.  The inputs are interchangeable: no       *)
(* definition of BusFeed tells one from another.                           *)
(***************************************************************************)
EXTENDS BusFeed, TLC

InputSymmetry == Permutations(Inputs)
=============================================================================
