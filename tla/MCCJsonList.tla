----------------------------- MODULE MCCJsonList -----------------------------
(***************************************************************************)
(* An instance of CJsonList for TLC.  The items are interchangeable.       *)
(***************************************************************************)
EXTENDS CJsonList, TLC

ItemSymmetry == Permutations(Item)
=============================================================================
