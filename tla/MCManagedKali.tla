---------------------------- MODULE MCManagedKali ----------------------------
(* Instances of ManagedKali: two actions at once, and two set-ups that end    *)
(* between import and marker, so that an interrupted set-up meets the         *)
(* leftovers of another.  Nothing tells the actions apart.                    *)
EXTENDS ManagedKali, TLC

ActionSymmetry == Permutations(Actions)
=============================================================================
