-------------------------- MODULE MCEditService --------------------------
(* Instances of EditService for TLC.                                      *)
EXTENDS EditService, TLC

\* A value above MaxValue makes the engine clamp.
SmallValues == 0..2
Bits == 0..1
AllUiSlots == Slots
BothDirections == Directions

\* Objects that start in the same state are interchangeable.
Symmetry == Permutations(Existing) \cup Permutations(Objects \ Existing)
==========================================================================
