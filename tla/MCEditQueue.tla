---------------------------- MODULE MCEditQueue ----------------------------
(* Instances of EditQueue for TLC.                                         *)
EXTENDS EditQueue, TLC

CONSTANTS w1, w2

\* w1 is the undo of a group of two, the others are single edits.
GroupOfTwo == [r \in Writes |-> IF r = w1 THEN 2 ELSE 1]
OneStep == [r \in Writes |-> 1]
=============================================================================
