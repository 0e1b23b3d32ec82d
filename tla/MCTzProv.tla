------------------------------ MODULE MCTzProv ------------------------------
(* Instances of TzProv for TLC: the directory of tractors and the one of     *)
(* trailers both have a number 1, for different plates; a plate of an open   *)
(* request has the same key in both.                                         *)
EXTENDS TzProv, TLC

CONSTANTS am, pr, c1, s1, s2, h1, h2, nC, plA, plB, plC, plD

PlateBook ==
  [x \in Kinds \X Keys |->
     CASE x = <<am, h1>> -> plA
       [] x = <<pr, h1>> -> plB
       [] x[2] = h2      -> plD
       [] OTHER          -> plC]

\* Tractors: the whole list; trailers: number 1 and the new plate.
Wishes ==
  [x \in Carriers \X Kinds \X Periods |->
     IF x[2] = am THEN Keys ELSE Keys \ {h2}]

SlotSymmetry == Permutations(Slots)

=============================================================================
