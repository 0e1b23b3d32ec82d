----------------------------- MODULE MCMailing -----------------------------
(* Instances of Mailing for TLC: two campaigns, the first with two rows.     *)
EXTENDS Mailing, TLC

CONSTANTS m1, m2, r1, r2, r3

ThreeHomes == r1 :> m1 @@ r2 :> m1 @@ r3 :> m2
OneHome    == r1 :> m1 @@ r2 :> m1
LoneHome   == r1 :> m1

\* The two rows of m1 are alike.
SameRows == Permutations({r1, r2})

=============================================================================
