------------------------------- MODULE MCDesk -------------------------------
(* An instance of Desk for TLC: two tasks on one clone, one that pushes      *)
(* without asking and one that gives up asking, and one task that asks and   *)
(* is answered; three deploys; two questions of the chief, and one question  *)
(* beside presses of role buttons.                                           *)
EXTENDS Desk

CONSTANTS t1, t2

ClientOnly == [t \in {t1, t2} |-> "client"]
ServerOnly == [t \in {t1} |-> "server"]
=============================================================================
