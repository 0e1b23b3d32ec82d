--------------------------- MODULE DeliveryLedger ---------------------------
(***************************************************************************)
(* What a queue of deliveries promises its recipients, whoever fills it and *)
(* whoever works it off: each item is delivered at most once per run that   *)
(* was granted for it.  A run that was granted is open until it is settled: *)
(* by a delivery or without one.                                           *)
(***************************************************************************)
EXTENDS Naturals

CONSTANT Items

VARIABLES granted, open, out  \* per item: runs granted, runs open, deliveries

ledger == <<granted, open, out>>

Init ==
  /\ granted = [i \in Items |-> 0]
  /\ open = [i \in Items |-> 0]
  /\ out = [i \in Items |-> 0]

\* One more run for each item of S.
Grant(S) ==
  /\ granted' = [i \in Items |-> IF i \in S THEN granted[i] + 1 ELSE granted[i]]
  /\ open' = [i \in Items |-> IF i \in S THEN open[i] + 1 ELSE open[i]]
  /\ UNCHANGED out

\* The open runs of E end, those of D with a delivery.
Settle(E, D) ==
  /\ open' = [i \in Items |-> IF i \in E THEN open[i] - 1 ELSE open[i]]
  /\ out' = [i \in Items |-> IF i \in D THEN out[i] + 1 ELSE out[i]]
  /\ UNCHANGED granted

Next ==
  \/ \E S \in SUBSET Items : Grant(S)
  \/ \E E \in SUBSET {i \in Items : open[i] > 0} :
       \E D \in SUBSET E : Settle(E, D)

Spec == Init /\ [][Next]_ledger

\* No item is delivered more often than runs were granted for it.
WithinGrants == \A i \in Items : out[i] <= granted[i]

=============================================================================
