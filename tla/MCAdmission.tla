----------------------------- MODULE MCAdmission -----------------------------
(***************************************************************************)
(* Small fleets for TLC: control planes c1, c2, and c3 for the trio.         *)
(***************************************************************************)
EXTENDS Admission, TLC

CONSTANTS c1, c2, c3

pair == {c1, c2}
trio == {c1, c2, c3}

\* Fresh nodes carry no legacy label.
fresh(nodes) == [n \in nodes |-> "Pending"]
freshPair == fresh(pair)
freshTrio == fresh(trio)

\* A fleet half-way through the bash rollout: both members past the gate.
importedPair == [n \in pair |-> IF n = c1 THEN "Finalizing" ELSE "Configuring"]

trioSymmetry == Permutations(trio)
=============================================================================
