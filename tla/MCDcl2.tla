------------------------------- MODULE MCDcl2 -------------------------------
(* Bounds on the number of calls for the runs of Dcl2. *)
EXTENDS Dcl2Session, Dcl2Callers

\* The same number of calls at both stations.
OneEach == [s \in Station |-> 1]
TwoEach == [s \in Station |-> 2]
\* Only the controller calls.
TwoController == [s \in Station |-> IF s = Controller THEN 2 ELSE 0]
OneController == [s \in Station |-> IF s = Controller THEN 1 ELSE 0]
\* One more message than there are sequence numbers.
Wrap == [s \in Station |-> IF s = Controller THEN SeqModulo + 1 ELSE 0]
=============================================================================
