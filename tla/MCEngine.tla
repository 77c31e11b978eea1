------------------------------- MODULE MCEngine -------------------------------
(* Small instances of TransferEngine for TLC.                               *)
EXTENDS TransferEngine

CONSTANTS x1, x2, x3, w0, w1, n1, n2

OnNode0 == [x \in Xfers |-> w0]
OnNode1 == [x \in Xfers |-> w1]
X1OnNode0 == [x \in Xfers |-> IF x = x1 THEN w0 ELSE w1]

EveryNic == [x \in Xfers |-> Nics]
X1OnN1 == [x \in Xfers |-> IF x = x1 THEN {n1} ELSE Nics]
LocalNic == [x \in Xfers |-> IF Home[x] = w0 THEN {n1} ELSE {n2}]

TwoOneNone == [x \in Xfers |-> CASE x = x1 -> 2 [] x = x2 -> 1 [] OTHER -> 0]
TwoOne == [x \in Xfers |-> IF x = x1 THEN 2 ELSE 1]
TwoTwo == [x \in Xfers |-> 2]

LastOfX2 == {<<x2, 1>>}
=============================================================================
