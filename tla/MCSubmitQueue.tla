----------------------------- MODULE MCSubmitQueue -----------------------------
(* Small instances of SubmitQueue for TLC.                                  *)
EXTENDS SubmitQueue

CONSTANTS p1, p2, p3

\* Five pushes by three clients turn a ring of three slots almost twice.
ThreeClients ==
    [p \in Producers |-> CASE p = p1 -> <<1, 2>> [] p = p2 -> <<3, 4>> [] OTHER -> <<5>>]

=============================================================================
