------------------------------ MODULE MCBundle ------------------------------
(***************************************************************************)
(* Instances of Bundle for TLC.                                             *)
(***************************************************************************)
EXTENDS Bundle, TLC

CONSTANTS v1, v2, doc, proof

\* A version with a proof project and one without.
MCShips == v1 :> {doc, proof} @@ v2 :> {doc}

\* Flags as they are used together: a floor, a proof made here, advice only.
Flags(r, fl, a) == [ reprove |-> r, floor |-> fl, advisory |-> a ]

MCOptions == { Flags(FALSE, "carried", FALSE), Flags(TRUE, "reproved", FALSE),
               Flags(FALSE, "reproved", TRUE) }
=============================================================================
