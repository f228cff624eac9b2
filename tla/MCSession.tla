----------------------------- MODULE MCSession -----------------------------
(* A small instance: two keys a door may present, a note that ends a            *)
(* correspondence, two of others, and one of another signer.                  *)
EXTENDS Session

CONSTANTS k1, k2

Note(i, c, t, k) == [ id |-> i, correspondent |-> c, terminal |-> t, signer |-> k ]

MCKeys  == {k1, k2}
MCNotes == { Note(1, 1, TRUE, k1), Note(2, 2, FALSE, k1), Note(3, 3, FALSE, k1),
             Note(4, 2, FALSE, k2) }
=============================================================================
