------------------------------ MODULE MCPanes -------------------------------
(***************************************************************************)
(* Instances of Panes for TLC.                                              *)
(***************************************************************************)
EXTENDS Panes, TLC

CONSTANTS p1, p2, c1, c2, c3

\* A pane that may reconnect, and one that does not.
MCPaneOf == c1 :> p1 @@ c2 :> p1 @@ c3 :> p2

\* The two sockets of the reconnecting pane are alike.
MCSymmetry == Permutations({c1, c2})
=============================================================================
