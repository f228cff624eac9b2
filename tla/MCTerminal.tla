----------------------------- MODULE MCTerminal -----------------------------
(***************************************************************************)
(* Instances of Terminal for TLC.                                          *)
(***************************************************************************)
EXTENDS Terminal

CONSTANTS b1, b2

MCBriefs == {b1, b2}

Frame(c, s, b) ==
  [ wellFormed |-> TRUE, authentic |-> TRUE, protocolV0 |-> TRUE,
    command |-> c, seq |-> s, brief |-> b ]

\* A delivery, a command above the default ceiling, and a delivery nobody signed.
CoreEnvelopes ==
  { Frame(DeliverArtifact, 1, b1),
    Frame(InstallArtifact, 2, b1),
    [ Frame(DeliverArtifact, 2, b2) EXCEPT !.authentic = FALSE ] }

\* Every class of envelope: each command, an unknown byte, another protocol
\* version, bytes that are no frame.
WideEnvelopes ==
  { Frame(c, 1, b1) : c \in {ReportStatus, RequestSpecUpload, RunLocalCode} }
  \cup { Frame(DeliverArtifact, 2, b2), Frame(9, 3, b1),
         [ Frame(DeliverArtifact, 3, b1) EXCEPT !.protocolV0 = FALSE ],
         [ Frame(DeliverArtifact, 3, b1) EXCEPT !.wellFormed = FALSE, !.authentic = FALSE ] }
=============================================================================
