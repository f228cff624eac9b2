------------------------------ MODULE Mailbox -------------------------------
(***************************************************************************)
(* What the glass promises an interview about the person's words: they form  *)
(* one line in the order they were accepted, each question takes the words at *)
(* the head, and no words answer two questions.  Words are lost only from the *)
(* head, with the question that gave up on them.                             *)
(***************************************************************************)
EXTENDS Sequences

CONSTANT Keys   \* the words a person may send, by key

VARIABLES
  box,     \* accepted and not yet taken, oldest first
  heard,   \* what the questions were answered with, in order
  lost     \* what went with a question that gave up

vars == <<box, heard, lost>>

Init == box = <<>> /\ heard = <<>> /\ lost = {}

Accept(w) ==
  /\ box' = Append(box, w)
  /\ UNCHANGED <<heard, lost>>

Take ==
  /\ box # <<>>
  /\ box' = Tail(box) /\ heard' = Append(heard, Head(box))
  /\ UNCHANGED lost

Lose ==
  /\ box # <<>>
  /\ box' = Tail(box) /\ lost' = lost \cup {Head(box)}
  /\ UNCHANGED heard

Next == (\E w \in Keys : Accept(w)) \/ Take \/ Lose

Spec == Init /\ [][Next]_vars
=============================================================================
