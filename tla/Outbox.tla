------------------------------- MODULE Outbox -------------------------------
(***************************************************************************)
(* What the terminal promises about everything it owes the facade: an item   *)
(* that was put in the outbox stays there until the facade holds it, for as   *)
(* long as the process that put it there lives.  Delivering twice is allowed, *)
(* delivering zero times is not; only the end of the process loses an item.   *)
(***************************************************************************)
CONSTANT Items

VARIABLES
  alive,      \* a process is running
  held,       \* what it still owes
  delivered   \* what the facade holds

vars == <<alive, held, delivered>>

TypeOK ==
  /\ alive \in BOOLEAN
  /\ held \subseteq Items
  /\ delivered \subseteq Items

Init ==
  /\ alive = FALSE
  /\ held = {} /\ delivered = {}

\* Nothing is handed over that was not owed.
Handover == delivered \subseteq delivered' /\ delivered' \subseteq delivered \cup held

Open ==
  /\ ~ alive /\ alive'
  /\ held' = {} /\ UNCHANGED delivered

\* A step of the process may put items in, hand items over, and forget items,
\* but it forgets only what the facade holds.
Step ==
  /\ alive /\ alive'
  /\ Handover
  /\ held \ held' \subseteq delivered'
  /\ held' \subseteq Items

\* The last step of a process may still hand over; what it held may be gone.
Close ==
  /\ alive /\ ~ alive'
  /\ Handover
  /\ held' \subseteq held

\* A process that could not be opened leaves an empty outbox behind.
FailToOpen ==
  /\ ~ alive /\ ~ alive'
  /\ held' = {} /\ UNCHANGED delivered

Next == Open \/ Step \/ Close \/ FailToOpen

Spec == Init /\ [][Next]_vars
=============================================================================
