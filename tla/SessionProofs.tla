--------------------------- MODULE SessionProofs ---------------------------
(***************************************************************************)
(* The invariants of Session, for any keys, any notes, any size of the ring  *)
(* and any bounds.                                                         *)
(***************************************************************************)
EXTENDS Session, SequenceTheorems, TLAPS

-----------------------------------------------------------------------------
(* Lemmas about requests and about queues of notes.                        *)

\* A request leads to a request or to the end of the round.
LEMMA AfterType ==
  ASSUME NEW request \in Requests
  PROVE  After(request) \in Requests \cup {"pause"}
BY DEF After, Requests

\* What leaves a queue of notes and what stays.
LEMMA Queue ==
  ASSUME NEW q \in Seq(Notes), q # <<>>
  PROVE  /\ Head(q) \in Notes
         /\ Tail(q) \in Seq(Notes)
         /\ Len(q) = 1 => Tail(q) = <<>>
         /\ Len(q) \in Nat \ {0}
         /\ Len(Tail(q)) = Len(q) - 1
         /\ \A k \in 1 .. Len(q) - 1 : Tail(q)[k] = q[k + 1]
<1>1. /\ Head(q) \in Notes /\ Tail(q) \in Seq(Notes) /\ Len(Tail(q)) = Len(q) - 1
      /\ \A k \in 1 .. Len(Tail(q)) : Tail(q)[k] = q[k + 1]
  BY HeadTailProperties
<1>2. Len(q) \in Nat \ {0}
  BY EmptySeq
<1>3. Tail(q) # <<>> => Len(Tail(q)) \in Nat \ {0}
  BY <1>1, EmptySeq
<1> QED
  BY <1>1, <1>2, <1>3

\* The ring takes a note at its end and gives one up at its head when it is full.
LEMMA RingStep ==
  ASSUME seenRing \in Seq(Notes), Len(seenRing) <= MaxSeen, NEW n \in Notes
  PROVE  /\ Remembering(n) \in Seq(Notes)
         /\ Len(Remembering(n)) <= MaxSeen
         /\ IF Len(seenRing) >= MaxSeen
            THEN /\ Len(Remembering(n)) = Len(seenRing)
                 /\ \A k \in 1 .. Len(seenRing) - 1 : Remembering(n)[k] = seenRing[k + 1]
            ELSE /\ Len(Remembering(n)) = Len(seenRing) + 1
                 /\ \A k \in 1 .. Len(seenRing) : Remembering(n)[k] = seenRing[k]
         /\ Remembering(n)[Len(Remembering(n))] = n
<1>1. CASE Len(seenRing) >= MaxSeen
  <2>1. seenRing # <<>>
    BY <1>1, SessionAssumption, EmptySeq
  <2>2. /\ Tail(seenRing) \in Seq(Notes) /\ Len(Tail(seenRing)) = Len(seenRing) - 1
        /\ Len(seenRing) \in Nat \ {0}
        /\ \A k \in 1 .. Len(seenRing) - 1 : Tail(seenRing)[k] = seenRing[k + 1]
    BY <2>1, Queue
  <2> QED
    BY <1>1, <2>2, SessionAssumption DEF Remembering
<1>2. CASE ~ (Len(seenRing) >= MaxSeen)
  BY <1>2, SessionAssumption DEF Remembering
<1> QED
  BY <1>1, <1>2

-----------------------------------------------------------------------------
(* Every variable keeps its kind, the ring its size; a session exists only in a  *)
(* process that runs the loop, and a batch of notes only at the notes request.   *)
THEOREM TypeCorrectness == Spec => []TypeOK
<1>1. Init => TypeOK
  <2> SUFFICES ASSUME Init PROVE TypeOK
    OBVIOUS
  <2>1. TypeOfKeys /\ TypeOfDoor
    BY DEF Init, TypeOfKeys, TypeOfDoor, KeysOrNone
  <2>2. TypeOfLoop
    BY DEF Init, TypeOfLoop, Running, Requests
  <2>3. TypeOfNotes
    BY SessionAssumption DEF Init, TypeOfNotes
  <2>4. TypeOfBounds
    BY SessionAssumption DEF Init, TypeOfBounds
  <2> QED
    BY <2>1, <2>2, <2>3, <2>4 DEF TypeOK
<1>2. TypeOK /\ [Next]_vars => TypeOK'
  <2> SUFFICES ASSUME TypeOK, [Next]_vars
               PROVE  TypeOK'
    OBVIOUS
  <2> USE DEF TypeOK, KeysOrNone
  <2>1. CASE Start
    <3>1. TypeOfKeys' /\ TypeOfDoor'
      BY <2>1 DEF Start, noteVars, doorVars, TypeOfKeys, TypeOfDoor
    <3>2. TypeOfLoop'
      BY <2>1, AfterType DEF Start, noteVars, doorVars, TypeOfLoop, Running, Requests
    <3>3. TypeOfNotes'
      BY <2>1, SessionAssumption DEF Start, noteVars, doorVars, TypeOfNotes, TypeOfLoop,
         Requests
    <3>4. TypeOfBounds'
      BY <2>1, SessionAssumption DEF Start, noteVars, doorVars, TypeOfBounds
    <3> QED
      BY <3>1, <3>2, <3>3, <3>4
  <2>2. CASE Stop
    <3>1. TypeOfKeys' /\ TypeOfDoor'
      BY <2>2 DEF Stop, Forget, boundVars, TypeOfKeys, TypeOfDoor
    <3>2. TypeOfLoop'
      BY <2>2, AfterType DEF Stop, Forget, boundVars, TypeOfLoop, Running, Requests
    <3>3. TypeOfNotes'
      BY <2>2, SessionAssumption DEF Stop, Forget, boundVars, TypeOfNotes, TypeOfLoop,
         Requests
    <3>4. TypeOfBounds'
      BY <2>2, SessionAssumption DEF Stop, Forget, boundVars, TypeOfBounds
    <3> QED
      BY <3>1, <3>2, <3>3, <3>4
  <2>3. CASE RemovePin
    <3>1. TypeOfKeys' /\ TypeOfDoor'
      BY <2>3 DEF RemovePin, doorVars, boundVars, TypeOfKeys, TypeOfDoor
    <3>2. TypeOfLoop'
      BY <2>3, AfterType DEF RemovePin, doorVars, boundVars, TypeOfLoop, Running,
         Requests
    <3>3. TypeOfNotes'
      BY <2>3, SessionAssumption DEF RemovePin, doorVars, boundVars, TypeOfNotes,
         TypeOfLoop, Requests
    <3>4. TypeOfBounds'
      BY <2>3, SessionAssumption DEF RemovePin, doorVars, boundVars, TypeOfBounds
    <3> QED
      BY <3>1, <3>2, <3>3, <3>4
  <2>4. CASE EnrolAnswered
    <3>1. TypeOfKeys' /\ TypeOfDoor'
      BY <2>4 DEF EnrolAnswered, noteVars, boundVars, TypeOfKeys, TypeOfDoor
    <3>2. TypeOfLoop'
      BY <2>4, AfterType DEF EnrolAnswered, noteVars, boundVars, TypeOfLoop, Running,
         Requests
    <3>3. TypeOfNotes'
      BY <2>4, SessionAssumption DEF EnrolAnswered, noteVars, boundVars, TypeOfNotes,
         TypeOfLoop, Requests
    <3>4. TypeOfBounds'
      BY <2>4, SessionAssumption DEF EnrolAnswered, noteVars, boundVars, TypeOfBounds
    <3> QED
      BY <3>1, <3>2, <3>3, <3>4
  <2>5. CASE EnrolUnusable
    <3>1. TypeOfKeys' /\ TypeOfDoor'
      BY <2>5 DEF EnrolUnusable, Forget, boundVars, TypeOfKeys, TypeOfDoor
    <3>2. TypeOfLoop'
      BY <2>5, AfterType DEF EnrolUnusable, Forget, boundVars, TypeOfLoop, Running,
         Requests
    <3>3. TypeOfNotes'
      BY <2>5, SessionAssumption DEF EnrolUnusable, Forget, boundVars, TypeOfNotes,
         TypeOfLoop, Requests
    <3>4. TypeOfBounds'
      BY <2>5, SessionAssumption DEF EnrolUnusable, Forget, boundVars, TypeOfBounds
    <3> QED
      BY <3>1, <3>2, <3>3, <3>4
  <2>6. CASE Resolve
    <3>1. TypeOfKeys' /\ TypeOfDoor'
      BY <2>6 DEF Resolve, Pinning, noteVars, doorVars, boundVars, TypeOfKeys,
         TypeOfDoor
    <3>2. TypeOfLoop'
      BY <2>6, AfterType DEF Resolve, Pinning, noteVars, doorVars, boundVars,
         TypeOfLoop, Running, Requests
    <3>3. TypeOfNotes'
      BY <2>6, SessionAssumption DEF Resolve, Pinning, noteVars, doorVars, boundVars,
         TypeOfNotes, TypeOfLoop, Requests
    <3>4. TypeOfBounds'
      BY <2>6, SessionAssumption DEF Resolve, Pinning, noteVars, doorVars, boundVars,
         TypeOfBounds
    <3> QED
      BY <3>1, <3>2, <3>3, <3>4
  <2>7. CASE Round
    <3>1. TypeOfKeys' /\ TypeOfDoor'
      BY <2>7 DEF Round, Keeping, keyVars, noteVars, boundVars, doorVars, TypeOfKeys,
         TypeOfDoor
    <3>2. TypeOfLoop'
      BY <2>7, AfterType DEF Round, Keeping, keyVars, noteVars, boundVars, doorVars,
         TypeOfLoop, Running, Requests
    <3>3. TypeOfNotes'
      BY <2>7, SessionAssumption DEF Round, Keeping, keyVars, noteVars, boundVars,
         doorVars, TypeOfNotes, TypeOfLoop, Requests
    <3>4. TypeOfBounds'
      BY <2>7, SessionAssumption DEF Round, Keeping, keyVars, noteVars, boundVars,
         doorVars, TypeOfBounds
    <3> QED
      BY <3>1, <3>2, <3>3, <3>4
  <2>8. CASE UseSession
    <3>1. TypeOfKeys' /\ TypeOfDoor'
      BY <2>8 DEF UseSession, Keeping, keyVars, noteVars, boundVars, doorVars,
         TypeOfKeys, TypeOfDoor
    <3>2. TypeOfLoop'
      BY <2>8, AfterType DEF UseSession, Keeping, keyVars, noteVars, boundVars,
         doorVars, TypeOfLoop, Running, Requests
    <3>3. TypeOfNotes'
      BY <2>8, SessionAssumption DEF UseSession, Keeping, keyVars, noteVars, boundVars,
         doorVars, TypeOfNotes, TypeOfLoop, Requests
    <3>4. TypeOfBounds'
      BY <2>8, SessionAssumption DEF UseSession, Keeping, keyVars, noteVars, boundVars,
         doorVars, TypeOfBounds
    <3> QED
      BY <3>1, <3>2, <3>3, <3>4
  <2>9. CASE Challenged
    <3>1. TypeOfKeys' /\ TypeOfDoor'
      BY <2>9 DEF Challenged, Keeping, keyVars, noteVars, boundVars, TypeOfKeys,
         TypeOfDoor
    <3>2. TypeOfLoop'
      BY <2>9, AfterType DEF Challenged, Keeping, keyVars, noteVars, boundVars,
         TypeOfLoop, Running, Requests
    <3>3. TypeOfNotes'
      BY <2>9, SessionAssumption DEF Challenged, Keeping, keyVars, noteVars, boundVars,
         TypeOfNotes, TypeOfLoop, Requests
    <3>4. TypeOfBounds'
      BY <2>9, SessionAssumption DEF Challenged, Keeping, keyVars, noteVars, boundVars,
         TypeOfBounds
    <3> QED
      BY <3>1, <3>2, <3>3, <3>4
  <2>10. CASE ChallengeFails
    <3>1. TypeOfKeys' /\ TypeOfDoor'
      BY <2>10 DEF ChallengeFails, GiveUp, Keeping, keyVars, noteVars, boundVars,
         TypeOfKeys, TypeOfDoor
    <3>2. TypeOfLoop'
      BY <2>10, AfterType DEF ChallengeFails, GiveUp, Keeping, keyVars, noteVars,
         boundVars, TypeOfLoop, Running, Requests
    <3>3. TypeOfNotes'
      BY <2>10, SessionAssumption DEF ChallengeFails, GiveUp, Keeping, keyVars,
         noteVars, boundVars, TypeOfNotes, TypeOfLoop, Requests
    <3>4. TypeOfBounds'
      BY <2>10, SessionAssumption DEF ChallengeFails, GiveUp, Keeping, keyVars,
         noteVars, boundVars, TypeOfBounds
    <3> QED
      BY <3>1, <3>2, <3>3, <3>4
  <2>11. CASE Verified
    <3>1. TypeOfKeys' /\ TypeOfDoor'
      BY <2>11 DEF Verified, Keeping, keyVars, noteVars, boundVars, TypeOfKeys,
         TypeOfDoor
    <3>2. TypeOfLoop'
      BY <2>11, AfterType DEF Verified, Keeping, keyVars, noteVars, boundVars,
         TypeOfLoop, Running, Requests
    <3>3. TypeOfNotes'
      BY <2>11, SessionAssumption DEF Verified, Keeping, keyVars, noteVars, boundVars,
         TypeOfNotes, TypeOfLoop, Requests
    <3>4. TypeOfBounds'
      BY <2>11, SessionAssumption DEF Verified, Keeping, keyVars, noteVars, boundVars,
         TypeOfBounds
    <3> QED
      BY <3>1, <3>2, <3>3, <3>4
  <2>12. CASE VerifyFails
    <3>1. TypeOfKeys' /\ TypeOfDoor'
      BY <2>12 DEF VerifyFails, GiveUp, Keeping, keyVars, noteVars, boundVars,
         TypeOfKeys, TypeOfDoor
    <3>2. TypeOfLoop'
      BY <2>12, AfterType DEF VerifyFails, GiveUp, Keeping, keyVars, noteVars,
         boundVars, TypeOfLoop, Running, Requests
    <3>3. TypeOfNotes'
      BY <2>12, SessionAssumption DEF VerifyFails, GiveUp, Keeping, keyVars, noteVars,
         boundVars, TypeOfNotes, TypeOfLoop, Requests
    <3>4. TypeOfBounds'
      BY <2>12, SessionAssumption DEF VerifyFails, GiveUp, Keeping, keyVars, noteVars,
         boundVars, TypeOfBounds
    <3> QED
      BY <3>1, <3>2, <3>3, <3>4
  <2>13. CASE PollAnswered
    <3>1. TypeOfKeys' /\ TypeOfDoor'
      BY <2>13 DEF PollAnswered, Keeping, keyVars, noteVars, boundVars, doorVars,
         TypeOfKeys, TypeOfDoor
    <3>2. TypeOfLoop'
      BY <2>13, AfterType DEF PollAnswered, Keeping, keyVars, noteVars, boundVars,
         doorVars, TypeOfLoop, Running, Requests
    <3>3. TypeOfNotes'
      BY <2>13, SessionAssumption DEF PollAnswered, Keeping, keyVars, noteVars,
         boundVars, doorVars, TypeOfNotes, TypeOfLoop, Requests
    <3>4. TypeOfBounds'
      BY <2>13, SessionAssumption DEF PollAnswered, Keeping, keyVars, noteVars,
         boundVars, doorVars, TypeOfBounds
    <3> QED
      BY <3>1, <3>2, <3>3, <3>4
  <2>14. CASE Answered
    <3>1. TypeOfKeys' /\ TypeOfDoor'
      BY <2>14 DEF Answered, Keeping, keyVars, noteVars, boundVars, doorVars,
         TypeOfKeys, TypeOfDoor
    <3>2. TypeOfLoop'
      BY <2>14, AfterType DEF Answered, Keeping, keyVars, noteVars, boundVars, doorVars,
         TypeOfLoop, Running, Requests
    <3>3. TypeOfNotes'
      BY <2>14, SessionAssumption DEF Answered, Keeping, keyVars, noteVars, boundVars,
         doorVars, TypeOfNotes, TypeOfLoop, Requests
    <3>4. TypeOfBounds'
      BY <2>14, SessionAssumption DEF Answered, Keeping, keyVars, noteVars, boundVars,
         doorVars, TypeOfBounds
    <3> QED
      BY <3>1, <3>2, <3>3, <3>4
  <2>15. CASE Refused
    <3>1. TypeOfKeys' /\ TypeOfDoor'
      BY <2>15 DEF Refused, GiveUp, Keeping, keyVars, noteVars, boundVars, doorVars,
         TypeOfKeys, TypeOfDoor
    <3>2. TypeOfLoop'
      BY <2>15, AfterType DEF Refused, GiveUp, Keeping, keyVars, noteVars, boundVars,
         doorVars, TypeOfLoop, Running, Requests
    <3>3. TypeOfNotes'
      BY <2>15, SessionAssumption DEF Refused, GiveUp, Keeping, keyVars, noteVars,
         boundVars, doorVars, TypeOfNotes, TypeOfLoop, Requests
    <3>4. TypeOfBounds'
      BY <2>15, SessionAssumption DEF Refused, GiveUp, Keeping, keyVars, noteVars,
         boundVars, doorVars, TypeOfBounds
    <3> QED
      BY <3>1, <3>2, <3>3, <3>4
  <2>16. CASE Unanswered
    <3>1. TypeOfKeys' /\ TypeOfDoor'
      BY <2>16 DEF Unanswered, GiveUp, Keeping, keyVars, noteVars, boundVars, doorVars,
         TypeOfKeys, TypeOfDoor
    <3>2. TypeOfLoop'
      BY <2>16, AfterType DEF Unanswered, GiveUp, Keeping, keyVars, noteVars, boundVars,
         doorVars, TypeOfLoop, Running, Requests
    <3>3. TypeOfNotes'
      BY <2>16, SessionAssumption DEF Unanswered, GiveUp, Keeping, keyVars, noteVars,
         boundVars, doorVars, TypeOfNotes, TypeOfLoop, Requests
    <3>4. TypeOfBounds'
      BY <2>16, SessionAssumption DEF Unanswered, GiveUp, Keeping, keyVars, noteVars,
         boundVars, doorVars, TypeOfBounds
    <3> QED
      BY <3>1, <3>2, <3>3, <3>4
  <2>17. CASE NotesFetched
    <3>1. TypeOfKeys' /\ TypeOfDoor'
      BY <2>17 DEF NotesFetched, GiveUp, keyVars, boundVars, doorVars, TypeOfKeys,
         TypeOfDoor
    <3>2. TypeOfLoop'
      BY <2>17, AfterType DEF NotesFetched, GiveUp, keyVars, boundVars, doorVars,
         TypeOfLoop, Running, Requests, TypeOfNotes
    <3>3. post' \in Seq(Notes)
      <4>1. \/ post' = <<>>
            \/ \E n \in Notes : post' = <<n>>
            \/ \E m, n \in Notes : post' = <<m, n>>
        BY <2>17 DEF NotesFetched
      <4>2. ASSUME NEW m \in Notes, NEW n \in Notes
            PROVE  <<>> \in Seq(Notes) /\ <<n>> \in Seq(Notes) /\ <<m, n>> \in Seq(Notes)
        OBVIOUS
      <4>3. <<>> \in Seq(Notes)
        OBVIOUS
      <4> QED
        BY <4>1, <4>2, <4>3
    <3>4. post' # <<>> => pc' = "notes" /\ step' = "ask"
      BY <2>17 DEF NotesFetched
    <3>5. TypeOfNotes'
      BY <2>17, <3>3, <3>4 DEF NotesFetched, TypeOfNotes
    <3>6. TypeOfBounds'
      BY <2>17, SessionAssumption DEF NotesFetched, GiveUp, keyVars, boundVars,
         doorVars, TypeOfBounds
    <3> QED
      BY <3>1, <3>2, <3>5, <3>6
  <2>18. CASE NoteDropped
    <3>1. TypeOfKeys' /\ TypeOfDoor'
      BY <2>18 DEF NoteDropped, NoteDone, keyVars, boundVars, doorVars, TypeOfKeys,
         TypeOfDoor
    <3>2. TypeOfLoop'
      BY <2>18, AfterType DEF NoteDropped, NoteDone, keyVars, boundVars, doorVars,
         TypeOfLoop, Running, Requests, TypeOfNotes
    <3>3. post \in Seq(Notes) /\ post # <<>> /\ Len(post) \in Nat /\ Head(post) \in Notes
      BY <2>18, Queue DEF NoteDropped, TypeOfNotes
    <3>4. Tail(post) \in Seq(Notes) /\ (Len(post) = 1 => Tail(post) = <<>>)
      BY <3>3, Queue
    <3>5. TypeOfNotes'
      BY <2>18, <3>3, <3>4 DEF NoteDropped, NoteDone, keyVars, boundVars, doorVars,
         TypeOfNotes
    <3>6. TypeOfBounds'
      BY <2>18, SessionAssumption DEF NoteDropped, NoteDone, keyVars, boundVars,
         doorVars, TypeOfBounds
    <3> QED
      BY <3>1, <3>2, <3>5, <3>6
  <2>19. CASE NoteShown
    <3>1. TypeOfKeys' /\ TypeOfDoor'
      BY <2>19 DEF NoteShown, NoteDone, keyVars, boundVars, doorVars, TypeOfKeys,
         TypeOfDoor
    <3>2. TypeOfLoop'
      BY <2>19, AfterType DEF NoteShown, NoteDone, keyVars, boundVars, doorVars,
         TypeOfLoop, Running, Requests, TypeOfNotes
    <3>3. post \in Seq(Notes) /\ post # <<>> /\ Len(post) \in Nat /\ Head(post) \in Notes
      BY <2>19, Queue DEF NoteShown, TypeOfNotes
    <3>4. Tail(post) \in Seq(Notes) /\ (Len(post) = 1 => Tail(post) = <<>>)
      BY <3>3, Queue
    <3>5. seenRing' \in Seq(Notes) /\ Len(seenRing') <= MaxSeen
      BY <2>19, <3>3, RingStep DEF NoteShown, TypeOfNotes
    <3>6. log' \in Seq(Notes)
      BY <2>19, <3>3 DEF NoteShown, TypeOfNotes
    <3>7. retired' \subseteq Nat /\ signers' \subseteq Keys
      BY <2>19, <3>3, SessionAssumption DEF NoteShown, TypeOfNotes
    <3>8. post' \in Seq(Notes) /\ (post' # <<>> => pc' = "notes" /\ step' = "ask")
      BY <2>19, <3>3, <3>4 DEF NoteShown, NoteDone, TypeOfNotes
    <3>9. TypeOfNotes'
      BY <3>5, <3>6, <3>7, <3>8 DEF TypeOfNotes
    <3>10. TypeOfBounds'
      BY <2>19, SessionAssumption DEF NoteShown, NoteDone, keyVars, boundVars, doorVars,
         TypeOfBounds
    <3> QED
      BY <3>1, <3>2, <3>9, <3>10
  <2>20. CASE Lapse
    <3>1. TypeOfKeys' /\ TypeOfDoor'
      BY <2>20 DEF Lapse, Keeping, keyVars, noteVars, boundVars, doorVars, TypeOfKeys,
         TypeOfDoor
    <3>2. TypeOfLoop'
      BY <2>20, AfterType DEF Lapse, Keeping, keyVars, noteVars, boundVars, doorVars,
         TypeOfLoop, Running, Requests
    <3>3. TypeOfNotes'
      BY <2>20, SessionAssumption DEF Lapse, Keeping, keyVars, noteVars, boundVars,
         doorVars, TypeOfNotes, TypeOfLoop, Requests
    <3>4. TypeOfBounds'
      BY <2>20, SessionAssumption DEF Lapse, Keeping, keyVars, noteVars, boundVars,
         doorVars, TypeOfBounds
    <3> QED
      BY <3>1, <3>2, <3>3, <3>4
  <2>21. CASE DoorRestarts
    <3>1. TypeOfKeys' /\ TypeOfDoor'
      BY <2>21 DEF DoorRestarts, keyVars, noteVars, TypeOfKeys, TypeOfDoor
    <3>2. TypeOfLoop'
      BY <2>21, AfterType DEF DoorRestarts, keyVars, noteVars, TypeOfLoop, Running,
         Requests, TypeOfNotes
    <3>3. TypeOfNotes'
      BY <2>21, SessionAssumption DEF DoorRestarts, keyVars, noteVars, TypeOfNotes,
         TypeOfLoop, Requests
    <3>4. TypeOfBounds'
      BY <2>21, SessionAssumption DEF DoorRestarts, keyVars, noteVars, TypeOfBounds
    <3> QED
      BY <3>1, <3>2, <3>3, <3>4
  <2>22. CASE RivalCalls
    <3>1. TypeOfKeys' /\ TypeOfDoor'
      BY <2>22 DEF RivalCalls, keyVars, noteVars, TypeOfKeys, TypeOfDoor
    <3>2. TypeOfLoop'
      BY <2>22, AfterType DEF RivalCalls, keyVars, noteVars, TypeOfLoop, Running,
         Requests
    <3>3. TypeOfNotes'
      BY <2>22, SessionAssumption DEF RivalCalls, keyVars, noteVars, TypeOfNotes,
         TypeOfLoop, Requests
    <3>4. TypeOfBounds'
      BY <2>22, SessionAssumption DEF RivalCalls, keyVars, noteVars, TypeOfBounds
    <3> QED
      BY <3>1, <3>2, <3>3, <3>4
  <2>23. CASE UNCHANGED vars
    BY <2>23 DEF vars, TypeOfKeys, TypeOfLoop, TypeOfNotes, TypeOfDoor, TypeOfBounds, Running
  <2> QED
    BY <2>1, <2>2, <2>3, <2>4, <2>5, <2>6, <2>7, <2>8, <2>9, <2>10, <2>11, <2>12, <2>13,
       <2>14, <2>15, <2>16, <2>17, <2>18, <2>19, <2>20, <2>21, <2>22, <2>23
       DEF Next, LoopStep
<1> QED
  BY <1>1, <1>2, PTL DEF Spec

-----------------------------------------------------------------------------
(* Notes.                                                                  *)

\* What the terminal remembers of notes changes in two ways only: it is all
\* forgotten, or a note is shown.
LEMMA NoteHistory ==
  ASSUME [Next]_vars
  PROVE  \/ UNCHANGED <<log, seenRing, retired>>
         \/ log' = <<>> /\ seenRing' = <<>> /\ retired' = {}
         \/ NoteShown
<1>1. CASE Stop \/ EnrolUnusable
  BY <1>1 DEF Stop, EnrolUnusable, Forget
<1>2. CASE Start \/ EnrolAnswered \/ Resolve \/ DoorRestarts \/ RivalCalls
  BY <1>2 DEF Start, EnrolAnswered, Resolve, DoorRestarts, RivalCalls, noteVars
<1>3. CASE RemovePin \/ NotesFetched \/ NoteDropped
  BY <1>3 DEF RemovePin, NotesFetched, NoteDropped
<1>4. CASE Round \/ UseSession \/ Challenged \/ ChallengeFails \/ Verified \/ VerifyFails
           \/ PollAnswered \/ Answered \/ Refused \/ Unanswered \/ Lapse
  BY <1>4 DEF Round, UseSession, Challenged, ChallengeFails, Verified, VerifyFails,
     PollAnswered, Answered, Refused, Unanswered, Lapse, Keeping, noteVars
<1>5. CASE UNCHANGED vars
  BY <1>5 DEF vars
<1> QED
  BY <1>1, <1>2, <1>3, <1>4, <1>5 DEF Next, LoopStep

\* The note that is shown, and what it is added to.
LEMMA Shown ==
  ASSUME TypeOK, NoteShown
  PROVE  /\ Head(post) \in Notes
         /\ log' = Append(log, Head(post))
         /\ Len(log') = Len(log) + 1 /\ Len(log) \in Nat
         /\ log'[Len(log) + 1] = Head(post)
         /\ \A i \in 1 .. Len(log) : log'[i] = log[i]
         /\ DOMAIN log = 1 .. Len(log) /\ DOMAIN log' = 1 .. Len(log) + 1
<1>1. Head(post) \in Notes
  BY Queue DEF TypeOK, TypeOfNotes, NoteShown
<1>2. log' = Append(log, Head(post)) /\ log \in Seq(Notes)
  BY DEF TypeOK, TypeOfNotes, NoteShown
<1> QED
  BY <1>1, <1>2

(* A finished correspondence says nothing more: retired holds every correspondent *)
(* that has said its last, and only those not in it are shown.                  *)
Retirement ==
  /\ NoStragglers
  /\ \A i \in DOMAIN log : log[i].terminal => log[i].correspondent \in retired

THEOREM StragglersAreDropped == Spec => []NoStragglers
<1>1. Init => Retirement
  BY DEF Init, Retirement, NoStragglers
<1>2. TypeOK /\ Retirement /\ [Next]_vars => Retirement'
  <2> SUFFICES ASSUME TypeOK, Retirement, [Next]_vars
               PROVE  Retirement'
    OBVIOUS
  <2>1. CASE UNCHANGED <<log, seenRing, retired>>
    BY <2>1 DEF Retirement, NoStragglers
  <2>2. CASE log' = <<>> /\ retired' = {}
    BY <2>2 DEF Retirement, NoStragglers
  <2>3. CASE NoteShown
    <3> DEFINE n == Head(post)
    <3>1. /\ n.correspondent \notin retired
          /\ retired' = IF n.terminal THEN retired \cup {n.correspondent} ELSE retired
      BY <2>3 DEF NoteShown, Straggler
    <3>2. ASSUME NEW i \in DOMAIN log', log'[i].terminal
          PROVE  log'[i].correspondent \in retired'
      BY <2>3, <3>1, <3>2, Shown DEF Retirement
    <3>3. ASSUME NEW i \in DOMAIN log', NEW j \in DOMAIN log', i < j, log'[i].terminal
          PROVE  log'[j].correspondent # log'[i].correspondent
      <4>1. i \in 1 .. Len(log) /\ log'[i] = log[i] /\ i \in DOMAIN log
        BY <2>3, <3>3, Shown
      <4>2. CASE j \in 1 .. Len(log)
        BY <2>3, <3>3, <4>1, <4>2, Shown DEF Retirement, NoStragglers
      <4>3. CASE j = Len(log) + 1
        BY <2>3, <3>1, <3>3, <4>1, <4>3, Shown DEF Retirement
      <4> QED
        BY <2>3, <4>2, <4>3, Shown
    <3> QED
      BY <3>2, <3>3 DEF Retirement, NoStragglers
  <2> QED
    BY <2>1, <2>2, <2>3, NoteHistory
<1>3. Retirement => NoStragglers
  BY DEF Retirement
<1> QED
  BY <1>1, <1>2, <1>3, TypeCorrectness, PTL DEF Spec

(* A note comes back only after the ring has gone round: the ring is the end of    *)
(* the list of what was rendered, as long as it can be.                          *)
RingIsTheEnd ==
  /\ RepeatsOnlyAfterTheRing
  /\ Len(seenRing) = IF Len(log) < MaxSeen THEN Len(log) ELSE MaxSeen
  /\ \A k \in 1 .. Len(seenRing) : seenRing[k] = log[Len(log) - Len(seenRing) + k]

THEOREM RepeatsTakeARing == Spec => []RepeatsOnlyAfterTheRing
<1>1. Init => RingIsTheEnd
  BY SessionAssumption DEF Init, RingIsTheEnd, RepeatsOnlyAfterTheRing
<1>2. TypeOK /\ RingIsTheEnd /\ [Next]_vars => RingIsTheEnd'
  <2> SUFFICES ASSUME TypeOK, RingIsTheEnd, [Next]_vars
               PROVE  RingIsTheEnd'
    OBVIOUS
  <2>1. CASE UNCHANGED <<log, seenRing, retired>>
    BY <2>1 DEF RingIsTheEnd, RepeatsOnlyAfterTheRing
  <2>2. CASE log' = <<>> /\ seenRing' = <<>>
    BY <2>2, SessionAssumption DEF RingIsTheEnd, RepeatsOnlyAfterTheRing
  <2>3. CASE NoteShown
    <3> DEFINE n == Head(post)
    <3>1. /\ ~ InRing(n) /\ seenRing' = Remembering(n) /\ seenRing \in Seq(Notes)
          /\ Len(seenRing) <= MaxSeen /\ Len(seenRing) \in Nat
      BY <2>3 DEF NoteShown, TypeOK, TypeOfNotes
    <3>2. MaxSeen \in Nat \ {0}
      BY SessionAssumption
    <3>3. /\ IF Len(seenRing) >= MaxSeen
             THEN /\ Len(seenRing') = Len(seenRing)
                  /\ \A k \in 1 .. Len(seenRing) - 1 : seenRing'[k] = seenRing[k + 1]
             ELSE /\ Len(seenRing') = Len(seenRing) + 1
                  /\ \A k \in 1 .. Len(seenRing) : seenRing'[k] = seenRing[k]
          /\ seenRing'[Len(seenRing')] = n
      BY <2>3, <3>1, RingStep, Shown
    <3>4. Len(seenRing') = IF Len(log') < MaxSeen THEN Len(log') ELSE MaxSeen
      BY <2>3, <3>1, <3>2, <3>3, Shown DEF RingIsTheEnd
    <3>5. ASSUME NEW k \in 1 .. Len(seenRing')
          PROVE  seenRing'[k] = log'[Len(log') - Len(seenRing') + k]
      <4>1. CASE k = Len(seenRing')
        BY <2>3, <3>1, <3>3, <3>4, <4>1, Shown
      <4>2. CASE k # Len(seenRing') /\ Len(seenRing) >= MaxSeen
        <5>1. k + 1 \in 1 .. Len(seenRing) /\ seenRing'[k] = seenRing[k + 1]
          BY <3>1, <3>3, <3>5, <4>2
        <5>2. seenRing[k + 1] = log[Len(log) - Len(seenRing) + (k + 1)]
          BY <5>1 DEF RingIsTheEnd
        <5>3. Len(log) - Len(seenRing) + (k + 1) = Len(log') - Len(seenRing') + k
          <6>1. Len(seenRing') = Len(seenRing) /\ Len(seenRing) \in Nat
            BY <3>1, <3>3, <4>2
          <6>2. Len(log') = Len(log) + 1 /\ Len(log) \in Nat
            BY <2>3, Shown
          <6>3. k \in Int
            BY <5>1, <6>1
          <6> QED
            BY <6>1, <6>2, <6>3
        <5>4. Len(log) - Len(seenRing) + (k + 1) \in 1 .. Len(log)
          BY <2>3, <3>1, <3>2, <5>1, Shown DEF RingIsTheEnd
        <5> QED
          BY <2>3, <5>1, <5>2, <5>3, <5>4, Shown
      <4>3. CASE k # Len(seenRing') /\ ~ (Len(seenRing) >= MaxSeen)
        <5>1. k \in 1 .. Len(seenRing) /\ seenRing'[k] = seenRing[k]
          BY <3>1, <3>3, <3>5, <4>3
        <5>2. seenRing[k] = log[Len(log) - Len(seenRing) + k]
          BY <5>1 DEF RingIsTheEnd
        <5>3. Len(log) - Len(seenRing) + k = Len(log') - Len(seenRing') + k
          BY <2>3, <3>1, <3>3, <4>3, <5>1, Shown
        <5>4. Len(log) - Len(seenRing) + k \in 1 .. Len(log)
          BY <2>3, <3>1, <3>2, <5>1, Shown DEF RingIsTheEnd
        <5> QED
          BY <2>3, <5>1, <5>2, <5>3, <5>4, Shown
      <4> QED
        BY <4>1, <4>2, <4>3
    <3>6. ASSUME NEW i \in DOMAIN log', NEW j \in DOMAIN log', i < j, log'[i] = log'[j]
          PROVE  j - i > MaxSeen
      <4>1. i \in 1 .. Len(log) /\ log'[i] = log[i] /\ i \in DOMAIN log
        BY <2>3, <3>6, Shown
      <4>2. CASE j \in 1 .. Len(log)
        BY <2>3, <3>6, <4>1, <4>2, Shown DEF RingIsTheEnd, RepeatsOnlyAfterTheRing
      <4>3. CASE j = Len(log) + 1
        <5>1. log[i] = n
          BY <2>3, <3>6, <4>1, <4>3, Shown
        <5>2. SUFFICES ASSUME ~ (j - i > MaxSeen) PROVE FALSE
          OBVIOUS
        <5>3. i - (Len(log) - Len(seenRing)) \in 1 .. Len(seenRing)
          BY <2>3, <3>1, <3>2, <4>1, <4>3, <5>2, Shown DEF RingIsTheEnd
        <5>4. seenRing[i - (Len(log) - Len(seenRing))]
                = log[Len(log) - Len(seenRing) + (i - (Len(log) - Len(seenRing)))]
          BY <5>3 DEF RingIsTheEnd
        <5>5. Len(log) - Len(seenRing) + (i - (Len(log) - Len(seenRing))) = i
          BY <2>3, <3>1, <4>1, Shown
        <5>6. DOMAIN seenRing = 1 .. Len(seenRing)
          BY <3>1
        <5> QED
          BY <3>1, <5>1, <5>3, <5>4, <5>5, <5>6 DEF InRing
      <4> QED
        BY <2>3, <4>2, <4>3, Shown
    <3> QED
      BY <3>4, <3>5, <3>6 DEF RingIsTheEnd, RepeatsOnlyAfterTheRing
  <2> QED
    BY <2>1, <2>2, <2>3, NoteHistory
<1>3. RingIsTheEnd => RepeatsOnlyAfterTheRing
  BY DEF RingIsTheEnd
<1> QED
  BY <1>1, <1>2, <1>3, TypeCorrectness, PTL DEF Spec

-----------------------------------------------------------------------------
(* The pin.                                                                *)

(* One signer under one pin: a process that was given no key by hand trusts the    *)
(* pin, and a pin that is there changes only when nothing has been rendered         *)
(* under it, or by the operator.                                                *)
Trust ==
  /\ OneSigner
  /\ ~ Running => trusted = NoKey
  /\ trusted # NoKey /\ ~ byHand => trusted = pin

THEOREM TrustOnFirstUse == Spec => []OneSigner
<1>1. Init => Trust
  BY DEF Init, Trust, OneSigner, Running, Requests
<1>2. TypeOK /\ Trust /\ [Next]_vars => Trust'
  <2> SUFFICES ASSUME TypeOK, Trust, [Next]_vars
               PROVE  Trust'
    OBVIOUS
  <2> USE DEF Trust, OneSigner, Running
  <2>1. CASE UNCHANGED <<keyVars, signers>> /\ (Running' <=> Running)
    BY <2>1 DEF keyVars
  <2>2. CASE Start
    BY <2>2 DEF Start, noteVars, Requests
  <2>3. CASE Stop \/ EnrolUnusable
    <3>1. trusted' = NoKey /\ signers' = signers
      BY <2>3 DEF Stop, EnrolUnusable, Forget
    <3>2. pin' = pin \/ pin = NoKey
      BY <2>3 DEF Stop, EnrolUnusable, Pinning
    <3>3. NoKey \notin signers
      BY SessionAssumption DEF TypeOK, TypeOfNotes
    <3> QED
      BY <3>1, <3>2, <3>3
  <2>4. CASE RemovePin
    BY <2>4 DEF RemovePin, Requests
  <2>5. CASE EnrolAnswered
    BY <2>5 DEF EnrolAnswered, noteVars, Requests
  <2>6. CASE Resolve
    <3>1. pin' = pin \/ pin = NoKey
      BY <2>6 DEF Resolve, Pinning
    <3>2. NoKey \notin signers /\ signers' = signers
      BY <2>6, SessionAssumption DEF Resolve, noteVars, TypeOK, TypeOfNotes
    <3>3. pc' = "pause" /\ (~ byHand' => trusted' = pin')
      BY <2>6 DEF Resolve
    <3> QED
      BY <3>1, <3>2, <3>3
  <2>7. CASE NoteShown
    <3>1. Head(post) \in Notes /\ Head(post).signer = trusted
      BY <2>7, Shown DEF NoteShown, Verifies
    <3>2. trusted # NoKey
      BY <3>1, SessionAssumption
    <3>3. UNCHANGED keyVars
          /\ signers' = IF byHand THEN signers ELSE signers \cup {trusted}
      BY <2>7, <3>1 DEF NoteShown
    <3>4. Running'
      <4>1. pc' = pc \/ pc' = "poll"
        BY <2>7 DEF NoteShown, NoteDone
      <4>2. Running
        BY <3>2
      <4> QED
        BY <4>1, <4>2 DEF Requests
    <3>5. trusted # NoKey /\ ~ byHand => trusted = pin
      OBVIOUS
    <3>6. signers' \subseteq {pin'}
      BY <3>2, <3>3, <3>5 DEF keyVars
    <3> QED
      BY <3>3, <3>4, <3>5, <3>6 DEF keyVars
  <2>8. CASE NotesFetched \/ NoteDropped
    BY <2>8 DEF NotesFetched, NoteDropped, NoteDone, GiveUp, After, keyVars, Requests,
       TypeOK, TypeOfNotes
  <2>9. CASE Round \/ UseSession \/ Challenged \/ Verified \/ PollAnswered \/ Lapse
             \/ DoorRestarts \/ RivalCalls
    <3>1. UNCHANGED <<keyVars, signers>>
      BY <2>9 DEF Round, UseSession, Challenged, Verified, PollAnswered, Lapse, DoorRestarts,
         RivalCalls, Keeping, noteVars
    <3>2. pc' = pc \/ (pc = "pause" /\ Running') \/ (pc = "poll" /\ Running')
      BY <2>9 DEF Round, UseSession, Challenged, Verified, PollAnswered, Lapse, DoorRestarts,
         RivalCalls, Keeping, keyVars, noteVars, boundVars, Requests
    <3>3. Running' <=> Running
      BY <3>2 DEF Requests
    <3> QED
      BY <2>1, <3>1, <3>3
  <2>10. CASE ChallengeFails \/ VerifyFails \/ Answered \/ Refused \/ Unanswered
    <3>1. UNCHANGED <<keyVars, signers>>
      BY <2>10 DEF ChallengeFails, VerifyFails, Answered, Refused, Unanswered, Keeping, noteVars
    <3>2. pc \in Requests
      BY <2>10 DEF ChallengeFails, VerifyFails, Answered, Refused, Unanswered, TypeOK,
         TypeOfLoop
    <3>3. pc' \in Requests \cup {"pause"}
      BY <2>10, <3>2, AfterType DEF ChallengeFails, VerifyFails, Answered, Refused,
         Unanswered, GiveUp, Requests
    <3> QED
      BY <2>1, <3>1, <3>2, <3>3
  <2>11. CASE UNCHANGED vars
    BY <2>11 DEF vars
  <2> QED
    BY <2>2, <2>3, <2>4, <2>5, <2>6, <2>7, <2>8, <2>9, <2>10, <2>11 DEF Next, LoopStep
<1>3. Trust => OneSigner
  BY DEF Trust
<1> QED
  BY <1>1, <1>2, <1>3, TypeCorrectness, PTL DEF Spec

-----------------------------------------------------------------------------
(* The session.                                                            *)

(* A session the door forgot is a refusal still to come, and each restart of the     *)
(* door allows for one.                                                          *)
Dead == session /\ ~ honoured

Allowance ==
  /\ OneRefusalPerRestart
  /\ step = "send" => session
  /\ Dead => refusals + 1 < doorLife

THEOREM ForgottenSessionsCostOne == Spec => []OneRefusalPerRestart
<1>1. Init => Allowance
  BY DEF Init, Allowance, OneRefusalPerRestart, Dead
<1>2. TypeOK /\ Allowance /\ [Next]_vars => Allowance'
  <2> SUFFICES ASSUME TypeOK, Allowance, [Next]_vars
               PROVE  Allowance'
    OBVIOUS
  <2>1. refusals \in Nat /\ doorLife \in Nat /\ session \in BOOLEAN /\ honoured \in BOOLEAN
    BY SessionAssumption DEF TypeOK, TypeOfBounds, TypeOfLoop, TypeOfDoor
  <2> USE DEF Allowance, OneRefusalPerRestart, Dead
  <2>2. CASE UNCHANGED <<step, session, honoured, doorLife, refusals>>
    BY <2>2
  <2>3. CASE Stop \/ EnrolUnusable
    BY <2>3 DEF Stop, EnrolUnusable, Forget, boundVars
  <2>4. CASE Start \/ RemovePin \/ EnrolAnswered \/ Resolve \/ Round \/ Lapse \/ NoteDropped
             \/ NoteShown \/ RivalCalls
    BY <2>2, <2>4 DEF Start, RemovePin, EnrolAnswered, Resolve, Round, Lapse, NoteDropped,
       NoteShown, RivalCalls, Keeping, boundVars, doorVars
  <2>5. CASE UseSession
    BY <2>5 DEF UseSession, Keeping, boundVars, doorVars
  <2>6. CASE Challenged \/ ChallengeFails \/ VerifyFails
    BY <2>6 DEF Challenged, ChallengeFails, VerifyFails, GiveUp, Keeping, boundVars
  <2>7. CASE Verified
    BY <2>7 DEF Verified, Keeping, boundVars
  <2>8. CASE PollAnswered \/ Answered \/ Unanswered \/ NotesFetched
    BY <2>8 DEF PollAnswered, Answered, Unanswered, NotesFetched, GiveUp, Keeping, boundVars,
       doorVars
  <2>9. CASE Refused
    <3>1. /\ Dead /\ step' = "ask" /\ doorLife' = doorLife /\ honoured' = honoured
      BY <2>9 DEF Refused, GiveUp, Keeping, boundVars, doorVars
    <3>2. CASE pc \in Drops
      BY <2>1, <2>9, <3>1, <3>2 DEF Refused
    <3>3. CASE pc \notin Drops
      <4>1. pc \in {"notes", "credit"}
        BY <2>9, <3>3 DEF Refused, Drops, TypeOK, TypeOfLoop, Requests
      <4>2. session' = session /\ refusals' = refusals
        BY <2>9, <3>3, <4>1 DEF Refused
      <4> QED
        BY <2>1, <3>1, <4>2
    <3> QED
      BY <3>2, <3>3
  <2>10. CASE DoorRestarts
    BY <2>1, <2>10 DEF DoorRestarts
  <2>11. CASE UNCHANGED vars
    BY <2>11, <2>2 DEF vars
  <2> QED
    BY <2>3, <2>4, <2>5, <2>6, <2>7, <2>8, <2>9, <2>10, <2>11 DEF Next, LoopStep
<1>3. Allowance => OneRefusalPerRestart
  BY DEF Allowance
<1> QED
  BY <1>1, <1>2, <1>3, TypeCorrectness, PTL DEF Spec
=============================================================================
