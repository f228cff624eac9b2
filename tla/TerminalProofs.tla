--------------------------- MODULE TerminalProofs ---------------------------
(***************************************************************************)
(* Proofs about Terminal, for every set of envelopes and briefs, every        *)
(* ceiling and standing, and every number of lives, polls and outcomes.      *)
(*                                                                         *)
(* IInv is inductive: the types, where the process stands when a batch is in   *)
(* hand, that identities are minted in order, and that there is always room    *)
(* for the outcomes still to come.  The layers above it (SeqInv, DebtInv,     *)
(* TraceInv, CountInv) each strengthen one of the checked properties.         *)
(***************************************************************************)
EXTENDS Terminal, FiniteSetTheorems, SequenceTheorems, TLAPS

-----------------------------------------------------------------------------
(* The inductive invariant.                                                *)

\* The types, in groups that change together.
TypeLoop ==
  /\ pc \in Phases /\ why \in Endings
  /\ body \in Briefs \cup {NoBrief}
  /\ polls \in Nat /\ idle \in Nat

TypeSeqs ==
  /\ disk \in Seqs \cup {0, Torn} /\ lastSeq \in Seqs \cup {0}
  /\ accepted \in [Seqs -> Nat] /\ life \in 0 .. MaxLives

TypeQueues ==
  /\ pending \subseteq recorded /\ reported \subseteq recorded
  /\ answers \subseteq signed /\ specs \subseteq signed
  /\ recorded \subseteq Outcomes /\ signed \subseteq Submissions
  /\ todo \subseteq answers /\ kept \subseteq answers

TypeBatch ==
  /\ batch \in Seq(Envelopes) /\ notices \subseteq Envelopes
  /\ taken \in Nat /\ dropped \in Nat

TypeFlag == cancelled \in BOOLEAN

\* Where the process stands: a batch is in hand only while it is handled, a
\* delivery has an instruction, submissions are being posted only in submit.
Where ==
  /\ Alive => life >= 1
  /\ batch # <<>> => pc \in {"handle", "credit", "fetch", "conduct"}
  /\ pc \in {"credit", "fetch", "conduct"} => batch # <<>>
  /\ pc = "conduct" => body \in Briefs
  /\ pc # "submit" => todo = {} /\ kept = {}

\* Identities are minted in order, and a submission never without an outcome.
Minted ==
  /\ IsFiniteSet(recorded) /\ IsFiniteSet(signed)
  /\ \A o \in recorded : o.id <= Cardinality(recorded) /\ o.life <= life
  /\ \A s \in signed : s.id <= Cardinality(signed) /\ s.life <= life
  /\ Cardinality(signed) <= Cardinality(recorded)

\* The submissions that may still become an outcome of their own.
Owed == IF pc = "submit" THEN Cardinality(todo) + Cardinality(kept)
        ELSE Cardinality(answers)

Room == Cardinality(recorded) + Owed + 2 * Len(batch) <= MaxRecords

IInv ==
  /\ TypeLoop /\ TypeSeqs /\ TypeQueues /\ TypeBatch /\ TypeFlag
  /\ Where /\ Minted /\ Room

LEMMA TypeGroups ==
  TypeOK <=> TypeLoop /\ TypeSeqs /\ TypeQueues /\ TypeBatch /\ TypeFlag
  BY DEF TypeOK, TypeLoop, TypeSeqs, TypeQueues, TypeBatch, TypeFlag

-----------------------------------------------------------------------------
(* Facts about the constants, the outcomes and the batch.                   *)

\* The sequence numbers are numbers, and an envelope's is one of them.
LEMMA ConstantFacts ==
  /\ Seqs \subseteq Nat
  /\ \A e \in Envelopes : e.seq \in Seqs /\ e.seq \in Nat /\ e.brief \in Briefs
  /\ NoBrief \notin Briefs /\ Torn \notin Nat
  /\ MaxRecords \in Nat /\ MaxLives \in Nat /\ MaxPolls \in Nat /\ IdleExit \in Nat
  BY TerminalAssumption DEF Seqs

\* Every verdict has a name.
LEMMA Verdicts ==
  /\ \A e \in Envelopes : PreGateReason(e) \in Reasons
  /\ \A c, k, a : Evaluate(c, Ceiling, k, a) \in Reasons
  BY DEF PreGateReason, Evaluate, Reasons

\* What is queued and what is recorded is finite.
LEMMA FiniteQueues ==
  ASSUME TypeQueues, Minted
  PROVE  /\ IsFiniteSet(answers) /\ IsFiniteSet(todo) /\ IsFiniteSet(kept)
         /\ Cardinality(answers) \in Nat /\ Cardinality(todo) \in Nat
         /\ Cardinality(kept) \in Nat
         /\ Cardinality(recorded) \in Nat /\ Cardinality(signed) \in Nat
  <1>1. IsFiniteSet(answers)
    BY FS_Subset DEF TypeQueues, Minted
  <1>2. IsFiniteSet(todo) /\ IsFiniteSet(kept)
    BY <1>1, FS_Subset DEF TypeQueues
  <1> QED
    BY <1>1, <1>2, FS_CardinalityType DEF Minted

\* record: the new outcome is new, well typed, and one more.
LEMMA Recording ==
  ASSUME TypeQueues, Minted, life \in 1 .. MaxLives,
         Cardinality(recorded) < MaxRecords,
         NEW kind \in {"instruction", "submission"},
         NEW seq \in Seqs \cup {0}, NEW reason \in Reasons,
         Record(kind, seq, reason)
  PROVE  \E o \in Outcomes :
           /\ recorded' = recorded \cup {o} /\ pending' = pending \cup {o}
           /\ o \notin recorded
           /\ o.kind = kind /\ o.life = life /\ o.id = Cardinality(recorded')
           /\ IsFiniteSet(recorded')
           /\ Cardinality(recorded') = Cardinality(recorded) + 1
  <1> DEFINE o == Outcome(kind, seq, reason)
  <1>1. Cardinality(recorded) \in Nat
    BY FiniteQueues
  <1>2. o \in Outcomes
    BY <1>1, ConstantFacts DEF Outcome, Outcomes
  <1>3. o.id = Cardinality(recorded) + 1 /\ o.kind = kind /\ o.life = life
    BY DEF Outcome
  <1>4. o \notin recorded
    BY <1>1, <1>3 DEF Minted
  <1>5. recorded' = recorded \cup {o} /\ pending' = pending \cup {o}
    BY DEF Record
  <1>6. /\ IsFiniteSet(recorded')
        /\ Cardinality(recorded') = Cardinality(recorded) + 1
    BY <1>4, <1>5, FS_AddElement DEF Minted
  <1> HIDE DEF o
  <1> QED
    BY <1>2, <1>3, <1>4, <1>5, <1>6

\* The instruction at the head of a batch.
LEMMA HeadOfBatch ==
  ASSUME TypeBatch, batch # <<>>
  PROVE  /\ Head(batch) \in Envelopes
         /\ Tail(batch) \in Seq(Envelopes)
         /\ Len(Tail(batch)) = Len(batch) - 1
         /\ Len(batch) \in Nat \ {0}
  BY HeadTailProperties, LenProperties, EmptySeq DEF TypeBatch

-----------------------------------------------------------------------------
(* Invariance of IInv.                                                     *)

\* A step that records and signs nothing may shrink the queues and hand their
\* content over.
LEMMA QueuesShrink ==
  ASSUME TypeQueues, Minted, UNCHANGED <<recorded, signed>>,
         pending' \subseteq recorded, reported' \subseteq recorded,
         answers' \subseteq answers, specs' \subseteq signed,
         todo' \subseteq answers', kept' \subseteq answers',
         life \in Nat, life' \in Nat, life' >= life
  PROVE  TypeQueues' /\ Minted'
  <1>1. TypeQueues'
    BY DEF TypeQueues
  <1>2. \A o \in recorded : o.life <= life'
    BY DEF TypeQueues, Minted, Outcomes
  <1>3. \A u \in signed : u.life <= life'
    BY DEF TypeQueues, Minted, Submissions
  <1> QED
    BY <1>1, <1>2, <1>3 DEF Minted

\* A step that records nothing and takes on nothing leaves the room there is.
LEMMA RoomKept ==
  ASSUME IInv, UNCHANGED recorded,
         Owed' \in Nat, Owed' <= Owed,
         Len(batch') \in Nat, Len(batch') <= Len(batch)
  PROVE  Room'
  <1>1. Cardinality(recorded) \in Nat /\ Owed \in Nat /\ Len(batch) \in Nat
    BY FiniteQueues, LenProperties DEF IInv, Owed, TypeBatch
  <1>2. Cardinality(recorded) + Owed + 2 * Len(batch) <= MaxRecords
    BY DEF IInv, Room
  <1>3. Cardinality(recorded) + Owed' + 2 * Len(batch') <= MaxRecords
    BY <1>1, <1>2, ConstantFacts
  <1> QED
    BY <1>3 DEF Room

\* In particular a step that leaves queues, submission round and batch alone.
LEMMA RoomFrame ==
  ASSUME IInv, UNCHANGED <<recorded, answers, todo, kept, batch>>,
         pc = "submit" <=> pc' = "submit"
  PROVE  Room'
  BY DEF IInv, Room, Owed

\* Recording keeps the order in which outcomes are minted.
LEMMA OutcomesMinted ==
  ASSUME TypeQueues, Minted, life \in 1 .. MaxLives, life' = life,
         NEW o \in Outcomes, recorded' = recorded \cup {o},
         o.life = life, o.id = Cardinality(recorded'),
         Cardinality(recorded') = Cardinality(recorded) + 1
  PROVE  \A p \in recorded' : p.id <= Cardinality(recorded') /\ p.life <= life'
  <1>1. Cardinality(recorded) \in Nat
    BY FiniteQueues
  <1> TAKE p \in recorded'
  <1>2. CASE p \in recorded
    <2>1. p.id <= Cardinality(recorded) /\ p.life <= life /\ p.id \in Nat
      BY <1>2 DEF Minted, TypeQueues, Outcomes
    <2> QED
      BY <2>1, <1>1
  <1>3. CASE p = o
    <2>1. o.id \in Nat /\ life \in Nat
      BY DEF Outcomes
    <2> QED
      BY <2>1, <1>3
  <1> QED
    BY <1>2, <1>3

LEMMA MintedKept ==
  ASSUME TypeQueues, Minted, life \in 1 .. MaxLives, UNCHANGED <<life, signed>>,
         NEW o \in Outcomes, recorded' = recorded \cup {o},
         o.life = life, o.id = Cardinality(recorded'), IsFiniteSet(recorded'),
         Cardinality(recorded') = Cardinality(recorded) + 1
  PROVE  Minted'
  <1>1. \A p \in recorded' : p.id <= Cardinality(recorded') /\ p.life <= life'
    BY OutcomesMinted
  <1>2. Cardinality(signed') <= Cardinality(recorded')
    BY FiniteQueues DEF Minted
  <1> QED
    BY <1>1, <1>2 DEF Minted

\* The head of the batch is settled: one outcome more, one instruction less.
LEMMA Settling ==
  ASSUME IInv, pc # "submit", pc # "down", batch # <<>>,
         NEW e \in Envelopes, NEW reason \in Reasons, Settle(e, reason),
         UNCHANGED <<answers, reported, specs, todo, kept, life>>
  PROVE  /\ TypeQueues' /\ Minted' /\ Room' /\ Where'
         /\ batch' \in Seq(Envelopes) /\ body' = NoBrief /\ pc' = "handle"
  <1> DEFINE seq == IF e.wellFormed THEN e.seq ELSE 0
  <1>1. /\ Record("instruction", seq, reason)
        /\ batch' = Tail(batch) /\ body' = NoBrief /\ pc' = "handle" /\ signed' = signed
    BY DEF Settle
  <1>2. seq \in Seqs \cup {0}
    BY ConstantFacts
  <1>3. life \in 1 .. MaxLives
    BY DEF IInv, TypeSeqs, Where, Alive
  <1>4. /\ Len(batch) \in Nat \ {0} /\ Len(batch') = Len(batch) - 1
        /\ batch' \in Seq(Envelopes)
    BY <1>1, HeadOfBatch DEF IInv
  <1>5. /\ Cardinality(recorded) \in Nat /\ Cardinality(signed) \in Nat
        /\ Cardinality(answers) \in Nat
    BY FiniteQueues DEF IInv
  <1>6. Cardinality(recorded) + Cardinality(answers) + 2 * Len(batch) <= MaxRecords
    BY DEF IInv, Room, Owed
  <1>7. Cardinality(recorded) < MaxRecords
    BY <1>4, <1>5, <1>6, ConstantFacts
  <1> HIDE DEF seq
  <1>8. PICK o \in Outcomes :
           /\ recorded' = recorded \cup {o} /\ pending' = pending \cup {o}
           /\ o.life = life /\ o.id = Cardinality(recorded')
           /\ IsFiniteSet(recorded')
           /\ Cardinality(recorded') = Cardinality(recorded) + 1
    BY <1>1, <1>2, <1>3, <1>7, Recording DEF IInv
  <1>9. TypeQueues'
    BY <1>1, <1>8 DEF IInv, TypeQueues
  <1>10. Minted'
    BY <1>1, <1>3, <1>8, MintedKept DEF IInv
  <1>11. Room'
    BY <1>1, <1>4, <1>5, <1>6, <1>8, ConstantFacts DEF Room, Owed
  <1>12. Where'
    BY <1>1, <1>3 DEF IInv, Where, Alive
  <1> QED
    BY <1>1, <1>4, <1>9, <1>10, <1>11, <1>12

\* Nothing was started: the invariant holds.
LEMMA InitIInv == Init => IInv
  <1> SUFFICES ASSUME Init PROVE IInv
    OBVIOUS
  <1>1. TypeLoop /\ TypeSeqs
    BY ConstantFacts DEF Init, TypeLoop, TypeSeqs, Phases, Endings
  <1>2. TypeQueues /\ TypeBatch
    BY DEF Init, TypeQueues, TypeBatch
  <1>5. TypeFlag
    BY DEF Init, TypeFlag
  <1>3. Where /\ Minted
    BY FS_EmptySet DEF Init, Where, Alive, Minted
  <1>4. Room
    BY FS_EmptySet, ConstantFacts DEF Init, Room, Owed
  <1> QED
    BY <1>1, <1>2, <1>3, <1>4, <1>5 DEF IInv

\* Every step of the process, the person and the machine preserves the invariant.
LEMMA StepIInv == IInv /\ [Next]_vars => IInv'
  <1> SUFFICES ASSUME IInv, [Next]_vars PROVE IInv'
    OBVIOUS
  <1> USE ConstantFacts DEF IInv
  <1>1. CASE Start
    <2>1. TypeLoop'
      BY <1>1 DEF Start, Fresh, TypeLoop, Phases, Endings
    <2>2. TypeSeqs'
      BY <1>1 DEF Start, Fresh, durableVars, TypeSeqs
    <2>3. TypeQueues' /\ Minted'
      BY <1>1, <2>2, QueuesShrink DEF Start, Fresh, facadeVars, TypeQueues, TypeSeqs
    <2>4. TypeBatch'
      BY <1>1 DEF Start, Fresh, durableVars, TypeBatch
    <2>5. TypeFlag'
      BY <1>1 DEF Start, Fresh, TypeFlag
    <2>6. Where'
      BY <1>1 DEF Start, Fresh, Where, Alive, TypeSeqs
    <2>7. Room'
      <3>1. Owed' = 0 /\ Len(batch') = 0
        BY <1>1, FS_EmptySet DEF Start, Fresh, Owed
      <3> QED
        BY <1>1, <3>1, RoomKept, FiniteQueues, LenProperties DEF Start, Owed, TypeBatch
    <2> QED
      BY <2>1, <2>2, <2>3, <2>4, <2>5, <2>6, <2>7
  <1>2. CASE Crash
    <2>1. TypeLoop'
      BY <1>2 DEF Crash, Fresh, Exit, TypeLoop, Phases, Endings
    <2>2. TypeSeqs'
      BY <1>2 DEF Crash, Fresh, Exit, TypeSeqs
    <2>3. TypeQueues' /\ Minted'
      BY <1>2, <2>2, QueuesShrink DEF Crash, Fresh, Exit, facadeVars, TypeQueues, TypeSeqs
    <2>4. TypeBatch'
      BY <1>2 DEF Crash, Fresh, Exit, TypeBatch
    <2>5. TypeFlag'
      BY <1>2 DEF Crash, Fresh, Exit, TypeFlag
    <2>6. Where'
      BY <1>2 DEF Crash, Fresh, Exit, Where, Alive
    <2>7. Room'
      <3>1. Owed' = 0 /\ Len(batch') = 0
        BY <1>2, FS_EmptySet DEF Crash, Exit, Fresh, Owed
      <3> QED
        BY <1>2, <3>1, RoomKept, FiniteQueues, LenProperties DEF Crash, Owed, TypeBatch
    <2> QED
      BY <2>1, <2>2, <2>3, <2>4, <2>5, <2>6, <2>7
  <1>3. CASE Cancel
    <2>1. TypeLoop'
      BY <1>3 DEF Cancel, loopVars, TypeLoop, Phases, Endings
    <2>2. TypeSeqs'
      BY <1>3 DEF Cancel, durableVars, historyVars, TypeSeqs
    <2>3. TypeQueues' /\ Minted'
      BY <1>3, <2>2, QueuesShrink DEF Cancel, queueVars, submitVars, facadeVars, historyVars, TypeQueues, TypeSeqs
    <2>4. TypeBatch'
      BY <1>3 DEF Cancel, durableVars, historyVars, TypeBatch
    <2>5. TypeFlag'
      BY <1>3 DEF Cancel, TypeFlag
    <2>6. Where'
      BY <1>3 DEF Cancel, submitVars, historyVars, Where, Alive
    <2>7. Room'
      BY <1>3, RoomFrame DEF Cancel, queueVars, submitVars
    <2> QED
      BY <2>1, <2>2, <2>3, <2>4, <2>5, <2>6, <2>7
  <1>4. CASE StopAtTop
    <2>1. TypeLoop'
      BY <1>4 DEF StopAtTop, Exit, loopVars, TypeLoop, Phases, Endings
    <2>2. TypeSeqs'
      BY <1>4 DEF StopAtTop, Exit, durableVars, historyVars, TypeSeqs
    <2>3. TypeQueues' /\ Minted'
      BY <1>4, <2>2, QueuesShrink DEF StopAtTop, Exit, queueVars, submitVars, facadeVars, historyVars, TypeQueues, TypeSeqs
    <2>4. TypeBatch'
      BY <1>4 DEF StopAtTop, Exit, durableVars, historyVars, TypeBatch
    <2>5. TypeFlag'
      BY <1>4 DEF StopAtTop, Exit, TypeFlag
    <2>6. Where'
      BY <1>4 DEF StopAtTop, Exit, submitVars, historyVars, Where, Alive
    <2>7. Room'
      BY <1>4, RoomFrame DEF StopAtTop, Exit, queueVars, submitVars
    <2> QED
      BY <2>1, <2>2, <2>3, <2>4, <2>5, <2>6, <2>7
  <1>5. CASE BeginRound
    <2>1. TypeLoop'
      BY <1>5 DEF BeginRound, loopVars, TypeLoop, Phases, Endings
    <2>2. TypeSeqs'
      BY <1>5 DEF BeginRound, durableVars, historyVars, TypeSeqs
    <2>3. TypeQueues' /\ Minted'
      BY <1>5, <2>2, QueuesShrink DEF BeginRound, queueVars, facadeVars, historyVars, TypeQueues, TypeSeqs
    <2>4. TypeBatch'
      BY <1>5 DEF BeginRound, durableVars, historyVars, TypeBatch
    <2>5. TypeFlag'
      BY <1>5 DEF BeginRound, TypeFlag
    <2>6. Where'
      BY <1>5 DEF BeginRound, historyVars, Where, Alive
    <2>7. Room'
      <3>1. Owed' = Cardinality(answers) + 0
        BY <1>5, FS_EmptySet DEF BeginRound, Owed
      <3>2. Owed = Cardinality(answers)
        BY <1>5 DEF BeginRound, Owed
      <3> QED
        BY <1>5, <3>1, <3>2, RoomKept, FiniteQueues, LenProperties DEF BeginRound, TypeBatch, queueVars
    <2> QED
      BY <2>1, <2>2, <2>3, <2>4, <2>5, <2>6, <2>7
  <1>6. CASE \E s \in todo : PostSubmission(s)
    <2> PICK s \in todo : PostSubmission(s)
      BY <1>6
    <2>1. /\ TypeLoop' /\ TypeSeqs'
      BY DEF PostSubmission, durableVars, loopVars, historyVars, TypeLoop, TypeSeqs
    <2>2. TypeBatch'
      BY DEF PostSubmission, durableVars, historyVars, TypeBatch
    <2>3. TypeFlag'
      BY DEF PostSubmission, TypeFlag
    <2>4. Where'
      BY DEF PostSubmission, Where, Alive, historyVars
    <2>5. /\ todo' = todo \ {s} /\ pc = "submit" /\ pc' = "submit"
          /\ UNCHANGED <<answers, signed, batch, life>>
      BY DEF PostSubmission, historyVars
    <2>6. /\ Cardinality(todo') = Cardinality(todo) - 1 /\ Cardinality(todo') \in Nat
          /\ Cardinality(todo) \in Nat
      BY <2>5, FiniteQueues, FS_RemoveElement, FS_CardinalityType
    <2>7. /\ Cardinality(kept) \in Nat /\ Cardinality(recorded) \in Nat
          /\ Cardinality(kept \cup {s}) \in Nat
          /\ Cardinality(kept \cup {s}) <= Cardinality(kept) + 1
      <3>1. IsFiniteSet(kept) /\ Cardinality(kept) \in Nat /\ Cardinality(recorded) \in Nat
        BY FiniteQueues
      <3>2. /\ IsFiniteSet(kept \cup {s})
            /\ \/ Cardinality(kept \cup {s}) = Cardinality(kept)
               \/ Cardinality(kept \cup {s}) = Cardinality(kept) + 1
        BY <3>1, FS_AddElement
      <3> QED
        BY <3>1, <3>2
    <2>8. /\ Cardinality(recorded) + (Cardinality(todo) + Cardinality(kept)) + 2 * Len(batch)
               <= MaxRecords
          /\ Len(batch) \in Nat
      BY <2>5, LenProperties DEF Room, Owed, TypeBatch
    <2>9. CASE PostTaken(s)
      <3>1. /\ specs' = specs \cup {s} /\ kept' = kept /\ reported' = reported
            /\ Record("submission", 0, "none")
        BY <2>9 DEF PostTaken, PostSubmission
      <3>2. life \in 1 .. MaxLives
        BY <2>5 DEF TypeSeqs, Where, Alive
      <3>3. Cardinality(recorded) < MaxRecords
        BY <2>6, <2>7, <2>8
      <3>4. PICK o \in Outcomes :
               /\ recorded' = recorded \cup {o} /\ pending' = pending \cup {o}
               /\ o.life = life /\ o.id = Cardinality(recorded')
               /\ IsFiniteSet(recorded')
               /\ Cardinality(recorded') = Cardinality(recorded) + 1
        BY <3>1, <3>2, <3>3, Recording DEF Reasons
      <3>5. TypeQueues'
        BY <2>5, <3>1, <3>4 DEF TypeQueues
      <3>6. Minted'
        BY <2>5, <3>2, <3>4, MintedKept
      <3>7. Cardinality(recorded') + (Cardinality(todo') + Cardinality(kept'))
              + 2 * Len(batch) <= MaxRecords
        BY <2>6, <2>7, <2>8, <3>1, <3>4
      <3>8. Room'
        BY <2>5, <3>7 DEF Room, Owed
      <3> QED
        BY <2>1, <2>2, <2>3, <2>4, <3>5, <3>6, <3>8
    <2>10. CASE kept' = kept \cup {s} /\ UNCHANGED <<pending, recorded>> /\ specs' \subseteq specs \cup {s}
      <3>1. TypeQueues' /\ Minted'
        BY <2>5, <2>10, QueuesShrink DEF PostSubmission, TypeQueues, TypeSeqs
      <3>2. Cardinality(kept') \in Nat /\ Cardinality(kept') <= Cardinality(kept) + 1
        BY <2>7, <2>10
      <3>3. Cardinality(recorded) + (Cardinality(todo') + Cardinality(kept'))
              + 2 * Len(batch) <= MaxRecords
        <4> DEFINE r == Cardinality(recorded)
                   t == Cardinality(todo)
                   k == Cardinality(kept)
                   l == Cardinality(kept')
                   b == Len(batch)
        <4>1. /\ r \in Nat /\ t \in Nat /\ k \in Nat /\ l \in Nat /\ b \in Nat
              /\ MaxRecords \in Nat /\ l <= k + 1 /\ r + (t + k) + 2 * b <= MaxRecords
          BY <2>6, <2>7, <2>8, <3>2, ConstantFacts
        <4> HIDE DEF r, t, k, l, b
        <4>2. r + ((t - 1) + l) + 2 * b <= MaxRecords
          BY <4>1
        <4> QED
          BY <2>6, <4>2 DEF r, t, l, b
      <3>4. Room'
        BY <2>5, <2>10, <3>3 DEF Room, Owed
      <3> QED
        BY <2>1, <2>2, <2>3, <2>4, <3>1, <3>4
    <2> QED
      BY <2>9, <2>10 DEF PostSubmission, PostAnswerLost, PostNotTaken
  <1>7. CASE EndSubmit
    <2>1. TypeLoop'
      BY <1>7 DEF EndSubmit, loopVars, TypeLoop, Phases, Endings
    <2>2. TypeSeqs'
      BY <1>7 DEF EndSubmit, durableVars, historyVars, TypeSeqs
    <2>3. TypeQueues' /\ Minted'
      BY <1>7, <2>2, QueuesShrink DEF EndSubmit, facadeVars, historyVars, TypeQueues, TypeSeqs
    <2>4. TypeBatch'
      BY <1>7 DEF EndSubmit, durableVars, historyVars, TypeBatch
    <2>5. TypeFlag'
      BY <1>7 DEF EndSubmit, TypeFlag
    <2>6. Where'
      BY <1>7 DEF EndSubmit, historyVars, Where, Alive
    <2>7. Room'
      <3>1. Owed = 0 + Cardinality(kept) /\ Owed' = Cardinality(kept)
        BY <1>7, FS_EmptySet DEF EndSubmit, Owed
      <3> QED
        BY <1>7, <3>1, RoomKept, FiniteQueues, LenProperties DEF EndSubmit, TypeBatch
    <2> QED
      BY <2>1, <2>2, <2>3, <2>4, <2>5, <2>6, <2>7
  <1>8. CASE PollFails
    <2>1. TypeLoop'
      BY <1>8 DEF PollFails, FacadeTakesQueues, loopVars, TypeLoop, Phases, Endings
    <2>2. TypeSeqs'
      BY <1>8 DEF PollFails, FacadeTakesQueues, durableVars, historyVars, TypeSeqs
    <2>3. TypeQueues' /\ Minted'
      BY <1>8, <2>2, QueuesShrink DEF PollFails, FacadeTakesQueues, queueVars, submitVars, facadeVars, historyVars, TypeQueues, TypeSeqs
    <2>4. TypeBatch'
      BY <1>8 DEF PollFails, FacadeTakesQueues, durableVars, historyVars, TypeBatch
    <2>5. TypeFlag'
      BY <1>8 DEF PollFails, FacadeTakesQueues, TypeFlag
    <2>6. Where'
      BY <1>8 DEF PollFails, FacadeTakesQueues, submitVars, historyVars, Where, Alive
    <2>7. Room'
      BY <1>8, RoomFrame DEF PollFails, FacadeTakesQueues, queueVars, submitVars
    <2> QED
      BY <2>1, <2>2, <2>3, <2>4, <2>5, <2>6, <2>7
  <1>9. CASE PollUnusable
    <2>1. TypeLoop'
      BY <1>9 DEF PollUnusable, DrainQueues, FacadeTakesQueues, loopVars, TypeLoop, Phases, Endings
    <2>2. TypeSeqs'
      BY <1>9 DEF PollUnusable, DrainQueues, FacadeTakesQueues, durableVars, historyVars, TypeSeqs
    <2>3. TypeQueues' /\ Minted'
      BY <1>9, <2>2, QueuesShrink DEF PollUnusable, DrainQueues, FacadeTakesQueues, historyVars, TypeQueues, TypeSeqs, Where, submitVars
    <2>4. TypeBatch'
      BY <1>9 DEF PollUnusable, DrainQueues, FacadeTakesQueues, durableVars, historyVars, TypeBatch
    <2>5. TypeFlag'
      BY <1>9 DEF PollUnusable, DrainQueues, FacadeTakesQueues, TypeFlag
    <2>6. Where'
      BY <1>9 DEF PollUnusable, DrainQueues, FacadeTakesQueues, submitVars, historyVars, Where, Alive
    <2>7. Room'
      <3>1. Owed' = 0
        BY <1>9, FS_EmptySet DEF PollUnusable, DrainQueues, Exit, Owed
      <3>2. Owed \in Nat
        BY <1>9, FiniteQueues DEF PollUnusable, Owed
      <3> QED
        BY <1>9, <3>1, <3>2, RoomKept, LenProperties DEF PollUnusable, DrainQueues, TypeBatch
    <2> QED
      BY <2>1, <2>2, <2>3, <2>4, <2>5, <2>6, <2>7
  <1>10. CASE PollEmpty
    <2>1. TypeLoop'
      BY <1>10 DEF PollEmpty, Exit, DrainQueues, FacadeTakesQueues, TypeLoop, Phases, Endings
    <2>2. TypeSeqs'
      BY <1>10 DEF PollEmpty, Exit, DrainQueues, FacadeTakesQueues, durableVars, historyVars, TypeSeqs
    <2>3. TypeQueues' /\ Minted'
      BY <1>10, <2>2, QueuesShrink DEF PollEmpty, DrainQueues, FacadeTakesQueues, historyVars, TypeQueues, TypeSeqs, Where, submitVars
    <2>4. TypeBatch'
      BY <1>10 DEF PollEmpty, Exit, DrainQueues, FacadeTakesQueues, durableVars, historyVars, TypeBatch
    <2>5. TypeFlag'
      BY <1>10 DEF PollEmpty, Exit, DrainQueues, FacadeTakesQueues, TypeFlag
    <2>6. Where'
      BY <1>10 DEF PollEmpty, Exit, DrainQueues, FacadeTakesQueues, submitVars, historyVars, Where, Alive
    <2>7. Room'
      <3>1. Owed' = 0
        BY <1>10, FS_EmptySet DEF PollEmpty, DrainQueues, Exit, Owed
      <3>2. Owed \in Nat
        BY <1>10, FiniteQueues DEF PollEmpty, Owed
      <3> QED
        BY <1>10, <3>1, <3>2, RoomKept, LenProperties DEF PollEmpty, DrainQueues, TypeBatch
    <2> QED
      BY <2>1, <2>2, <2>3, <2>4, <2>5, <2>6, <2>7
  <1>11. CASE \E b \in Batches : PollInstructions(b)
    <2>1. TypeLoop'
      BY <1>11 DEF PollInstructions, DrainQueues, FacadeTakesQueues, TypeLoop, Phases, Endings
    <2>2. TypeSeqs'
      BY <1>11 DEF PollInstructions, DrainQueues, FacadeTakesQueues, durableVars, TypeSeqs
    <2>3. TypeQueues' /\ Minted'
      BY <1>11, <2>2, QueuesShrink DEF PollInstructions, DrainQueues, FacadeTakesQueues, TypeQueues, TypeSeqs, Where, submitVars
    <2>4. TypeBatch'
      <3>1. PICK b \in Batches : PollInstructions(b)
        BY <1>11
      <3>2. b \in Seq(Envelopes) /\ Len(b) \in Nat
        BY DEF Batches
      <3> QED
        BY <3>1, <3>2 DEF PollInstructions, durableVars, TypeBatch
    <2>5. TypeFlag'
      BY <1>11 DEF PollInstructions, DrainQueues, FacadeTakesQueues, TypeFlag
    <2>6. Where'
      BY <1>11 DEF PollInstructions, DrainQueues, FacadeTakesQueues, submitVars, Where, Alive
    <2>7. Room'
      <3>1. Owed' = 0 /\ recorded' = recorded
        BY <1>11, FS_EmptySet DEF PollInstructions, DrainQueues, Owed
      <3>2. PICK b \in Batches : PollInstructions(b)
        BY <1>11
      <3>3. Len(b) \in Nat
        BY DEF Batches
      <3>4. Cardinality(recorded) + Cardinality(answers) + 2 * Len(b) <= MaxRecords /\ batch' = b
        BY <3>2 DEF PollInstructions, RoomFor
      <3>5. Cardinality(recorded) + 0 + 2 * Len(b) <= MaxRecords
        BY <3>3, <3>4, FiniteQueues
      <3> QED
        BY <3>1, <3>4, <3>5 DEF Room
    <2> QED
      BY <2>1, <2>2, <2>3, <2>4, <2>5, <2>6, <2>7
  <1>12. CASE RefuseUnseen
    <2>1. PICK e \in Envelopes, reason \in Reasons :
             Settle(e, reason)
      BY <1>12, HeadOfBatch, Verdicts DEF RefuseUnseen
    <2>2. /\ TypeQueues' /\ Minted' /\ Room' /\ Where'
          /\ batch' \in Seq(Envelopes) /\ body' = NoBrief /\ pc' = "handle"
      BY <1>12, <2>1, Settling DEF RefuseUnseen, durableVars, submitVars, loopVars, facadeVars, historyVars
    <2>3. TypeLoop'
      BY <1>12, <2>2 DEF RefuseUnseen, durableVars, submitVars, loopVars, facadeVars, historyVars, TypeLoop, Phases
    <2>4. TypeSeqs'
      BY <1>12 DEF RefuseUnseen, durableVars, submitVars, loopVars, facadeVars, historyVars, TypeSeqs
    <2>5. TypeBatch'
      BY <1>12, <2>2 DEF RefuseUnseen, durableVars, submitVars, loopVars, facadeVars, historyVars, TypeBatch
    <2>6. TypeFlag'
      BY <1>12 DEF RefuseUnseen, durableVars, submitVars, loopVars, facadeVars, historyVars, TypeFlag
    <2> QED
      BY <2>2, <2>3, <2>4, <2>5, <2>6
  <1>13. CASE \E k \in Consents : RefuseAtGate(k)
    <2>1. PICK e \in Envelopes, reason \in Reasons :
             Settle(e, reason)
      BY <1>13, Verdicts DEF RefuseAtGate, Reasons
    <2>2. /\ TypeQueues' /\ Minted' /\ Room' /\ Where'
          /\ batch' \in Seq(Envelopes) /\ body' = NoBrief /\ pc' = "handle"
      BY <1>13, <2>1, Settling DEF RefuseAtGate, See, durableVars, submitVars, loopVars, facadeVars
    <2>3. TypeLoop'
      BY <1>13, <2>2 DEF RefuseAtGate, See, durableVars, submitVars, loopVars, facadeVars, TypeLoop, Phases
    <2>4. TypeSeqs'
      BY <1>13 DEF RefuseAtGate, See, durableVars, submitVars, loopVars, facadeVars, TypeSeqs
    <2>5. TypeBatch'
      BY <1>13, <2>2 DEF RefuseAtGate, See, durableVars, submitVars, loopVars, facadeVars, TypeBatch
    <2>6. TypeFlag'
      BY <1>13 DEF RefuseAtGate, See, durableVars, submitVars, loopVars, facadeVars, TypeFlag
    <2> QED
      BY <2>2, <2>3, <2>4, <2>5, <2>6
  <1>14. CASE \E k \in Consents : Perform(k)
    <2>1. PICK e \in Envelopes, reason \in Reasons :
             Settle(e, reason)
      BY <1>14, Verdicts DEF Perform, Reasons
    <2>2. /\ TypeQueues' /\ Minted' /\ Room' /\ Where'
          /\ batch' \in Seq(Envelopes) /\ body' = NoBrief /\ pc' = "handle"
      BY <1>14, <2>1, Settling DEF Perform, See, durableVars, submitVars, loopVars, facadeVars
    <2>3. TypeLoop'
      BY <1>14, <2>2 DEF Perform, See, durableVars, submitVars, loopVars, facadeVars, TypeLoop, Phases
    <2>4. TypeSeqs'
      BY <1>14 DEF Perform, See, durableVars, submitVars, loopVars, facadeVars, TypeSeqs
    <2>5. TypeBatch'
      BY <1>14, <2>2 DEF Perform, See, durableVars, submitVars, loopVars, facadeVars, TypeBatch
    <2>6. TypeFlag'
      BY <1>14 DEF Perform, See, durableVars, submitVars, loopVars, facadeVars, TypeFlag
    <2> QED
      BY <2>2, <2>3, <2>4, <2>5, <2>6
  <1>15. CASE \E k \in Consents : Deliver(k)
    <2>1. PICK e \in Envelopes :
             /\ See(e)
             /\ \/ UNCHANGED notices /\ Settle(e, "none")
                \/ notices' = notices \cup {e} /\ Settle(e, "none")
                \/ /\ notices' = notices \cup {e} /\ pc' = "credit"
                   /\ UNCHANGED <<queueVars, batch, body>>
             /\ UNCHANGED <<why, disk, answers, submitVars, loopVars, cancelled, facadeVars,
                            taken, dropped, life>>
      BY <1>15 DEF Deliver
    <2>2. TypeSeqs'
      BY <2>1 DEF See, TypeSeqs
    <2>3. TypeFlag'
      BY <2>1 DEF TypeFlag
    <2>4. notices' \subseteq Envelopes
      BY <2>1 DEF TypeBatch
    <2>5. CASE Settle(e, "none")
      <3>1. /\ TypeQueues' /\ Minted' /\ Room' /\ Where'
            /\ batch' \in Seq(Envelopes) /\ body' = NoBrief /\ pc' = "handle"
        BY <2>1, <2>5, Settling DEF See, Reasons, submitVars, facadeVars
      <3>2. TypeLoop'
        BY <2>1, <3>1 DEF TypeLoop, Phases, loopVars
      <3>3. TypeBatch'
        BY <2>1, <2>4, <3>1 DEF TypeBatch
      <3> QED
        BY <2>2, <2>3, <3>1, <3>2, <3>3
    <2>6. CASE pc' = "credit" /\ UNCHANGED <<queueVars, batch, body>>
      <3>1. TypeLoop'
        BY <2>1, <2>6 DEF TypeLoop, Phases, loopVars
      <3>2. TypeBatch'
        BY <2>1, <2>4, <2>6 DEF TypeBatch
      <3>3. TypeQueues' /\ Minted'
        BY <2>1, <2>6, QueuesShrink DEF queueVars, submitVars, facadeVars, TypeQueues, TypeSeqs
      <3>4. Where'
        BY <2>1, <2>6 DEF See, Where, Alive, submitVars
      <3>5. Room'
        BY <2>1, <2>6, RoomFrame DEF See, queueVars, submitVars
      <3> QED
        BY <2>2, <2>3, <3>1, <3>2, <3>3, <3>4, <3>5
    <2> QED
      BY <2>1, <2>5, <2>6
  <1>16. CASE DeliveryFails
    <2>1. PICK e \in Envelopes, reason \in Reasons :
             Settle(e, reason)
      BY <1>16, HeadOfBatch DEF DeliveryFails, Where, Reasons
    <2>2. /\ TypeQueues' /\ Minted' /\ Room' /\ Where'
          /\ batch' \in Seq(Envelopes) /\ body' = NoBrief /\ pc' = "handle"
      BY <1>16, <2>1, Settling DEF DeliveryFails, durableVars, submitVars, loopVars, facadeVars, historyVars, Where
    <2>3. TypeLoop'
      BY <1>16, <2>2 DEF DeliveryFails, durableVars, submitVars, loopVars, facadeVars, historyVars, TypeLoop, Phases
    <2>4. TypeSeqs'
      BY <1>16 DEF DeliveryFails, durableVars, submitVars, loopVars, facadeVars, historyVars, TypeSeqs
    <2>5. TypeBatch'
      BY <1>16, <2>2 DEF DeliveryFails, durableVars, submitVars, loopVars, facadeVars, historyVars, TypeBatch
    <2>6. TypeFlag'
      BY <1>16 DEF DeliveryFails, durableVars, submitVars, loopVars, facadeVars, historyVars, TypeFlag
    <2> QED
      BY <2>2, <2>3, <2>4, <2>5, <2>6
  <1>17. CASE CreditGranted
    <2>1. TypeLoop'
      BY <1>17 DEF CreditGranted, loopVars, TypeLoop, Phases, Endings
    <2>2. TypeSeqs'
      BY <1>17 DEF CreditGranted, durableVars, historyVars, TypeSeqs
    <2>3. TypeQueues' /\ Minted'
      BY <1>17, <2>2, QueuesShrink DEF CreditGranted, queueVars, submitVars, facadeVars, historyVars, TypeQueues, TypeSeqs
    <2>4. TypeBatch'
      BY <1>17 DEF CreditGranted, durableVars, historyVars, TypeBatch
    <2>5. TypeFlag'
      BY <1>17 DEF CreditGranted, TypeFlag
    <2>6. Where'
      BY <1>17 DEF CreditGranted, submitVars, historyVars, Where, Alive
    <2>7. Room'
      BY <1>17, RoomFrame DEF CreditGranted, queueVars, submitVars
    <2> QED
      BY <2>1, <2>2, <2>3, <2>4, <2>5, <2>6, <2>7
  <1>18. CASE \E b \in Briefs : FetchBrief(b)
    <2>1. TypeLoop'
      BY <1>18 DEF FetchBrief, BodyMatches, loopVars, TypeLoop, Phases, Endings
    <2>2. TypeSeqs'
      BY <1>18 DEF FetchBrief, BodyMatches, durableVars, historyVars, TypeSeqs
    <2>3. TypeQueues' /\ Minted'
      BY <1>18, <2>2, QueuesShrink DEF FetchBrief, BodyMatches, queueVars, submitVars, facadeVars, historyVars, TypeQueues, TypeSeqs
    <2>4. TypeBatch'
      BY <1>18 DEF FetchBrief, BodyMatches, durableVars, historyVars, TypeBatch
    <2>5. TypeFlag'
      BY <1>18 DEF FetchBrief, BodyMatches, TypeFlag
    <2>6. Where'
      BY <1>18 DEF FetchBrief, BodyMatches, submitVars, historyVars, Where, Alive
    <2>7. Room'
      BY <1>18, RoomFrame DEF FetchBrief, BodyMatches, queueVars, submitVars
    <2> QED
      BY <2>1, <2>2, <2>3, <2>4, <2>5, <2>6, <2>7
  <1>19. CASE Conduct
    <2> DEFINE e == Head(batch)
               s == [ id |-> Cardinality(signed) + 1, life |-> life, seq |-> e.seq, brief |-> body ]
    <2>1. /\ pc = "conduct" /\ batch # <<>> /\ body \in Briefs /\ e \in Envelopes
          /\ life \in 1 .. MaxLives
      BY <1>19, HeadOfBatch DEF Conduct, Where, TypeSeqs, Alive
    <2>2. /\ answers' = answers \cup {s} /\ signed' = signed \cup {s}
          /\ Record("instruction", e.seq, "none")
          /\ batch' = Tail(batch) /\ body' = NoBrief /\ pc' = "handle"
          /\ UNCHANGED <<why, durableVars, lastSeq, submitVars, loopVars, facadeVars, historyVars>>
      BY <1>19 DEF Conduct
    <2>3. /\ Len(batch) \in Nat \ {0} /\ Len(batch') = Len(batch) - 1
          /\ batch' \in Seq(Envelopes)
      BY <2>1, <2>2, HeadOfBatch
    <2>4. /\ Cardinality(recorded) \in Nat /\ Cardinality(signed) \in Nat
          /\ Cardinality(answers) \in Nat /\ IsFiniteSet(answers)
      BY FiniteQueues
    <2>5. Cardinality(recorded) + Cardinality(answers) + 2 * Len(batch) <= MaxRecords
      BY <2>1 DEF Room, Owed
    <2>6. Cardinality(recorded) < MaxRecords
      BY <2>3, <2>4, <2>5
    <2>7. PICK o \in Outcomes :
             /\ recorded' = recorded \cup {o} /\ pending' = pending \cup {o}
             /\ o.life = life /\ o.id = Cardinality(recorded')
             /\ IsFiniteSet(recorded')
             /\ Cardinality(recorded') = Cardinality(recorded) + 1
      BY <2>1, <2>2, <2>6, Recording DEF Reasons
    <2>8. s \in Submissions
      <3>1. Cardinality(signed) + 1 \in 1 .. MaxRecords
        BY <2>4, <2>6 DEF Minted
      <3> QED
        BY <2>1, <3>1 DEF Submissions
    <2>9. s.id = Cardinality(signed) + 1 /\ s.life = life
      OBVIOUS
    <2> HIDE DEF s
    <2>10. /\ IsFiniteSet(signed') /\ Cardinality(signed') = Cardinality(signed) + 1
      <3>1. s \notin signed
        BY <2>4, <2>9 DEF Minted
      <3> QED
        BY <2>2, <3>1, FS_AddElement DEF Minted
    <2>11. Cardinality(answers') <= Cardinality(answers) + 1 /\ Cardinality(answers') \in Nat
      <3>1. \/ Cardinality(answers \cup {s}) = Cardinality(answers)
            \/ Cardinality(answers \cup {s}) = Cardinality(answers) + 1
        BY <2>4, FS_AddElement
      <3> QED
        BY <3>1, <2>2, <2>4
    <2>12. TypeLoop'
      BY <2>2 DEF TypeLoop, Phases, loopVars
    <2>13. TypeSeqs'
      BY <2>2 DEF TypeSeqs, durableVars, historyVars
    <2>14. TypeQueues'
      BY <2>1, <2>2, <2>7, <2>8 DEF TypeQueues, facadeVars, submitVars, Where
    <2>15. TypeBatch'
      BY <2>2, <2>3 DEF TypeBatch, durableVars, historyVars
    <2>16. TypeFlag'
      BY <1>19 DEF Conduct, TypeFlag
    <2>17. Where'
      BY <2>1, <2>2 DEF Where, Alive, historyVars, submitVars
    <2>18. Minted'
      <3>1. \A u \in signed' : u.id <= Cardinality(signed') /\ u.life <= life'
        <4> TAKE u \in signed'
        <4>1. CASE u \in signed
          <5>1. u.id <= Cardinality(signed) /\ u.life <= life /\ u.id \in Nat
            BY <4>1 DEF Minted, TypeQueues, Submissions
          <5> QED
            BY <5>1, <2>2, <2>4, <2>10 DEF historyVars
        <4>2. CASE u = s
          BY <4>2, <2>1, <2>2, <2>4, <2>9, <2>10 DEF historyVars
        <4> QED
          BY <4>1, <4>2, <2>2
      <3>2. Cardinality(signed') <= Cardinality(recorded')
        BY <2>4, <2>7, <2>10 DEF Minted
      <3>3. \A p \in recorded' : p.id <= Cardinality(recorded') /\ p.life <= life'
        BY <2>1, <2>2, <2>7, OutcomesMinted DEF historyVars
      <3> QED
        BY <3>1, <3>2, <3>3, <2>7, <2>10 DEF Minted
    <2>19. Room'
      BY <2>2, <2>3, <2>4, <2>5, <2>7, <2>11 DEF Room, Owed
    <2> QED
      BY <2>12, <2>13, <2>14, <2>15, <2>16, <2>17, <2>18, <2>19
  <1>20. CASE EndBatch
    <2>1. TypeLoop'
      BY <1>20 DEF EndBatch, loopVars, TypeLoop, Phases, Endings
    <2>2. TypeSeqs'
      BY <1>20 DEF EndBatch, durableVars, historyVars, TypeSeqs
    <2>3. TypeQueues' /\ Minted'
      BY <1>20, <2>2, QueuesShrink DEF EndBatch, queueVars, submitVars, facadeVars, historyVars, TypeQueues, TypeSeqs
    <2>4. TypeBatch'
      BY <1>20 DEF EndBatch, durableVars, historyVars, TypeBatch
    <2>5. TypeFlag'
      BY <1>20 DEF EndBatch, TypeFlag
    <2>6. Where'
      BY <1>20 DEF EndBatch, submitVars, historyVars, Where, Alive
    <2>7. Room'
      BY <1>20, RoomFrame DEF EndBatch, queueVars, submitVars
    <2> QED
      BY <2>1, <2>2, <2>3, <2>4, <2>5, <2>6, <2>7
  <1>21. CASE SaveState
    <2>1. TypeLoop'
      BY <1>21 DEF SaveState, loopVars, TypeLoop, Phases, Endings
    <2>2. TypeSeqs'
      BY <1>21 DEF SaveState, historyVars, TypeSeqs
    <2>3. TypeQueues' /\ Minted'
      BY <1>21, <2>2, QueuesShrink DEF SaveState, queueVars, submitVars, facadeVars, historyVars, TypeQueues, TypeSeqs
    <2>4. TypeBatch'
      BY <1>21 DEF SaveState, historyVars, TypeBatch
    <2>5. TypeFlag'
      BY <1>21 DEF SaveState, TypeFlag
    <2>6. Where'
      BY <1>21 DEF SaveState, submitVars, historyVars, Where, Alive
    <2>7. Room'
      BY <1>21, RoomFrame DEF SaveState, queueVars, submitVars
    <2> QED
      BY <2>1, <2>2, <2>3, <2>4, <2>5, <2>6, <2>7
  <1>22. CASE Pause
    <2>1. TypeLoop'
      BY <1>22 DEF Pause, Exit, TypeLoop, Phases, Endings
    <2>2. TypeSeqs'
      BY <1>22 DEF Pause, Exit, durableVars, historyVars, TypeSeqs
    <2>3. TypeQueues' /\ Minted'
      BY <1>22, <2>2, QueuesShrink DEF Pause, Exit, queueVars, submitVars, facadeVars, historyVars, TypeQueues, TypeSeqs
    <2>4. TypeBatch'
      BY <1>22 DEF Pause, Exit, durableVars, historyVars, TypeBatch
    <2>5. TypeFlag'
      BY <1>22 DEF Pause, Exit, TypeFlag
    <2>6. Where'
      BY <1>22 DEF Pause, Exit, submitVars, historyVars, Where, Alive
    <2>7. Room'
      BY <1>22, RoomFrame DEF Pause, Exit, queueVars, submitVars
    <2> QED
      BY <2>1, <2>2, <2>3, <2>4, <2>5, <2>6, <2>7
  <1>23. CASE UNCHANGED vars
    <2>1. TypeLoop'
      BY <1>23 DEF vars, TypeLoop, Phases, Endings
    <2>2. TypeSeqs'
      BY <1>23 DEF vars, TypeSeqs
    <2>3. TypeQueues' /\ Minted'
      BY <1>23, <2>2, QueuesShrink DEF vars, TypeQueues, TypeSeqs
    <2>4. TypeBatch'
      BY <1>23 DEF vars, TypeBatch
    <2>5. TypeFlag'
      BY <1>23 DEF vars, TypeFlag
    <2>6. Where'
      BY <1>23 DEF vars, Where, Alive
    <2>7. Room'
      BY <1>23, RoomFrame DEF vars
    <2> QED
      BY <2>1, <2>2, <2>3, <2>4, <2>5, <2>6, <2>7
  <1> QED
    BY <1>1, <1>2, <1>3, <1>4, <1>5, <1>6, <1>7, <1>8, <1>9, <1>10, <1>11, <1>12, <1>13, <1>14, <1>15, <1>16, <1>17, <1>18, <1>19, <1>20, <1>21, <1>22, <1>23 DEF Next, RunStep, PollStep, HandleStep

\* Every behaviour keeps the inductive invariant.
THEOREM Invariance == Spec => []IInv
  BY InitIInv, StepIInv, PTL DEF Spec

\* Every variable of the process, of the facade and of the files keeps its type.
THEOREM TypeCorrectness == Spec => []TypeOK
  <1>1. IInv => TypeOK
    BY TypeGroups DEF IInv
  <1> QED
    BY <1>1, Invariance, PTL

-----------------------------------------------------------------------------
(* Sequence numbers: what is on disk, in memory and already accepted.        *)

\* While a process lives the readable state file is not ahead of it, and a
\* sequence number it has not reached was accepted by earlier processes only.
SeqInv ==
  /\ Alive => disk = Torn \/ disk <= lastSeq
  /\ OncePerLife
  /\ \A s \in Seqs : Alive /\ lastSeq < s => accepted[s] < life

\* The steps that touch neither the files nor the sequence numbers.
SeqQuiet == UNCHANGED <<disk, lastSeq, accepted, life>> /\ (Alive' => Alive)

LEMMA SeqCases ==
  ASSUME [Next]_vars
  PROVE  \/ Start \/ Crash \/ SaveState
         \/ \E e \in Envelopes : See(e) /\ UNCHANGED <<disk, life>>
         \/ SeqQuiet
  <1>1. CASE UNCHANGED vars \/ Cancel \/ StopAtTop \/ BeginRound \/ EndSubmit \/ Pause \/ EndBatch
    BY <1>1 DEF vars, Cancel, StopAtTop, BeginRound, EndSubmit, Pause, EndBatch, Exit, SeqQuiet, Alive, durableVars, historyVars
  <1>2. CASE \E s \in todo : PostSubmission(s)
    BY <1>2 DEF PostSubmission, SeqQuiet, Alive, durableVars, historyVars
  <1>3. CASE PollStep
    BY <1>3 DEF PollStep, PollFails, PollUnusable, PollEmpty, PollInstructions, Exit, SeqQuiet, Alive, durableVars, historyVars
  <1>4. CASE RefuseUnseen \/ DeliveryFails \/ CreditGranted \/ (\E b \in Briefs : FetchBrief(b)) \/ Conduct
    BY <1>4 DEF RefuseUnseen, DeliveryFails, CreditGranted, FetchBrief, Conduct, SeqQuiet, Alive, durableVars, historyVars
  <1>5. CASE \E k \in Consents : RefuseAtGate(k) \/ Perform(k) \/ Deliver(k)
    BY <1>5 DEF RefuseAtGate, Perform, Deliver, durableVars
  <1> QED
    BY <1>1, <1>2, <1>3, <1>4, <1>5 DEF Next, RunStep, HandleStep

\* A frame that passes freshness is newer than everything this process has seen.
LEMMA SeenIsFresh ==
  ASSUME NEW e \in Envelopes, See(e)
  PROVE  /\ lastSeq < e.seq /\ lastSeq' = e.seq
         /\ accepted' = [ accepted EXCEPT ![e.seq] = @ + 1 ]
         /\ pc = "handle"
  BY DEF See, PreGateReason, IsFresh

LEMMA InitSeqInv == Init => SeqInv
  BY ConstantFacts DEF Init, SeqInv, OncePerLife, Alive

LEMMA StepSeqInv == IInv /\ SeqInv /\ [Next]_vars => SeqInv'
  <1> SUFFICES ASSUME IInv, SeqInv, [Next]_vars PROVE SeqInv'
    OBVIOUS
  <1>0. /\ lastSeq \in Nat /\ life \in Nat
        /\ \A s \in Seqs : s \in Nat /\ accepted[s] \in Nat
        /\ disk = Torn \/ disk \in Nat
    BY ConstantFacts DEF IInv, TypeSeqs
  <1>1. CASE Start
    <2>1. life' = life + 1 /\ accepted' = accepted /\ disk' = disk
      BY <1>1 DEF Start, durableVars
    <2>2. Alive' => disk # Torn /\ lastSeq' = disk
      BY <1>1 DEF Start, Alive
    <2>3. \A s \in Seqs : accepted[s] < life'
      BY <2>1, <1>0 DEF SeqInv, OncePerLife
    <2> QED
      BY <2>1, <2>2, <2>3, <1>0 DEF SeqInv, OncePerLife
  <1>2. CASE Crash
    BY <1>2 DEF Crash, Exit, SeqInv, OncePerLife, Alive
  <1>3. CASE SaveState
    BY <1>3, <1>0 DEF SaveState, SeqInv, OncePerLife, Alive, historyVars
  <1>4. CASE \E e \in Envelopes : See(e) /\ UNCHANGED <<disk, life>>
    <2> PICK e \in Envelopes : See(e) /\ UNCHANGED <<disk, life>>
      BY <1>4
    <2>1. /\ lastSeq < e.seq /\ lastSeq' = e.seq /\ Alive
          /\ accepted' = [ accepted EXCEPT ![e.seq] = @ + 1 ]
      BY SeenIsFresh DEF Alive
    <2>2. e.seq \in Seqs /\ e.seq \in Nat
      BY ConstantFacts
    <2>3. Alive' => disk' = Torn \/ disk' <= lastSeq'
      BY <2>1, <2>2, <1>0 DEF SeqInv
    <2>4. \A s \in Seqs : accepted'[s] = IF s = e.seq THEN accepted[s] + 1 ELSE accepted[s]
      BY <2>1, <2>2 DEF IInv, TypeSeqs
    <2>5. accepted[e.seq] < life
      BY <2>1, <2>2 DEF SeqInv
    <2>6. OncePerLife'
      BY <2>4, <2>5, <1>0 DEF SeqInv, OncePerLife
    <2>7. \A s \in Seqs : lastSeq' < s => accepted'[s] < life'
      BY <2>1, <2>2, <2>4, <1>0 DEF SeqInv
    <2> QED
      BY <2>3, <2>6, <2>7 DEF SeqInv
  <1>5. CASE SeqQuiet
    BY <1>5 DEF SeqQuiet, SeqInv, OncePerLife
  <1> QED
    BY <1>1, <1>2, <1>3, <1>4, <1>5, SeqCases

\* No sequence number passes freshness twice in the life of one process.
THEOREM AcceptedOncePerLife == Spec => []OncePerLife
  <1>1. SeqInv => OncePerLife
    BY DEF SeqInv
  <1> QED
    BY <1>1, InitIInv, StepIInv, InitSeqInv, StepSeqInv, PTL DEF Spec

\* Nothing at or below the readable state file is accepted again, by this process
\* or by any later one, and the number in the file never goes back.
THEOREM NothingReplayedFromDisk == Spec => NoReplayBelowDisk
  <1>1. IInv /\ SeqInv /\ [Next]_vars => AcceptsAboveDisk
    <2> SUFFICES ASSUME IInv, SeqInv, [Next]_vars, NEW s \in Seqs,
                        accepted'[s] # accepted[s], disk # Torn
                 PROVE  disk < s
      BY DEF AcceptsAboveDisk
    <2>1. CASE Start \/ Crash \/ SaveState \/ SeqQuiet
      BY <2>1 DEF Start, Crash, SaveState, SeqQuiet, historyVars
    <2>2. CASE \E e \in Envelopes : See(e) /\ UNCHANGED <<disk, life>>
      <3> PICK e \in Envelopes : See(e)
        BY <2>2
      <3>1. lastSeq < e.seq /\ Alive /\ accepted' = [ accepted EXCEPT ![e.seq] = @ + 1 ]
        BY SeenIsFresh DEF Alive
      <3>2. s = e.seq
        BY <3>1 DEF IInv, TypeSeqs
      <3>3. disk <= lastSeq /\ disk \in Nat /\ lastSeq \in Nat /\ s \in Nat
        BY <3>1, ConstantFacts DEF SeqInv, IInv, TypeSeqs
      <3> QED
        BY <3>1, <3>2, <3>3
    <2> QED
      BY <2>1, <2>2, SeqCases
  <1>2. IInv /\ SeqInv /\ [Next]_vars => DiskKeepsUp
    <2> SUFFICES ASSUME IInv, SeqInv, [Next]_vars, disk # Torn, disk' # Torn
                 PROVE  disk <= disk'
      BY DEF DiskKeepsUp
    <2>1. disk \in Nat /\ lastSeq \in Nat
      BY ConstantFacts DEF IInv, TypeSeqs
    <2>2. CASE SaveState
      <3>1. disk' \in {lastSeq, disk, Torn} /\ Alive
        BY <2>2 DEF SaveState, Alive
      <3> QED
        BY <2>1, <3>1 DEF SeqInv
    <2>3. CASE Start \/ Crash \/ SeqQuiet \/ \E e \in Envelopes : See(e) /\ UNCHANGED <<disk, life>>
      <3>1. disk' = disk
        BY <2>3 DEF Start, Crash, SeqQuiet, durableVars
      <3> QED
        BY <2>1, <3>1
    <2> QED
      BY <2>2, <2>3, SeqCases
  <1> QED
    BY <1>1, <1>2, InitIInv, StepIInv, InitSeqInv, StepSeqInv, PTL DEF Spec, NoReplayBelowDisk

-----------------------------------------------------------------------------
(* What is owed: custody of outcomes and submissions, and the outbox.        *)

\* Custody, and what makes it inductive: while submissions are being posted, one
\* that is neither waiting nor kept is in the facade's hands.
DebtInv ==
  /\ Custody
  /\ pc = "submit" => answers \subseteq todo \cup kept \cup specs

\* A step of a running process that loses nothing: what is new is queued, what
\* leaves a queue is with the facade, and the facade gets only what was queued.
KeepsDebts ==
  /\ Alive /\ life' = life
  /\ recorded' \subseteq recorded \cup pending'
  /\ signed' \subseteq signed \cup answers'
  /\ pending \subseteq pending' \cup reported'
  /\ answers \subseteq answers' \cup specs'
  /\ reported \subseteq reported' /\ reported' \subseteq reported \cup pending
  /\ specs \subseteq specs' /\ specs' \subseteq specs \cup answers
  /\ ~ Alive' => pending' \subseteq pending /\ answers' \subseteq answers

\* The head of a batch is settled: the new outcome is queued.
LEMMA SettleKeepsDebts ==
  ASSUME NEW e, NEW reason, Settle(e, reason), Alive,
         UNCHANGED <<life, answers, reported, specs>>
  PROVE  KeepsDebts
  BY DEF Settle, Record, KeepsDebts, Alive

\* Only a crash loses what is owed; a start finds nothing owed.
LEMMA DebtCases ==
  ASSUME IInv, DebtInv, [Next]_vars
  PROVE  UNCHANGED vars \/ Start \/ Crash \/ KeepsDebts
  <1>1. CASE Cancel \/ StopAtTop \/ BeginRound \/ Pause \/ EndBatch \/ SaveState
    BY <1>1 DEF Cancel, StopAtTop, BeginRound, Pause, EndBatch, SaveState, Exit,
       KeepsDebts, Alive, queueVars, facadeVars, historyVars
  <1>2. CASE \E s \in todo : PostSubmission(s)
    <2> PICK s \in todo : PostSubmission(s)
      BY <1>2
    <2>1. s \in answers
      BY DEF IInv, TypeQueues
    <2> QED
      BY <2>1 DEF PostSubmission, PostTaken, PostAnswerLost, PostNotTaken, Record,
         KeepsDebts, Alive, historyVars
  <1>3. CASE EndSubmit
    BY <1>3 DEF EndSubmit, DebtInv, KeepsDebts, Alive, facadeVars, historyVars
  <1>4. CASE PollStep
    BY <1>4 DEF PollStep, PollFails, PollUnusable, PollEmpty, PollInstructions, Exit,
       DrainQueues, FacadeTakesQueues, KeepsDebts, Alive, queueVars, facadeVars, historyVars
  <1>5. CASE RefuseUnseen \/ DeliveryFails
    <2>1. Alive /\ UNCHANGED <<life, answers, reported, specs>>
      BY <1>5 DEF RefuseUnseen, DeliveryFails, Alive, facadeVars, historyVars
    <2>2. \E e, reason : Settle(e, reason)
      BY <1>5 DEF RefuseUnseen, DeliveryFails
    <2> QED
      BY <2>1, <2>2, SettleKeepsDebts
  <1>6. CASE \E k \in Consents : RefuseAtGate(k) \/ Perform(k)
    <2>1. Alive /\ UNCHANGED <<life, answers, reported, specs>>
      BY <1>6 DEF RefuseAtGate, Perform, See, Alive, facadeVars
    <2>2. \E e, reason : Settle(e, reason)
      BY <1>6 DEF RefuseAtGate, Perform
    <2> QED
      BY <2>1, <2>2, SettleKeepsDebts
  <1>7. CASE \E k \in Consents : Deliver(k)
    <2>1. Alive /\ UNCHANGED <<life, answers, reported, specs>>
      BY <1>7 DEF Deliver, See, Alive, facadeVars
    <2>2. (\E e, reason : Settle(e, reason)) \/ (pc' = "credit" /\ UNCHANGED queueVars)
      BY <1>7 DEF Deliver
    <2>3. CASE pc' = "credit" /\ UNCHANGED queueVars
      BY <2>1, <2>3 DEF KeepsDebts, Alive, queueVars
    <2> QED
      BY <2>1, <2>2, <2>3, SettleKeepsDebts
  <1>8. CASE CreditGranted \/ (\E b \in Briefs : FetchBrief(b)) \/ Conduct
    BY <1>8 DEF CreditGranted, FetchBrief, Conduct, Record, KeepsDebts, Alive, queueVars,
       facadeVars, historyVars
  <1> QED
    BY <1>1, <1>2, <1>3, <1>4, <1>5, <1>6, <1>7, <1>8 DEF Next, RunStep, HandleStep

\* The clause about the submission round, across every step.
LEMMA SubmitRound ==
  ASSUME IInv, DebtInv, [Next]_vars, pc' = "submit"
  PROVE  answers' \subseteq todo' \cup kept' \cup specs'
  <1>1. CASE UNCHANGED vars \/ Cancel
    BY <1>1 DEF vars, Cancel, queueVars, submitVars, facadeVars, DebtInv
  <1>2. CASE BeginRound
    BY <1>2 DEF BeginRound, queueVars
  <1>3. CASE \E s \in todo : PostSubmission(s)
    BY <1>3 DEF PostSubmission, PostTaken, PostAnswerLost, PostNotTaken, DebtInv
  <1>4. UNCHANGED vars \/ Cancel \/ BeginRound \/ (\E s \in todo : PostSubmission(s))
    <2>1. ~ (Start \/ Crash \/ StopAtTop \/ EndSubmit \/ EndBatch \/ SaveState \/ Pause)
      BY DEF Start, Crash, StopAtTop, EndSubmit, EndBatch, SaveState, Pause, Exit
    <2>2. ~ PollStep
      BY DEF PollStep, PollFails, PollUnusable, PollEmpty, PollInstructions, Exit
    <2>3. ~ HandleStep
      BY DEF HandleStep, RefuseUnseen, RefuseAtGate, Perform, Deliver, DeliveryFails,
         CreditGranted, FetchBrief, Conduct, Settle
    <2> QED
      BY <2>1, <2>2, <2>3 DEF Next, RunStep
  <1> QED
    BY <1>1, <1>2, <1>3, <1>4

LEMMA InitDebtInv == Init => DebtInv
  BY DEF Init, DebtInv, Custody, Alive

LEMMA StepDebtInv == IInv /\ DebtInv /\ [Next]_vars => DebtInv'
  <1> SUFFICES ASSUME IInv, DebtInv, [Next]_vars PROVE DebtInv'
    OBVIOUS
  <1>1. CASE UNCHANGED vars
    BY <1>1 DEF vars, DebtInv, Custody, Alive
  <1>2. CASE Start
    <2>1. life' = life + 1 /\ recorded' = recorded /\ signed' = signed /\ life \in Nat
      BY <1>2 DEF Start, IInv, TypeSeqs
    <2>2. /\ \A o \in recorded : o.life <= life /\ o.life \in Nat
          /\ \A s \in signed : s.life <= life /\ s.life \in Nat
      BY DEF IInv, Minted, TypeQueues, Outcomes, Submissions
    <2>3. Custody'
      BY <2>1, <2>2 DEF Custody
    <2> QED
      BY <2>3, SubmitRound DEF DebtInv
  <1>3. CASE Crash
    BY <1>3 DEF Crash, Exit, DebtInv, Custody, Alive
  <1>4. CASE KeepsDebts
    <2>1. Custody'
      BY <1>4 DEF KeepsDebts, DebtInv, Custody
    <2> QED
      BY <2>1, SubmitRound DEF DebtInv
  <1> QED
    BY <1>1, <1>2, <1>3, <1>4, DebtCases

\* While a process lives, all it recorded and signed is queued or with the facade.
THEOREM NothingOwedIsLost == Spec => []Custody
  <1>1. DebtInv => Custody
    BY DEF DebtInv
  <1> QED
    BY <1>1, InitIInv, StepIInv, InitDebtInv, StepDebtInv, PTL DEF Spec

\* What the process owes is an outbox: Terminal implements module Outbox.
THEOREM TerminalIsAnOutbox == Spec => OutboxSpec
  <1>1. Init => Promise!Init
    BY DEF Init, Promise!Init, Alive
  <1>2. IInv /\ IInv' /\ DebtInv /\ [Next]_vars => [Promise!Next]_(Promise!vars)
    <2> SUFFICES ASSUME IInv, IInv', DebtInv, [Next]_vars
                 PROVE  [Promise!Next]_(Promise!vars)
      OBVIOUS
    <2>1. CASE UNCHANGED vars
      BY <2>1 DEF vars, Promise!vars, Alive
    <2>2. CASE Start
      <3>1. /\ ~ Alive /\ pending' = {} /\ answers' = {}
            /\ reported' = reported /\ specs' = specs
        BY <2>2 DEF Start, Fresh, Alive, facadeVars
      <3>2. (Alive' /\ Promise!Open) \/ (~ Alive' /\ Promise!FailToOpen)
        BY <3>1 DEF Promise!Open, Promise!FailToOpen
      <3> QED
        BY <3>2 DEF Promise!Next
    <2>3. CASE Crash
      <3>1. /\ Alive /\ ~ Alive' /\ pending' = {} /\ answers' = {}
            /\ reported' = reported /\ specs' = specs
        BY <2>3 DEF Crash, Exit, Fresh, Alive, facadeVars
      <3>2. Promise!Close
        BY <3>1 DEF Promise!Close, Promise!Handover
      <3> QED
        BY <3>2 DEF Promise!Next
    <2>4. CASE KeepsDebts
      <3>1. Promise!Handover
        BY <2>4 DEF KeepsDebts, Promise!Handover
      <3>2. CASE Alive'
        <4>1. pending' \cup answers' \subseteq Outcomes \cup Submissions
          BY DEF IInv, TypeQueues
        <4>2. Promise!Step
          BY <2>4, <3>1, <3>2, <4>1 DEF KeepsDebts, Promise!Step
        <4> QED
          BY <4>2 DEF Promise!Next
      <3>3. CASE ~ Alive'
        <4>1. Promise!Close
          BY <2>4, <3>1, <3>3 DEF KeepsDebts, Promise!Close
        <4> QED
          BY <4>1 DEF Promise!Next
      <3> QED
        BY <3>2, <3>3
    <2> QED
      BY <2>1, <2>2, <2>3, <2>4, DebtCases
  <1> QED
    BY <1>1, <1>2, InitIInv, StepIInv, InitDebtInv, StepDebtInv, PTL
       DEF Spec, OutboxSpec, Promise!Spec

-----------------------------------------------------------------------------
(* What was done traces to an authentic instruction.                         *)

\* The trace, and what makes it inductive: the delivery in hand was quarantined,
\* the person may act, and the body in hand is the one the delivery named.
TraceInv ==
  /\ ActsTraceToFrames
  /\ pc \in {"credit", "fetch", "conduct"} => Head(batch) \in notices /\ MayAct(Standing)
  /\ pc = "conduct" => body = Head(batch).brief

\* A step that quarantines and signs nothing and does not advance a delivery.
TraceQuiet ==
  /\ UNCHANGED <<notices, signed>>
  /\ pc' \in {"credit", "fetch", "conduct"} => UNCHANGED <<pc, batch, body>>

\* What passes the checks before the gate and the gate itself is well formed, of
\* this protocol, authentic, and inside the ceiling.
LEMMA AdmittedDelivery ==
  ASSUME NEW e \in Envelopes, NEW k \in Consents, e.command = DeliverArtifact,
         PreGateReason(e) = "none",
         Evaluate(e.command, Ceiling, k, e.authentic) = "none"
  PROVE  /\ e.wellFormed /\ e.authentic /\ e.protocolV0
         /\ Guarded => DeliverArtifact <= Ceiling
  <1>1. e.wellFormed /\ e.protocolV0
    BY DEF PreGateReason
  <1>2. MayCommand(e.command, Ceiling, k, e.authentic)
    BY DEF Evaluate
  <1>3. e.authentic /\ (Guarded => e.command <= Ceiling)
    BY <1>2 DEF MayCommand
  <1> QED
    BY <1>1, <1>3

LEMMA TraceCases ==
  ASSUME [Next]_vars
  PROVE  \/ \E k \in Consents : Deliver(k)
         \/ CreditGranted \/ \E b \in Briefs : FetchBrief(b)
         \/ Conduct
         \/ TraceQuiet
  <1>1. CASE UNCHANGED vars \/ Cancel
    BY <1>1 DEF vars, Cancel, durableVars, queueVars, TraceQuiet
  <1>2. CASE Start \/ Crash \/ StopAtTop \/ BeginRound \/ EndSubmit \/ EndBatch \/ SaveState \/ Pause
    BY <1>2 DEF Start, Crash, StopAtTop, BeginRound, EndSubmit, EndBatch, SaveState, Pause,
       Exit, durableVars, queueVars, TraceQuiet
  <1>3. CASE \E s \in todo : PostSubmission(s)
    BY <1>3 DEF PostSubmission, durableVars, TraceQuiet
  <1>4. CASE PollStep
    BY <1>4 DEF PollStep, PollFails, PollUnusable, PollEmpty, PollInstructions, Exit,
       DrainQueues, durableVars, queueVars, TraceQuiet
  <1>5. CASE RefuseUnseen \/ DeliveryFails \/ (\E k \in Consents : RefuseAtGate(k) \/ Perform(k))
    BY <1>5 DEF RefuseUnseen, DeliveryFails, RefuseAtGate, Perform, Settle, durableVars,
       TraceQuiet
  <1> QED
    BY <1>1, <1>2, <1>3, <1>4, <1>5 DEF Next, RunStep, HandleStep

LEMMA InitTraceInv == Init => TraceInv
  BY DEF Init, TraceInv, ActsTraceToFrames

LEMMA StepTraceInv == IInv /\ TraceInv /\ [Next]_vars => TraceInv'
  <1> SUFFICES ASSUME IInv, TraceInv, [Next]_vars PROVE TraceInv'
    OBVIOUS
  <1>1. CASE TraceQuiet
    BY <1>1 DEF TraceQuiet, TraceInv, ActsTraceToFrames
  <1>2. CASE \E k \in Consents : Deliver(k)
    <2> PICK k \in Consents, e \in Envelopes :
          /\ See(e) /\ Evaluate(e.command, Ceiling, k, e.authentic) = "none"
          /\ e.command = DeliverArtifact
          /\ \/ UNCHANGED notices /\ Settle(e, "none")
             \/ /\ notices' = notices \cup {e}
                /\ IF Interviewing /\ MayAct(Standing)
                   THEN pc' = "credit" /\ UNCHANGED <<queueVars, batch, body>>
                   ELSE Settle(e, "none")
      BY <1>2 DEF Deliver
    <2>1. e = Head(batch) /\ PreGateReason(e) = "none"
      BY DEF See
    <2>2. /\ e.wellFormed /\ e.authentic /\ e.protocolV0
          /\ Guarded => DeliverArtifact <= Ceiling
      BY <2>1, AdmittedDelivery
    <2>3. notices' \subseteq notices \cup {e} /\ notices \subseteq notices'
      OBVIOUS
    <2>4. signed' = signed
      BY DEF Settle, queueVars
    <2>5. \/ pc' = "handle"
          \/ pc' = "credit" /\ batch' = batch /\ e \in notices' /\ MayAct(Standing)
      BY DEF Settle
    <2>6. ActsTraceToFrames'
      BY <2>2, <2>3, <2>4 DEF TraceInv, ActsTraceToFrames
    <2> QED
      BY <2>1, <2>5, <2>6 DEF TraceInv
  <1>3. CASE CreditGranted
    BY <1>3 DEF CreditGranted, durableVars, queueVars, TraceInv, ActsTraceToFrames
  <1>4. CASE \E b \in Briefs : FetchBrief(b)
    BY <1>4 DEF FetchBrief, BodyMatches, durableVars, queueVars, TraceInv, ActsTraceToFrames
  <1>5. CASE Conduct
    <2> DEFINE e == Head(batch)
               s == [ id |-> Cardinality(signed) + 1, life |-> life, seq |-> e.seq, brief |-> body ]
    <2>1. /\ pc = "conduct" /\ pc' = "handle"
          /\ signed' = signed \cup {s} /\ notices' = notices
      BY <1>5 DEF Conduct, durableVars
    <2>2. e \in notices /\ MayAct(Standing) /\ body = e.brief
      BY <2>1 DEF TraceInv
    <2>3. s.seq = e.seq /\ s.brief = e.brief
      BY <2>2
    <2> HIDE DEF s, e
    <2>4. ActsTraceToFrames'
      BY <2>1, <2>2, <2>3 DEF TraceInv, ActsTraceToFrames
    <2> QED
      BY <2>1, <2>4 DEF TraceInv
  <1> QED
    BY <1>1, <1>2, <1>3, <1>4, <1>5, TraceCases

\* Every quarantined delivery and every signed submission traces to an authentic
\* instruction inside the ceiling, for a person in good standing.
THEOREM NothingWithoutAFrame == Spec => []ActsTraceToFrames
  <1>1. TraceInv => ActsTraceToFrames
    BY DEF TraceInv
  <1> QED
    BY <1>1, InitIInv, StepIInv, InitTraceInv, StepTraceInv, PTL DEF Spec

-----------------------------------------------------------------------------
(* One outcome for each instruction.                                        *)

\* The outcomes of instructions; those of submissions are not counted.
OfInstructions(S) == { o \in S : o.kind = "instruction" }

\* Recording an outcome of an instruction counts one more, any other none.
LEMMA CountOne ==
  ASSUME IsFiniteSet(recorded), NEW o, o \notin recorded, recorded' = recorded \cup {o}
  PROVE  Cardinality(OfInstructions(recorded'))
           = Cardinality(OfInstructions(recorded)) + (IF o.kind = "instruction" THEN 1 ELSE 0)
  <1>1. IsFiniteSet(OfInstructions(recorded))
    BY FS_Subset DEF OfInstructions
  <1>2. Cardinality(OfInstructions(recorded)) \in Nat
    BY <1>1, FS_CardinalityType
  <1>3. CASE o.kind = "instruction"
    <2>1. OfInstructions(recorded') = OfInstructions(recorded) \cup {o}
      BY <1>3 DEF OfInstructions
    <2>2. o \notin OfInstructions(recorded)
      BY DEF OfInstructions
    <2>3. Cardinality(OfInstructions(recorded) \cup {o}) = Cardinality(OfInstructions(recorded)) + 1
      BY <1>1, <2>2, FS_AddElement
    <2> QED
      BY <1>3, <2>1, <2>3
  <1>4. CASE o.kind # "instruction"
    <2>1. OfInstructions(recorded') = OfInstructions(recorded)
      BY <1>4 DEF OfInstructions
    <2> QED
      BY <1>2, <1>4, <2>1
  <1> QED
    BY <1>3, <1>4

\* One outcome recorded, of the kind given.
LEMMA CountRecord ==
  ASSUME IInv, NEW kind, NEW seq, NEW reason, Record(kind, seq, reason)
  PROVE  Cardinality(OfInstructions(recorded'))
           = Cardinality(OfInstructions(recorded)) + (IF kind = "instruction" THEN 1 ELSE 0)
  <1> DEFINE o == Outcome(kind, seq, reason)
  <1>1. Cardinality(recorded) \in Nat
    BY FiniteQueues DEF IInv
  <1>2. recorded' = recorded \cup {o}
    BY DEF Record
  <1>3. o.id = Cardinality(recorded) + 1 /\ o.kind = kind
    BY DEF Outcome
  <1>4. o \notin recorded /\ IsFiniteSet(recorded)
    BY <1>1, <1>3 DEF IInv, Minted
  <1> HIDE DEF o
  <1> QED
    BY <1>2, <1>3, <1>4, CountOne

\* A step that takes on, settles and drops nothing.
CountQuiet ==
  /\ Cardinality(OfInstructions(recorded')) = Cardinality(OfInstructions(recorded))
  /\ UNCHANGED <<batch, taken, dropped>>

\* A step that settles the head of the batch.
SettlesOne ==
  /\ batch # <<>>
  /\ Cardinality(OfInstructions(recorded')) = Cardinality(OfInstructions(recorded)) + 1
  /\ batch' = Tail(batch) /\ UNCHANGED <<taken, dropped>>

LEMMA SettleSettlesOne ==
  ASSUME IInv, batch # <<>>, UNCHANGED <<taken, dropped>>,
         NEW e, NEW reason, Settle(e, reason)
  PROVE  SettlesOne
  <1>1. Record("instruction", IF e.wellFormed THEN e.seq ELSE 0, reason)
        /\ batch' = Tail(batch)
    BY DEF Settle
  <1>2. Cardinality(OfInstructions(recorded')) = Cardinality(OfInstructions(recorded)) + 1
    BY <1>1, CountRecord
  <1> QED
    BY <1>1, <1>2 DEF SettlesOne

LEMMA CountCases ==
  ASSUME IInv, [Next]_vars
  PROVE  \/ CountQuiet \/ SettlesOne \/ Crash
         \/ \E b \in Batches : PollInstructions(b)
  <1>1. CASE UNCHANGED recorded /\ UNCHANGED <<batch, taken, dropped>>
    BY <1>1 DEF CountQuiet
  <1>2. CASE UNCHANGED vars \/ Cancel \/ StopAtTop \/ BeginRound \/ EndSubmit \/ EndBatch \/ SaveState \/ Pause
             \/ CreditGranted \/ \E b \in Briefs : FetchBrief(b)
    BY <1>1, <1>2 DEF vars, Cancel, StopAtTop, BeginRound, EndSubmit, EndBatch, SaveState,
       Pause, CreditGranted, FetchBrief, queueVars, historyVars
  <1>3. CASE Start
    <2>1. batch = <<>>
      BY <1>3 DEF Start, IInv, Where
    <2> QED
      BY <1>1, <1>3, <2>1 DEF Start, Fresh
  <1>4. CASE \E s \in todo : PostSubmission(s)
    <2> PICK s \in todo : PostSubmission(s)
      BY <1>4
    <2>1. UNCHANGED <<batch, taken, dropped>>
      BY DEF PostSubmission, historyVars
    <2>2. Record("submission", 0, "none") \/ UNCHANGED recorded
      BY DEF PostSubmission, PostTaken, PostAnswerLost, PostNotTaken
    <2>3. CASE Record("submission", 0, "none")
      <3>1. IsFiniteSet(OfInstructions(recorded))
        BY FS_Subset DEF IInv, Minted, OfInstructions
      <3>2. Cardinality(OfInstructions(recorded)) \in Nat
        BY <3>1, FS_CardinalityType
      <3>3. Cardinality(OfInstructions(recorded')) = Cardinality(OfInstructions(recorded)) + 0
        BY <2>3, CountRecord
      <3> QED
        BY <2>1, <3>2, <3>3 DEF CountQuiet
    <2> QED
      BY <1>1, <2>1, <2>2, <2>3
  <1>5. CASE PollFails \/ PollUnusable \/ PollEmpty
    BY <1>1, <1>5 DEF PollFails, PollUnusable, PollEmpty, DrainQueues, queueVars, historyVars
  <1>6. CASE RefuseUnseen \/ DeliveryFails
    <2>1. batch # <<>> /\ UNCHANGED <<taken, dropped>>
      BY <1>6 DEF RefuseUnseen, DeliveryFails, IInv, Where, historyVars
    <2>2. \E e, reason : Settle(e, reason)
      BY <1>6 DEF RefuseUnseen, DeliveryFails
    <2> QED
      BY <2>1, <2>2, SettleSettlesOne
  <1>7. CASE \E k \in Consents : RefuseAtGate(k) \/ Perform(k) \/ Deliver(k)
    <2>1. batch # <<>> /\ UNCHANGED <<taken, dropped>>
      BY <1>7 DEF RefuseAtGate, Perform, Deliver, See
    <2>2. (\E e, reason : Settle(e, reason)) \/ UNCHANGED <<queueVars, batch>>
      BY <1>7 DEF RefuseAtGate, Perform, Deliver
    <2> QED
      BY <1>1, <2>1, <2>2, SettleSettlesOne DEF queueVars
  <1>8. CASE Conduct
    <2>1. /\ Record("instruction", Head(batch).seq, "none")
          /\ batch' = Tail(batch) /\ batch # <<>> /\ UNCHANGED <<taken, dropped>>
      BY <1>8 DEF Conduct, IInv, Where, historyVars
    <2>2. Cardinality(OfInstructions(recorded')) = Cardinality(OfInstructions(recorded)) + 1
      BY <2>1, CountRecord
    <2> QED
      BY <2>1, <2>2 DEF SettlesOne
  <1> QED
    BY <1>2, <1>3, <1>4, <1>5, <1>6, <1>7, <1>8 DEF Next, RunStep, HandleStep, PollStep

LEMMA StepCount == IInv /\ IInv' /\ OneOutcomeEach /\ [Next]_vars => OneOutcomeEach'
  <1> SUFFICES ASSUME IInv, IInv', OneOutcomeEach, [Next]_vars PROVE OneOutcomeEach'
    OBVIOUS
  <1> DEFINE n == Cardinality(OfInstructions(recorded))
  <1>1. n \in Nat /\ taken \in Nat /\ dropped \in Nat /\ Len(batch) \in Nat /\ Len(batch') \in Nat
    <2>1. IsFiniteSet(OfInstructions(recorded))
      BY FS_Subset DEF IInv, Minted, OfInstructions
    <2> QED
      BY <2>1, FS_CardinalityType, LenProperties DEF IInv, TypeBatch
  <1>2. taken = n + Len(batch) + dropped
    BY DEF OneOutcomeEach, OfInstructions
  <1> HIDE DEF n
  <1>3. SUFFICES taken' = n' + Len(batch') + dropped'
    BY DEF OneOutcomeEach, OfInstructions, n
  <1>4. CASE CountQuiet
    <2>1. n' = n /\ UNCHANGED <<batch, taken, dropped>>
      BY <1>4 DEF CountQuiet, n
    <2> QED
      BY <2>1, <1>2
  <1>5. CASE SettlesOne
    <2>1. n' = n + 1 /\ batch' = Tail(batch) /\ UNCHANGED <<taken, dropped>>
      BY <1>5 DEF SettlesOne, n
    <2>2. Len(batch') = Len(batch) - 1
      BY <1>5, <2>1, HeadOfBatch DEF SettlesOne, IInv
    <2>3. n' = n + 1 /\ taken' = taken /\ dropped' = dropped
      BY <2>1
    <2> QED
      BY <2>2, <2>3, <1>1, <1>2
  <1>6. CASE Crash
    <2>1. n' = n /\ taken' = taken /\ dropped' = dropped + Len(batch) /\ batch' = <<>>
      BY <1>6 DEF Crash, Fresh, n
    <2>2. Len(batch') = 0
      BY <2>1
    <2> QED
      BY <2>1, <2>2, <1>1, <1>2
  <1>7. CASE \E b \in Batches : PollInstructions(b)
    <2> PICK b \in Batches : PollInstructions(b)
      BY <1>7
    <2>1. batch = <<>>
      BY DEF PollInstructions, IInv, Where
    <2>2. n' = n /\ batch' = b /\ taken' = taken + Len(b) /\ dropped' = dropped
      BY DEF PollInstructions, DrainQueues, n
    <2>3. Len(batch) = 0
      BY <2>1
    <2> QED
      BY <2>2, <2>3, <1>1, <1>2
  <1> QED
    BY <1>4, <1>5, <1>6, <1>7, CountCases

\* Every instruction taken is in hand, was settled with exactly one outcome, or was
\* in hand when a process died.
THEOREM EveryInstructionIsSettled == Spec => []OneOutcomeEach
  <1>1. Init => OneOutcomeEach
    <2> SUFFICES ASSUME Init PROVE OneOutcomeEach
      OBVIOUS
    <2>1. { o \in recorded : o.kind = "instruction" } = {}
      BY DEF Init
    <2> QED
      BY <2>1, FS_EmptySet DEF Init, OneOutcomeEach
  <1> QED
    BY <1>1, InitIInv, StepIInv, StepCount, PTL DEF Spec

=============================================================================
