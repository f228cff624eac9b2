---------------------------- MODULE SittingProofs ----------------------------
(***************************************************************************)
(* Sitting is sound for every brief, every set of rules, every turn detector    *)
(* and any number of lives and faults: its types, the guard's count that keeps  *)
(* up with the trips, the microphone's window that is the person's turn, and the *)
(* report that holds every item once.                                         *)
(***************************************************************************)
EXTENDS Sitting, SequenceTheorems, FiniteSetTheorems, TLAPS

-----------------------------------------------------------------------------
(* The ways of a question.                                                   *)

\* The voice takes the question a step further.
Says ==
  \/ Render \/ Rendered \/ PipesHeld \/ Play \/ OfferedFloor
  \/ pc = "held" /\ Spoken("playing")

\* A part of the pipeline failed, at once or when its pipes were closed at last.
FallsBack == FallbackAsk \/ (pc = "held" /\ Voiceless)

LEMMA SaysOrFallsBack ==
  Render \/ Rendered \/ PipesHeld \/ PipesClose \/ Play \/ OfferedFloor \/ FallbackAsk
    => Says \/ FallsBack
BY DEF Says, FallsBack, PipesClose

-----------------------------------------------------------------------------
(* The count of the guard.                                                  *)

\* The states in which the guard's count is in memory.
Counts == {"idle"} \cup Conducting

TypeCount ==
  /\ tally \in Nat \cup {Torn} /\ trips \in Nat /\ count \in Nat /\ faults \in Nat

\* Memory counts every trip of this life, and what the file knew of the lives before.
CountInv ==
  /\ TypeCount /\ TallyKeepsUp
  /\ pc \in Counts => count <= trips /\ trips <= count + faults

\* A step that neither counts nor writes.
CountsNothing ==
  /\ UNCHANGED <<tally, trips, count, faults>>
  /\ pc = "counting" <=> pc' = "counting"
  /\ pc' \in Counts => pc \in Counts

\* The process ends, or was told to, and its count with it.
Forgets ==
  /\ UNCHANGED <<tally, trips>> /\ pc' = "down" /\ count' = 0
  /\ \/ faults' = faults /\ pc # "counting"
     \/ faults' = faults + 1

LEMMA CountsNothingKeeps == CountInv /\ CountsNothing => CountInv'
BY SittingAssumption DEF CountInv, TypeCount, TallyKeepsUp, CountsNothing

LEMMA ForgetsKeeps == CountInv /\ Forgets => CountInv'
BY SittingAssumption DEF CountInv, TypeCount, TallyKeepsUp, Forgets, Counts, Conducting

\* The owner's verbs: a write of the rules cut short is a fault.
LEMMA VerbCounts ==
  ASSUME CountInv, NEW c \in Classes, Allow(c) \/ Revoke(c)
  PROVE  CountInv'
<1>1. UNCHANGED <<tally, trips, count, pc>> /\ (faults' = faults \/ faults' = faults + 1)
  BY DEF Allow, Revoke, Verb, Fault, bounds, wired
<1> QED
  BY <1>1, SittingAssumption DEF CountInv, TypeCount, TallyKeepsUp

LEMMA FileCounts ==
  ASSUME CountInv, Discard \/ LoadRecord \/ Trips \/ Utterance
  PROVE  CountInv'
<1> USE SittingAssumption DEF CountInv, TypeCount, TallyKeepsUp, Counts, Conducting
<1>1. CASE Discard
  BY <1>1 DEF Discard, bounds
<1>2. CASE LoadRecord
  BY <1>2 DEF LoadRecord, bounds, files
<1>3. CASE Trips
  BY <1>3 DEF Trips, bounds, files
<1>4. CASE Utterance
  BY <1>4 DEF Utterance, SaveRecord, Fault, bounds
<1> QED
  BY <1>1, <1>2, <1>3, <1>4

LEMMA CrashCounts ==
  ASSUME CountInv, Crash
  PROVE  CountInv'
<1>1. /\ trips' = trips /\ pc' = "down" /\ count' = 0 /\ faults' = faults + 1
      /\ tally' = tally \/ tally' = Torn
  BY DEF Crash, Down, Fault
<1> QED
  BY <1>1, SittingAssumption DEF CountInv, TypeCount, TallyKeepsUp, Counts, Conducting

\* The server, and the process around it.
LEMMA ProcessCounts ==
  ASSUME \/ Start \/ StartResident \/ ModelMissing \/ Warmed \/ StartupWait \/ RecordRefused \/ Exit
         \/ Stop \/ ChildBinds \/ ChildDies \/ OtherServer
  PROVE  CountsNothing \/ Forgets
<1> USE DEF CountsNothing, Forgets, Counts, Conducting, bounds, files
<1>1. CASE Start
  BY <1>1 DEF Start
<1>2. CASE StartResident \/ ModelMissing
  BY <1>2 DEF StartResident, ModelMissing, NoResident, Down
<1>3. CASE Warmed
  BY <1>3 DEF Warmed
<1>4. CASE StartupWait
  BY <1>4 DEF StartupWait, NoResident, Down
<1>5. CASE RecordRefused
  BY <1>5 DEF RecordRefused, Down
<1>6. CASE Exit
  BY <1>6 DEF Exit, Down
<1>7. CASE Stop \/ ChildBinds \/ ChildDies \/ OtherServer
  BY <1>7 DEF Stop, ChildBinds, ChildDies, OtherServer, wired
<1> QED
  BY <1>1, <1>2, <1>3, <1>4, <1>5, <1>6, <1>7

\* The partition of a brief and what leaves at its end.
LEMMA BriefCounts ==
  ASSUME NewBrief \/ Decide \/ AllFilled \/ AskRest \/ Merge
  PROVE  CountsNothing
<1> USE DEF CountsNothing, Counts, Conducting, bounds, files, wired, Returns
<1>1. CASE NewBrief
  BY <1>1 DEF NewBrief
<1>2. CASE Decide
  BY <1>2 DEF Decide
<1>3. CASE AllFilled \/ Merge
  BY <1>3 DEF AllFilled, Merge
<1>4. CASE AskRest
  BY <1>4 DEF AskRest
<1> QED
  BY <1>1, <1>2, <1>3, <1>4

\* A question, the microphone, the keyboard.
LEMMA QuestionCounts ==
  ASSUME \/ Says \/ FallsBack \/ Ears \/ ReadReply \/ TypeLine \/ NotTripped
  PROVE  CountsNothing
<1> USE DEF CountsNothing, Counts, Conducting, bounds, files, wired
<1>1. ASSUME Fails, pc \in Conducting, pc # "counting"
      PROVE  CountsNothing
  BY <1>1 DEF Fails, Returns
<1>2. ASSUME NEW next \in Conducting, Goes(next), pc \in Conducting, pc # "counting", next # "counting"
      PROVE  CountsNothing
  BY <1>2 DEF Goes
<1>3. ASSUME ConsoleAsk, pc \in Conducting, pc # "counting"
      PROVE  CountsNothing
  <2>1. Fails \/ Goes("typing")
    BY <1>3 DEF ConsoleAsk
  <2> QED
    BY <1>1, <1>2, <1>3, <2>1
<1>4. CASE Says
  <2>1. /\ pc \in Conducting /\ pc # "counting"
        /\ \E next \in {"rendering", "held", "playing", "offering", "typing", "listening"} : Goes(next)
    BY <1>4 DEF Says, Render, Rendered, PipesHeld, Play, OfferedFloor, Spoken, Putting
  <2> QED
    BY <1>2, <2>1
<1>5. CASE FallsBack
  <2>1. pc \in Conducting /\ pc # "counting" /\ (ConsoleAsk \/ Fails)
    BY <1>5 DEF FallsBack, FallbackAsk, Voiceless, Putting
  <2> QED
    BY <1>1, <1>3, <2>1
<1>6. CASE CaptureFrame \/ CaptureEnds
  <2>1. pc = "listening" /\ (Goes("hearing") \/ Goes("listening"))
    BY <1>6 DEF CaptureFrame, CaptureEnds
  <2> QED
    BY <1>2, <2>1
<1>7. CASE CaptureFails \/ NothingHeard \/ NotShown
  <2>1. pc \in {"listening", "hearing"} /\ (ConsoleAsk \/ Fails)
    BY <1>7 DEF CaptureFails, NothingHeard, NotShown, RepromptTyped
  <2> QED
    BY <1>1, <1>3, <2>1
<1>8. CASE Transcribe
  BY <1>8 DEF Transcribe
<1>9. CASE ReadReply
  <2>1. CASE pc = "typing" /\ Fails
    BY <1>1, <2>1
  <2> QED
    BY <1>9, <2>1 DEF ReadReply
<1>10. CASE TypeLine \/ NotTripped
  BY <1>10 DEF TypeLine, NotTripped
<1> QED
  BY <1>4, <1>5, <1>6, <1>7, <1>8, <1>9, <1>10 DEF Ears

LEMMA CountStays == CountInv /\ [Next]_vars => CountInv'
<1> SUFFICES ASSUME CountInv, [Next]_vars PROVE CountInv'
  OBVIOUS
<1>1. CASE UNCHANGED vars
  BY <1>1 DEF vars, CountInv, TypeCount, TallyKeepsUp
<1>2. CASE \E c \in Classes : Allow(c) \/ Revoke(c)
  BY <1>2, VerbCounts
<1>3. CASE Discard \/ LoadRecord \/ Trips \/ Utterance
  BY <1>3, FileCounts
<1>4. CASE Crash
  BY <1>4, CrashCounts
<1>5. CASE \/ Start \/ StartResident \/ ModelMissing \/ Warmed \/ StartupWait \/ RecordRefused \/ Exit
           \/ Stop \/ ChildBinds \/ ChildDies \/ OtherServer
  BY <1>5, ProcessCounts, CountsNothingKeeps, ForgetsKeeps
<1>6. CASE \/ NewBrief \/ Decide \/ AllFilled \/ AskRest \/ Merge
  BY <1>6, BriefCounts, CountsNothingKeeps
<1>7. CASE \/ Says \/ FallsBack \/ Ears \/ ReadReply \/ TypeLine
           \/ NotTripped
  BY <1>7, QuestionCounts, CountsNothingKeeps
<1> QED
  BY <1>1, <1>2, <1>3, <1>4, <1>5, <1>6, <1>7, SaysOrFallsBack DEF Next, Proceeds

LEMMA FirstCounts == Init => CountInv
BY SittingAssumption DEF Init, CountInv, TypeCount, TallyKeepsUp, Counts, Conducting

-----------------------------------------------------------------------------
(* The window of the microphone.                                             *)

\* The n frames that end at frame k are all loud, or all quiet.
LoudRun(s, k, n) == \A j \in k - n + 1 .. k : s[j]
QuietRun(s, k, n) == \A j \in k - n + 1 .. k : ~ s[j]

\* TurnBy, of a sequence of frames.
TurnIn(s, k) ==
  /\ k >= Onset + EndOfTurn
  /\ QuietRun(s, k, EndOfTurn)
  /\ \E i \in Onset .. k - EndOfTurn : LoudRun(s, i, Onset)

\* The detector's counters are the runs the frames end in, and it knows of speech what they hold.
Follows(d, s) ==
  /\ d.loud \in 0 .. Len(s) /\ LoudRun(s, Len(s), d.loud)
  /\ d.loud < Len(s) => ~ s[Len(s) - d.loud]
  /\ d.quiet \in 0 .. Len(s) /\ QuietRun(s, Len(s), d.quiet)
  /\ d.quiet < Len(s) => s[Len(s) - d.quiet]
  /\ d.speaking = d.spoke
  /\ d.spoke <=> \E i \in Onset .. Len(s) : LoudRun(s, i, Onset)
  /\ \A k \in 1 .. Len(s) : ~ TurnIn(s, k)

Detectors == [loud : Nat, quiet : Nat, speaking : BOOLEAN, spoke : BOOLEAN]

WindowInv ==
  /\ levels \in Seq(BOOLEAN) /\ detector \in Detectors
  /\ pc \notin {"listening", "hearing"} => levels = <<>> /\ detector = Quiet
  /\ pc = "listening" => Follows(detector, levels)
  /\ pc = "hearing" =>
       /\ TurnIn(levels, Len(levels)) \/ Len(levels) = MaxFrames \/ ended
       /\ \A k \in 1 .. Len(levels) - 1 : ~ TurnIn(levels, k)

LEMMA TurnByIsTurnIn == \A k : TurnBy(k) <=> TurnIn(levels, k)
BY DEF TurnBy, TurnIn, LoudRun, QuietRun

\* The window opens on silence.
LEMMA FollowsNothing == Follows(Quiet, <<>>)
<1>1. Len(<<>>) = 0
  BY EmptySeq
<1> QED
  BY <1>1, SittingAssumption DEF Follows, Quiet, LoudRun, QuietRun, TurnIn

\* One frame more: the detector goes on following, or the frame ends the turn.
LEMMA FrameFollows ==
  ASSUME NEW s \in Seq(BOOLEAN), NEW d \in Detectors, Follows(d, s), NEW loud \in BOOLEAN
  PROVE  LET e == ObserveLevel(loud, d)
             t == Append(s, loud)
         IN  /\ e \in Detectors
             /\ \A k \in 1 .. Len(s) : ~ TurnIn(t, k)
             /\ e.spoke /\ ~ e.speaking => TurnIn(t, Len(t))
             /\ ~ (e.spoke /\ ~ e.speaking) => Follows(e, t)
<1> DEFINE e == ObserveLevel(loud, d)
           t == Append(s, loud)
           n == Len(s)
<1>1. /\ n \in Nat /\ t \in Seq(BOOLEAN) /\ Len(t) = n + 1
      /\ \A j \in 1 .. n : t[j] = s[j]
      /\ t[n + 1] = loud
  BY AppendProperties, LenProperties
<1>2. /\ d.loud \in 0 .. n /\ d.quiet \in 0 .. n /\ d.speaking = d.spoke
      /\ d.speaking \in BOOLEAN /\ d.spoke \in BOOLEAN
  BY DEF Follows, Detectors
<1>3. Onset \in Nat \ {0} /\ EndOfTurn \in Nat \ {0}
  BY SittingAssumption
<1>4. /\ LoudRun(s, n, d.loud) /\ (d.loud < n => ~ s[n - d.loud])
      /\ QuietRun(s, n, d.quiet) /\ (d.quiet < n => s[n - d.quiet])
      /\ d.spoke <=> \E i \in Onset .. n : LoudRun(s, i, Onset)
      /\ \A k \in 1 .. n : ~ TurnIn(s, k)
  BY DEF Follows
<1> HIDE DEF t, n
<1>5. \A i \in Onset .. n : LoudRun(t, i, Onset) <=> LoudRun(s, i, Onset)
  BY <1>1, <1>3 DEF LoudRun
<1>6. \A k \in 1 .. n : ~ TurnIn(t, k)
  <2> SUFFICES ASSUME NEW k \in 1 .. n, TurnIn(t, k) PROVE TurnIn(s, k)
    BY <1>4
  <2>1. k >= Onset + EndOfTurn
    BY DEF TurnIn
  <2>2. QuietRun(s, k, EndOfTurn)
    BY <1>1, <1>3, <2>1 DEF TurnIn, QuietRun
  <2>3. \E i \in Onset .. k - EndOfTurn : LoudRun(s, i, Onset)
    <3>1. PICK i \in Onset .. k - EndOfTurn : LoudRun(t, i, Onset)
      BY DEF TurnIn
    <3>2. i \in Onset .. n
      BY <1>1, <1>3
    <3> QED
      BY <1>5, <3>1, <3>2
  <2> QED
    BY <2>1, <2>2, <2>3 DEF TurnIn
<1>7. CASE loud
  <2>1. /\ e.loud = d.loud + 1 /\ e.quiet = 0
        /\ e.speaking = (d.speaking \/ d.loud + 1 >= Onset)
        /\ e.spoke = (d.spoke \/ (d.speaking \/ d.loud + 1 >= Onset))
    BY <1>7 DEF ObserveLevel
  <2>2. e.speaking = e.spoke
    BY <1>2, <2>1
  <2>3. e \in Detectors
    BY <1>2, <1>7 DEF ObserveLevel, Detectors
  <2>4. LoudRun(t, n + 1, e.loud) /\ (e.loud < n + 1 => ~ t[n + 1 - e.loud])
    <3>1. ASSUME NEW j \in (n + 1) - (d.loud + 1) + 1 .. n + 1
          PROVE  t[j]
      <4>1. j = n + 1 \/ (j \in n - d.loud + 1 .. n /\ j \in 1 .. n)
        <5>1. /\ d.loud \in Nat /\ d.loud <= n
              /\ (n + 1) - (d.loud + 1) + 1 = n - d.loud + 1 /\ n - d.loud + 1 \in Nat \ {0}
          BY <1>1, <1>2
        <5>2. j \in n - d.loud + 1 .. n + 1
          BY <5>1
        <5> QED
          BY <1>1, <5>1, <5>2
      <4> QED
        BY <1>1, <1>4, <1>7, <4>1 DEF LoudRun
    <3>2. ASSUME d.loud + 1 < n + 1
          PROVE  ~ t[n + 1 - (d.loud + 1)]
      <4>1. d.loud < n /\ n + 1 - (d.loud + 1) = n - d.loud /\ n - d.loud \in 1 .. n
        BY <1>1, <1>2, <3>2
      <4> QED
        BY <1>1, <1>4, <4>1
    <3> QED
      BY <2>1, <3>1, <3>2 DEF LoudRun
  <2>5. QuietRun(t, n + 1, 0)
    BY <1>1 DEF QuietRun
  <2>6. ~ TurnIn(t, n + 1)
    <3>1. n + 1 \in (n + 1) - EndOfTurn + 1 .. n + 1
      BY <1>1, <1>3
    <3> QED
      BY <1>1, <1>7, <3>1 DEF TurnIn, QuietRun
  <2>7. e.spoke <=> \E i \in Onset .. n + 1 : LoudRun(t, i, Onset)
    <3>1. ASSUME d.loud + 1 >= Onset
          PROVE  n + 1 \in Onset .. n + 1 /\ LoudRun(t, n + 1, Onset)
      BY <1>1, <1>2, <1>3, <2>1, <2>4, <3>1 DEF LoudRun
    <3>2. ASSUME n + 1 \in Onset .. n + 1, LoudRun(t, n + 1, Onset), ~ (d.loud + 1 >= Onset)
          PROVE  FALSE
      <4>1. e.loud < n + 1 /\ n + 1 - e.loud \in (n + 1) - Onset + 1 .. n + 1
        BY <1>1, <1>2, <1>3, <2>1, <3>2
      <4> QED
        BY <2>4, <3>2, <4>1 DEF LoudRun
    <3>3. (\E i \in Onset .. n + 1 : LoudRun(t, i, Onset))
            <=> (\E i \in Onset .. n : LoudRun(s, i, Onset))
                \/ (n + 1 \in Onset .. n + 1 /\ LoudRun(t, n + 1, Onset))
      <4>1. \A i \in Onset .. n + 1 : i \in Onset .. n \/ i = n + 1
        BY <1>1, <1>3
      <4>2. \A i \in Onset .. n : i \in Onset .. n + 1
        BY <1>1, <1>3
      <4> QED
        BY <1>5, <4>1, <4>2
    <3> QED
      BY <1>2, <1>4, <2>1, <3>1, <3>2, <3>3
  <2>8. Follows(e, t)
    <3>1. e.loud \in 0 .. n + 1 /\ e.quiet = 0 /\ 0 \in 0 .. n + 1 /\ n + 1 - 0 = n + 1
      BY <1>1, <1>2, <2>1
    <3>2. \A k \in 1 .. n + 1 : ~ TurnIn(t, k)
      <4>1. \A k \in 1 .. n + 1 : k \in 1 .. n \/ k = n + 1
        BY <1>1
      <4> QED
        BY <1>6, <2>6, <4>1
    <3> QED
      <4>1. e.quiet < n + 1 => t[n + 1 - e.quiet]
        BY <1>1, <1>7, <3>1
      <4> HIDE DEF e
      <4> QED
        BY <1>1, <2>2, <2>4, <2>5, <2>7, <3>1, <3>2, <4>1 DEF Follows
  <2> QED
    BY <1>6, <2>2, <2>3, <2>8 DEF t, n
<1>8. CASE ~ loud
  <2>1. /\ e.loud = 0 /\ e.quiet = d.quiet + 1
        /\ e.speaking = (d.speaking /\ d.quiet + 1 < EndOfTurn)
        /\ e.spoke = (d.spoke \/ (d.speaking /\ d.quiet + 1 < EndOfTurn))
    BY <1>8 DEF ObserveLevel
  <2>2. e.spoke = d.spoke
    BY <1>2, <2>1
  <2>3. e \in Detectors
    BY <1>2, <1>8 DEF ObserveLevel, Detectors
  <2>4. QuietRun(t, n + 1, e.quiet) /\ (e.quiet < n + 1 => t[n + 1 - e.quiet])
    <3>1. ASSUME NEW j \in (n + 1) - (d.quiet + 1) + 1 .. n + 1
          PROVE  ~ t[j]
      <4>1. j = n + 1 \/ (j \in n - d.quiet + 1 .. n /\ j \in 1 .. n)
        <5>1. /\ d.quiet \in Nat /\ d.quiet <= n
              /\ (n + 1) - (d.quiet + 1) + 1 = n - d.quiet + 1 /\ n - d.quiet + 1 \in Nat \ {0}
          BY <1>1, <1>2
        <5>2. j \in n - d.quiet + 1 .. n + 1
          BY <5>1
        <5> QED
          BY <1>1, <5>1, <5>2
      <4> QED
        BY <1>1, <1>4, <1>8, <4>1 DEF QuietRun
    <3>2. ASSUME d.quiet + 1 < n + 1
          PROVE  t[n + 1 - (d.quiet + 1)]
      <4>1. d.quiet < n /\ n + 1 - (d.quiet + 1) = n - d.quiet /\ n - d.quiet \in 1 .. n
        BY <1>1, <1>2, <3>2
      <4> QED
        BY <1>1, <1>4, <4>1
    <3> QED
      BY <2>1, <3>1, <3>2 DEF QuietRun
  <2>5. LoudRun(t, n + 1, 0)
    BY <1>1 DEF LoudRun
  <2>6. ~ LoudRun(t, n + 1, Onset)
    BY <1>1, <1>3, <1>8 DEF LoudRun
  <2>7. e.spoke <=> \E i \in Onset .. n + 1 : LoudRun(t, i, Onset)
    <3>1. \A i \in Onset .. n + 1 : i \in Onset .. n \/ i = n + 1
      BY <1>1, <1>3
    <3>2. \A i \in Onset .. n : i \in Onset .. n + 1
      BY <1>1, <1>3
    <3> QED
      BY <1>4, <1>5, <2>2, <2>6, <3>1, <3>2
  <2>8. ASSUME d.spoke, d.quiet + 1 >= EndOfTurn
        PROVE  TurnIn(t, n + 1)
    <3>1. PICK i \in Onset .. n : LoudRun(s, i, Onset)
      BY <1>4, <2>8
    <3>2. s[i] /\ t[i]
      BY <1>1, <1>3, <3>1 DEF LoudRun
    <3>3. i <= n - d.quiet
      <4> SUFFICES ASSUME i > n - d.quiet PROVE FALSE
        BY <1>1, <1>2, <1>3
      <4>1. i \in n - d.quiet + 1 .. n
        BY <1>1, <1>2, <1>3
      <4> QED
        BY <1>4, <3>2, <4>1 DEF QuietRun
    <3>4. i \in Onset .. (n + 1) - EndOfTurn /\ n + 1 >= Onset + EndOfTurn
      BY <1>1, <1>2, <1>3, <2>8, <3>3
    <3>5. QuietRun(t, n + 1, EndOfTurn)
      BY <1>1, <1>2, <1>3, <2>1, <2>4, <2>8 DEF QuietRun
    <3>6. LoudRun(t, i, Onset)
      BY <1>5, <3>1
    <3> QED
      BY <3>4, <3>5, <3>6 DEF TurnIn
  <2>9. ASSUME TurnIn(t, n + 1)
        PROVE  d.spoke /\ d.quiet + 1 >= EndOfTurn
    <3>1. d.spoke
      <4>1. PICK i \in Onset .. (n + 1) - EndOfTurn : LoudRun(t, i, Onset)
        BY <2>9 DEF TurnIn
      <4>2. i \in Onset .. n
        BY <1>1, <1>3
      <4> QED
        BY <1>4, <1>5, <4>1, <4>2
    <3>2. d.quiet + 1 >= EndOfTurn
      <4> SUFFICES ASSUME d.quiet + 1 < EndOfTurn PROVE FALSE
        BY <1>2, <1>3
      <4>1. e.quiet < n + 1 /\ n + 1 - e.quiet \in (n + 1) - EndOfTurn + 1 .. n + 1
        BY <1>1, <1>2, <1>3, <2>1, <2>9 DEF TurnIn
      <4> QED
        BY <2>4, <2>9, <4>1 DEF TurnIn, QuietRun
    <3> QED
      BY <3>1, <3>2
  <2>10. CASE e.spoke /\ ~ e.speaking
    <3>1. TurnIn(t, n + 1)
      BY <1>2, <1>3, <2>1, <2>2, <2>8, <2>10
    <3> QED
      BY <1>1, <1>6, <2>3, <2>10, <3>1 DEF t, n
  <2>11. CASE ~ (e.spoke /\ ~ e.speaking)
    <3>1. e.speaking = e.spoke
      BY <1>2, <2>1, <2>2, <2>11
    <3>2. ~ TurnIn(t, n + 1)
      <4>1. CASE d.spoke
        <5>1. d.quiet + 1 < EndOfTurn
          BY <1>2, <2>1, <2>2, <2>11, <4>1
        <5> QED
          BY <1>2, <1>3, <2>9, <5>1
      <4>2. CASE ~ d.spoke
        BY <2>9, <4>2
      <4> QED
        BY <4>1, <4>2
    <3>3. \A k \in 1 .. n + 1 : ~ TurnIn(t, k)
      <4>1. \A k \in 1 .. n + 1 : k \in 1 .. n \/ k = n + 1
        BY <1>1
      <4> QED
        BY <1>6, <3>2, <4>1
    <3>4. e.quiet \in 0 .. n + 1 /\ e.loud = 0 /\ 0 \in 0 .. n + 1 /\ n + 1 - 0 = n + 1
      BY <1>1, <1>2, <2>1
    <3>5. Follows(e, t)
      BY <1>1, <1>8, <2>4, <2>5, <2>7, <3>1, <3>3, <3>4 DEF Follows
    <3> QED
      BY <1>6, <2>3, <2>11, <3>5 DEF t, n
  <2> QED
    BY <2>10, <2>11
<1> QED
  BY <1>7, <1>8

\* Steps that leave the frames alone, away from the microphone or where they were, and those that
\* clear them.
TurnKept ==
  /\ UNCHANGED turn
  /\ pc' = pc \/ (pc' \notin {"listening", "hearing"} /\ pc \notin {"listening", "hearing"})

Opens == UNCHANGED turn /\ pc = "offering" /\ pc' = "listening"

TurnCleared == TurnOver /\ pc' \notin {"listening", "hearing"}

TurnSteps == TurnKept \/ Opens \/ TurnCleared

LEMMA TurnStepsKeep == WindowInv /\ TurnSteps => WindowInv'
<1> SUFFICES ASSUME WindowInv, TurnSteps PROVE WindowInv'
  OBVIOUS
<1>1. CASE TurnKept
  <2>1. levels' = levels /\ detector' = detector /\ ended' = ended
    BY <1>1 DEF TurnKept, turn
  <2>2. CASE pc' = pc
    BY <2>1, <2>2 DEF WindowInv
  <2>3. CASE pc' \notin {"listening", "hearing"} /\ pc \notin {"listening", "hearing"}
    BY <2>1, <2>3 DEF WindowInv
  <2> QED
    BY <1>1, <2>2, <2>3 DEF TurnKept
<1>2. CASE Opens
  <2>1. levels' = <<>> /\ detector' = Quiet /\ pc' = "listening"
    BY <1>2 DEF Opens, turn, WindowInv
  <2>2. Follows(detector', levels')
    BY <2>1, FollowsNothing
  <2> QED
    BY <1>2, <2>1, <2>2 DEF Opens, turn, WindowInv
<1>3. CASE TurnCleared
  <2>1. <<>> \in Seq(BOOLEAN) /\ Quiet \in Detectors
    BY EmptySeq DEF Quiet, Detectors
  <2> QED
    BY <1>3, <2>1 DEF TurnCleared, TurnOver, WindowInv
<1> QED
  BY <1>1, <1>2, <1>3 DEF TurnSteps

LEMMA CaptureKeeps ==
  ASSUME WindowInv, CaptureFrame \/ CaptureEnds
  PROVE  WindowInv'
<1>1. CASE CaptureFrame
  <2>1. PICK loud \in BOOLEAN : /\ levels' = Append(levels, loud)
                                /\ detector' = ObserveLevel(loud, detector)
    BY <1>1 DEF CaptureFrame
  <2>2. /\ pc = "listening" /\ ended' = ended
        /\ pc' = IF (detector'.spoke /\ ~ detector'.speaking) \/ Len(levels') = MaxFrames
                 THEN "hearing" ELSE "listening"
    BY <1>1 DEF CaptureFrame, Goes
  <2>3. levels \in Seq(BOOLEAN) /\ detector \in Detectors /\ Follows(detector, levels)
    BY <2>2 DEF WindowInv
  <2>4. /\ levels' \in Seq(BOOLEAN) /\ Len(levels') = Len(levels) + 1 /\ Len(levels) \in Nat
    BY <2>1, <2>3, AppendProperties, LenProperties
  <2>5. /\ detector' \in Detectors
        /\ \A k \in 1 .. Len(levels) : ~ TurnIn(levels', k)
        /\ detector'.spoke /\ ~ detector'.speaking => TurnIn(levels', Len(levels'))
        /\ ~ (detector'.spoke /\ ~ detector'.speaking) => Follows(detector', levels')
    BY <2>1, <2>3, FrameFollows
  <2>6. CASE pc' = "hearing"
    <3>1. TurnIn(levels', Len(levels')) \/ Len(levels') = MaxFrames
      BY <2>2, <2>5, <2>6
    <3>2. Len(levels') - 1 = Len(levels)
      BY <2>4
    <3> QED
      BY <2>4, <2>5, <2>6, <3>1, <3>2 DEF WindowInv
  <2>7. CASE pc' = "listening"
    BY <2>2, <2>4, <2>5, <2>7 DEF WindowInv
  <2> QED
    BY <2>2, <2>6, <2>7
<1>2. CASE CaptureEnds
  <2>1. /\ pc = "listening" /\ pc' = "hearing" /\ ended' = TRUE
        /\ levels' = levels /\ detector' = detector
    BY <1>2 DEF CaptureEnds, Goes
  <2>2. Len(levels) \in Nat /\ \A k \in 1 .. Len(levels) : ~ TurnIn(levels, k)
    BY <2>1, LenProperties DEF WindowInv, Follows
  <2> QED
    BY <2>1, <2>2 DEF WindowInv
<1> QED
  BY <1>1, <1>2

LEMMA ProcessTurn ==
  ASSUME \/ Discard \/ Start \/ StartResident \/ ModelMissing \/ Warmed \/ StartupWait \/ LoadRecord \/ RecordRefused
         \/ Exit \/ Stop \/ Crash \/ ChildBinds \/ ChildDies \/ OtherServer
         \/ \E c \in Classes : Allow(c) \/ Revoke(c)
  PROVE  TurnSteps
<1> USE DEF TurnSteps, TurnKept, TurnCleared, TurnOver, Down
<1>1. CASE Discard \/ (\E c \in Classes : Allow(c) \/ Revoke(c))
  BY <1>1 DEF Discard, Allow, Revoke, Verb
<1>2. CASE Start
  BY <1>2 DEF Start
<1>3. CASE StartResident \/ ModelMissing
  BY <1>3 DEF StartResident, ModelMissing, NoResident
<1>4. CASE Warmed \/ LoadRecord
  BY <1>4 DEF Warmed, LoadRecord
<1>5. CASE StartupWait
  BY <1>5 DEF StartupWait, NoResident
<1>6. CASE RecordRefused \/ Exit \/ Crash
  BY <1>6 DEF RecordRefused, Exit, Crash
<1>7. CASE Stop \/ ChildBinds \/ ChildDies \/ OtherServer
  BY <1>7 DEF Stop, ChildBinds, ChildDies, OtherServer
<1> QED
  BY <1>1, <1>2, <1>3, <1>4, <1>5, <1>6, <1>7

LEMMA QuestionTurn ==
  ASSUME \/ NewBrief \/ Decide \/ AllFilled \/ AskRest \/ Merge
         \/ Says \/ FallsBack \/ ReadReply \/ TypeLine
         \/ CaptureFails \/ Transcribe \/ NothingHeard \/ NotShown
         \/ NotTripped \/ Trips \/ Utterance
  PROVE  TurnSteps
<1> USE DEF TurnSteps, TurnKept, TurnCleared, TurnOver, Opens
<1>1. CASE NewBrief \/ Decide \/ AllFilled \/ AskRest \/ Merge
  BY <1>1 DEF NewBrief, Decide, AllFilled, AskRest, Merge, Returns
<1>2. CASE Says
  BY <1>2 DEF Says, Render, Rendered, PipesHeld, Play, OfferedFloor, Spoken, Goes, Putting
<1>3. ASSUME ConsoleAsk \/ Fails
      PROVE  TurnCleared
  BY <1>3 DEF ConsoleAsk, Fails, Returns, Goes
<1>4. CASE FallsBack \/ CaptureFails \/ NothingHeard \/ NotShown
  <2>1. ConsoleAsk \/ Fails
    BY <1>4 DEF FallsBack, FallbackAsk, Voiceless, CaptureFails, NothingHeard, NotShown, RepromptTyped
  <2> QED
    BY <1>3, <2>1
<1>5. CASE ReadReply
  <2>1. CASE Fails
    BY <1>3, <2>1
  <2> QED
    BY <1>5, <2>1 DEF ReadReply
<1>6. CASE TypeLine \/ Transcribe
  BY <1>6 DEF TypeLine, Transcribe
<1>7. CASE NotTripped \/ Trips \/ Utterance
  BY <1>7 DEF NotTripped, Trips, Utterance
<1> QED
  BY <1>1, <1>2, <1>4, <1>5, <1>6, <1>7

LEMMA WindowStays == WindowInv /\ [Next]_vars => WindowInv'
<1> SUFFICES ASSUME WindowInv, [Next]_vars PROVE WindowInv'
  OBVIOUS
<1>1. CASE UNCHANGED vars
  BY <1>1, TurnStepsKeep DEF vars, TurnSteps, TurnKept, turn
<1>2. CASE CaptureFrame \/ CaptureEnds
  BY <1>2, CaptureKeeps
<1>3. CASE \/ Discard \/ Start \/ StartResident \/ ModelMissing \/ Warmed \/ StartupWait \/ LoadRecord \/ RecordRefused
           \/ Exit \/ Stop \/ Crash \/ ChildBinds \/ ChildDies \/ OtherServer
           \/ \E c \in Classes : Allow(c) \/ Revoke(c)
  BY <1>3, ProcessTurn, TurnStepsKeep
<1>4. CASE \/ NewBrief \/ Decide \/ AllFilled \/ AskRest \/ Merge
           \/ Says \/ FallsBack \/ ReadReply \/ TypeLine
           \/ CaptureFails \/ Transcribe \/ NothingHeard \/ NotShown
           \/ NotTripped \/ Trips \/ Utterance
  BY <1>4, QuestionTurn, TurnStepsKeep
<1> QED
  BY <1>1, <1>2, <1>3, <1>4, SaysOrFallsBack DEF Next, Proceeds, Ears

LEMMA FirstWindow == Init => WindowInv
<1>1. <<>> \in Seq(BOOLEAN) /\ Quiet \in Detectors
  BY EmptySeq DEF Quiet, Detectors
<1> QED
  BY <1>1 DEF Init, WindowInv

\* The window has room for the frame to come, and no run is longer than what was captured.
FrameInv ==
  /\ Len(levels) <= MaxFrames /\ (pc = "listening" => Len(levels) < MaxFrames)
  /\ detector.loud <= Len(levels) /\ detector.quiet <= Len(levels) /\ ended \in BOOLEAN

LEMMA FramesStay == WindowInv /\ FrameInv /\ [Next]_vars => FrameInv'
<1> SUFFICES ASSUME WindowInv, FrameInv, [Next]_vars PROVE FrameInv'
  OBVIOUS
<1>1. /\ levels \in Seq(BOOLEAN) /\ Len(levels) \in Nat /\ detector \in Detectors
      /\ Len(<<>>) = 0 /\ Quiet.loud = 0 /\ Quiet.quiet = 0 /\ MaxFrames \in Nat \ {0}
      /\ detector.loud \in Nat /\ detector.quiet \in Nat
  BY LenProperties, EmptySeq, SittingAssumption DEF WindowInv, Quiet, Detectors
<1>2. CASE CaptureFrame
  <2>1. PICK loud \in BOOLEAN : /\ levels' = Append(levels, loud)
                                /\ detector' = ObserveLevel(loud, detector)
    BY <1>2 DEF CaptureFrame
  <2>2. /\ pc = "listening"
        /\ pc' = "listening" => Len(levels') # MaxFrames
    BY <1>2 DEF CaptureFrame, Goes
  <2>3. Len(levels') = Len(levels) + 1
    BY <1>1, <2>1, AppendProperties
  <2>4. /\ detector'.loud = IF loud THEN detector.loud + 1 ELSE 0
        /\ detector'.quiet = IF loud THEN 0 ELSE detector.quiet + 1
    BY <2>1 DEF ObserveLevel
  <2>5. Len(levels) < MaxFrames /\ detector.loud <= Len(levels) /\ detector.quiet <= Len(levels)
    BY <2>2 DEF FrameInv
  <2>6. Len(levels') <= MaxFrames /\ (pc' = "listening" => Len(levels') < MaxFrames)
    BY <1>1, <2>2, <2>3, <2>5
  <2>7. detector'.loud <= Len(levels') /\ detector'.quiet <= Len(levels')
    BY <1>1, <2>3, <2>4, <2>5
  <2>8. ended' \in BOOLEAN
    BY <1>2 DEF CaptureFrame, FrameInv
  <2> QED
    BY <2>6, <2>7, <2>8 DEF FrameInv
<1>3. CASE CaptureEnds
  BY <1>3 DEF CaptureEnds, Goes, FrameInv
<1>4. CASE TurnSteps
  <2>1. CASE TurnKept
    <3>1. /\ levels' = levels /\ detector' = detector /\ ended' = ended
          /\ pc' = "listening" => pc = "listening"
      BY <2>1 DEF TurnKept, turn
    <3> QED
      BY <3>1 DEF FrameInv
  <2>2. CASE Opens
    <3>1. levels' = <<>> /\ detector' = Quiet /\ ended' = ended
      BY <2>2 DEF Opens, turn, WindowInv
    <3> QED
      BY <1>1, <3>1 DEF FrameInv
  <2>3. CASE TurnCleared
    <3>1. levels' = <<>> /\ detector' = Quiet /\ ended' \in BOOLEAN /\ pc' # "listening"
      BY <2>3 DEF TurnCleared, TurnOver
    <3> QED
      BY <1>1, <3>1 DEF FrameInv
  <2> QED
    BY <1>4, <2>1, <2>2, <2>3 DEF TurnSteps
<1>5. CASE UNCHANGED vars
  BY <1>5 DEF vars, FrameInv
<1> QED
  BY <1>2, <1>3, <1>4, <1>5, ProcessTurn, QuestionTurn, SaysOrFallsBack DEF Next, Proceeds, Ears

LEMMA FirstFrames == Init => FrameInv
<1> SUFFICES ASSUME Init PROVE FrameInv
  OBVIOUS
<1>1. levels = <<>> /\ detector = Quiet /\ ended \in BOOLEAN /\ pc # "listening"
  BY DEF Init
<1>2. Len(<<>>) = 0 /\ Quiet.loud = 0 /\ Quiet.quiet = 0 /\ MaxFrames \in Nat
  BY EmptySeq, SittingAssumption DEF Quiet
<1> QED
  BY <1>1, <1>2 DEF FrameInv

-----------------------------------------------------------------------------
(* The process, its server and its files.                                     *)

\* A server answers as this process's own exactly while the child serves; one that is still
\* to be looked for was not started.
ServerInv ==
  /\ port \in {"free", "child", "other"} /\ (port = "child" <=> child = "serving")
  /\ child \in {"none", "loading", "serving", "dead"}
  /\ pc \in {"down", "probing"} => child = "none"

ProcessInv ==
  /\ pc \in {"down", "probing", "warming", "records", "idle"} \cup Conducting
  /\ stopping \in BOOLEAN /\ hears \in {"none", "server", "cli"} /\ options \in Options
  /\ rules \in Rules \cup {Torn} /\ store \in Rules \cup {Torn}
  /\ lines \in 0 .. MaxLines
  /\ lives \in 0 .. MaxLives /\ briefs \in 0 .. MaxBriefs /\ faults \in 0 .. MaxFaults

\* A step of a process that runs and goes on running.
RunsOn ==
  /\ UNCHANGED server /\ pc \notin {"down", "probing"} /\ pc' \notin {"down", "probing"}

LEMMA RunsOnKeeps == ServerInv /\ RunsOn => ServerInv'
BY DEF ServerInv, RunsOn, server

\* A question or a brief leaves the server and everything that was wired alone.
LEMMA BriefRunsOn ==
  ASSUME \/ NewBrief \/ Decide \/ AllFilled \/ AskRest \/ Merge
         \/ Says \/ FallsBack \/ Ears \/ ReadReply
         \/ NotTripped \/ Trips \/ Utterance \/ LoadRecord
  PROVE  RunsOn
<1> USE DEF RunsOn
<1>1. CASE \/ NewBrief \/ Decide \/ AllFilled \/ AskRest \/ Merge \/ LoadRecord
  <2>1. CASE NewBrief \/ Decide \/ LoadRecord
    BY <2>1 DEF NewBrief, Decide, LoadRecord
  <2>2. CASE AllFilled \/ AskRest \/ Merge
    BY <2>2 DEF AllFilled, AskRest, Merge, Returns
  <2> QED
    BY <1>1, <2>1, <2>2
<1>2. CASE Says
  BY <1>2 DEF Says, Render, Rendered, PipesHeld, Play, OfferedFloor, Spoken, Goes, Putting
<1>3. ASSUME ConsoleAsk \/ Fails
      PROVE  UNCHANGED server /\ pc' \in {"typing", "idle"}
  BY <1>3 DEF ConsoleAsk, Fails, Returns, Goes
<1>4. CASE FallsBack \/ CaptureFails \/ NothingHeard \/ NotShown
  <2>1. /\ ConsoleAsk \/ Fails
        /\ pc \in {"putting", "rendering", "held", "playing", "offering", "listening", "hearing"}
    BY <1>4 DEF FallsBack, FallbackAsk, Voiceless, CaptureFails, NothingHeard, NotShown, RepromptTyped, Putting
  <2> QED
    BY <1>3, <2>1
<1>5. CASE CaptureFrame \/ CaptureEnds
  <2>1. pc = "listening" /\ (Goes("hearing") \/ Goes("listening"))
    BY <1>5 DEF CaptureFrame, CaptureEnds
  <2> QED
    BY <2>1 DEF Goes
<1>6. CASE ReadReply
  <2>1. CASE pc = "typing" /\ Fails
    BY <1>3, <2>1
  <2> QED
    BY <1>6, <2>1 DEF ReadReply
<1>7. CASE Transcribe \/ NotTripped \/ Trips \/ Utterance
  BY <1>7 DEF Transcribe, NotTripped, Trips, Utterance
<1> QED
  BY <1>1, <1>2, <1>4, <1>5, <1>6, <1>7 DEF Ears

LEMMA ServerStays == ServerInv /\ [Next]_vars => ServerInv'
<1> SUFFICES ASSUME ServerInv, [Next]_vars PROVE ServerInv'
  OBVIOUS
<1>1. CASE UNCHANGED <<server, pc>>
  BY <1>1 DEF ServerInv, server
<1>2. CASE Discard \/ TypeLine \/ (\E c \in Classes : Allow(c) \/ Revoke(c)) \/ UNCHANGED vars
  <2>1. UNCHANGED <<server, pc>>
    BY <1>2 DEF Discard, TypeLine, Allow, Revoke, Verb, vars, server
  <2> QED
    BY <1>1, <2>1
<1>3. CASE Start
  BY <1>3 DEF Start, ServerInv, server
<1>4. CASE StartResident \/ ModelMissing
  BY <1>4 DEF StartResident, ModelMissing, NoResident, Down, ServerInv, server
<1>5. CASE Warmed
  BY <1>5 DEF Warmed, ServerInv, server
<1>6. CASE StartupWait
  BY <1>6 DEF StartupWait, NoResident, Close, Down, ServerInv
<1>7. CASE RecordRefused \/ Exit
  BY <1>7 DEF RecordRefused, Exit, Close, Down, ServerInv
<1>8. CASE Crash
  BY <1>8 DEF Crash, Down, ServerInv
<1>9. CASE Stop
  BY <1>9 DEF Stop, ServerInv
<1>10. CASE ChildBinds \/ ChildDies \/ OtherServer
  BY <1>10 DEF ChildBinds, ChildDies, OtherServer, ServerInv
<1> QED
  BY <1>2, <1>3, <1>4, <1>5, <1>6, <1>7, <1>8, <1>9, <1>10, BriefRunsOn, RunsOnKeeps, SaysOrFallsBack
  DEF Next, Proceeds

\* The rules and the switches of the process, through the verbs and the life of the process.
LEMMA ProcessSteps ==
  ASSUME ProcessInv,
         \/ Discard \/ Start \/ StartResident \/ ModelMissing \/ Warmed \/ StartupWait \/ LoadRecord \/ RecordRefused
         \/ Exit \/ Stop \/ Crash \/ ChildBinds \/ ChildDies \/ OtherServer
         \/ \E c \in Classes : Allow(c) \/ Revoke(c)
  PROVE  ProcessInv'
<1>1. NoRules \in Rules /\ MaxLives \in Nat /\ MaxFaults \in Nat /\ MaxLines \in Nat
  BY SittingAssumption DEF NoRules, Rules
<1>a. ASSUME Down, UNCHANGED <<rules, options, lives, briefs>>, faults' \in 0 .. MaxFaults
      PROVE  ProcessInv'
  <2>1. /\ pc' = "down" /\ stopping' = FALSE /\ hears' = "none" /\ store' = NoRules /\ lines' = 0
    BY <1>a DEF Down
  <2>2. lines' \in 0 .. MaxLines
    BY <1>1, <2>1
  <2>3. /\ options' \in Options /\ rules' \in Rules \cup {Torn}
        /\ lives' \in 0 .. MaxLives /\ briefs' \in 0 .. MaxBriefs
    BY <1>a DEF ProcessInv
  <2> QED
    BY <1>1, <1>a, <2>1, <2>2, <2>3 DEF ProcessInv
<1> USE <1>1 DEF ProcessInv, bounds, files, wired
<1>2. CASE \E c \in Classes : Allow(c) \/ Revoke(c)
  <2>1. PICK c \in Classes : Allow(c) \/ Revoke(c)
    BY <1>2
  <2>2. rules \in Rules => /\ [rules EXCEPT ![c] = TRUE] \in Rules
                          /\ [rules EXCEPT ![c] = FALSE] \in Rules
    BY DEF Rules
  <2>3. /\ rules' \in Rules \cup {Torn}
        /\ UNCHANGED bounds \/ Fault
        /\ UNCHANGED <<lines, pc, stopping, wired>>
    BY <2>1, <2>2 DEF Allow, Revoke, Verb
  <2> QED
    BY <2>3 DEF Fault
<1>3. CASE Discard
  BY <1>3 DEF Discard
<1>4. CASE Start
  BY <1>4 DEF Start
<1>5. CASE StartResident \/ ModelMissing
  <2>1. UNCHANGED <<rules, options, bounds>>
    BY <1>5 DEF StartResident, ModelMissing
  <2>2. CASE Down
    BY <1>a, <2>1, <2>2
  <2> QED
    BY <1>5, <2>1, <2>2 DEF StartResident, ModelMissing, NoResident
<1>6. CASE Warmed \/ LoadRecord
  BY <1>6 DEF Warmed, LoadRecord
<1>7. CASE StartupWait
  <2>1. UNCHANGED <<rules, options, bounds>>
    BY <1>7 DEF StartupWait
  <2>2. CASE Down
    BY <1>a, <2>1, <2>2
  <2> QED
    BY <1>7, <2>1, <2>2 DEF StartupWait, NoResident
<1>8. CASE RecordRefused \/ Exit
  BY <1>8, <1>a DEF RecordRefused, Exit
<1>9. CASE Crash
  <2>1. Down /\ UNCHANGED <<rules, options, lives, briefs>> /\ faults' \in 0 .. MaxFaults
    BY <1>9 DEF Crash, Fault
  <2> QED
    BY <1>a, <2>1
<1>10. CASE Stop
  BY <1>10 DEF Stop
<1>11. CASE ChildBinds \/ ChildDies \/ OtherServer
  BY <1>11 DEF ChildBinds, ChildDies, OtherServer
<1> QED
  BY <1>2, <1>3, <1>4, <1>5, <1>6, <1>7, <1>8, <1>9, <1>10, <1>11

\* A step inside a brief: rules and switches stay, the brief and the faults are counted.
InBrief ==
  /\ UNCHANGED <<rules, stopping, wired, lives>> /\ pc' \in {"idle"} \cup Conducting
  /\ lines' = lines \/ (lines > 0 /\ lines' = lines - 1) \/ (lines < MaxLines /\ lines' = lines + 1)
  /\ briefs' = briefs \/ (briefs < MaxBriefs /\ briefs' = briefs + 1)
  /\ faults' = faults \/ (faults < MaxFaults /\ faults' = faults + 1)

LEMMA InBriefKeeps == ProcessInv /\ InBrief => ProcessInv'
<1> SUFFICES ASSUME ProcessInv, InBrief PROVE ProcessInv'
  OBVIOUS
<1>1. MaxBriefs \in Nat /\ MaxFaults \in Nat /\ MaxLines \in Nat
  BY SittingAssumption
<1>2. /\ lines' \in 0 .. MaxLines /\ briefs' \in 0 .. MaxBriefs /\ faults' \in 0 .. MaxFaults
  BY <1>1 DEF ProcessInv, InBrief
<1> QED
  BY <1>2 DEF ProcessInv, InBrief, wired

LEMMA BriefSteps ==
  ASSUME \/ NewBrief \/ Decide \/ AllFilled \/ AskRest \/ Merge
         \/ Says \/ FallsBack \/ Ears \/ ReadReply
         \/ NotTripped \/ Trips \/ Utterance
  PROVE  InBrief
<1> USE DEF InBrief, Conducting, bounds, files
<1>1. CASE NewBrief \/ Decide \/ AskRest
  BY <1>1 DEF NewBrief, Decide, AskRest
<1>2. CASE AllFilled \/ Merge
  BY <1>2 DEF AllFilled, Merge, Returns
<1>3. CASE Says
  BY <1>3 DEF Says, Render, Rendered, PipesHeld, Play, OfferedFloor, Spoken, Goes
<1>4. ASSUME ConsoleAsk \/ Fails
      PROVE  InBrief
  BY <1>4 DEF ConsoleAsk, Fails, Returns, Goes
<1>5. CASE FallsBack \/ CaptureFails \/ NothingHeard \/ NotShown
  <2>1. ConsoleAsk \/ Fails
    BY <1>5 DEF FallsBack, FallbackAsk, Voiceless, CaptureFails, NothingHeard, NotShown, RepromptTyped
  <2> QED
    BY <1>4, <2>1
<1>6. CASE CaptureFrame \/ CaptureEnds
  <2>1. Goes("hearing") \/ Goes("listening")
    BY <1>6 DEF CaptureFrame, CaptureEnds
  <2> QED
    BY <2>1 DEF Goes
<1>7. CASE ReadReply
  <2>1. CASE Fails
    BY <1>4, <2>1
  <2> QED
    BY <1>7, <2>1 DEF ReadReply
<1>8. CASE Transcribe \/ NotTripped \/ Trips
  BY <1>8 DEF Transcribe, NotTripped, Trips
<1>9. CASE Utterance
  BY <1>9 DEF Utterance, SaveRecord, Fault
<1> QED
  BY <1>1, <1>2, <1>3, <1>5, <1>6, <1>7, <1>8, <1>9 DEF Ears

LEMMA ProcessStays == ProcessInv /\ [Next]_vars => ProcessInv'
<1> SUFFICES ASSUME ProcessInv, [Next]_vars PROVE ProcessInv'
  OBVIOUS
<1>1. CASE UNCHANGED vars
  BY <1>1 DEF vars, ProcessInv
<1>2. CASE TypeLine
  <2>1. lines' \in 0 .. MaxLines
    BY <1>2, SittingAssumption DEF TypeLine, ProcessInv
  <2>2. UNCHANGED <<rules, options, pc, stopping, hears, store, lives, briefs, faults>>
    BY <1>2 DEF TypeLine, files, wired, bounds
  <2> QED
    BY <2>1, <2>2 DEF ProcessInv
<1> QED
  BY <1>1, <1>2, ProcessSteps, BriefSteps, InBriefKeeps, SaysOrFallsBack DEF Next, Proceeds

LEMMA FirstProcess == Init => ServerInv /\ ProcessInv
<1> SUFFICES ASSUME Init PROVE ServerInv /\ ProcessInv
  OBVIOUS
<1>1. NoRules \in Rules
  BY DEF NoRules, Rules
<1>2. 0 \in 0 .. MaxLines /\ 0 \in 0 .. MaxLives /\ 0 \in 0 .. MaxBriefs /\ 0 \in 0 .. MaxFaults
  BY SittingAssumption
<1>3. ServerInv
  BY DEF Init, ServerInv
<1> QED
  BY <1>1, <1>2, <1>3 DEF Init, ProcessInv

-----------------------------------------------------------------------------
(* The brief: what was filled, what is asked, and the report.                *)

\* The n items of a brief decided on so far are in one of the two parts, each of them once.
Parts(f, t, n) ==
  /\ Len(f) + Len(t) = n
  /\ \A i \in 1 .. Len(f) : \E k \in 1 .. n : f[i].item = Order[k]
  /\ \A i \in 1 .. Len(t) : \E k \in 1 .. n : t[i] = Order[k]
  /\ \A i, j \in 1 .. Len(f) : f[i].item = f[j].item => i = j
  /\ \A i, j \in 1 .. Len(t) : t[i] = t[j] => i = j
  /\ \A i \in 1 .. Len(f), j \in 1 .. Len(t) : f[i].item # t[j]
  /\ \A k \in 1 .. n : \/ \E i \in 1 .. Len(f) : f[i].item = Order[k]
                       \/ \E i \in 1 .. Len(t) : t[i] = Order[k]

\* The replies so far, to the first items that were asked.
Replies(g, t) ==
  /\ Len(g) <= Len(t)
  /\ \A k \in 1 .. Len(g) : g[k].item = t[k] /\ g[k].how # "filled"

\* No two answers are to the same item.
Distinct(s) == \A i, j \in 1 .. Len(s) : s[i].item = s[j].item => i = j

LEMMA OrderOnce ==
  /\ Order \in Seq(Items) /\ Len(Order) \in Nat /\ Len(Order) = Cardinality(Items)
  /\ Order \in [1 .. Len(Order) -> Items]
  /\ \A j, k \in 1 .. Len(Order) : Order[j] = Order[k] => j = k
  /\ \A i \in Items : \E k \in 1 .. Len(Order) : Order[k] = i
<1> DEFINE n == Cardinality(Items)
<1>1. n \in Nat /\ Order \in [1 .. n -> Items] /\ DOMAIN Order = 1 .. n
  BY SittingAssumption, FS_CardinalityType
<1>2. Order \in Seq(Items)
  BY <1>1
<1>3. Len(Order) = n
  BY <1>1, <1>2, LenProperties
<1>4. \A i \in Items : \E k \in 1 .. n : Order[k] = i
  BY <1>1, SittingAssumption
<1>5. Order \in Surjection(1 .. n, Items)
  BY <1>1, <1>4 DEF Surjection
<1>6. IsFiniteSet(1 .. n) /\ Cardinality(1 .. n) = n
  BY <1>1, FS_Interval
<1>7. Order \in Injection(1 .. n, Items)
  BY <1>5, <1>6, FS_SurjSameCardinalityImpliesInj
<1> QED
  BY <1>1, <1>2, <1>3, <1>4, <1>7 DEF Injection, IsInjective

\* A brief that is opened has decided on nothing.
LEMMA PartsOfNothing == Parts(<<>>, <<>>, 0) /\ Replies(<<>>, <<>>)
<1>1. Len(<<>>) = 0
  BY EmptySeq
<1> QED
  BY <1>1 DEF Parts, Replies

\* What is appended comes at a place of its own, behind all the others.
LEMMA Appended ==
  ASSUME NEW S, NEW s \in Seq(S), NEW e \in S
  PROVE  \E last \in 1 .. Len(Append(s, e)) :
           /\ Append(s, e)[last] = e /\ last \notin 1 .. Len(s)
           /\ \A i \in 1 .. Len(s) : i \in 1 .. Len(Append(s, e)) /\ Append(s, e)[i] = s[i]
           /\ \A i \in 1 .. Len(Append(s, e)) : i = last \/ i \in 1 .. Len(s)
<1>1. /\ Len(s) \in Nat /\ Len(Append(s, e)) = Len(s) + 1 /\ Append(s, e)[Len(s) + 1] = e
      /\ \A i \in 1 .. Len(s) : Append(s, e)[i] = s[i]
  BY AppendProperties, LenProperties
<1> WITNESS Len(s) + 1 \in 1 .. Len(Append(s, e))
<1> QED
  BY <1>1

\* The next item goes to one part or the other.
LEMMA PartsGrow ==
  ASSUME NEW f \in Seq(Answers), NEW t \in Seq(Items), NEW m \in Nat, m + 1 \in 1 .. Len(Order),
         Parts(f, t, m)
  PROVE  /\ \A a \in Answers : a.item = Order[m + 1] => Parts(Append(f, a), t, m + 1)
         /\ Parts(f, Append(t, Order[m + 1]), m + 1)
<1> DEFINE n == m + 1
<1>1. /\ Order[n] \in Items /\ n \in 1 .. n
      /\ \A k \in 1 .. n : k \in 1 .. m \/ k = n
      /\ \A k \in 1 .. m : k \in 1 .. n /\ Order[k] # Order[n]
  BY OrderOnce
<1>2. Len(f) \in Nat /\ Len(t) \in Nat /\ Len(f) + Len(t) = m
  BY LenProperties DEF Parts
<1>3. /\ \A i \in 1 .. Len(f) : f[i].item # Order[n]
      /\ \A i \in 1 .. Len(t) : t[i] # Order[n]
  BY <1>1 DEF Parts
<1>a. /\ \A i \in 1 .. Len(f) : \E k \in 1 .. m : f[i].item = Order[k]
      /\ \A i \in 1 .. Len(t) : \E k \in 1 .. m : t[i] = Order[k]
  BY DEF Parts
<1>b. /\ \A i, j \in 1 .. Len(f) : f[i].item = f[j].item => i = j
      /\ \A i, j \in 1 .. Len(t) : t[i] = t[j] => i = j
      /\ \A i \in 1 .. Len(f), j \in 1 .. Len(t) : f[i].item # t[j]
  BY DEF Parts
<1>c. \A k \in 1 .. m : \/ \E i \in 1 .. Len(f) : f[i].item = Order[k]
                       \/ \E i \in 1 .. Len(t) : t[i] = Order[k]
  BY DEF Parts
<1>4. ASSUME NEW a \in Answers, a.item = Order[n]
      PROVE  Parts(Append(f, a), t, n)
  <2> DEFINE h == Append(f, a)
  <2>1. Len(h) + Len(t) = n
    BY <1>2, AppendProperties
  <2>2. PICK last \in 1 .. Len(h) :
          /\ h[last] = a /\ last \notin 1 .. Len(f)
          /\ \A i \in 1 .. Len(f) : i \in 1 .. Len(h) /\ h[i] = f[i]
          /\ \A i \in 1 .. Len(h) : i = last \/ i \in 1 .. Len(f)
    BY Appended
  <2> HIDE DEF h, n
  <2>a. /\ h[last].item = Order[n]
        /\ \A i \in 1 .. Len(f) : h[i].item = f[i].item /\ h[i].item # Order[n]
        /\ \A i \in 1 .. Len(h) : i = last \/ i \in 1 .. Len(f)
    BY <1>3, <1>4, <2>2
  <2>3. /\ \A i \in 1 .. Len(h) : \E k \in 1 .. n : h[i].item = Order[k]
        /\ \A i \in 1 .. Len(t) : \E k \in 1 .. n : t[i] = Order[k]
    <3>1. ASSUME NEW i \in 1 .. Len(h)
          PROVE  \E k \in 1 .. n : h[i].item = Order[k]
      <4>1. CASE i = last
        BY <1>1, <2>a, <4>1
      <4>2. CASE i \in 1 .. Len(f)
        <5>1. PICK k \in 1 .. m : f[i].item = Order[k]
          BY <1>a, <4>2
        <5>2. k \in 1 .. n /\ h[i].item = f[i].item
          BY <1>1, <2>a, <4>2
        <5> QED
          BY <5>1, <5>2
      <4> QED
        BY <2>a, <4>1, <4>2
    <3> QED
      BY <1>1, <1>a, <3>1
  <2>4. /\ \A i, j \in 1 .. Len(h) : h[i].item = h[j].item => i = j
        /\ \A i \in 1 .. Len(h), j \in 1 .. Len(t) : h[i].item # t[j]
    <3>1. ASSUME NEW i \in 1 .. Len(h), NEW j \in 1 .. Len(h), h[i].item = h[j].item
          PROVE  i = j
      BY <1>b, <2>a, <3>1
    <3>2. ASSUME NEW i \in 1 .. Len(h), NEW j \in 1 .. Len(t)
          PROVE  h[i].item # t[j]
      BY <1>3, <1>b, <2>a
    <3> QED
      BY <3>1, <3>2
  <2>5. \A k \in 1 .. n : \/ \E i \in 1 .. Len(h) : h[i].item = Order[k]
                          \/ \E i \in 1 .. Len(t) : t[i] = Order[k]
    BY <1>1, <1>c, <1>4, <2>2
  <2> QED
    BY <2>1, <2>3, <2>4, <2>5 DEF Parts, h
<1>5. Parts(f, Append(t, Order[n]), n)
  <2> DEFINE h == Append(t, Order[n])
  <2>1. Len(f) + Len(h) = n
    BY <1>1, <1>2, AppendProperties
  <2>2. PICK last \in 1 .. Len(h) :
          /\ h[last] = Order[n] /\ last \notin 1 .. Len(t)
          /\ \A i \in 1 .. Len(t) : i \in 1 .. Len(h) /\ h[i] = t[i]
          /\ \A i \in 1 .. Len(h) : i = last \/ i \in 1 .. Len(t)
    BY <1>1, Appended
  <2> HIDE DEF h, n
  <2>3. /\ \A i \in 1 .. Len(f) : \E k \in 1 .. n : f[i].item = Order[k]
        /\ \A i \in 1 .. Len(h) : \E k \in 1 .. n : h[i] = Order[k]
    BY <1>1, <1>a, <2>2
  <2>4. /\ \A i, j \in 1 .. Len(h) : h[i] = h[j] => i = j
        /\ \A i \in 1 .. Len(f), j \in 1 .. Len(h) : f[i].item # h[j]
    BY <1>3, <1>b, <2>2
  <2>5. \A k \in 1 .. n : \/ \E i \in 1 .. Len(f) : f[i].item = Order[k]
                          \/ \E i \in 1 .. Len(h) : h[i] = Order[k]
    BY <1>1, <1>c, <2>2
  <2> QED
    BY <2>1, <2>3, <2>4, <2>5 DEF Parts, h
<1> QED
  BY <1>4, <1>5

\* The two parts together, once every item that was asked has its reply: every item once.
LEMMA PartsWhole ==
  ASSUME NEW f \in Seq(Answers), NEW t \in Seq(Items), NEW g \in Seq(Answers),
         Parts(f, t, Len(Order)), Replies(g, t), Len(g) = Len(t)
  PROVE  /\ f \o g \in Seq(Answers) /\ Len(f \o g) = Cardinality(Items) /\ Distinct(f \o g)
         /\ \A x \in Items : \E i \in 1 .. Len(f \o g) : (f \o g)[i].item = x
         /\ \A i \in 1 .. Len(f \o g) : \/ \E k \in 1 .. Len(f) : (f \o g)[i] = f[k]
                                        \/ (f \o g)[i].how # "filled"
<1> DEFINE s == f \o g
<1>1. /\ s \in Seq(Answers) /\ Len(s) = Len(f) + Len(g)
      /\ Len(f) \in Nat /\ Len(g) \in Nat
      /\ \A i \in 1 .. Len(f) + Len(g) : s[i] = IF i <= Len(f) THEN f[i] ELSE g[i - Len(f)]
  BY ConcatProperties, LenProperties
<1> HIDE DEF s
<1>2. /\ \A i \in 1 .. Len(f) : i \in 1 .. Len(s) /\ s[i] = f[i]
      /\ \A j \in 1 .. Len(g) : Len(f) + j \in 1 .. Len(s) /\ s[Len(f) + j] = g[j]
      /\ \A i \in 1 .. Len(s) : i \in 1 .. Len(f) \/ \E j \in 1 .. Len(g) : i = Len(f) + j
  <2>1. \A j \in 1 .. Len(g) : (Len(f) + j) - Len(f) = j /\ ~ (Len(f) + j <= Len(f))
    BY <1>1
  <2>2. \A i \in 1 .. Len(s) : i \in 1 .. Len(f) \/ (i - Len(f) \in 1 .. Len(g) /\ i = Len(f) + (i - Len(f)))
    BY <1>1
  <2> QED
    BY <1>1, <2>1, <2>2
<1>3. Len(s) = Cardinality(Items)
  BY <1>1, OrderOnce DEF Parts
<1> DEFINE place(j) == Len(f) + j
<1>a. Len(g) = Len(t) /\ \A k \in 1 .. Len(g) : g[k].item = t[k] /\ g[k].how # "filled"
  BY DEF Replies
<1>b. /\ \A j \in 1 .. Len(t) : place(j) \in 1 .. Len(s) /\ s[place(j)] = g[j]
      /\ \A i \in 1 .. Len(s) : i \in 1 .. Len(f) \/ \E j \in 1 .. Len(t) : i = place(j)
  BY <1>2, <1>a
<1> HIDE DEF place
<1>4. /\ \A i \in 1 .. Len(f) : i \in 1 .. Len(s) /\ s[i].item = f[i].item
      /\ \A j \in 1 .. Len(t) :
           place(j) \in 1 .. Len(s) /\ s[place(j)].item = t[j] /\ s[place(j)].how # "filled"
      /\ \A i \in 1 .. Len(s) : i \in 1 .. Len(f) \/ \E j \in 1 .. Len(t) : i = place(j)
  <2>1. \A j \in 1 .. Len(t) : g[j].item = t[j] /\ g[j].how # "filled"
    BY <1>a
  <2>2. \A i \in 1 .. Len(f) : i \in 1 .. Len(s) /\ s[i].item = f[i].item
    BY <1>2
  <2> QED
    BY <1>b, <2>1, <2>2
<1>c. /\ \A i, j \in 1 .. Len(f) : f[i].item = f[j].item => i = j
      /\ \A i, j \in 1 .. Len(t) : t[i] = t[j] => i = j
      /\ \A i \in 1 .. Len(f), j \in 1 .. Len(t) : f[i].item # t[j]
      /\ \A k \in 1 .. Len(Order) : \/ \E i \in 1 .. Len(f) : f[i].item = Order[k]
                                   \/ \E i \in 1 .. Len(t) : t[i] = Order[k]
  BY DEF Parts
<1>5. Distinct(s)
  <2> SUFFICES ASSUME NEW i \in 1 .. Len(s), NEW j \in 1 .. Len(s), s[i].item = s[j].item
               PROVE  i = j
    BY DEF Distinct
  <2>1. ASSUME NEW k \in 1 .. Len(f), NEW l \in 1 .. Len(f), i = k, j = l
        PROVE  i = j
    BY <1>4, <1>c, <2>1
  <2>2. ASSUME NEW k \in 1 .. Len(f), NEW l \in 1 .. Len(t), s[k].item = s[place(l)].item
        PROVE  FALSE
    BY <1>4, <1>c, <2>2
  <2>3. ASSUME NEW k \in 1 .. Len(t), NEW l \in 1 .. Len(t), i = place(k), j = place(l)
        PROVE  i = j
    BY <1>4, <1>c, <2>3
  <2>4. i \in 1 .. Len(f) \/ \E k \in 1 .. Len(t) : i = place(k)
    BY <1>4
  <2>5. j \in 1 .. Len(f) \/ \E k \in 1 .. Len(t) : j = place(k)
    BY <1>4
  <2> QED
    BY <2>1, <2>2, <2>3, <2>4, <2>5
<1>6. \A x \in Items : \E i \in 1 .. Len(s) : s[i].item = x
  <2> SUFFICES ASSUME NEW x \in Items PROVE \E i \in 1 .. Len(s) : s[i].item = x
    OBVIOUS
  <2>1. PICK k \in 1 .. Len(Order) : Order[k] = x
    BY OrderOnce
  <2>2. (\E i \in 1 .. Len(f) : f[i].item = x) \/ (\E i \in 1 .. Len(t) : t[i] = x)
    BY <1>c, <2>1
  <2> QED
    BY <1>4, <2>2
<1>7. \A i \in 1 .. Len(s) : (\E k \in 1 .. Len(f) : s[i] = f[k]) \/ s[i].how # "filled"
  BY <1>2, <1>4
<1> QED
  BY <1>1, <1>3, <1>5, <1>6, <1>7 DEF s

\* The sort: what is left of distinct items, in increasing order, with nothing added or lost.
LEMMA Sorting ==
  ASSUME NEW s \in Seq(Answers), Distinct(s)
  PROVE  /\ SortByItem(s) \in Seq(Answers) /\ Len(SortByItem(s)) = Len(s)
         /\ \A r \in 1 .. Len(s) : \E k \in 1 .. Len(s) : SortByItem(s)[r] = s[k]
         /\ \A k \in 1 .. Len(s) : \E r \in 1 .. Len(s) : SortByItem(s)[r] = s[k]
         /\ \A q, r \in 1 .. Len(s) : q < r => SortByItem(s)[q].item < SortByItem(s)[r].item
<1> DEFINE n == Len(s)
           below(k) == { j \in DOMAIN s : s[j].item < s[k].item }
           rank == [ k \in 1 .. n |-> Cardinality(below(k)) + 1 ]
           place(r) == CHOOSE k \in DOMAIN s : Cardinality(below(k)) + 1 = r
<1>1. n \in Nat /\ DOMAIN s = 1 .. n /\ \A k \in 1 .. n : s[k] \in Answers /\ s[k].item \in Nat
  <2>1. n \in Nat /\ DOMAIN s = 1 .. n
    BY LenProperties
  <2>2. \A k \in 1 .. n : s[k] \in Answers
    BY ElementOfSeq
  <2>3. \A a \in Answers : a.item \in Nat
    BY SittingAssumption DEF Answers
  <2> QED
    BY <2>1, <2>2, <2>3
<1>2. IsFiniteSet(1 .. n) /\ Cardinality(1 .. n) = n
  <2> HIDE DEF n
  <2> QED
    BY <1>1, FS_Interval
<1>3. \A k \in 1 .. n : IsFiniteSet(below(k)) /\ Cardinality(below(k)) \in Nat
  BY <1>2, FS_Subset, FS_CardinalityType
<1>4. ASSUME NEW j \in 1 .. n, NEW k \in 1 .. n, s[j].item < s[k].item
      PROVE  Cardinality(below(j)) < Cardinality(below(k))
  <2>1. below(j) \in SUBSET below(k)
    BY <1>1, <1>4
  <2>2. j \in below(k) /\ j \notin below(j)
    BY <1>1, <1>4
  <2> HIDE DEF below
  <2>3. Cardinality(below(j)) <= Cardinality(below(k)) /\ Cardinality(below(k)) # Cardinality(below(j))
    BY <1>3, <2>1, <2>2, FS_Subset
  <2> QED
    BY <1>3, <2>3
<1>5. \A j, k \in 1 .. n : s[j].item < s[k].item <=> rank[j] < rank[k]
  <2> HIDE DEF below
  <2>1. \A j, k \in 1 .. n : s[j].item < s[k].item => rank[j] < rank[k]
    BY <1>3, <1>4
  <2>2. \A j, k \in 1 .. n : s[j].item < s[k].item \/ s[k].item < s[j].item \/ j = k
    BY <1>1 DEF Distinct
  <2>3. \A k \in 1 .. n : rank[k] \in Nat
    BY <1>3
  <2> HIDE DEF rank
  <2> QED
    BY <2>1, <2>2, <2>3
<1>6. rank \in Injection(1 .. n, 1 .. n)
  <2>1. \A k \in 1 .. n : Cardinality(below(k)) < n
    <3> SUFFICES ASSUME NEW k \in 1 .. n PROVE Cardinality(below(k)) < n
      OBVIOUS
    <3>1. below(k) \in SUBSET (1 .. n) /\ k \notin below(k)
      BY <1>1
    <3> HIDE DEF below
    <3>2. Cardinality(below(k)) <= n /\ Cardinality(below(k)) # n
      BY <1>2, <3>1, FS_Subset
    <3> QED
      BY <1>1, <1>3, <3>2
  <2>2. rank \in [1 .. n -> 1 .. n]
    <3> HIDE DEF below
    <3> QED
      BY <1>1, <1>3, <2>1
  <2>3. \A j, k \in 1 .. n : rank[j] = rank[k] => j = k
    <3>1. \A j, k \in 1 .. n : s[j].item < s[k].item \/ s[k].item < s[j].item \/ j = k
      BY <1>1 DEF Distinct
    <3> HIDE DEF rank
    <3> QED
      BY <1>1, <1>5, <2>2, <3>1
  <2> HIDE DEF rank
  <2> QED
    BY <2>2, <2>3 DEF Injection, IsInjective
<1> HIDE DEF rank
<1>7. rank \in Surjection(1 .. n, 1 .. n)
  BY <1>2, <1>6, FS_Injection
<1>8. /\ \A r \in 1 .. n : place(r) \in 1 .. n /\ rank[place(r)] = r
      /\ \A k \in 1 .. n : rank[k] \in 1 .. n /\ place(rank[k]) = k
  <2>1. \A k \in 1 .. n : rank[k] = Cardinality(below(k)) + 1
    BY DEF rank
  <2> HIDE DEF below
  <2>2. \A r \in 1 .. n : \E k \in DOMAIN s : Cardinality(below(k)) + 1 = r
    BY <1>1, <1>7, <2>1 DEF Surjection
  <2>3. \A r \in 1 .. n : place(r) \in 1 .. n /\ rank[place(r)] = r
    BY <1>1, <2>1, <2>2
  <2> HIDE DEF place
  <2> QED
    BY <1>6, <2>3 DEF Injection, IsInjective
<1>9. SortByItem(s) = [ r \in DOMAIN s |-> s[place(r)] ]
  BY DEF SortByItem
<1> HIDE DEF place
<1>10. SortByItem(s) \in Seq(Answers) /\ Len(SortByItem(s)) = n
  BY <1>1, <1>8, <1>9
<1>11. \A r \in 1 .. n : SortByItem(s)[r] = s[place(r)]
  BY <1>1, <1>9
<1>12. ASSUME NEW q \in 1 .. n, NEW r \in 1 .. n, q < r
       PROVE  SortByItem(s)[q].item < SortByItem(s)[r].item
  <2>1. place(q) \in 1 .. n /\ place(r) \in 1 .. n /\ rank[place(q)] = q /\ rank[place(r)] = r
    BY <1>8
  <2>2. s[place(q)].item < s[place(r)].item
    BY <1>5, <1>12, <2>1
  <2> QED
    BY <1>11, <2>2
<1>13. \A k \in 1 .. n : SortByItem(s)[rank[k]] = s[k]
  BY <1>8, <1>11
<1> QED
  BY <1>8, <1>10, <1>11, <1>12, <1>13

\* The states in which a question is out, and those in which its reply is in.
Asking == {"putting", "rendering", "held", "playing", "offering", "listening", "hearing", "typing"}
Replied == {"nudging", "counting"}

\* What leaves without anybody being asked has a licence in the rules as they were read.
Licensed(f) ==
  \A k \in 1 .. Len(f) :
    /\ f[k].how = "filled" /\ store # Torn
    /\ ClassOf[f[k].item] \in Classes /\ store[ClassOf[f[k].item]]

\* The items are parted up to the one at hand; then those to ask are asked, each reply at the
\* place of its question; and a report is out only between two briefs.
BriefInv ==
  /\ filled \in Seq(Answers) /\ todo \in Seq(Items) /\ got \in Seq(Answers) /\ report \in Seq(Answers)
  /\ Licensed(filled) /\ ReportIsWhole
  /\ pc # "idle" => report = <<>>
  /\ pc \notin Conducting => at = 1 /\ filled = <<>> /\ todo = <<>> /\ got = <<>>
  /\ pc = "deciding" => at \in 1 .. Len(Order) + 1 /\ got = <<>> /\ Parts(filled, todo, at - 1)
  /\ pc \in Asking \cup Replied =>
       /\ Parts(filled, todo, Len(Order)) /\ Replies(got, todo)
       /\ at \in 1 .. Len(todo) + 1 /\ (pc # "putting" => at <= Len(todo))
       /\ Len(got) = IF pc \in Replied THEN at ELSE at - 1

\* A step that leaves the brief alone.
BriefKept ==
  /\ UNCHANGED <<brief, report, store>>
  /\ \/ pc' = pc
     \/ pc \notin Conducting \cup {"idle"} /\ pc' \notin Conducting \cup {"idle"}
     \/ pc \in Asking /\ pc' \in Asking /\ (pc = "putting" => at <= Len(todo))
     \/ pc = "nudging" /\ pc' = "counting"

\* A step that leaves nothing of it.
BriefCleared ==
  /\ report' = <<>> /\ at' = 1 /\ filled' = <<>> /\ todo' = <<>> /\ got' = <<>>
  /\ pc' \notin Conducting \/ pc' = "deciding"

\* The reply to the question that is out, from the ear or the keyboard.
ReplyIn(how) ==
  /\ pc \in Asking \ {"putting"} /\ pc' = "nudging"
  /\ got' = Append(got, [item |-> todo[at], how |-> how])
  /\ UNCHANGED <<at, filled, todo, report, store>>

\* The question is done with.
NextItem ==
  /\ pc \in Replied /\ pc' = "putting" /\ at' = at + 1
  /\ UNCHANGED <<filled, todo, got, report, store>>

LEMMA BriefKeptKeeps == BriefInv /\ BriefKept => BriefInv'
<1> SUFFICES ASSUME BriefInv, BriefKept PROVE BriefInv'
  OBVIOUS
<1>1. /\ at' = at /\ filled' = filled /\ todo' = todo /\ got' = got /\ report' = report /\ store' = store
  BY DEF BriefKept, brief
<1>2. Licensed(filled)' /\ ReportIsWhole'
  BY <1>1 DEF BriefInv, Licensed, ReportIsWhole
<1>3. CASE pc' = pc
  BY <1>1, <1>2, <1>3 DEF BriefInv
<1>4. CASE pc \notin Conducting \cup {"idle"} /\ pc' \notin Conducting \cup {"idle"}
  BY <1>1, <1>2, <1>4 DEF BriefInv, Conducting, Asking, Replied
<1>5. CASE pc \in Asking /\ pc' \in Asking /\ (pc = "putting" => at <= Len(todo))
  BY <1>1, <1>2, <1>5 DEF BriefInv, Conducting, Asking, Replied
<1>6. CASE pc = "nudging" /\ pc' = "counting"
  BY <1>1, <1>2, <1>6 DEF BriefInv, Conducting, Asking, Replied
<1> QED
  BY <1>3, <1>4, <1>5, <1>6 DEF BriefKept

LEMMA BriefClearedKeeps == BriefCleared => BriefInv'
<1> SUFFICES ASSUME BriefCleared PROVE BriefInv'
  OBVIOUS
<1>1. /\ Len(<<>>) = 0 /\ <<>> \in Seq(Answers) /\ <<>> \in Seq(Items) /\ 1 - 1 = 0
      /\ 1 \in 1 .. Len(Order) + 1
  BY EmptySeq, OrderOnce
<1>2. Licensed(filled)' /\ ReportIsWhole'
  BY <1>1 DEF BriefCleared, Licensed, ReportIsWhole
<1>3. Parts(filled', todo', at' - 1)
  BY <1>1, PartsOfNothing DEF BriefCleared
<1> QED
  BY <1>1, <1>2, <1>3 DEF BriefInv, BriefCleared, Conducting, Asking, Replied

LEMMA DecideKeeps ==
  ASSUME BriefInv, Decide
  PROVE  BriefInv'
<1>1. PICK word \in {Verdict(Order[at]), Unaided} : Partition(word)
  BY DEF Decide
<1>2. /\ pc = "deciding" /\ pc' = "deciding" /\ at <= Len(Order) /\ at' = at + 1
      /\ got' = got /\ report' = report /\ store' = store
  BY DEF Decide, wired
<1>3. /\ at \in 1 .. Len(Order) + 1 /\ got = <<>> /\ Parts(filled, todo, at - 1) /\ report = <<>>
      /\ filled \in Seq(Answers) /\ todo \in Seq(Items) /\ Licensed(filled)
  BY <1>2 DEF BriefInv
<1>4. /\ at - 1 \in Nat /\ (at - 1) + 1 = at /\ at \in 1 .. Len(Order) /\ at' \in 1 .. Len(Order) + 1
      /\ at' - 1 = at /\ Order[at] \in Items
  BY <1>2, <1>3, OrderOnce
<1> DEFINE a == [item |-> Order[at], how |-> "filled"]
<1>5. CASE word = "fill_silently"
  <2>1. store # Torn /\ ClassOf[Order[at]] \in Classes /\ store[ClassOf[Order[at]]]
    BY <1>1, <1>5 DEF Verdict, Lookup, Unaided
  <2>2. filled' = Append(filled, a) /\ todo' = todo
    BY <1>1, <1>5 DEF Partition
  <2>3. a \in Answers /\ a.item = Order[at] /\ a.how = "filled"
    BY <1>4 DEF Answers
  <2> HIDE DEF a
  <2>4. Parts(filled', todo', at' - 1) /\ filled' \in Seq(Answers)
    <3>1. Order[(at - 1) + 1] = a.item /\ (at - 1) + 1 \in 1 .. Len(Order)
      BY <1>4, <2>3
    <3>2. Parts(Append(filled, a), todo, (at - 1) + 1)
      BY <1>3, <1>4, <2>3, <3>1, PartsGrow
    <3> QED
      BY <1>3, <1>4, <2>2, <2>3, <3>2, AppendProperties
  <2>5. Licensed(filled)'
    <3>1. PICK last \in 1 .. Len(filled') :
            /\ filled'[last] = a
            /\ \A i \in 1 .. Len(filled) : filled'[i] = filled[i]
            /\ \A i \in 1 .. Len(filled') : i = last \/ i \in 1 .. Len(filled)
      BY <1>3, <2>2, <2>3, Appended
    <3>2. ASSUME NEW k \in 1 .. Len(filled')
          PROVE  /\ filled'[k].how = "filled" /\ store # Torn
                 /\ ClassOf[filled'[k].item] \in Classes /\ store[ClassOf[filled'[k].item]]
      <4>1. CASE k = last
        BY <2>1, <2>3, <3>1, <4>1
      <4>2. CASE k \in 1 .. Len(filled)
        BY <1>3, <3>1, <4>2 DEF Licensed
      <4> QED
        BY <3>1, <4>1, <4>2
    <3> QED
      BY <1>2, <3>2 DEF Licensed
  <2> QED
    BY <1>2, <1>3, <1>4, <2>2, <2>4, <2>5 DEF BriefInv, ReportIsWhole, Conducting, Asking, Replied
<1>6. CASE word = "asked"
  <2>1. filled' = filled /\ todo' = Append(todo, Order[at])
    BY <1>1, <1>6 DEF Partition
  <2>2. Parts(filled', todo', at' - 1) /\ todo' \in Seq(Items)
    BY <1>3, <1>4, <2>1, PartsGrow, AppendProperties
  <2>3. Licensed(filled)'
    BY <1>2, <1>3, <2>1 DEF Licensed
  <2> QED
    BY <1>2, <1>3, <1>4, <2>1, <2>2, <2>3 DEF BriefInv, ReportIsWhole, Conducting, Asking, Replied
<1>7. word = "fill_silently" \/ word = "asked"
  BY DEF Verdict, Unaided
<1> QED
  BY <1>5, <1>6, <1>7

LEMMA AskRestKeeps ==
  ASSUME BriefInv, AskRest
  PROVE  BriefInv'
<1>1. /\ pc = "deciding" /\ pc' = "putting" /\ at > Len(Order) /\ at' = 1
      /\ filled' = filled /\ todo' = todo /\ got' = got /\ report' = report /\ store' = store
  BY DEF AskRest, wired
<1>2. /\ at \in 1 .. Len(Order) + 1 /\ got = <<>> /\ Parts(filled, todo, at - 1) /\ report = <<>>
      /\ filled \in Seq(Answers) /\ todo \in Seq(Items) /\ Licensed(filled)
  BY <1>1 DEF BriefInv
<1>3. at - 1 = Len(Order) /\ Len(todo) \in Nat /\ Len(<<>>) = 0 /\ 1 - 1 = 0 /\ <<>> \in Seq(Answers)
  BY <1>1, <1>2, OrderOnce, LenProperties, EmptySeq
<1>4. Parts(filled, todo, Len(Order)) /\ Replies(<<>>, todo) /\ 1 \in 1 .. Len(todo) + 1
  BY <1>2, <1>3 DEF Replies
<1>5. Licensed(filled)'
  BY <1>1, <1>2 DEF Licensed
<1> QED
  BY <1>1, <1>2, <1>3, <1>4, <1>5 DEF BriefInv, ReportIsWhole, Conducting, Asking, Replied

\* What makes a report whole.
LEMMA WholeReport ==
  ASSUME NEW s \in Seq(Answers), Len(s) = Cardinality(Items), report' = s,
         \A x \in Items : \E i \in 1 .. Len(s) : s[i].item = x,
         \A i \in 1 .. Len(s) : s[i].how = "filled" =>
            store' # Torn /\ ClassOf[s[i].item] \in Classes /\ store'[ClassOf[s[i].item]],
         \/ \A i \in 1 .. Len(s) : s[i].how = "filled"
         \/ \A i, j \in 1 .. Len(s) : i < j => s[i].item < s[j].item
  PROVE  ReportIsWhole'
<1>1. DOMAIN s = 1 .. Len(s) /\ \A i \in 1 .. Len(s) : s[i].item \in Items
  <2>1. DOMAIN s = 1 .. Len(s) /\ \A i \in 1 .. Len(s) : s[i] \in Answers
    BY LenProperties, ElementOfSeq
  <2> QED
    BY <2>1 DEF Answers
<1>2. { s[k].item : k \in DOMAIN s } = Items
  BY <1>1
<1> QED
  BY <1>1, <1>2 DEF ReportIsWhole

LEMMA AllFilledKeeps ==
  ASSUME BriefInv, AllFilled
  PROVE  BriefInv'
<1>1. /\ pc = "deciding" /\ pc' = "idle" /\ at > Len(Order) /\ todo = <<>> /\ report' = filled
      /\ at' = 1 /\ filled' = <<>> /\ todo' = <<>> /\ got' = <<>> /\ store' = store
  BY DEF AllFilled, Returns, wired
<1>2. /\ at \in 1 .. Len(Order) + 1 /\ Parts(filled, todo, at - 1)
      /\ filled \in Seq(Answers) /\ todo \in Seq(Items) /\ Licensed(filled)
  BY <1>1 DEF BriefInv
<1>3. at - 1 = Len(Order) /\ Len(<<>>) = 0 /\ <<>> \in Seq(Answers) /\ <<>> \in Seq(Items)
  BY <1>1, <1>2, OrderOnce, EmptySeq
<1>4. Replies(<<>>, todo) /\ filled \o <<>> = filled
  BY <1>1, <1>2, <1>3, PartsOfNothing, ConcatEmptySeq
<1>5. Parts(filled, todo, Len(Order)) /\ Len(<<>>) = Len(todo)
  BY <1>1, <1>2, <1>3
<1>6. /\ Len(filled) = Cardinality(Items)
      /\ \A x \in Items : \E i \in 1 .. Len(filled) : filled[i].item = x
  <2>1. /\ Len(filled \o <<>>) = Cardinality(Items)
        /\ \A x \in Items : \E i \in 1 .. Len(filled \o <<>>) : (filled \o <<>>)[i].item = x
    BY <1>2, <1>3, <1>4, <1>5, PartsWhole
  <2> QED
    BY <1>4, <2>1
<1>7. ReportIsWhole'
  BY <1>1, <1>2, <1>6, WholeReport DEF Licensed
<1>8. Licensed(filled)'
  BY <1>1, <1>3 DEF Licensed
<1> QED
  BY <1>1, <1>2, <1>3, <1>7, <1>8 DEF BriefInv, Conducting, Asking, Replied

LEMMA MergeKeeps ==
  ASSUME BriefInv, Merge
  PROVE  BriefInv'
<1> DEFINE s == filled \o got
<1>1. /\ pc = "putting" /\ pc' = "idle" /\ at > Len(todo) /\ report' = SortByItem(s)
      /\ at' = 1 /\ filled' = <<>> /\ todo' = <<>> /\ got' = <<>> /\ store' = store
  BY DEF Merge, Returns, wired
<1>2. /\ Parts(filled, todo, Len(Order)) /\ Replies(got, todo) /\ at \in 1 .. Len(todo) + 1
      /\ Len(got) = at - 1
      /\ filled \in Seq(Answers) /\ todo \in Seq(Items) /\ got \in Seq(Answers) /\ Licensed(filled)
  BY <1>1 DEF BriefInv, Asking, Replied
<1>3. Len(got) = Len(todo)
  BY <1>1, <1>2, LenProperties
<1>4. /\ s \in Seq(Answers) /\ Len(s) = Cardinality(Items) /\ Distinct(s)
      /\ \A x \in Items : \E i \in 1 .. Len(s) : s[i].item = x
      /\ \A i \in 1 .. Len(s) : (\E k \in 1 .. Len(filled) : s[i] = filled[k]) \/ s[i].how # "filled"
  BY <1>2, <1>3, PartsWhole
<1> HIDE DEF s
<1> DEFINE u == SortByItem(s)
<1>5. /\ u \in Seq(Answers) /\ Len(u) = Len(s) /\ report' = u
      /\ \A r \in 1 .. Len(s) : \E k \in 1 .. Len(s) : u[r] = s[k]
      /\ \A k \in 1 .. Len(s) : \E r \in 1 .. Len(s) : u[r] = s[k]
      /\ \A q, r \in 1 .. Len(s) : q < r => u[q].item < u[r].item
  BY <1>1, <1>4, Sorting
<1> HIDE DEF u
<1>6. ASSUME NEW x \in Items
      PROVE  \E r \in 1 .. Len(s) : u[r].item = x
  <2>1. PICK i \in 1 .. Len(s) : s[i].item = x
    BY <1>4
  <2>2. PICK r \in 1 .. Len(s) : u[r] = s[i]
    BY <1>5
  <2> QED
    BY <2>1, <2>2
<1>7. ASSUME NEW r \in 1 .. Len(s), u[r].how = "filled"
      PROVE  store' # Torn /\ ClassOf[u[r].item] \in Classes /\ store'[ClassOf[u[r].item]]
  <2>1. PICK i \in 1 .. Len(s) : u[r] = s[i]
    BY <1>5
  <2>2. PICK k \in 1 .. Len(filled) : s[i] = filled[k]
    BY <1>4, <1>7, <2>1
  <2> QED
    BY <1>1, <1>2, <2>1, <2>2 DEF Licensed
<1>8. ReportIsWhole'
  <2>1. /\ \A x \in Items : \E i \in 1 .. Len(u) : u[i].item = x
        /\ \A i \in 1 .. Len(u) : u[i].how = "filled" =>
              store' # Torn /\ ClassOf[u[i].item] \in Classes /\ store'[ClassOf[u[i].item]]
        /\ \A i, j \in 1 .. Len(u) : i < j => u[i].item < u[j].item
    BY <1>5, <1>6, <1>7
  <2>2. u \in Seq(Answers) /\ Len(u) = Cardinality(Items) /\ report' = u
    BY <1>4, <1>5
  <2> QED
    BY <2>1, <2>2, WholeReport
<1>9. Licensed(filled)' /\ <<>> \in Seq(Answers) /\ <<>> \in Seq(Items)
  BY <1>1, EmptySeq DEF Licensed
<1> QED
  BY <1>1, <1>5, <1>8, <1>9 DEF BriefInv, Conducting, Asking, Replied

LEMMA ReplyInKeeps ==
  ASSUME BriefInv, NEW how \in {"spoken", "typed"}, ReplyIn(how)
  PROVE  BriefInv'
<1> DEFINE a == [item |-> todo[at], how |-> how]
<1>1. /\ pc \in Asking \ {"putting"} /\ pc' = "nudging" /\ got' = Append(got, a)
      /\ at' = at /\ filled' = filled /\ todo' = todo /\ report' = report /\ store' = store
  BY DEF ReplyIn
<1>2. /\ Parts(filled, todo, Len(Order)) /\ Replies(got, todo) /\ at \in 1 .. Len(todo) + 1
      /\ at <= Len(todo) /\ Len(got) = at - 1 /\ report = <<>>
      /\ filled \in Seq(Answers) /\ todo \in Seq(Items) /\ got \in Seq(Answers) /\ Licensed(filled)
  BY <1>1 DEF BriefInv, Asking, Replied
<1>3. at \in 1 .. Len(todo) /\ Len(todo) \in Nat /\ todo[at] \in Items
  BY <1>2, LenProperties, ElementOfSeq
<1>4. a \in Answers /\ a.item = todo[at] /\ a.how # "filled"
  BY <1>3 DEF Answers
<1> HIDE DEF a
<1>5. /\ got' \in Seq(Answers) /\ Len(got') = at /\ got'[at] = a
      /\ \A k \in 1 .. Len(got) : got'[k] = got[k]
      /\ \A k \in 1 .. at : k = at \/ k \in 1 .. Len(got)
  BY <1>1, <1>2, <1>3, <1>4, AppendProperties
<1>6. Replies(got', todo)
  <2>1. ASSUME NEW k \in 1 .. at
        PROVE  got'[k].item = todo[k] /\ got'[k].how # "filled"
    BY <1>2, <1>4, <1>5 DEF Replies
  <2> QED
    BY <1>2, <1>5, <2>1 DEF Replies
<1>7. Licensed(filled)'
  BY <1>1, <1>2 DEF Licensed
<1> QED
  BY <1>1, <1>2, <1>5, <1>6, <1>7 DEF BriefInv, ReportIsWhole, Conducting, Asking, Replied

LEMMA NextItemKeeps ==
  ASSUME BriefInv, NextItem
  PROVE  BriefInv'
<1>1. /\ pc \in Replied /\ pc' = "putting" /\ at' = at + 1
      /\ filled' = filled /\ todo' = todo /\ got' = got /\ report' = report /\ store' = store
  BY DEF NextItem
<1>2. /\ Parts(filled, todo, Len(Order)) /\ Replies(got, todo) /\ at \in 1 .. Len(todo) + 1
      /\ at <= Len(todo) /\ Len(got) = at /\ report = <<>> /\ Len(todo) \in Nat
      /\ filled \in Seq(Answers) /\ todo \in Seq(Items) /\ got \in Seq(Answers) /\ Licensed(filled)
  BY <1>1, LenProperties DEF BriefInv, Replied
<1>3. at' \in 1 .. Len(todo) + 1 /\ Len(got) = at' - 1
  BY <1>1, <1>2
<1>4. Licensed(filled)'
  BY <1>1, <1>2 DEF Licensed
<1> QED
  BY <1>1, <1>2, <1>3, <1>4 DEF BriefInv, ReportIsWhole, Conducting, Asking, Replied

LEMMA ProcessBrief ==
  ASSUME BriefInv,
         \/ Discard \/ Start \/ StartResident \/ ModelMissing \/ Warmed \/ StartupWait \/ LoadRecord \/ RecordRefused
         \/ Exit \/ Stop \/ Crash \/ ChildBinds \/ ChildDies \/ OtherServer \/ TypeLine
         \/ \E c \in Classes : Allow(c) \/ Revoke(c)
  PROVE  BriefKept \/ BriefCleared
<1> USE DEF BriefKept, wired
<1>a. Down => BriefCleared
  BY DEF Down, BriefCleared, Conducting
<1>1. CASE Discard \/ (\E c \in Classes : Allow(c) \/ Revoke(c))
  BY <1>1 DEF Discard, Allow, Revoke, Verb
<1>2. CASE Start
  BY <1>2 DEF Start, Conducting
<1>3. CASE StartResident \/ ModelMissing
  BY <1>3, <1>a DEF StartResident, ModelMissing, NoResident, Conducting
<1>4. CASE Warmed
  BY <1>4 DEF Warmed, Conducting
<1>5. CASE StartupWait
  BY <1>5, <1>a DEF StartupWait, NoResident, Conducting
<1>6. CASE RecordRefused \/ Exit \/ Crash
  BY <1>6, <1>a DEF RecordRefused, Exit, Crash
<1>7. CASE Stop \/ ChildBinds \/ ChildDies \/ OtherServer \/ TypeLine
  BY <1>7 DEF Stop, ChildBinds, ChildDies, OtherServer, TypeLine
<1>8. CASE LoadRecord
  BY <1>8 DEF LoadRecord, BriefInv, BriefCleared, Conducting, brief
<1> QED
  BY <1>1, <1>2, <1>3, <1>4, <1>5, <1>6, <1>7, <1>8

LEMMA QuestionBrief ==
  ASSUME \/ Says \/ FallsBack \/ NewBrief \/ Trips
         \/ CaptureFrame \/ CaptureEnds \/ CaptureFails \/ NothingHeard \/ NotShown
  PROVE  BriefKept \/ BriefCleared
<1> USE DEF Asking
<1>1. ASSUME NEW next \in Asking, Goes(next), pc \in Asking, pc = "putting" => at <= Len(todo)
      PROVE  BriefKept
  BY <1>1 DEF Goes, BriefKept, wired
<1>2. Fails => BriefCleared
  BY DEF Fails, Returns, BriefCleared, Conducting
<1>3. ASSUME ConsoleAsk, pc \in Asking, pc = "putting" => at <= Len(todo)
      PROVE  BriefKept \/ BriefCleared
  <2>1. Fails \/ Goes("typing")
    BY <1>3 DEF ConsoleAsk
  <2> QED
    BY <1>1, <1>2, <1>3, <2>1
<1>4. CASE Says
  <2>1. /\ pc \in Asking /\ (pc = "putting" => at <= Len(todo))
        /\ \E next \in {"rendering", "held", "playing", "offering", "typing", "listening"} : Goes(next)
    BY <1>4 DEF Says, Render, Rendered, PipesHeld, Play, OfferedFloor, Spoken, Putting
  <2> QED
    BY <1>1, <2>1
<1>5. CASE FallsBack
  <2>1. pc \in Asking /\ (pc = "putting" => at <= Len(todo)) /\ (ConsoleAsk \/ Fails)
    BY <1>5 DEF FallsBack, FallbackAsk, Voiceless, Putting
  <2> QED
    BY <1>2, <1>3, <2>1
<1>6. CASE CaptureFrame \/ CaptureEnds
  <2>1. pc = "listening" /\ (Goes("hearing") \/ Goes("listening"))
    BY <1>6 DEF CaptureFrame, CaptureEnds
  <2> QED
    BY <1>1, <2>1
<1>7. CASE CaptureFails \/ NothingHeard \/ NotShown
  <2>1. pc \in {"listening", "hearing"} /\ (ConsoleAsk \/ Fails)
    BY <1>7 DEF CaptureFails, NothingHeard, NotShown, RepromptTyped
  <2> QED
    BY <1>2, <1>3, <2>1
<1>8. CASE NewBrief
  BY <1>8 DEF NewBrief, BriefCleared
<1>9. CASE Trips
  BY <1>9 DEF Trips, BriefKept, wired
<1> QED
  BY <1>4, <1>5, <1>6, <1>7, <1>8, <1>9

LEMMA BriefStays == BriefInv /\ [Next]_vars => BriefInv'
<1> SUFFICES ASSUME BriefInv, [Next]_vars PROVE BriefInv'
  OBVIOUS
<1>1. CASE UNCHANGED vars
  BY <1>1, BriefKeptKeeps DEF vars, BriefKept, brief
<1>2. CASE Decide \/ AskRest \/ AllFilled \/ Merge
  BY <1>2, DecideKeeps, AskRestKeeps, AllFilledKeeps, MergeKeeps
<1>3. CASE ReadReply
  <2>1. CASE Fails
    BY <2>1, BriefClearedKeeps DEF Fails, Returns, BriefCleared, Conducting
  <2>2. CASE ~ Fails
    BY <1>3, <2>2, ReplyInKeeps DEF ReadReply, ReplyIn, Asking, wired
  <2> QED
    BY <2>1, <2>2
<1>4. CASE Transcribe
  BY <1>4, ReplyInKeeps DEF Transcribe, ReplyIn, Asking, wired
<1>5. CASE NotTripped \/ Utterance
  BY <1>5, NextItemKeeps DEF NotTripped, Utterance, NextItem, Replied, wired
<1>6. CASE BriefKept \/ BriefCleared
  BY <1>6, BriefKeptKeeps, BriefClearedKeeps
<1> QED
  BY <1>1, <1>2, <1>3, <1>4, <1>5, <1>6, ProcessBrief, QuestionBrief, SaysOrFallsBack DEF Next, Proceeds, Ears

LEMMA FirstBrief == Init => BriefInv
<1>1. Len(<<>>) = 0 /\ <<>> \in Seq(Answers) /\ <<>> \in Seq(Items)
  BY EmptySeq
<1> QED
  BY <1>1 DEF Init, BriefInv, Licensed, ReportIsWhole, Conducting, Asking, Replied

-----------------------------------------------------------------------------
(* The theorems.                                                             *)

IInv == CountInv /\ WindowInv /\ FrameInv /\ ServerInv /\ ProcessInv /\ BriefInv

\* The inductive invariant: the guard's count against the trips, the detector against the frames,
\* the port against the child, and the parts of the brief against what was decided and asked.
THEOREM Invariance == Spec => []IInv
<1>1. Init => IInv
  BY FirstCounts, FirstWindow, FirstFrames, FirstProcess, FirstBrief DEF IInv
<1>2. IInv /\ [Next]_vars => IInv'
  BY CountStays, WindowStays, FramesStay, ServerStays, ProcessStays, BriefStays DEF IInv
<1> QED
  BY <1>1, <1>2, PTL DEF Spec

\* The type invariant.  The bounds of a turn come from the window, the item at hand from the parts.
THEOREM TypeCorrectness == Spec => []TypeOK
<1>1. IInv => TypeOK
  <2> SUFFICES ASSUME IInv PROVE TypeOK
    OBVIOUS
  <2>1. at \in 1 .. Len(Order) + 1
    <3>1. CASE pc \notin Conducting
      BY <3>1, OrderOnce DEF IInv, BriefInv
    <3>2. CASE pc = "deciding"
      BY <3>2 DEF IInv, BriefInv
    <3>3. CASE pc \in Asking \cup Replied
      <4>1. at \in 1 .. Len(todo) + 1 /\ Len(filled) + Len(todo) = Len(Order)
        BY <3>3 DEF IInv, BriefInv, Parts
      <4>2. Len(filled) \in Nat /\ Len(todo) \in Nat /\ Len(Order) \in Nat
        BY LenProperties, OrderOnce DEF IInv, BriefInv
      <4> QED
        BY <4>1, <4>2
    <3> QED
      BY <3>1, <3>2, <3>3 DEF Conducting, Asking, Replied
  <2>2. /\ levels \in Seq(BOOLEAN) /\ Len(levels) <= MaxFrames
        /\ detector.loud \in 0 .. MaxFrames /\ detector.quiet \in 0 .. MaxFrames
    <3>1. /\ levels \in Seq(BOOLEAN) /\ Len(levels) \in Nat /\ MaxFrames \in Nat
          /\ detector.loud \in Nat /\ detector.quiet \in Nat
      BY LenProperties, SittingAssumption DEF IInv, WindowInv, Detectors
    <3> QED
      BY <3>1 DEF IInv, FrameInv
  <2>3. detector.speaking \in BOOLEAN /\ detector.spoke \in BOOLEAN
    BY DEF IInv, WindowInv, Detectors
  <2>4. ended \in BOOLEAN
    BY DEF IInv, FrameInv
  <2>5. /\ filled \in Seq(Answers) /\ todo \in Seq(Items) /\ got \in Seq(Answers) /\ report \in Seq(Answers)
    BY DEF IInv, BriefInv
  <2>6. tally \in Nat \cup {Torn} /\ count \in Nat /\ trips \in Nat
    BY DEF IInv, CountInv, TypeCount
  <2> QED
    BY <2>1, <2>2, <2>3, <2>4, <2>5, <2>6 DEF IInv, ServerInv, ProcessInv, TypeOK
<1> QED
  BY <1>1, Invariance, PTL

\* fill.Conduct: a report holds every item of the brief once, each answer nobody gave has its licence
\* in the rules as they were read, and what was asked for leaves in the order of the items: for every
\* brief, every set of rules and any number of stops, crashes and failures on the way.
THEOREM ReportsAreWhole == Spec => []ReportIsWhole
<1>1. IInv => ReportIsWhole
  BY DEF IInv, BriefInv
<1> QED
  BY <1>1, Invariance, PTL

\* guard.Utterance and Record.Save: the file never counts a trip that was not and is behind by no
\* more than the faults, over any number of lives.
THEOREM TheRecordIsStillTheRecord == Spec => []TallyKeepsUp
<1>1. IInv => TallyKeepsUp
  BY DEF IInv, CountInv
<1> QED
  BY <1>1, Invariance, PTL

\* capture and observeLevel: the window is open through every pause shorter than the end of a turn
\* and closes on the first that is not, for every onset, end and safety stop.
THEOREM TheWindowIsTheTurn == Spec => []WindowIsTheTurn
<1>1. IInv => WindowIsTheTurn
  <2> SUFFICES ASSUME WindowInv PROVE WindowIsTheTurn
    BY DEF IInv
  <2>1. DOMAIN levels = 1 .. Len(levels)
    BY LenProperties DEF WindowInv
  <2>2. pc = "listening" => \A k \in DOMAIN levels : ~ TurnBy(k)
    BY <2>1, TurnByIsTurnIn DEF WindowInv, Follows
  <2>3. pc = "hearing" =>
          /\ TurnBy(Len(levels)) \/ Len(levels) = MaxFrames \/ ended
          /\ \A k \in 1 .. Len(levels) - 1 : ~ TurnBy(k)
    BY TurnByIsTurnIn DEF WindowInv
  <2> QED
    BY <2>2, <2>3 DEF WindowIsTheTurn
<1> QED
  BY <1>1, Invariance, PTL

-----------------------------------------------------------------------------
(* A brief ends.  That a step is taken at all is fairness, and stays with the   *)
(* runs; that the steps of one brief run out is a fact of the program.          *)

OrderLength == Len(Order)
ToAsk == Len(todo)
Frames == Len(levels)

\* The items still to be decided on, each of which may have to be asked, or still to be asked.
ItemsAhead == IF pc = "deciding" THEN (2 * OrderLength + 2) - at ELSE (ToAsk + 1) - at

\* The way of one question: said, the floor offered, frame after frame captured, heard or typed.
PhaseRank ==
  CASE pc = "putting"   -> MaxFrames + 9
    [] pc = "rendering" -> MaxFrames + 8
    [] pc = "held"      -> MaxFrames + 7
    [] pc = "playing"   -> MaxFrames + 6
    [] pc = "offering"  -> MaxFrames + 5
    [] pc = "listening" -> (MaxFrames + 4) - Frames
    [] pc = "hearing"   -> 3
    [] pc = "typing"    -> 2
    [] pc = "nudging"   -> 1
    [] OTHER            -> 0

\* The process is told to stop once.
GoesOn == IF stopping THEN 0 ELSE 1

Weight(i, r, g) == (i * (MaxFrames + 10) + r) * 2 + g

Effort == Weight(ItemsAhead, PhaseRank, GoesOn)

\* What is not a step of the brief: the owner's verbs, the server's comings and goings, a line typed.
Beside == UNCHANGED <<pc, brief, turn, stopping>>

UnderWay == pc \in Conducting

StepCounts ==
  UnderWay /\ UnderWay' => (Effort \in Nat /\ Effort' \in Nat /\ Effort' < Effort) \/ Beside

\* Every step of a brief that does not end it takes from what is left to do.
EveryStepCounts == [][StepCounts]_vars

\* An item outweighs the whole way of a question.
LEMMA ItemsOutweigh ==
  ASSUME NEW a \in Nat, NEW b \in Nat, b < a, NEW n \in Nat
  PROVE  /\ a * (n + 10) \in Nat /\ b * (n + 10) \in Nat
         /\ b * (n + 10) + n + 10 <= a * (n + 10)
<1>1. PICK d \in Nat : a = b + 1 + d
  <2>1. a - b - 1 \in Nat /\ a = b + 1 + (a - b - 1)
    OBVIOUS
  <2> QED
    BY <2>1
<1>2. d * (n + 10) \in Nat /\ b * (n + 10) \in Nat /\ a * (n + 10) \in Nat
  OBVIOUS
<1>3. a * (n + 10) = b * (n + 10) + (n + 10) + d * (n + 10)
  BY <1>1
<1> QED
  BY <1>2, <1>3

\* Fewer items, or as many and less of the question, or the stop.
Falls(i, r, g, j, s, h) ==
  \/ j < i
  \/ j = i /\ s < r
  \/ j = i /\ s = r /\ h < g

LEMMA WeightFalls ==
  ASSUME NEW i \in Nat, NEW r \in Nat, NEW g \in 0 .. 1,
         NEW j \in Nat, NEW s \in Nat, NEW h \in 0 .. 1, s <= MaxFrames + 9,
         Falls(i, r, g, j, s, h)
  PROVE  /\ Weight(i, r, g) \in Nat /\ Weight(j, s, h) \in Nat
         /\ Weight(j, s, h) < Weight(i, r, g)
<1> DEFINE n == MaxFrames
<1>0. n \in Nat
  BY SittingAssumption
<1> HIDE DEF n
<1>1. i * (n + 10) \in Nat /\ j * (n + 10) \in Nat
  BY <1>0
<1>2. j < i => j * (n + 10) + n + 10 <= i * (n + 10)
  BY <1>0, ItemsOutweigh
<1> DEFINE x == i * (n + 10)
           y == j * (n + 10)
<1>3. x \in Nat /\ y \in Nat /\ (j < i => y + n + 10 <= x) /\ (j = i => y = x)
  BY <1>1, <1>2
<1>4. Weight(i, r, g) = (x + r) * 2 + g /\ Weight(j, s, h) = (y + s) * 2 + h
  BY DEF Weight, n
<1> HIDE DEF x, y
<1>5. s <= n + 9
  BY DEF n
<1>6. y + s < x + r \/ (y + s = x + r /\ h < g)
  BY <1>0, <1>3, <1>5 DEF Falls
<1> QED
  BY <1>3, <1>4, <1>6

\* What is weighed, of a brief under way.
Weighed ==
  /\ ItemsAhead \in Nat /\ PhaseRank \in Nat /\ PhaseRank <= MaxFrames + 9
  /\ OrderLength \in Nat /\ ToAsk \in Nat /\ Frames \in Nat /\ MaxFrames \in Nat /\ at \in Nat /\ Frames <= MaxFrames
  /\ pc = "deciding" => at <= OrderLength + 1 /\ ToAsk <= at - 1
  /\ pc # "deciding" => at <= ToAsk + 1 /\ (pc # "putting" => at <= ToAsk)

LEMMA Weights == IInv /\ UnderWay => Weighed
<1> SUFFICES ASSUME IInv, pc \in Conducting PROVE Weighed
  BY DEF UnderWay
<1>1. OrderLength \in Nat /\ ToAsk \in Nat /\ Frames \in Nat /\ MaxFrames \in Nat /\ Frames <= MaxFrames
  BY LenProperties, OrderOnce, SittingAssumption DEF IInv, BriefInv, WindowInv, FrameInv, OrderLength, ToAsk, Frames
<1>2. CASE pc = "deciding"
  <2>1. at \in 1 .. OrderLength + 1 /\ Len(filled) + ToAsk = at - 1 /\ Len(filled) \in Nat
    BY <1>2, LenProperties DEF IInv, BriefInv, Parts, OrderLength, ToAsk
  <2>2. at \in Nat /\ at <= OrderLength + 1 /\ ToAsk <= at - 1
    BY <1>1, <2>1
  <2>3. ItemsAhead \in Nat /\ PhaseRank = 0
    BY <1>1, <1>2, <2>2 DEF ItemsAhead, PhaseRank
  <2> QED
    BY <1>1, <1>2, <2>2, <2>3 DEF Weighed
<1>3. CASE pc # "deciding"
  <2>1. at \in 1 .. ToAsk + 1 /\ (pc # "putting" => at <= ToAsk)
    BY <1>3 DEF IInv, BriefInv, Conducting, Asking, Replied, ToAsk
  <2>2. ItemsAhead \in Nat
    BY <1>1, <1>3, <2>1 DEF ItemsAhead
  <2>3. PhaseRank \in Nat /\ PhaseRank <= MaxFrames + 9
    BY <1>1 DEF PhaseRank
  <2> QED
    BY <1>1, <1>3, <2>1, <2>2, <2>3 DEF Weighed
<1> QED
  BY <1>2, <1>3

StepFalls == Falls(ItemsAhead, PhaseRank, GoesOn, ItemsAhead', PhaseRank', GoesOn')

LEMMA FallsCounts ==
  ASSUME Weighed, Weighed', StepFalls
  PROVE  Effort \in Nat /\ Effort' \in Nat /\ Effort' < Effort
<1>1. GoesOn \in 0 .. 1 /\ GoesOn' \in 0 .. 1
  BY DEF GoesOn
<1> DEFINE w == Weight(ItemsAhead', PhaseRank', GoesOn')
<1>2. Effort' = w
  BY DEF Effort, Weight
<1> HIDE DEF w
<1>3. /\ ItemsAhead \in Nat /\ PhaseRank \in Nat /\ GoesOn \in 0 .. 1
      /\ ItemsAhead' \in Nat /\ PhaseRank' \in Nat /\ GoesOn' \in 0 .. 1 /\ PhaseRank' <= MaxFrames + 9
  BY <1>1 DEF Weighed
<1>4. /\ Weight(ItemsAhead, PhaseRank, GoesOn) \in Nat /\ w \in Nat
      /\ w < Weight(ItemsAhead, PhaseRank, GoesOn)
  BY <1>3, WeightFalls, Zenon DEF StepFalls, w
<1> QED
  BY <1>2, <1>4 DEF Effort

\* A question goes on its way.
LEMMA QuestionFalls ==
  ASSUME Weighed, Weighed', levels \in Seq(BOOLEAN),
         \/ Says \/ FallsBack \/ Trips \/ ReadReply \/ Transcribe
         \/ CaptureFrame \/ CaptureEnds \/ CaptureFails \/ NothingHeard \/ NotShown,
         pc' \in Conducting
  PROVE  StepFalls
<1>1. ASSUME UNCHANGED <<at, todo>>, pc # "deciding", pc' # "deciding", PhaseRank' < PhaseRank PROVE StepFalls
  <2>1. ItemsAhead' = ItemsAhead
    BY <1>1 DEF ItemsAhead, ToAsk
  <2> QED
    BY <1>1, <2>1 DEF StepFalls, Falls
<1>2. ASSUME NEW next \in Conducting, Goes(next) PROVE UNCHANGED <<at, todo>> /\ pc' = next
  BY <1>2 DEF Goes, brief
<1>3. ~ Fails
  BY DEF Fails, Returns, Conducting
<1>4. ASSUME ConsoleAsk PROVE UNCHANGED <<at, todo>> /\ pc' = "typing"
  BY <1>2, <1>3, <1>4 DEF ConsoleAsk, Conducting
<1>5. /\ MaxFrames \in Nat /\ Frames \in Nat /\ Frames <= MaxFrames
      /\ Frames' \in Nat /\ Frames' <= MaxFrames
  BY DEF Weighed
<1>6. CASE Says
  <2>1. /\ UNCHANGED <<at, todo>>
        /\ \/ pc = "putting" /\ pc' = "rendering"
           \/ pc = "rendering" /\ pc' \in {"held", "playing"}
           \/ pc = "held" /\ pc' = "playing"
           \/ pc = "playing" /\ pc' = "offering"
           \/ pc = "offering" /\ pc' \in {"listening", "typing"}
    BY <1>2, <1>6 DEF Says, Render, Rendered, PipesHeld, Play, OfferedFloor, Spoken, Putting, Conducting
  <2>2. PhaseRank' < PhaseRank
    BY <1>5, <2>1 DEF PhaseRank
  <2> QED
    BY <1>1, <2>1, <2>2
<1>7. CASE FallsBack \/ CaptureFails \/ NothingHeard \/ NotShown
  <2>1. pc \in {"putting", "rendering", "held", "playing", "offering", "listening", "hearing"} /\ ConsoleAsk
    BY <1>3, <1>7 DEF FallsBack, FallbackAsk, Voiceless, CaptureFails, NothingHeard, NotShown, RepromptTyped, Putting
  <2>2. PhaseRank' < PhaseRank
    BY <1>4, <1>5, <2>1 DEF PhaseRank
  <2> QED
    BY <1>1, <1>4, <2>1, <2>2
<1>8. CASE CaptureFrame
  <2>1. /\ UNCHANGED <<at, todo>> /\ pc = "listening" /\ pc' \in {"listening", "hearing"}
        /\ \E loud \in BOOLEAN : levels' = Append(levels, loud)
    BY <1>2, <1>8 DEF CaptureFrame, Conducting
  <2>2. Frames' = Frames + 1
    BY <2>1 DEF Frames
  <2>3. PhaseRank' < PhaseRank
    BY <1>5, <2>1, <2>2 DEF PhaseRank
  <2> QED
    BY <1>1, <2>1, <2>3
<1>9. CASE CaptureEnds
  <2>1. UNCHANGED <<at, todo>> /\ pc = "listening" /\ pc' = "hearing"
    BY <1>2, <1>9 DEF CaptureEnds, Conducting
  <2>2. PhaseRank' < PhaseRank
    BY <1>5, <2>1 DEF PhaseRank
  <2> QED
    BY <1>1, <2>1, <2>2
<1>10. CASE Trips \/ ReadReply \/ Transcribe
  <2>1. /\ UNCHANGED <<at, todo>>
        /\ \/ pc = "nudging" /\ pc' = "counting"
           \/ pc \in {"typing", "hearing"} /\ pc' = "nudging"
    BY <1>3, <1>10 DEF Trips, ReadReply, Transcribe, brief
  <2>2. PhaseRank' < PhaseRank
    BY <2>1 DEF PhaseRank
  <2> QED
    BY <1>1, <2>1, <2>2
<1> QED
  BY <1>6, <1>7, <1>8, <1>9, <1>10

\* The rules are asked of the next item, the next item is asked of the person, or the process is
\* told to stop.
LEMMA ItemFalls ==
  ASSUME Weighed, Weighed', Decide \/ AskRest \/ NotTripped \/ Utterance \/ Stop, pc \in Conducting
  PROVE  StepFalls
<1>1. ItemsAhead' < ItemsAhead => StepFalls
  BY DEF StepFalls, Falls
<1>2. CASE Decide
  <2>1. pc = "deciding" /\ pc' = "deciding" /\ at' = at + 1
    BY <1>2 DEF Decide
  <2>2. ItemsAhead = (2 * OrderLength + 2) - at /\ ItemsAhead' = (2 * OrderLength + 2) - (at + 1)
    BY <2>1 DEF ItemsAhead, OrderLength
  <2> QED
    BY <1>1, <2>2 DEF Weighed
<1>3. CASE AskRest
  <2>1. pc = "deciding" /\ pc' = "putting" /\ at > OrderLength /\ at' = 1 /\ todo' = todo
    BY <1>3 DEF AskRest, OrderLength
  <2>2. ItemsAhead = (2 * OrderLength + 2) - at /\ ItemsAhead' = (ToAsk + 1) - 1
    BY <2>1 DEF ItemsAhead, ToAsk
  <2> QED
    BY <1>1, <2>1, <2>2 DEF Weighed
<1>4. CASE NotTripped \/ Utterance
  <2>1. pc \in {"nudging", "counting"} /\ pc' = "putting" /\ at' = at + 1 /\ todo' = todo
    BY <1>4 DEF NotTripped, Utterance
  <2>2. ItemsAhead = (ToAsk + 1) - at /\ ItemsAhead' = (ToAsk + 1) - (at + 1)
    BY <2>1 DEF ItemsAhead, ToAsk
  <2> QED
    BY <1>1, <2>1, <2>2 DEF Weighed
<1>5. CASE Stop
  <2>1. UNCHANGED <<pc, at, todo, levels>> /\ GoesOn = 1 /\ GoesOn' = 0
    BY <1>5 DEF Stop, brief, turn, GoesOn
  <2>2. ItemsAhead' = ItemsAhead /\ PhaseRank' = PhaseRank
    BY <2>1 DEF ItemsAhead, ToAsk, PhaseRank, Frames
  <2> QED
    BY <2>1, <2>2 DEF StepFalls, Falls
<1> QED
  BY <1>2, <1>3, <1>4, <1>5

\* What begins or ends a brief is not between two of its steps, and the rest is beside it.
LEMMA OtherSteps ==
  ASSUME pc \in Conducting, pc' \in Conducting,
         \/ Discard \/ Start \/ StartResident \/ ModelMissing \/ Warmed \/ StartupWait \/ LoadRecord \/ RecordRefused
         \/ Exit \/ Crash \/ ChildBinds \/ ChildDies \/ OtherServer \/ TypeLine \/ NewBrief
         \/ AllFilled \/ Merge \/ \E c \in Classes : Allow(c) \/ Revoke(c)
  PROVE  Beside
<1>1. ~ (Discard \/ Start \/ StartResident \/ ModelMissing \/ Warmed \/ StartupWait \/ LoadRecord \/ RecordRefused
         \/ Exit \/ Crash \/ NewBrief \/ AllFilled \/ Merge)
  BY DEF Discard, Start, StartResident, Warmed, StartupWait, LoadRecord, RecordRefused, Exit, Crash,
         ModelMissing, Down, NewBrief, AllFilled, Merge, Returns, Conducting
<1>2. CASE ChildBinds \/ ChildDies \/ OtherServer \/ TypeLine
  BY <1>2 DEF ChildBinds, ChildDies, OtherServer, TypeLine, Beside
<1>3. CASE \E c \in Classes : Allow(c) \/ Revoke(c)
  BY <1>3 DEF Allow, Revoke, Verb, Beside
<1> QED
  BY <1>1, <1>2, <1>3

\* fill.go, voice.go, capture.go and guard.go: an item is decided on once and asked once, the window
\* has its safety stop, a failed ear asks in text and text fails for good: whatever is said, typed,
\* heard or broken, the steps of a brief run out.
THEOREM BriefsRunOut == Spec => EveryStepCounts
<1>1. IInv /\ IInv' /\ [Next]_vars => [StepCounts]_vars
  <2> SUFFICES ASSUME IInv, IInv', Next, UnderWay, UnderWay', ~ Beside
               PROVE  Effort \in Nat /\ Effort' \in Nat /\ Effort' < Effort
    BY DEF StepCounts
  <2>0. pc \in Conducting /\ pc' \in Conducting
    BY DEF UnderWay
  <2>1. Weighed
    BY Weights
  <2>2. Weighed'
    BY Weights, PTL
  <2>3. StepFalls
    BY <2>0, <2>1, <2>2, QuestionFalls, ItemFalls, OtherSteps, SaysOrFallsBack
       DEF IInv, WindowInv, Next, Proceeds, Ears
  <2> QED
    BY <2>1, <2>2, <2>3, FallsCounts
<1> QED
  BY <1>1, Invariance, PTL DEF Spec, EveryStepCounts
=============================================================================
