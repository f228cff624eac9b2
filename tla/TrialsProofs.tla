---------------------------- MODULE TrialsProofs ----------------------------
(***************************************************************************)
(* The invariants of Trials, for any statements, any outputs of a surface,   *)
(* any length of a model's reply and any number of faults.                  *)
(***************************************************************************)
EXTENDS Trials, SequenceTheorems, TLAPS

-----------------------------------------------------------------------------
(* The inductive invariant: where a harness is says what it holds.          *)

Most == IF harness = "trial" THEN 3 ELSE 4

\* Nothing is decided while a job runs, and a run the caller cut short leaves it cancelled.
JobIsOpen ==
  pc # "idle" => result = "none" /\ (cut => cancelled)

\* There is a child only for a run that is still to be observed.
ChildIsWanted == child # "none" => ToRun

\* What is put to the core was observed of a statement that was loaded.
DecisionIsFed ==
  /\ pc = "deciding" => harness = "decide" /\ Len(runs) = cases
  /\ pc # "idle" /\ harness = "decide" =>
       /\ spec \in Statements /\ WellFormed(spec) /\ cases = Len(spec)
       /\ pc \in {"running", "deciding"}

\* A pass runs what was proposed, and no more than it allows.
PassIsBounded ==
  /\ pc \in {"proposing", "writing"} => harness \in Passes
  /\ pc = "proposing" => Len(runs) = 0
  /\ pc = "running" /\ harness # "decide" => cases \in 1 .. Most

\* The record in the making is one of the two kinds a finished pass leaves.
DraftIsEarned ==
  /\ draft.status \in {"complete", "incomplete"}
  /\ draft.status = "complete" =>
       draft.turns = 2 /\ draft.hashed /\ draft.exercises \in 1 .. Most

IInv ==
  /\ TypeOK /\ JobIsOpen /\ ChildIsWanted /\ DecisionIsFed /\ PassIsBounded /\ DraftIsEarned
  /\ AnswerIsObserved /\ RecordTellsThePass

-----------------------------------------------------------------------------
(* Lemmas about the data.                                                   *)

\* The records that are written down, and the ends and observations of a run.
LEMMA Constants ==
  /\ NoDraft \in Files /\ Absent \in Files /\ Torn \in Files
  /\ NoDraft.status = "incomplete" /\ Absent.status = "absent" /\ Torn.status = "torn"
  /\ NoEnd \in Ends /\ NotRun \in Runs
<1>1. NoDraft \in Files /\ NoDraft.status = "incomplete"
  BY DEF NoDraft, Files
<1>2. /\ Absent \in Files /\ Absent.status = "absent"
      /\ Torn \in Files /\ Torn.status = "torn"
  BY <1>1 DEF Absent, Torn, Files
<1>3. NoEnd \in Ends /\ NotRun \in Runs
  BY DEF NoEnd, Ends, NotRun, Runs
<1> QED
  BY <1>1, <1>2, <1>3

\* A pass makes no more runs than it may.
LEMMA RunsAreFew ==
  ASSUME TypeOfJob, harness \in Passes
  PROVE  Len(runs) \in 0 .. 4
<1>1. Len(runs) <= cases /\ cases \in Nat /\ cases <= 4
  BY DEF TypeOfJob
<1>2. Len(runs) \in Nat
  BY LenProperties DEF TypeOfJob
<1>3. \A m, n \in Nat : m <= n /\ n <= 4 => m \in 0 .. 4
  OBVIOUS
<1> QED
  BY <1>1, <1>2, <1>3

\* A run that was observed is appended to the runs.
LEMMA Observing ==
  ASSUME runs \in Seq(Runs), NEW o \in Runs
  PROVE  /\ Append(runs, o) \in Seq(Runs) /\ Len(runs) \in Nat
         /\ Len(Append(runs, o)) = Len(runs) + 1
BY AppendProperties, LenProperties

\* What is observed of a run.
LEMMA SurfaceRunType ==
  ASSUME end \in Ends, overdue \in BOOLEAN, cancelled \in BOOLEAN
  PROVE  SurfaceRun \in Runs
BY DEF SurfaceRun, Ends, Runs

\* A pass takes at least one case and at most what it allows.
LEMMA TakeBounds ==
  ASSUME NEW k \in Nat, NEW most \in Nat, most >= 1
  PROVE  Take(k, most) \in 1 .. most
BY DEF Take

\* A core that accepts was shown every required arm met, and what is met was observed.
LEMMA AcceptedWasMet ==
  ASSUME NEW i \in DOMAIN runs, Core(Facts) = "accepted"
  PROVE  /\ spec[i] \subseteq Met(spec[i], runs[i])
         /\ spec[i] # {} => runs[i].ran
         /\ spec[i] \subseteq runs[i].fits
         /\ runs[i].flood => "exact" \notin spec[i]
<1>1. \A j \in DOMAIN Facts : Facts[j].required \subseteq Facts[j].met
  BY DEF Core
<1>2. i \in DOMAIN Facts /\ Facts[i].required = spec[i] /\ Facts[i].met = Met(spec[i], runs[i])
  BY DEF Facts, EstablishOne
<1>3. spec[i] \subseteq Met(spec[i], runs[i])
  BY <1>1, <1>2
<1> QED
  BY <1>3 DEF Met

-----------------------------------------------------------------------------
(* Every step keeps the invariant.                                         *)

\* The first state.
LEMMA Initially == Init => IInv
<1> SUFFICES ASSUME Init PROVE IInv
  OBVIOUS
<1>1. TypeOK
  <2>1. TypeOfFlags
    BY DEF Init, TypeOfFlags
  <2>2. TypeOfJob
    BY Constants, TrialsAssumption, EmptySeq DEF Init, TypeOfJob
  <2>3. TypeOfOutcome
    BY Constants DEF Init, TypeOfOutcome
  <2> QED
    BY <2>1, <2>2, <2>3 DEF TypeOK
<1>2. JobIsOpen /\ ChildIsWanted /\ DecisionIsFed /\ PassIsBounded /\ DraftIsEarned
  BY Constants DEF Init, JobIsOpen, ChildIsWanted, DecisionIsFed, PassIsBounded, DraftIsEarned
<1>3. AnswerIsObserved /\ RecordTellsThePass
  BY Constants DEF Init, AnswerIsObserved, RecordTellsThePass
<1> QED
  BY <1>1, <1>2, <1>3 DEF IInv

\* A step of the job that is not its end keeps the record, the last answer and how the last
\* pass ended; what is left to show is the shape of what it holds.
LEMMA Underway ==
  ASSUME IInv, pc # "idle", pc' # "idle", UNCHANGED outcome
  PROVE  AnswerIsObserved' /\ (UNCHANGED harness => RecordTellsThePass')
BY DEF IInv, JobIsOpen, outcome, AnswerIsObserved, RecordTellsThePass

\* The end of a job: what it held is dropped.
LEMMA AtTheEnd ==
  ASSUME IInv, Ended, UNCHANGED harness
  PROVE  JobIsOpen' /\ ChildIsWanted' /\ DecisionIsFed' /\ PassIsBounded' /\ DraftIsEarned'
BY Constants DEF IInv, Ended, JobIsOpen, ChildIsWanted, DecisionIsFed, PassIsBounded, DraftIsEarned

\* A harness starts.
LEMMA StartKeeps == IInv /\ Start => IInv'
<1> SUFFICES ASSUME IInv, Start PROVE IInv'
  OBVIOUS
<1> USE DEF IInv
<1>1. Begin
  BY DEF Start, StartDecide, RunTrial, RunAdversarialPass, StartPass
<1>2. /\ pc' \in {"running", "proposing"} /\ spec' \in Statements \cup {<<>>} /\ cases' \in Nat
      /\ harness \in Passes => cases' <= 4
  <2>1. CASE StartDecide
    <3>1. \A s \in Statements : Len(s) \in Nat
      BY TrialsAssumption, LenProperties
    <3> QED
      BY <2>1, <3>1 DEF StartDecide, Passes
  <2>2. CASE RunTrial \/ RunAdversarialPass
    BY <2>2 DEF RunTrial, RunAdversarialPass, StartPass, TypeOK, TypeOfJob
  <2> QED
    BY <2>1, <2>2 DEF Start
<1>3. TypeOK'
  <2>1. TypeOfFlags'
    BY <1>1 DEF Begin, TypeOK, TypeOfFlags, surface
  <2>2. TypeOfJob'
    <3>1. runs' \in Seq(Runs) /\ Len(runs') <= cases'
      BY <1>1, <1>2, EmptySeq DEF Begin
    <3>2. UNCHANGED <<harness, child, end, faults>> /\ turns' \in 0 .. 2
      BY <1>1 DEF Begin, surface
    <3> QED
      BY <1>2, <3>1, <3>2 DEF TypeOK, TypeOfJob
  <2>3. TypeOfOutcome'
    BY <1>1 DEF Begin, TypeOK, TypeOfOutcome
  <2> QED
    BY <2>1, <2>2, <2>3 DEF TypeOK
<1>4. JobIsOpen' /\ ChildIsWanted' /\ DraftIsEarned' /\ AnswerIsObserved' /\ RecordTellsThePass'
  BY <1>1 DEF Begin, surface, ToRun, JobIsOpen, ChildIsWanted, DraftIsEarned, AnswerIsObserved, RecordTellsThePass, Most
<1>5. DecisionIsFed' /\ PassIsBounded'
  BY <1>1, EmptySeq DEF Start, StartDecide, RunTrial, RunAdversarialPass, StartPass, Begin, Load, Passes,
              DecisionIsFed, PassIsBounded
<1> QED
  BY <1>3, <1>4, <1>5

\* The steps of a child and of the caller leave the job where it is.
LEMMA OutsideKeeps ==
  IInv /\ (SurfaceStarts \/ SurfaceEnds \/ LingererEnds \/ SurfaceTimeout \/ Cancel) => IInv'
<1> SUFFICES ASSUME IInv, SurfaceStarts \/ SurfaceEnds \/ LingererEnds \/ SurfaceTimeout \/ Cancel
             PROVE  IInv'
  OBVIOUS
<1> USE DEF IInv
<1>1. /\ UNCHANGED <<harness, pc, spec, cases, runs, turns, draft, outcome, cut, faults>>
      /\ cancelled => cancelled'
  BY DEF SurfaceStarts, SurfaceEnds, LingererEnds, SurfaceTimeout, Cancel
<1>2. /\ child' \in {"none", "live", "lingers", "gone"}
      /\ end' \in Ends
  <2>1. \A b \in BOOLEAN : [NoEnd EXCEPT !.exited = b] \in Ends
    BY Constants DEF Ends
  <2> QED
    BY <2>1 DEF SurfaceStarts, SurfaceEnds, LingererEnds, SurfaceTimeout, Cancel, TypeOK, TypeOfJob
<1>3. TypeOK'
  <2>1. TypeOfFlags'
    BY <1>1 DEF SurfaceStarts, SurfaceEnds, LingererEnds, SurfaceTimeout, Cancel, TypeOK, TypeOfFlags
  <2>2. TypeOfJob' /\ TypeOfOutcome'
    BY <1>1, <1>2 DEF TypeOK, TypeOfJob, TypeOfOutcome, outcome
  <2> QED
    BY <2>1, <2>2 DEF TypeOK
<1>4. JobIsOpen' /\ DecisionIsFed' /\ PassIsBounded' /\ DraftIsEarned'
  BY <1>1 DEF outcome, JobIsOpen, DecisionIsFed, PassIsBounded, DraftIsEarned, WellFormed, Most
<1>5. AnswerIsObserved' /\ RecordTellsThePass'
  BY <1>1 DEF outcome, AnswerIsObserved, RecordTellsThePass
<1>6. ChildIsWanted'
  <2>1. child' # "none" => child # "none" \/ ToRun
    BY DEF SurfaceStarts, SurfaceEnds, LingererEnds, SurfaceTimeout, Cancel
  <2> QED
    BY <1>1, <2>1 DEF ChildIsWanted, ToRun
<1> QED
  BY <1>3, <1>4, <1>5, <1>6

\* A run is observed, whatever came of it.
LEMMA ObserveKeeps ==
  ASSUME IInv, NEW o \in Runs, ToRun, Observe(o),
         cut' \in {cut, cut \/ cancelled}, faults' \in 0 .. MaxFaults
  PROVE  IInv'
<1> USE DEF IInv
<1>1. TypeOK'
  <2>1. /\ Append(runs, o) \in Seq(Runs) /\ Len(runs) \in Nat
        /\ Len(Append(runs, o)) = Len(runs) + 1
    BY Observing DEF TypeOK, TypeOfJob
  <2>2. runs' \in Seq(Runs) /\ Len(runs') <= cases'
    BY <2>1 DEF Observe, ToRun, TypeOK, TypeOfJob
  <2>3. TypeOfFlags'
    BY DEF Observe, TypeOK, TypeOfFlags
  <2>4. TypeOfJob' /\ TypeOfOutcome'
    BY <2>2, Constants DEF Observe, TypeOK, TypeOfJob, TypeOfOutcome, outcome
  <2> QED
    BY <2>3, <2>4 DEF TypeOK
<1>2. pc = "running" /\ pc' = "running" /\ UNCHANGED <<harness, spec, cases, draft, cancelled, outcome>>
  BY DEF ToRun, Observe
<1>3. JobIsOpen' /\ ChildIsWanted'
  <2>1. cut' => cut \/ cancelled
    OBVIOUS
  <2>2. result' = "none" /\ (cut => cancelled)
    BY <1>2 DEF outcome, JobIsOpen
  <2>3. child' = "none"
    BY DEF Observe
  <2> QED
    BY <1>2, <2>1, <2>2, <2>3 DEF JobIsOpen, ChildIsWanted
<1>4. DecisionIsFed' /\ PassIsBounded' /\ DraftIsEarned'
  BY <1>2 DEF outcome, DecisionIsFed, PassIsBounded, DraftIsEarned, WellFormed, Most
<1> QED
  BY <1>1, <1>2, <1>3, <1>4, Underway

\* Each way a run comes to its observation.
LEMMA RunsKeep ==
  IInv /\ (NeverStarts \/ CheckObserved \/ TrialObserved \/ AttackObserved
           \/ TrialInputFails \/ AttackInputFails) => IInv'
<1>1. ASSUME IInv, NeverStarts PROVE IInv'
  <2>1. faults' \in 0 .. MaxFaults
    BY <1>1 DEF NeverStarts, IInv, TypeOK, TypeOfJob
  <2> QED
    BY <1>1, <2>1, ObserveKeeps, Constants DEF NeverStarts
<1>2. ASSUME IInv, NEW h \in Passes \cup {"decide"}, Observed(h) PROVE IInv'
  <2>1. SurfaceRun \in Runs
    BY <1>2, SurfaceRunType DEF IInv, TypeOK, TypeOfFlags, TypeOfJob
  <2>2. faults' \in 0 .. MaxFaults
    BY <1>2 DEF Observed, IInv, TypeOK, TypeOfJob
  <2> QED
    BY <1>2, <2>1, <2>2, ObserveKeeps DEF Observed, IInv, ChildIsWanted
<1>3. ASSUME IInv, NEW p \in Passes, ExecArgvFails(p) PROVE IInv'
  <2>1. faults' \in 0 .. MaxFaults
    BY <1>3, TrialsAssumption DEF ExecArgvFails, Fault, IInv, TypeOK, TypeOfJob
  <2> QED
    BY <1>3, <2>1, ObserveKeeps, Constants DEF ExecArgvFails
<1> QED
  BY <1>1, <1>2, <1>3 DEF CheckObserved, TrialObserved, AttackObserved, TrialInputFails,
                         AttackInputFails, Passes

\* A job that ends without an answer keeps what it observed or drops it, and the type of both.
LEMMA EndType ==
  ASSUME IInv, Ended, UNCHANGED <<harness, spec>>,
         \/ UNCHANGED <<cases, runs, turns>>
         \/ cases' = 0 /\ runs' = <<>> /\ turns' = 0,
         cut' = cut, faults' \in 0 .. MaxFaults
  PROVE  TypeOfFlags' /\ TypeOfJob' /\ draft' \in Files
<1> USE DEF IInv, TypeOK
<1>1. TypeOfFlags' /\ draft' \in Files
  BY Constants DEF Ended, TypeOfFlags
<1>2. runs' \in Seq(Runs) /\ Len(runs') <= cases' /\ cases' \in Nat /\ turns' \in 0 .. 2
      /\ (harness \in Passes => cases' <= 4)
  <2>1. CASE UNCHANGED <<cases, runs, turns>>
    BY <2>1 DEF TypeOfJob
  <2>2. CASE cases' = 0 /\ runs' = <<>> /\ turns' = 0
    BY <2>2, EmptySeq
  <2> QED
    BY <2>1, <2>2
<1> QED
  BY <1>1, <1>2, Constants DEF Ended, TypeOfJob

\* The decision: the context gone, no answer, or the answer of the core.
LEMMA DecisionKeeps == IInv /\ (Establish \/ PutToCore \/ DecideWith \/ NoAnswer) => IInv'
<1> USE DEF IInv
<1>1. ASSUME IInv, PutToCore PROVE IInv'
  <2>1. TypeOK' /\ JobIsOpen' /\ ChildIsWanted'
    BY <1>1 DEF PutToCore, TypeOK, TypeOfFlags, TypeOfJob, TypeOfOutcome, JobIsOpen, ChildIsWanted,
                ToRun, surface, outcome
  <2>2. DecisionIsFed' /\ PassIsBounded' /\ DraftIsEarned' /\ AnswerIsObserved' /\ RecordTellsThePass'
    BY <1>1 DEF PutToCore, outcome, DecisionIsFed, PassIsBounded, DraftIsEarned, Most, Passes,
                WellFormed, AnswerIsObserved, RecordTellsThePass
  <2> QED
    BY <2>1, <2>2
<1>2. ASSUME IInv, Establish \/ DecideWith \/ NoAnswer PROVE IInv'
  <2>1. Ended /\ UNCHANGED <<harness, spec, cases, runs, turns, record, last, cut, faults>>
    BY <1>2 DEF Establish, DecideWith, NoAnswer
  <2>2. result' = "undecided" \/ (DecideWith /\ result' = Core(Facts))
    BY <1>2 DEF Establish, DecideWith, NoAnswer
  <2>3. TypeOK'
    <3>1. faults' \in 0 .. MaxFaults
      BY <1>2, <2>1 DEF TypeOK, TypeOfJob
    <3>2. TypeOfFlags' /\ TypeOfJob' /\ draft' \in Files
      BY <1>2, <2>1, <3>1, EndType
    <3> QED
      BY <1>2, <2>1, <2>2, <3>2 DEF TypeOK, TypeOfOutcome, Core
  <2>4. JobIsOpen' /\ ChildIsWanted' /\ DecisionIsFed' /\ PassIsBounded' /\ DraftIsEarned'
    BY <1>2, <2>1, AtTheEnd
  <2>5. RecordTellsThePass'
    BY <1>2, <2>1 DEF RecordTellsThePass
  <2>6. AnswerIsObserved'
    <3>1. CASE result' = "undecided"
      BY <3>1 DEF AnswerIsObserved
    <3>2. CASE DecideWith /\ result' = Core(Facts)
      <4>1. ~cut
        BY <1>2, <3>2 DEF DecideWith, JobIsOpen
      <4>2. Len(runs) = Len(spec) /\ WellFormed(spec) /\ spec \in Seq(SUBSET Arms)
        BY <1>2, <3>2, TrialsAssumption DEF DecideWith, DecisionIsFed
      <4>3. DOMAIN runs = DOMAIN spec
        BY <1>2, <4>2, LenProperties DEF TypeOK, TypeOfJob
      <4>4. \A i \in DOMAIN spec : spec[i] # {}
        BY <4>2 DEF WellFormed
      <4>5. Core(Facts) = "accepted" =>
              \A i \in DOMAIN spec : /\ runs[i].ran /\ spec[i] \subseteq runs[i].fits
                                     /\ runs[i].flood => "exact" \notin spec[i]
        BY <4>3, <4>4, AcceptedWasMet
      <4> QED
        BY <2>1, <3>2, <4>1, <4>2, <4>5 DEF AnswerIsObserved
    <3> QED
      BY <2>2, <3>1, <3>2
  <2> QED
    BY <2>3, <2>4, <2>5, <2>6
<1> QED
  BY <1>1, <1>2

\* The first turn of the model, or none.
LEMMA ProposalKeeps ==
  IInv /\ (ProposeInputs \/ ProposeAttacks \/ NoTempDir) => IInv'
<1> USE DEF IInv
<1>1. ASSUME IInv, NEW p \in Passes, NEW most \in {3, 4}, Proposes(p, most),
             p = "trial" => most = 3
      PROVE  IInv'
  <2>1. PICK k \in 0 .. MaxProposed : cases' = Take(k, most)
    BY <1>1 DEF Proposes
  <2>2. cases' \in 1 .. most
    BY <2>1, TakeBounds, TrialsAssumption
  <2>3. /\ harness = p /\ pc = "proposing" /\ pc' = "running" /\ turns' = 1
        /\ UNCHANGED <<harness, spec, surface, cancelled, runs, draft, outcome, cut, faults>>
    BY <1>1 DEF Proposes
  <2>4. TypeOK'
    <3>1. Len(runs') <= cases' /\ cases' \in Nat /\ cases' <= 4
      BY <1>1, <2>2, <2>3 DEF PassIsBounded
    <3>2. TypeOfFlags'
      BY <1>1, <2>3 DEF TypeOK, TypeOfFlags, surface
    <3>3. TypeOfJob' /\ TypeOfOutcome'
      BY <1>1, <2>3, <3>1 DEF TypeOK, TypeOfJob, TypeOfOutcome, surface, outcome
    <3> QED
      BY <3>2, <3>3 DEF TypeOK
  <2>5. JobIsOpen' /\ ChildIsWanted'
    BY <1>1, <2>3 DEF surface, outcome, JobIsOpen, ChildIsWanted, ToRun
  <2>6. DecisionIsFed' /\ PassIsBounded' /\ DraftIsEarned'
    BY <1>1, <2>2, <2>3 DEF DecisionIsFed, PassIsBounded, DraftIsEarned, Most, Passes
  <2> QED
    BY <1>1, <2>3, <2>4, <2>5, <2>6, Underway
<1>2. ASSUME IInv, NoTempDir PROVE IInv'
  <2>1. Ended /\ UNCHANGED <<harness, spec, cases, runs, turns, record, result, cut>>
        /\ last' = "unwritten" /\ faults' \in 0 .. MaxFaults
    BY <1>2, TrialsAssumption DEF NoTempDir, Fault, TypeOK, TypeOfJob
  <2>2. TypeOK'
    <3>1. TypeOfFlags' /\ TypeOfJob' /\ draft' \in Files
      BY <1>2, <2>1, EndType
    <3> QED
      BY <1>2, <2>1, <3>1 DEF TypeOK, TypeOfOutcome
  <2>3. JobIsOpen' /\ ChildIsWanted' /\ DecisionIsFed' /\ PassIsBounded' /\ DraftIsEarned'
    BY <1>2, <2>1, AtTheEnd
  <2>4. AnswerIsObserved' /\ RecordTellsThePass'
    BY <1>2, <2>1 DEF NoTempDir, JobIsOpen, AnswerIsObserved, RecordTellsThePass
  <2> QED
    BY <2>2, <2>3, <2>4
<1> QED
  BY <1>1, <1>2 DEF ProposeInputs, ProposeAttacks, ProposedInputs, ProposedAttacks, Passes

\* What a pass came to is drafted: without proposals, judged, or run and not judged.
LEMMA DraftKeeps ==
  IInv /\ (InputsNotProposed \/ AttacksNotProposed \/ TrialJudged \/ AttacksJudged
           \/ TrialNotJudged \/ AttacksNotJudged) => IInv'
<1> USE DEF IInv
<1>1. ASSUME IInv, NEW status \in {"complete", "incomplete"}, NEW answered \in 0 .. 2,
             NEW hashed \in BOOLEAN, WriteNext(status, answered, hashed),
             harness \in Passes, pc \in {"proposing", "running"},
             status = "complete" => answered = 2 /\ hashed /\ pc = "running" /\ Len(runs) = cases,
             pc = "running" => Len(runs) = cases
      PROVE  IInv'
  <2>1. Len(runs) \in 0 .. 4
    BY <1>1, RunsAreFew DEF TypeOK
  <2>2. /\ draft' \in Files /\ draft'.status = status /\ draft'.turns = answered
        /\ draft'.hashed = hashed /\ draft'.exercises = Len(runs)
    BY <1>1, <2>1 DEF WriteNext, Files
  <2>3. /\ pc' = "writing" /\ turns' = answered
        /\ UNCHANGED <<harness, spec, cases, surface, cancelled, runs, outcome, cut, faults>>
    BY <1>1 DEF WriteNext
  <2>4. TypeOK'
    <3>1. TypeOfFlags'
      BY <1>1, <2>3 DEF TypeOK, TypeOfFlags, surface
    <3>2. TypeOfJob' /\ TypeOfOutcome'
      BY <1>1, <2>2, <2>3 DEF TypeOK, TypeOfJob, TypeOfOutcome, surface, outcome
    <3> QED
      BY <3>1, <3>2 DEF TypeOK
  <2>5. JobIsOpen'
    BY <1>1, <2>3 DEF outcome, JobIsOpen
  <2>6. ChildIsWanted'
    <3>1. child = "none"
      BY <1>1, <2>1 DEF ChildIsWanted, ToRun, TypeOK, TypeOfJob
    <3> QED
      BY <2>3, <3>1 DEF ChildIsWanted, surface
  <2>7. DecisionIsFed' /\ PassIsBounded'
    BY <1>1, <2>3 DEF DecisionIsFed, PassIsBounded, Passes
  <2>8. DraftIsEarned'
    BY <1>1, <2>2, <2>3 DEF DraftIsEarned, PassIsBounded, Most, Passes
  <2> QED
    BY <1>1, <2>3, <2>4, <2>5, <2>6, <2>7, <2>8, Underway
<1>2. ASSUME IInv, NEW p \in Passes, ProposeFails(p) PROVE IInv'
  <2>1. WriteNext("incomplete", 0, FALSE) /\ harness \in Passes
    BY <1>2 DEF ProposeFails
  <2>2. pc = "proposing"
    BY <1>2 DEF ProposeFails
  <2>3. 0 \in 0 .. 2 /\ FALSE \in BOOLEAN /\ "incomplete" \in {"complete", "incomplete"}
    OBVIOUS
  <2> QED
    BY <1>1, <1>2, <2>1, <2>2, <2>3
<1>3. ASSUME IInv, NEW p \in Passes, Judged(p) PROVE IInv'
  <2>1. WriteNext("complete", 2, TRUE) /\ harness \in Passes
    BY <1>3 DEF Judged, ToJudge
  <2>2. pc = "running" /\ Len(runs) = cases
    BY <1>3 DEF Judged, ToJudge
  <2>3. 2 \in 0 .. 2 /\ TRUE \in BOOLEAN /\ "complete" \in {"complete", "incomplete"}
    OBVIOUS
  <2> QED
    BY <1>1, <1>3, <2>1, <2>2, <2>3
<1>4. ASSUME IInv, NEW p \in Passes, JudgeFails(p) PROVE IInv'
  <2>1. WriteNext("incomplete", 1, TRUE) /\ harness \in Passes
    BY <1>4 DEF JudgeFails, ToJudge
  <2>2. pc = "running" /\ Len(runs) = cases
    BY <1>4 DEF JudgeFails, ToJudge
  <2>3. 1 \in 0 .. 2 /\ TRUE \in BOOLEAN /\ "incomplete" \in {"complete", "incomplete"}
    OBVIOUS
  <2> QED
    BY <1>1, <1>4, <2>1, <2>2, <2>3
<1> QED
  BY <1>2, <1>3, <1>4 DEF InputsNotProposed, AttacksNotProposed, TrialJudged, AttacksJudged,
                          TrialNotJudged, AttacksNotJudged, Passes

\* The record is written, half written or not; or the harness dies.
LEMMA WriteKeeps == IInv /\ (WriteTrial \/ WriteAdversary \/ Crash) => IInv'
<1> USE DEF IInv
<1>1. ASSUME IInv, NEW p \in Passes, Write(p) PROVE IInv'
  <2>1. /\ Ended /\ UNCHANGED <<harness, spec, result, cut>>
        /\ cases' = 0 /\ runs' = <<>> /\ turns' = 0
        /\ harness = p /\ pc = "writing"
    BY <1>1 DEF Write
  <2>2. \/ record' = draft /\ last' = How(draft) /\ UNCHANGED faults
        \/ Fault /\ record' \in {record, Torn} /\ last' = "unwritten"
    BY <1>1 DEF Write
  <2>3. faults' \in 0 .. MaxFaults /\ record' \in Files /\ last' \in {"complete", "unreachable", "unwritten"}
    BY <1>1, <2>2, Constants, TrialsAssumption DEF Fault, How, TypeOK, TypeOfJob, TypeOfOutcome
  <2>4. TypeOK'
    <3>1. TypeOfFlags' /\ TypeOfJob' /\ draft' \in Files
      BY <1>1, <2>1, <2>3, EndType
    <3> QED
      BY <1>1, <2>1, <2>3, <3>1 DEF TypeOK, TypeOfOutcome
  <2>5. JobIsOpen' /\ ChildIsWanted' /\ DecisionIsFed' /\ PassIsBounded' /\ DraftIsEarned'
    BY <1>1, <2>1, AtTheEnd
  <2>6. RecordTellsThePass'
    BY <1>1, <2>1, <2>2, Constants DEF How, DraftIsEarned, RecordTellsThePass, Most
  <2>7. AnswerIsObserved'
    BY <1>1, <2>1 DEF JobIsOpen, AnswerIsObserved
  <2> QED
    BY <2>4, <2>5, <2>6, <2>7
<1>2. ASSUME IInv, Crash PROVE IInv'
  <2>1. /\ Ended /\ UNCHANGED <<harness, spec, result, cut>>
        /\ cases' = 0 /\ runs' = <<>> /\ turns' = 0 /\ pc # "idle"
    BY <1>2 DEF Crash
  <2>2. /\ faults' \in 0 .. MaxFaults
        /\ last' = "crashed" \/ (last' = last /\ harness \notin Passes)
        /\ record' = record \/ (record' = Torn /\ pc = "writing")
    BY <1>2, TrialsAssumption DEF Crash, Fault, TypeOK, TypeOfJob
  <2>3. TypeOK'
    <3>1. TypeOfFlags' /\ TypeOfJob' /\ draft' \in Files
      BY <1>2, <2>1, <2>2, EndType
    <3> QED
      BY <1>2, <2>1, <2>2, <3>1, Constants DEF TypeOK, TypeOfOutcome
  <2>4. JobIsOpen' /\ ChildIsWanted' /\ DecisionIsFed' /\ PassIsBounded' /\ DraftIsEarned'
    BY <1>2, <2>1, AtTheEnd
  <2>5. RecordTellsThePass'
    BY <1>2, <2>1, <2>2, Constants DEF PassIsBounded, RecordTellsThePass
  <2>6. AnswerIsObserved'
    BY <1>2, <2>1 DEF JobIsOpen, AnswerIsObserved
  <2> QED
    BY <2>3, <2>4, <2>5, <2>6
<1> QED
  BY <1>1, <1>2 DEF WriteTrial, WriteAdversary, Passes

\* A step that changes nothing.
LEMMA StutterKeeps == IInv /\ UNCHANGED vars => IInv'
<1> SUFFICES ASSUME IInv, UNCHANGED vars PROVE IInv'
  OBVIOUS
<1>1. UNCHANGED <<harness, pc, spec, cases, child, end, overdue, cancelled>>
      /\ UNCHANGED <<runs, turns, draft, record, result, last, cut, faults>>
  BY DEF vars
<1>2. TypeOK'
  BY <1>1 DEF IInv, TypeOK, TypeOfFlags, TypeOfJob, TypeOfOutcome
<1>3. JobIsOpen' /\ ChildIsWanted' /\ DecisionIsFed' /\ PassIsBounded' /\ DraftIsEarned'
  BY <1>1 DEF IInv, JobIsOpen, ChildIsWanted, ToRun, DecisionIsFed, WellFormed, PassIsBounded,
              DraftIsEarned, Most
<1>4. AnswerIsObserved' /\ RecordTellsThePass'
  BY <1>1 DEF IInv, AnswerIsObserved, RecordTellsThePass
<1> QED
  BY <1>2, <1>3, <1>4 DEF IInv

-----------------------------------------------------------------------------
\* The inductive invariant holds in every reachable state.
THEOREM Invariance == Spec => []IInv
<1>1. Init => IInv
  BY Initially
<1>2. IInv /\ [Next]_vars => IInv'
  BY StartKeeps, OutsideKeeps, RunsKeep, DecisionKeeps, ProposalKeeps, DraftKeeps, WriteKeeps,
     StutterKeeps DEF Next, Harness
<1> QED
  BY <1>1, <1>2, PTL DEF Spec

\* Every variable keeps its type; in particular no surface is run more often than proposed.
THEOREM TypeCorrectness == Spec => []TypeOK
<1>1. IInv => TypeOK
  BY DEF IInv
<1> QED
  BY <1>1, Invariance, PTL

\* Nothing is accepted that was not seen to run clean and to meet every arm, and no cancelling
\* by the caller is an answer.
THEOREM AcceptedWasObserved == Spec => []AnswerIsObserved
<1>1. IInv => AnswerIsObserved
  BY DEF IInv
<1> QED
  BY <1>1, Invariance, PTL

\* A pass without a model leaves its own incomplete record, and a complete record was earned.
THEOREM RecordIsEarned == Spec => []RecordTellsThePass
<1>1. IInv => RecordTellsThePass
  BY DEF IInv
<1> QED
  BY <1>1, Invariance, PTL

-----------------------------------------------------------------------------
(* A job ends.  That a step is taken at all is fairness, and stays with the   *)
(* runs; that the steps of one job run out is a fact of the harnesses.        *)

\* The runs of the surface that are still to be made, and what comes of them.
RunsAhead ==
  CASE pc = "proposing" -> 6
    [] pc = "running" -> (cases - Len(runs)) + 1
    [] OTHER -> 0

\* What one run of the surface can still go through.
ChildRank == CASE child = "none" -> 3 [] child = "live" -> 2 [] child = "lingers" -> 1 [] OTHER -> 0

\* The timer of a run fires once, and the caller cancels once.
InTime == IF overdue THEN 0 ELSE 1
Hope == IF cancelled THEN 0 ELSE 1

Weight(n, c, t, h) == n * 16 + c * 4 + t * 2 + h

Effort == Weight(RunsAhead, ChildRank, InTime, Hope)

\* Every step of a job that does not end it, the surface's, the timer's and the caller's among them,
\* takes from what is left to do.
EveryStepCounts == [][pc # "idle" => pc' = "idle" \/ (Effort \in Nat /\ Effort' \in Nat /\ Effort' < Effort)]_vars

Weighed == RunsAhead \in Nat /\ ChildRank \in 0 .. 3 /\ InTime \in 0 .. 1 /\ Hope \in 0 .. 1

LEMMA Weights == IInv => Weighed
<1> SUFFICES ASSUME IInv PROVE Weighed
  OBVIOUS
<1>1. cases \in Nat /\ Len(runs) \in Nat /\ Len(runs) <= cases
  BY DEF IInv, TypeOK, TypeOfJob
<1>2. RunsAhead \in Nat
  BY <1>1 DEF RunsAhead
<1> QED
  BY <1>2 DEF Weighed, ChildRank, InTime, Hope

\* A run less, or the same runs and less of this one.
Falls(n, c, t, h, m, d, u, k) ==
  \/ m < n
  \/ m = n /\ d < c /\ u = t /\ k = h
  \/ m = n /\ d <= c /\ u < t /\ k = h
  \/ m = n /\ d <= c /\ u = t /\ k < h

StepFalls == Falls(RunsAhead, ChildRank, InTime, Hope, RunsAhead', ChildRank', InTime', Hope')

LEMMA WeightFalls ==
  ASSUME NEW n \in Nat, NEW c \in 0 .. 3, NEW t \in 0 .. 1, NEW h \in 0 .. 1,
         NEW m \in Nat, NEW d \in 0 .. 3, NEW u \in 0 .. 1, NEW k \in 0 .. 1,
         Falls(n, c, t, h, m, d, u, k)
  PROVE  /\ Weight(n, c, t, h) \in Nat /\ Weight(m, d, u, k) \in Nat
         /\ Weight(m, d, u, k) < Weight(n, c, t, h)
BY DEF Weight, Falls

LEMMA FallsCounts ==
  ASSUME Weighed, Weighed', StepFalls
  PROVE  Effort \in Nat /\ Effort' \in Nat /\ Effort' < Effort
<1> DEFINE w == Weight(RunsAhead', ChildRank', InTime', Hope')
<1>1. Effort' = w
  BY DEF Effort, Weight
<1> HIDE DEF w
<1>2. /\ RunsAhead \in Nat /\ ChildRank \in 0 .. 3 /\ InTime \in 0 .. 1 /\ Hope \in 0 .. 1
      /\ RunsAhead' \in Nat /\ ChildRank' \in 0 .. 3 /\ InTime' \in 0 .. 1 /\ Hope' \in 0 .. 1
  BY DEF Weighed
<1>3. /\ Weight(RunsAhead, ChildRank, InTime, Hope) \in Nat /\ w \in Nat
      /\ w < Weight(RunsAhead, ChildRank, InTime, Hope)
  BY <1>2, WeightFalls, Zenon DEF StepFalls, w
<1> QED
  BY <1>1, <1>3 DEF Effort

\* A run that is over, however it went, leaves one run less.
LEMMA ObserveFalls ==
  ASSUME IInv, ToRun, NEW o, Observe(o)
  PROVE  StepFalls
<1>1. /\ pc = "running" /\ pc' = "running" /\ cases' = cases /\ runs' = Append(runs, o)
      /\ runs \in Seq(Runs) /\ cases \in Nat
  BY DEF IInv, TypeOK, TypeOfJob, ToRun, Observe
<1>2. Len(runs) \in Nat /\ Len(runs') = Len(runs) + 1
  BY <1>1
<1>3. RunsAhead = (cases - Len(runs)) + 1 /\ RunsAhead' = (cases - Len(runs')) + 1
  BY <1>1 DEF RunsAhead
<1>4. RunsAhead' < RunsAhead
  BY <1>1, <1>2, <1>3
<1> QED
  BY <1>4 DEF StepFalls, Falls

LEMMA NextFalls ==
  ASSUME IInv, Next, pc # "idle", pc' # "idle"
  PROVE  StepFalls
<1>1. /\ cases \in Nat /\ Len(runs) \in Nat /\ Len(runs) <= cases
      /\ child # "none" => ToRun
  BY DEF IInv, TypeOK, TypeOfJob, ChildIsWanted
<1>2. ASSUME UNCHANGED <<pc, cases, runs>> PROVE RunsAhead' = RunsAhead
  BY <1>2 DEF RunsAhead
<1>3. CASE Cancel
  <2>1. UNCHANGED <<pc, cases, runs, overdue>> /\ Hope' = 0 /\ Hope = 1
    BY <1>3 DEF Cancel, Hope
  <2>2. ChildRank' <= ChildRank
    BY <1>3 DEF Cancel, ChildRank
  <2> QED
    BY <1>2, <2>1, <2>2 DEF StepFalls, Falls, InTime
<1>4. CASE SurfaceStarts \/ SurfaceEnds \/ LingererEnds
  <2>1. UNCHANGED <<pc, cases, runs, overdue, cancelled>>
    BY <1>4 DEF SurfaceStarts, SurfaceEnds, LingererEnds
  <2>2. ChildRank' < ChildRank
    BY <1>4 DEF SurfaceStarts, SurfaceEnds, LingererEnds, ChildRank
  <2> QED
    BY <1>2, <2>1, <2>2 DEF StepFalls, Falls, InTime, Hope
<1>5. CASE SurfaceTimeout
  <2>1. UNCHANGED <<pc, cases, runs, cancelled>> /\ InTime' = 0 /\ InTime = 1
    BY <1>5 DEF SurfaceTimeout, InTime
  <2>2. ChildRank' <= ChildRank
    BY <1>5 DEF SurfaceTimeout, ChildRank
  <2> QED
    BY <1>2, <2>1, <2>2 DEF StepFalls, Falls, Hope
<1>6. CASE NeverStarts \/ TrialInputFails \/ AttackInputFails
  BY <1>6, ObserveFalls DEF NeverStarts, TrialInputFails, AttackInputFails, ExecArgvFails
<1>7. CASE CheckObserved \/ TrialObserved \/ AttackObserved
  BY <1>1, <1>7, ObserveFalls DEF CheckObserved, TrialObserved, AttackObserved, Observed
<1>8. ASSUME pc = "running", pc' \in {"deciding", "writing"} PROVE StepFalls
  BY <1>1, <1>8 DEF RunsAhead, StepFalls, Falls
<1>9. CASE PutToCore \/ TrialJudged \/ AttacksJudged \/ TrialNotJudged \/ AttacksNotJudged
  BY <1>8, <1>9 DEF PutToCore, TrialJudged, AttacksJudged, TrialNotJudged, AttacksNotJudged,
                    Judged, JudgeFails, ToJudge, WriteNext
<1>10. CASE InputsNotProposed \/ AttacksNotProposed
  BY <1>10 DEF InputsNotProposed, AttacksNotProposed, ProposeFails, WriteNext, RunsAhead, StepFalls, Falls
<1>11. CASE ProposeInputs \/ ProposeAttacks
  <2>1. /\ pc = "proposing" /\ pc' = "running" /\ runs' = runs
        /\ \E k \in 0 .. MaxProposed : cases' = Take(k, 3) \/ cases' = Take(k, 4)
    BY <1>11 DEF ProposeInputs, ProposeAttacks, Proposes, ProposedInputs, ProposedAttacks
  <2>2. cases' \in 1 .. 4
    BY <2>1, TrialsAssumption DEF Take
  <2>3. RunsAhead = 6 /\ RunsAhead' = (cases' - Len(runs)) + 1
    BY <2>1 DEF RunsAhead
  <2>4. RunsAhead' < RunsAhead
    BY <1>1, <2>2, <2>3
  <2> QED
    BY <2>4 DEF StepFalls, Falls
<1>12. ~ (Start \/ Establish \/ DecideWith \/ NoAnswer \/ NoTempDir \/ WriteTrial \/ WriteAdversary \/ Crash)
  BY DEF Start, StartDecide, RunTrial, RunAdversarialPass, StartPass, Begin, Establish, DecideWith,
         NoAnswer, NoTempDir, WriteTrial, WriteAdversary, Write, Crash, Ended
<1> QED
  BY <1>3, <1>4, <1>5, <1>6, <1>7, <1>9, <1>10, <1>11, <1>12 DEF Next, Harness

\* acceptance.go, purposetrial.go, adversary.go: a statement has so many checks, a reply gives so
\* many cases, a run is over once, its timer fires once: however the surface and the model behave,
\* the steps of a job run out.
THEOREM JobsRunOut == Spec => EveryStepCounts
<1>1. IInv /\ IInv' /\ [Next]_vars
        => [ pc # "idle" => pc' = "idle" \/ (Effort \in Nat /\ Effort' \in Nat /\ Effort' < Effort) ]_vars
  <2> SUFFICES ASSUME IInv, IInv', Next, pc # "idle", pc' # "idle"
               PROVE  Effort \in Nat /\ Effort' \in Nat /\ Effort' < Effort
    OBVIOUS
  <2>1. Weighed
    BY Weights
  <2>2. Weighed'
    BY Weights, PTL
  <2> QED
    BY <2>1, <2>2, NextFalls, FallsCounts
<1> QED
  BY <1>1, Invariance, PTL DEF Spec, EveryStepCounts
=============================================================================
