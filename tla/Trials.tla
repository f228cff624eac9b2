------------------------------- MODULE Trials --------------------------------
(***************************************************************************)
(* What is done with a bundle before it is published.  Three harnesses put   *)
(* its surface to the test, each from the acceptance statement in the bundle: *)
(*   decide     internal/acceptance: run every check, establish what was met,  *)
(*              put the facts to the proven core's front;                      *)
(*   trial      internal/purposetrial: a model proposes inputs, the surface is  *)
(*              run on them, the model judges, a record is written;             *)
(*   adversary  internal/adversary: the same with hostile inputs and a model     *)
(*              of its own.                                                    *)
(* All three run the surface the same way: a child process in the bundle's       *)
(* tree, a capped output, a timeout.  What a surface prints is abstracted to     *)
(* the arms of the check it would meet.  They share nothing but the bundle, so a  *)
(* behaviour is of one of them, used again and again.                            *)
(***************************************************************************)
EXTENDS Naturals, Sequences, FiniteSets

CONSTANTS
  Statements,   \* the acceptance statements of this instance
  Outputs,      \* what a surface can print: the arms its output and status meet
  MaxProposed,  \* bound of the model: cases in a model's reply
  MaxFaults     \* bound of the model: failed writes and crashes

Arms == {"exact", "pattern", "exit"}
Passes == {"trial", "adversary"}

\* A statement has a check, and every check expects something.
WellFormed(s) == s # <<>> /\ \A i \in DOMAIN s : s[i] # {}

ASSUME TrialsAssumption ==
  /\ Statements \subseteq Seq(SUBSET Arms) /\ IsFiniteSet(Statements)
  /\ Outputs \subseteq SUBSET Arms
  /\ MaxProposed \in Nat /\ MaxFaults \in Nat

VARIABLES
  harness,    \* "decide", "trial" or "adversary"
  pc,         \* where it is
  spec,       \* the statement as decide was given it
  cases,      \* the runs of the surface to be made
  child,      \* the surface: "none", "live", "lingers" (it ended, something it left behind holds
              \* its output), "gone"
  end,        \* how the child ended and what was captured of it
  overdue,    \* surfaceTimeout has passed for this run
  cancelled,  \* the caller's context is cancelled
  runs,       \* what was observed, run by run
  turns,      \* the model's turns that were answered in this pass
  draft,      \* the record about to be written
  record,     \* trial/trial-record.json, adversary/adversary-record.json
  result,     \* what the last decision came to
  last,       \* how the last pass ended
  cut,        \* history: the caller cancelled while a run was under way
  faults      \* history: failed writes and crashes

surface == <<child, end, overdue>>
outcome == <<record, result, last>>
vars == <<harness, pc, spec, cases, child, end, overdue, cancelled, runs, turns, draft,
          record, result, last, cut, faults>>

Ends == [exited : BOOLEAN, flood : BOOLEAN, fits : Outputs \cup {{}}]
Runs == [ran : BOOLEAN, flood : BOOLEAN, fits : Outputs \cup {{}}]
Files == [status : {"absent", "torn", "complete", "incomplete"}, turns : 0 .. 2,
          exercises : 0 .. 4, hashed : BOOLEAN]
NoEnd == [exited |-> FALSE, flood |-> FALSE, fits |-> {}]
NotRun == [ran |-> FALSE, flood |-> FALSE, fits |-> {}]
NoDraft == [status |-> "incomplete", turns |-> 0, exercises |-> 0, hashed |-> FALSE]
Absent == [NoDraft EXCEPT !.status = "absent"]
Torn == [NoDraft EXCEPT !.status = "torn"]

TypeOfFlags == overdue \in BOOLEAN /\ cancelled \in BOOLEAN /\ cut \in BOOLEAN

TypeOfJob ==
  /\ harness \in Passes \cup {"decide"}
  /\ pc \in {"idle", "proposing", "running", "writing", "deciding"}
  /\ spec \in Statements \cup {<<>>} /\ cases \in Nat /\ (harness \in Passes => cases <= 4)
  /\ child \in {"none", "live", "lingers", "gone"} /\ end \in Ends
  /\ runs \in Seq(Runs) /\ Len(runs) <= cases
  /\ turns \in 0 .. 2 /\ faults \in 0 .. MaxFaults

TypeOfOutcome ==
  /\ draft \in Files /\ record \in Files
  /\ result \in {"none", "accepted", "refused", "undecided"}
  /\ last \in {"none", "complete", "unreachable", "unwritten", "crashed"}

TypeOK == TypeOfFlags /\ TypeOfJob /\ TypeOfOutcome

Init ==
  /\ harness \in Passes \cup {"decide"} /\ pc = "idle" /\ spec = <<>> /\ cases = 0
  /\ child = "none" /\ end = NoEnd /\ overdue = FALSE /\ cancelled = FALSE
  /\ runs = <<>> /\ turns = 0 /\ draft = NoDraft
  /\ record = Absent /\ result = "none"
  /\ last = "none" /\ cut = FALSE /\ faults = 0

Fault == faults < MaxFaults /\ faults' = faults + 1

-----------------------------------------------------------------------------
(* Starting.  A statement that is absent or does not parse starts nothing.     *)

Load(s) == s \in Statements /\ WellFormed(s)

Begin ==
  /\ pc = "idle"
  /\ runs' = <<>> /\ turns' = 0 /\ result' = "none" /\ cut' = FALSE
  /\ UNCHANGED <<harness, surface, cancelled, draft, record, last, faults>>

StartDecide ==
  /\ harness = "decide" /\ Begin
  /\ \E s \in Statements : Load(s) /\ spec' = s /\ cases' = Len(s)
  /\ pc' = "running"

\* A pass takes from the statement how the surface is invoked: its first check's command.
StartPass ==
  /\ Begin
  /\ \E s \in Statements : Load(s)
  /\ pc' = "proposing" /\ cases' = 0 /\ UNCHANGED spec

RunTrial == harness = "trial" /\ StartPass
RunAdversarialPass == harness = "adversary" /\ StartPass

\* The caller's context: cancelled, it kills the child that runs and fails every call to come.
Cancel ==
  /\ pc # "idle" /\ ~cancelled
  /\ cancelled' = TRUE
  /\ IF child = "live" THEN child' \in {"gone", "lingers"} ELSE UNCHANGED child
  /\ UNCHANGED <<harness, pc, spec, cases, end, overdue, runs, turns, draft, outcome, cut, faults>>

Ended == /\ pc' = "idle" /\ cancelled' = FALSE
         /\ child' = "none" /\ end' = NoEnd /\ overdue' = FALSE /\ draft' = NoDraft

-----------------------------------------------------------------------------
(* One run of the surface.                                                  *)

Observe(o) ==
  /\ runs' = Append(runs, o)
  /\ child' = "none" /\ end' = NoEnd /\ overdue' = FALSE
  /\ UNCHANGED <<harness, pc, spec, cases, cancelled, turns, draft, outcome>>

ToRun == pc = "running" /\ Len(runs) < cases

SurfaceStarts ==
  /\ ToRun /\ child = "none" /\ ~cancelled
  /\ child' = "live"
  /\ UNCHANGED <<harness, pc, spec, cases, end, overdue, cancelled, runs, turns, draft, outcome,
                 cut, faults>>

\* There is nothing to execute at the path, or the context is cancelled already.
NeverStarts ==
  /\ ToRun /\ child = "none"
  /\ Observe(NotRun) /\ cut' = (cut \/ cancelled) /\ UNCHANGED faults

\* The child exits or is killed by a signal; output beyond the cap is dropped.  cmd.Run goes on
\* reading while a process it left behind holds the output open.  What a pass captures is not
\* compared with anything, and left out.
SurfaceEnds ==
  /\ child = "live"
  /\ child' \in {"gone", "lingers"}
  /\ end' \in IF harness = "decide" THEN Ends ELSE { [NoEnd EXCEPT !.exited = b] : b \in BOOLEAN }
  /\ UNCHANGED <<harness, pc, spec, cases, overdue, cancelled, runs, turns, draft, outcome, cut, faults>>

LingererEnds ==
  /\ child = "lingers" /\ child' = "gone"
  /\ UNCHANGED <<harness, pc, spec, cases, end, overdue, cancelled, runs, turns, draft, outcome,
                 cut, faults>>

\* Bug: the timeout is noted and nothing is killed.
SurfaceTimeoutNoted ==
  /\ child # "none" /\ ~overdue
  /\ overdue' = TRUE
  /\ UNCHANGED <<harness, pc, spec, cases, child, end, cancelled, runs, turns, draft, outcome, cut, faults>>

\* surfaceTimeout: the child is killed; what it left behind is not.
SurfaceTimeout ==
  /\ child # "none" /\ ~overdue
  /\ overdue' = TRUE
  /\ IF child = "live" THEN child' \in {"gone", "lingers"} ELSE UNCHANGED child
  /\ UNCHANGED <<harness, pc, spec, cases, end, cancelled, runs, turns, draft, outcome, cut, faults>>

\* Only a clean exit, inside the time and not cancelled, is an observation; the prefix that was
\* captured of any other run is kept beside it.
SurfaceRun == [ran |-> ~overdue /\ ~cancelled /\ end.exited, flood |-> end.flood, fits |-> end.fits]

Observed(h) ==
  /\ harness = h /\ child = "gone" /\ Observe(SurfaceRun)
  /\ cut' = (cut \/ cancelled) /\ UNCHANGED faults

CheckObserved == Observed("decide")
TrialObserved == Observed("trial")
AttackObserved == Observed("adversary")

\* The loop over the checks ends early when the caller has cancelled.
Establish ==
  /\ harness = "decide"
  /\ ToRun /\ child = "none" /\ cancelled
  /\ result' = "undecided" /\ Ended
  /\ UNCHANGED <<harness, spec, cases, runs, turns, record, last, cut, faults>>

\* A pass cannot put the proposed input where the surface reads it.
ExecArgvFails(p) ==
  /\ harness = p /\ ToRun /\ child = "none" /\ Fault
  /\ Observe(NotRun) /\ UNCHANGED cut

TrialInputFails == ExecArgvFails("trial")
AttackInputFails == ExecArgvFails("adversary")

-----------------------------------------------------------------------------
(* The decision.                                                            *)

\* Bug: what was captured counts, however the run ended.
MetAnyway(required, run) == (required \cap run.fits) \ (IF run.flood THEN {"exact"} ELSE {})

\* What the statement requires of a check and the observed run met.
Met(required, run) ==
  IF run.ran THEN (required \cap run.fits) \ (IF run.flood THEN {"exact"} ELSE {}) ELSE {}

EstablishOne(i) == [required |-> spec[i], met |-> Met(spec[i], runs[i])]

Facts == [i \in DOMAIN runs |-> EstablishOne(i)]

PutToCore ==
  /\ harness = "decide" /\ pc = "running" /\ Len(runs) = cases
  /\ pc' = "deciding"
  /\ UNCHANGED <<harness, spec, cases, surface, cancelled, runs, turns, draft, outcome, cut, faults>>

\* The front over the proven core: every arm that is required is met.
Core(facts) == IF \A i \in DOMAIN facts : facts[i].required \subseteq facts[i].met
               THEN "accepted" ELSE "refused"

DecideWith ==
  /\ pc = "deciding" /\ ~cancelled
  /\ result' = Core(Facts) /\ Ended
  /\ UNCHANGED <<harness, spec, cases, runs, turns, record, last, cut, faults>>

\* No front, a timeout, a signal, exit 2, a word that is not one of the two, a cancelled context.
NoAnswer ==
  /\ pc = "deciding"
  /\ result' = "undecided" /\ Ended
  /\ UNCHANGED <<harness, spec, cases, runs, turns, record, last, cut, faults>>

-----------------------------------------------------------------------------
(* The model's two turns, and the record.                                   *)

\* A call to the local model: cancelled or late it fails, and it may fail at any time.
Complete == ~cancelled

ProposedInputs == 3
ProposedAttacks == 4

\* Bug: one case more than the pass allows.
TakeOneMore(k, most) == IF k = 0 THEN 1 ELSE IF k <= most THEN k ELSE most + 1

\* The first cases of the reply; a reply without any is one empty case.
Take(k, most) == IF k = 0 THEN 1 ELSE IF k < most THEN k ELSE most

Proposes(p, most) ==
  /\ harness = p /\ pc = "proposing" /\ Complete
  /\ \E k \in 0 .. MaxProposed : cases' = Take(k, most)
  /\ turns' = 1 /\ pc' = "running"
  /\ UNCHANGED <<harness, spec, surface, cancelled, runs, draft, outcome, cut, faults>>

ProposeInputs == Proposes("trial", ProposedInputs)
ProposeAttacks == Proposes("adversary", ProposedAttacks)

\* There is no directory for the inputs: the pass ends and nothing is written.
NoTempDir ==
  /\ pc = "proposing" /\ Complete /\ Fault
  /\ last' = "unwritten" /\ Ended
  /\ UNCHANGED <<harness, spec, cases, runs, turns, record, result, cut>>

WriteNext(status, answered, hashed) ==
  /\ draft' = [status |-> status, turns |-> answered, exercises |-> Len(runs), hashed |-> hashed]
  /\ turns' = answered /\ pc' = "writing"
  /\ UNCHANGED <<harness, spec, cases, surface, cancelled, runs, outcome, cut, faults>>

\* Bug: without proposals the pass ends and leaves the record that is there.
ProposeFailsSilently(p) ==
  /\ harness = p /\ pc = "proposing"
  /\ last' = "unreachable" /\ Ended
  /\ UNCHANGED <<harness, spec, cases, runs, turns, record, result, cut, faults>>

\* The record of a pass whose model proposed nothing carries no hash.
ProposeFails(p) == harness = p /\ pc = "proposing" /\ WriteNext("incomplete", 0, FALSE)

InputsNotProposed == ProposeFails("trial")
AttacksNotProposed == ProposeFails("adversary")

\* The model judges over the real outputs; a reply that does not parse is kept and counts as no.
ToJudge(p) == harness = p /\ pc = "running" /\ Len(runs) = cases
Judged(p) == ToJudge(p) /\ Complete /\ WriteNext("complete", 2, TRUE)
JudgeFails(p) == ToJudge(p) /\ WriteNext("incomplete", 1, TRUE)

TrialJudged == Judged("trial")
AttacksJudged == Judged("adversary")
TrialNotJudged == JudgeFails("trial")
AttacksNotJudged == JudgeFails("adversary")

How(r) == IF r.status = "complete" THEN "complete" ELSE "unreachable"

Write(p) ==
  /\ harness = p /\ pc = "writing"
  /\ \/ record' = draft /\ last' = How(draft) /\ UNCHANGED faults
     \/ Fault /\ record' \in {record, Torn} /\ last' = "unwritten"
  /\ Ended /\ cases' = 0 /\ runs' = <<>> /\ turns' = 0
  /\ UNCHANGED <<harness, spec, result, cut>>

WriteTrial == Write("trial")
WriteAdversary == Write("adversary")

Crash ==
  /\ pc # "idle" /\ Fault /\ Ended
  /\ last' = IF harness \in Passes THEN "crashed" ELSE last
  /\ record' \in {record} \cup (IF pc = "writing" THEN {Torn} ELSE {})
  /\ cases' = 0 /\ runs' = <<>> /\ turns' = 0
  /\ UNCHANGED <<harness, spec, result, cut>>

-----------------------------------------------------------------------------
Harness ==
  \/ SurfaceStarts \/ NeverStarts \/ CheckObserved \/ TrialObserved \/ AttackObserved
  \/ Establish \/ TrialInputFails \/ AttackInputFails
  \/ PutToCore \/ DecideWith \/ NoAnswer
  \/ ProposeInputs \/ ProposeAttacks \/ NoTempDir
  \/ InputsNotProposed \/ AttacksNotProposed
  \/ TrialJudged \/ AttacksJudged \/ TrialNotJudged \/ AttacksNotJudged
  \/ WriteTrial \/ WriteAdversary

Start == StartDecide \/ RunTrial \/ RunAdversarialPass

Next ==
  \/ Start \/ Cancel \/ Harness
  \/ SurfaceEnds \/ LingererEnds \/ SurfaceTimeout \/ Crash

\* The harness goes on, and the timer of a run fires; a surface need never end.
Spec == Init /\ [][Next]_vars /\ WF_vars(Harness) /\ WF_vars(SurfaceTimeout)

-----------------------------------------------------------------------------
(* Properties.                                                              *)

\* A bundle is accepted only on what was seen of it: every check was run to a clean exit in its
\* time, what it requires was met by that run, and an exact match by its whole output.  And an
\* answer is never the caller's own cancelling: Decide fails closed although a run it cuts short
\* only leaves facts unmet.
AnswerIsObserved ==
  /\ result = "accepted" =>
       /\ Len(runs) = Len(spec)
       /\ \A i \in DOMAIN spec :
            /\ runs[i].ran /\ spec[i] \subseteq runs[i].fits
            /\ runs[i].flood => "exact" \notin spec[i]
  /\ result \in {"accepted", "refused"} => ~cut

\* trial.go, adversary.go: "if the model cannot be reached or errors, the transcript is still
\* written, marked incomplete": a pass that ended for want of a model left its own incomplete
\* record whatever stood there before, and a record that says complete had both turns answered
\* and at least one exercise, no more than the pass allows.
RecordTellsThePass ==
  /\ last = "unreachable" => record.status = "incomplete"
  /\ record.status = "complete" =>
       /\ record.turns = 2 /\ record.hashed
       /\ record.exercises \in 1 .. (IF harness = "trial" THEN 3 ELSE 4)

\* surfaceTimeout bounds a run, decideTimeout the front and the client's timeout the model: what
\* is started comes to an end, unless something the surface left behind holds its output.
JobEnds == pc # "idle" ~> (pc = "idle" \/ child = "lingers")
=============================================================================
