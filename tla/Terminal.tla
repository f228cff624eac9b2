------------------------------ MODULE Terminal ------------------------------
(***************************************************************************)
(* The poll loop of internal/terminal: one process that talks outward to a  *)
(* facade, admits or refuses the signed instructions the facade returns,    *)
(* conducts the interview a delivered brief asks for, and owes the facade    *)
(* an outcome for every instruction and a submission for every interview.   *)
(*                                                                         *)
(* The process may crash anywhere and be started again; what survives is     *)
(* the state file (disk), the quarantine directory (notices) and whatever    *)
(* the facade already took.  Requests are atomic exchanges with three fates:  *)
(* answered, not taken, or taken with the answer lost.                       *)
(***************************************************************************)
EXTENDS Gate, Sequences, FiniteSets

CONSTANTS
  Envelopes,           \* what the facade may put in a poll response
  Briefs,              \* brief identities (artifact reference and version)
  NoBrief,             \* "no body fetched"
  Torn,                \* a state file that was truncated and not rewritten
  Ceiling,             \* the locally declared ceiling, a command rank
  Standing,            \* what the fleet says of the person at the keyboard
  Interviewing,        \* cfg.Interview and cfg.Signer are set
  MaxPolls,            \* stop after this many polls; 0 = never
  IdleExit,            \* stop after this many empty polls; 0 = never
  MaxPollInstructions, \* more instructions than this: the poll is refused whole
  MaxRecords,          \* bound of the model: outcomes ever recorded
  MaxLives             \* bound of the model: times the process is started

ASSUME TerminalAssumption ==
  /\ Envelopes \subseteq [wellFormed: BOOLEAN, authentic: BOOLEAN, protocolV0: BOOLEAN,
                          command: Nat, seq: Nat, brief: Briefs]
  /\ NoBrief \notin Briefs /\ Torn \notin Nat
  /\ Ceiling \in Commands
  /\ Standing \in Standings
  /\ Interviewing \in BOOLEAN
  /\ MaxPolls \in Nat /\ IdleExit \in Nat /\ MaxPollInstructions \in Nat
  /\ MaxRecords \in Nat /\ MaxLives \in Nat

VARIABLES
  pc,         \* where the process is; "down" when there is none
  why,        \* how the last process ended
  disk,       \* the state file: a sequence number (0 also for "no file") or Torn
  notices,    \* quarantine: the deliveries written there
  lastSeq,    \* Terminal.lastSeq
  pending,    \* Terminal.pending, outcomes the facade has not acknowledged
  answers,    \* Terminal.answers, signed submissions not acknowledged
  todo,       \* submit: the submissions still to post in this round
  kept,       \* submit: the submissions whose post failed
  batch,      \* the instructions of the current poll not yet handled
  body,       \* the brief fetched for the head of batch
  polls, idle, \* the counters of Run
  cancelled,  \* the context of this life is cancelled
  reported,   \* the facade: outcomes it holds
  specs,      \* the facade: submissions it holds (it keeps one per id)
  recorded,   \* history: every outcome ever recorded
  signed,     \* history: every submission ever signed
  taken,      \* history: instructions accepted from the facade, over all lives
  dropped,    \* history: instructions in hand when a process died
  accepted,   \* history: how often a sequence number passed freshness
  life        \* history: processes started so far

facadeVars  == <<reported, specs>>
durableVars == <<disk, notices>>
queueVars   == <<pending, answers, recorded, signed>>
loopVars    == <<polls, idle>>
submitVars  == <<todo, kept>>
historyVars == <<taken, dropped, accepted, life>>

vars == <<pc, why, disk, notices, lastSeq, pending, answers, todo, kept, batch, body,
          polls, idle, cancelled, reported, specs, recorded, signed, taken, dropped,
          accepted, life>>

Seqs == { e.seq : e \in Envelopes }

\* Identities are minted in order, so they also give the order of a queue.
Outcomes == [ id: 1 .. MaxRecords, life: 1 .. MaxLives, seq: Seqs \cup {0}, reason: Reasons,
              kind: {"instruction", "submission"} ]
Submissions == [ id: 1 .. MaxRecords, life: 1 .. MaxLives, seq: Seqs, brief: Briefs ]

Phases == { "down", "top", "submit", "poll", "handle", "credit", "fetch",
            "conduct", "save", "pause" }
Endings == { "never", "crash", "cancel", "limit", "idle", "unreadable" }
-----------------------------------------------------------------------------
Init ==
  /\ pc = "down" /\ why = "never"
  /\ disk = 0 /\ notices = {}
  /\ lastSeq = 0
  /\ pending = {} /\ answers = {} /\ todo = {} /\ kept = {}
  /\ batch = <<>> /\ body = NoBrief
  /\ polls = 0 /\ idle = 0 /\ cancelled = FALSE
  /\ reported = {} /\ specs = {} /\ recorded = {} /\ signed = {}
  /\ taken = 0 /\ dropped = 0 /\ life = 0
  /\ accepted = [ s \in Seqs |-> 0 ]

\* A new process: nothing in memory but what loadState read.
Fresh ==
  /\ pending' = {} /\ answers' = {} /\ todo' = {} /\ kept' = {}
  /\ batch' = <<>> /\ body' = NoBrief
  /\ polls' = 0 /\ idle' = 0 /\ cancelled' = FALSE

\* Bug: the parse error of loadState is ignored.
StartUnchecked ==
  /\ pc = "down" /\ life < MaxLives
  /\ life' = life + 1
  /\ Fresh
  /\ lastSeq' = disk /\ pc' = "top"
  /\ UNCHANGED <<why, durableVars, facadeVars, recorded, signed, taken, dropped, accepted>>

\* Run begins.  A missing state file reads as zero, an unreadable one is an error.
Start ==
  /\ pc = "down" /\ life < MaxLives
  /\ life' = life + 1
  /\ Fresh
  /\ \/ /\ disk # Torn
        /\ lastSeq' = disk /\ pc' = "top" /\ UNCHANGED why
     \/ /\ disk = Torn
        /\ why' = "unreadable" /\ UNCHANGED <<lastSeq, pc>>
  /\ UNCHANGED <<durableVars, facadeVars, recorded, signed, taken, dropped, accepted>>

\* Run returns: the process is gone, and with it what was in memory.
Exit(ending) ==
  /\ pc' = "down" /\ why' = ending

\* The process dies anywhere.  os.WriteFile truncates before it writes, so a
\* death inside saveState may leave the state file torn.
Crash ==
  /\ pc # "down"
  /\ Exit("crash")
  /\ dropped' = dropped + Len(batch)
  /\ Fresh /\ lastSeq' = 0
  /\ disk' \in IF pc = "save" THEN {disk, Torn} ELSE {disk}
  /\ UNCHANGED <<notices, facadeVars, recorded, signed, taken, accepted, life>>

\* The person or the system cancels the context of the running process.
Cancel ==
  /\ pc # "down" /\ ~ cancelled
  /\ cancelled' = TRUE
  /\ UNCHANGED <<pc, why, durableVars, lastSeq, queueVars, submitVars, batch, body,
                 loopVars, facadeVars, historyVars>>
-----------------------------------------------------------------------------
(* The top of the loop.                                                    *)

StopAtTop ==
  /\ pc = "top"
  /\ \/ cancelled /\ Exit("cancel")
     \/ ~ cancelled /\ MaxPolls > 0 /\ polls >= MaxPolls /\ Exit("limit")
  /\ UNCHANGED <<durableVars, lastSeq, queueVars, submitVars, batch, body, loopVars,
                 cancelled, facadeVars, historyVars>>

BeginRound ==
  /\ pc = "top" /\ ~ cancelled
  /\ MaxPolls = 0 \/ polls < MaxPolls
  /\ pc' = "submit" /\ todo' = answers /\ kept' = {}
  /\ UNCHANGED <<why, durableVars, lastSeq, queueVars, batch, body, loopVars,
                 cancelled, facadeVars, historyVars>>

\* record: an outcome joins the queue for the next poll.
Outcome(kind, seq, reason) ==
  [ id |-> Cardinality(recorded) + 1, life |-> life, seq |-> seq, reason |-> reason,
    kind |-> kind ]

Record(kind, seq, reason) ==
  LET o == Outcome(kind, seq, reason)
  IN  pending' = pending \cup {o} /\ recorded' = recorded \cup {o}

\* submit posts the queued submissions one by one, oldest first.
Oldest(s, S) == s \in S /\ \A u \in S : s.id <= u.id

PostTaken(s) ==
  /\ specs' = specs \cup {s}
  /\ Record("submission", 0, "none")
  /\ UNCHANGED kept

PostAnswerLost(s) ==
  /\ specs' = specs \cup {s}
  /\ kept' = kept \cup {s}
  /\ UNCHANGED <<pending, recorded>>

PostNotTaken(s) ==
  /\ kept' = kept \cup {s}
  /\ UNCHANGED <<specs, pending, recorded>>

PostSubmission(s) ==
  /\ pc = "submit" /\ Oldest(s, todo)
  /\ todo' = todo \ {s}
  /\ \/ ~ cancelled /\ PostTaken(s)
     \/ PostAnswerLost(s)
     \/ PostNotTaken(s)
  /\ UNCHANGED <<pc, why, durableVars, lastSeq, answers, signed, batch, body, loopVars,
                 cancelled, reported, historyVars>>

\* Bug: the queue is emptied whatever could not be posted.
EndSubmitForgetful ==
  /\ pc = "submit" /\ todo = {}
  /\ answers' = {} /\ kept' = {} /\ pc' = "poll"
  /\ UNCHANGED <<why, durableVars, lastSeq, pending, recorded, signed, todo, batch,
                 body, loopVars, cancelled, facadeVars, historyVars>>

\* The queue becomes what could not be posted.  (fetchNotes comes next; it
\* touches none of this state and is modelled in Session.)
EndSubmit ==
  /\ pc = "submit" /\ todo = {}
  /\ answers' = kept /\ kept' = {} /\ pc' = "poll"
  /\ UNCHANGED <<why, durableVars, lastSeq, pending, recorded, signed, todo, batch,
                 body, loopVars, cancelled, facadeVars, historyVars>>
-----------------------------------------------------------------------------
(* poll: the request carries every pending outcome and submission.         *)

\* Bug: the request leaves out the outcomes.
FacadeTakesAnswersOnly ==
  /\ UNCHANGED reported
  /\ specs' = specs \cup answers

FacadeTakesQueues ==
  /\ reported' = reported \cup pending
  /\ specs' = specs \cup answers

DrainQueues ==
  /\ FacadeTakesQueues
  /\ pending' = {} /\ answers' = {}
  /\ UNCHANGED <<recorded, signed>>

\* Bug: the queues are cleared before the status is looked at.
PollFailsDraining ==
  /\ pc = "poll"
  /\ FacadeTakesQueues \/ UNCHANGED facadeVars
  /\ pending' = {} /\ answers' = {}
  /\ pc' = "pause"
  /\ UNCHANGED <<why, durableVars, lastSeq, recorded, signed, submitVars, batch, body,
                 loopVars, cancelled, historyVars>>

\* No session, no route, a timeout or a status that is not 2xx: the queues stay.
\* The facade may have processed the request all the same.
PollFails ==
  /\ pc = "poll"
  /\ FacadeTakesQueues \/ UNCHANGED facadeVars
  /\ pc' = "pause"
  /\ UNCHANGED <<why, durableVars, lastSeq, queueVars, submitVars, batch, body,
                 loopVars, cancelled, historyVars>>

\* A 2xx whose body cannot be decoded, or that carries too many instructions:
\* the queues were drained before the body was looked at.
PollUnusable ==
  /\ pc = "poll" /\ ~ cancelled
  /\ DrainQueues
  /\ pc' = "pause"
  /\ UNCHANGED <<why, durableVars, lastSeq, submitVars, batch, body, loopVars,
                 cancelled, historyVars>>

\* Nothing for this terminal (204, or no instructions).
PollEmpty ==
  /\ pc = "poll" /\ ~ cancelled
  /\ DrainQueues
  /\ idle' = IF IdleExit > 0 THEN idle + 1 ELSE 0
  /\ IF IdleExit > 0 /\ idle' >= IdleExit THEN Exit("idle")
     ELSE pc' = "pause" /\ UNCHANGED why
  /\ UNCHANGED <<durableVars, lastSeq, submitVars, batch, body, polls, cancelled,
                 historyVars>>

\* Each instruction ends in an outcome and may add one for its submission: the
\* bound keeps room for both.
RoomFor(n) == Cardinality(recorded) + Cardinality(answers) + 2 * n <= MaxRecords

PollInstructions(b) ==
  /\ pc = "poll" /\ ~ cancelled
  /\ Len(b) > 0 /\ Len(b) <= MaxPollInstructions /\ RoomFor(Len(b))
  /\ DrainQueues
  /\ idle' = 0 /\ batch' = b /\ taken' = taken + Len(b)
  /\ pc' = "handle"
  /\ UNCHANGED <<why, durableVars, lastSeq, submitVars, body, polls, cancelled,
                 dropped, accepted, life>>
-----------------------------------------------------------------------------
(* handle: one instruction through the admission path.                     *)

\* The checks that come before the stored sequence number moves.
PreGateReason(e) ==
  IF ~ e.wellFormed                    THEN "malformed-frame"
  ELSE IF ~ e.authentic                THEN "bad-signature"
  ELSE IF ~ e.protocolV0               THEN "unsupported-protocol"
  ELSE IF ~ IsKnownCommand(e.command)  THEN "unknown-command"
  ELSE IF ~ IsFresh(lastSeq, e.seq)    THEN "stale-seq"
  ELSE                                      "none"

\* The head of the batch is finished with one outcome.
Settle(e, reason) ==
  /\ Record("instruction", IF e.wellFormed THEN e.seq ELSE 0, reason)
  /\ batch' = Tail(batch) /\ body' = NoBrief
  /\ pc' = "handle"
  /\ UNCHANGED signed

\* Bug: a replayed instruction is dropped without an outcome.
RefuseStaleSilently ==
  /\ pc = "handle" /\ batch # <<>>
  /\ PreGateReason(Head(batch)) # "none"
  /\ IF PreGateReason(Head(batch)) = "stale-seq"
     THEN batch' = Tail(batch) /\ UNCHANGED <<pc, pending, recorded, signed, body>>
     ELSE Settle(Head(batch), PreGateReason(Head(batch)))
  /\ UNCHANGED <<why, durableVars, lastSeq, answers, submitVars, loopVars, cancelled,
                 facadeVars, historyVars>>

RefuseUnseen ==
  /\ pc = "handle" /\ batch # <<>>
  /\ PreGateReason(Head(batch)) # "none"
  /\ Settle(Head(batch), PreGateReason(Head(batch)))
  /\ UNCHANGED <<why, durableVars, lastSeq, answers, submitVars, loopVars, cancelled,
                 facadeVars, historyVars>>

\* The frame has been seen: the sequence number moves before the gate decides.
See(e) ==
  /\ pc = "handle" /\ batch # <<>> /\ e = Head(batch)
  /\ PreGateReason(e) = "none"
  /\ lastSeq' = e.seq
  /\ accepted' = [ accepted EXCEPT ![e.seq] = @ + 1 ]

\* Consent is asked now, per act; whatever the person answers.
RefuseAtGate(consent) ==
  \E e \in Envelopes :
    /\ See(e)
    /\ Evaluate(e.command, Ceiling, consent, e.authentic) # "none"
    /\ Settle(e, Evaluate(e.command, Ceiling, consent, e.authentic))
    /\ UNCHANGED <<why, durableVars, answers, submitVars, loopVars, cancelled,
                   facadeVars, taken, dropped, life>>

\* Every admitted command but a delivery is settled at once and changes nothing.
Perform(consent) ==
  \E e \in Envelopes :
    /\ See(e)
    /\ Evaluate(e.command, Ceiling, consent, e.authentic) = "none"
    /\ e.command # DeliverArtifact
    /\ Settle(e, "none")
    /\ UNCHANGED <<why, durableVars, answers, submitVars, loopVars, cancelled,
                   facadeVars, taken, dropped, life>>

\* A delivery is quarantined first.  The act ends there when the notice cannot
\* be written, when no interviewer is configured or when the person is revoked.
Deliver(consent) ==
  \E e \in Envelopes :
    /\ See(e)
    /\ Evaluate(e.command, Ceiling, consent, e.authentic) = "none"
    /\ e.command = DeliverArtifact
    /\ \/ UNCHANGED notices /\ Settle(e, "none")
       \/ /\ notices' = notices \cup {e}
          /\ IF Interviewing /\ MayAct(Standing)
             THEN pc' = "credit" /\ UNCHANGED <<queueVars, batch, body>>
             ELSE Settle(e, "none")
    /\ UNCHANGED <<why, disk, answers, submitVars, loopVars, cancelled, facadeVars,
                   taken, dropped, life>>
-----------------------------------------------------------------------------
(* deliverBrief: credit, fetch, conduct, sign, in that order.              *)

\* A step of the delivery fails: the act failed, the outcome says so, and the
\* sequence number stays where it is.
DeliveryFails ==
  /\ pc \in {"credit", "fetch", "conduct"}
  /\ Settle(Head(batch), "none")
  /\ UNCHANGED <<why, durableVars, lastSeq, answers, submitVars, loopVars, cancelled,
                 facadeVars, historyVars>>

CreditGranted ==
  /\ pc = "credit" /\ ~ cancelled
  /\ pc' = "fetch"
  /\ UNCHANGED <<why, durableVars, lastSeq, queueVars, submitVars, batch, body, loopVars,
                 cancelled, facadeVars, historyVars>>

\* Bug: whatever body comes back is conducted.
BodyUnchecked(b, e) == b \in Briefs

\* The body is an ordinary unsigned GET, checked back against the signed frame.
BodyMatches(b, e) == b = e.brief

FetchBrief(b) ==
  /\ pc = "fetch" /\ ~ cancelled
  /\ BodyMatches(b, Head(batch))
  /\ body' = b /\ pc' = "conduct"
  /\ UNCHANGED <<why, durableVars, lastSeq, queueVars, submitVars, batch, loopVars,
                 cancelled, facadeVars, historyVars>>

\* The interview reports, the submission is signed and queued.
Conduct ==
  /\ pc = "conduct"
  /\ LET e == Head(batch)
         s == [ id |-> Cardinality(signed) + 1, life |-> life, seq |-> e.seq, brief |-> body ]
     IN  /\ answers' = answers \cup {s} /\ signed' = signed \cup {s}
         /\ Record("instruction", e.seq, "none")
         /\ batch' = Tail(batch) /\ body' = NoBrief /\ pc' = "handle"
  /\ UNCHANGED <<why, durableVars, lastSeq, submitVars, loopVars, cancelled,
                 facadeVars, historyVars>>
-----------------------------------------------------------------------------
(* The end of a round.                                                     *)

EndBatch ==
  /\ pc = "handle" /\ batch = <<>>
  /\ pc' = "save"
  /\ UNCHANGED <<why, durableVars, lastSeq, queueVars, submitVars, batch, body, loopVars,
                 cancelled, facadeVars, historyVars>>

\* saveState: a failure is logged and nothing else.  It may come before the file
\* is opened or after it was truncated.
SaveState ==
  /\ pc = "save"
  /\ disk' \in {lastSeq, disk, Torn}
  /\ pc' = "pause"
  /\ UNCHANGED <<why, notices, lastSeq, queueVars, submitVars, batch, body, loopVars,
                 cancelled, facadeVars, historyVars>>

\* sleepCtx, and the polls++ of the loop.
Pause ==
  /\ pc = "pause"
  /\ IF cancelled THEN Exit("cancel") /\ UNCHANGED polls
     ELSE /\ pc' = "top" /\ UNCHANGED why
          /\ polls' = IF MaxPolls > 0 THEN polls + 1 ELSE 0
  /\ UNCHANGED <<durableVars, lastSeq, queueVars, submitVars, batch, body, idle,
                 cancelled, facadeVars, historyVars>>
-----------------------------------------------------------------------------
Batches == UNION { [1 .. n -> Envelopes] : n \in 1 .. MaxPollInstructions }

HandleStep ==
  \/ RefuseUnseen
  \/ \E k \in Consents : RefuseAtGate(k) \/ Perform(k) \/ Deliver(k)
  \/ DeliveryFails
  \/ CreditGranted
  \/ \E b \in Briefs : FetchBrief(b)
  \/ Conduct

PollStep ==
  \/ PollFails
  \/ PollUnusable
  \/ PollEmpty
  \/ \E b \in Batches : PollInstructions(b)

\* What the one goroutine of Run does next.
RunStep ==
  \/ StopAtTop \/ BeginRound
  \/ \E s \in todo : PostSubmission(s)
  \/ EndSubmit
  \/ PollStep \/ HandleStep
  \/ EndBatch \/ SaveState \/ Pause

Next == Start \/ Crash \/ Cancel \/ RunStep

Spec == Init /\ [][Next]_vars

\* The process is scheduled, and a facade that is polled for ever answers some
\* poll: an assumption on the other end, not on this code.
FairSpec ==
  /\ Spec
  /\ WF_vars(RunStep)
  /\ SF_vars(PollEmpty \/ PollUnusable \/ \E b \in Batches : PollInstructions(b))
-----------------------------------------------------------------------------
TypeOK ==
  /\ pc \in Phases /\ why \in Endings
  /\ disk \in Seqs \cup {0, Torn}
  /\ notices \subseteq Envelopes
  /\ lastSeq \in Seqs \cup {0}
  /\ pending \subseteq recorded /\ reported \subseteq recorded
  /\ answers \subseteq signed /\ specs \subseteq signed
  /\ recorded \subseteq Outcomes /\ signed \subseteq Submissions
  /\ todo \subseteq answers /\ kept \subseteq answers
  /\ batch \in Seq(Envelopes)
  /\ body \in Briefs \cup {NoBrief}
  /\ polls \in Nat /\ idle \in Nat /\ taken \in Nat /\ dropped \in Nat
  /\ life \in 0 .. MaxLives
  /\ cancelled \in BOOLEAN
  /\ accepted \in [Seqs -> Nat]

Alive == pc # "down"

\* Custody: while the process lives, everything it recorded or signed is still
\* queued unless the facade holds it; no error path of submit or poll loses any.
Custody ==
  Alive => /\ \A o \in recorded : o.life = life => o \in pending \cup reported
           /\ \A s \in signed : s.life = life => s \in answers \cup specs

\* Every instruction taken from the facade is waiting to be handled, or has left
\* exactly one outcome, or was in hand when a process died: none is dropped
\* silently, whichever check or step refuses it.
OneOutcomeEach ==
  taken = Cardinality({ o \in recorded : o.kind = "instruction" }) + Len(batch) + dropped

\* What the terminal has done to the person's machine traces to an authentic
\* instruction inside the ceiling: each quarantined delivery, and behind each
\* signed submission a quarantined delivery that named the very brief it answers.
ActsTraceToFrames ==
  /\ \A e \in notices :
       /\ e.wellFormed /\ e.authentic /\ e.protocolV0
       /\ e.command = DeliverArtifact
       /\ Guarded => DeliverArtifact <= Ceiling
  /\ \A s \in signed :
       /\ MayAct(Standing)
       /\ \E e \in notices : e.seq = s.seq /\ e.brief = s.brief

\* One process passes a sequence number through freshness at most once, so over
\* several lives it passes at most once per life.
OncePerLife == \A s \in Seqs : accepted[s] <= life

\* A sequence number at or below the readable state file is never accepted again, in this
\* life or a later one, and no save, crash or restart takes the number in the file back.
AcceptsAboveDisk == \A s \in Seqs : accepted'[s] # accepted[s] => disk = Torn \/ disk < s
DiskKeepsUp == disk # Torn /\ disk' # Torn => disk <= disk'
NoReplayBelowDisk == [][ AcceptsAboveDisk /\ DiskKeepsUp ]_vars

\* What the process owes is an outbox in the sense of module Outbox.
Promise == INSTANCE Outbox WITH
  Items <- Outcomes \cup Submissions, alive <- Alive,
  held <- pending \cup answers, delivered <- reported \cup specs

OutboxSpec == Promise!Spec

\* An outcome that is queued reaches the facade, or the process ends first.
OutcomesReachTheFacade ==
  \A i \in 1 .. MaxRecords :
    (\E o \in pending : o.id = i /\ Alive)
      ~> (~ Alive \/ \E o \in reported : o.id = i)

\* README.md: a frame seen once must never be accepted twice.
AcceptedOnce == \A s \in Seqs : accepted[s] <= 1
=============================================================================
