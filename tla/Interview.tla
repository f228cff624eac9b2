----------------------------- MODULE Interview ------------------------------
(***************************************************************************)
(* internal/interview: one Session that conducts brief after brief through a *)
(* surface (console, glass or voice), over the ledger of internal/brief.      *)
(*                                                                         *)
(* Every line ghillie says goes through speak, so the lines it has decided    *)
(* to say are a queue here (say) and nothing else happens until they are      *)
(* said.  The person answers whenever they like, the surface may fail at any  *)
(* line or question, and the context may be cancelled at any moment: from     *)
(* then on every surface refuses to say or ask anything.                     *)
(***************************************************************************)
EXTENDS Conduct, Sequences, FiniteSets

CONSTANTS
  Order,        \* the item ids of a brief, in the order the factory listed them
  Faults,       \* the surface may fail even though nothing was cancelled
  MaxConducts   \* bound of the model: briefs conducted by one session

Items == { Order[k] : k \in DOMAIN Order }

\* brief.validate: at least one item, ids positive and not repeated.
ASSUME InterviewAssumption ==
  /\ Order \in Seq(Nat \ {0})
  /\ Len(Order) > 0
  /\ \A j, k \in DOMAIN Order : Order[j] = Order[k] => j = k
  /\ Faults \in BOOLEAN
  /\ MaxConducts \in Nat

VARIABLES
  pc,          \* where Conduct is; "idle" between two briefs
  turn,        \* Session.turn; it survives from one brief to the next
  say,         \* the lines speak has still to say, in order
  at,          \* position in Order of the item being conducted
  states,      \* brief.State.states
  attempts,    \* brief.State.attempts
  replies,     \* brief.State.replies: what kind of words are kept for an item
  cancelled,   \* the context is cancelled
  result,      \* what the last Conduct returned
  letLie,      \* history: items the person was told ghillie leaves
  cutShort,    \* history: the items were left because of the cancellation
  conducts     \* history: briefs begun

vars == <<pc, turn, say, at, states, attempts, replies, cancelled, result, letLie,
          cutShort, conducts>>

ledgerVars  == <<states, attempts, replies>>
historyVars == <<letLie, cutShort, conducts>>

Lines == { "right", "disclosure", "again", "leaving", "board", "not got", "away" }
Phases == { "idle", "invited", "next", "put", "ready", "asked", "closing", "report" }
Results == { "none", "not started", "answers", "surface", "violation" }

\* What the person says: nothing, words, or a question about the machinery.
Utterances == { "silence", "words", "question" }
HasSubstance(u) == u # "silence"
IsDisclosure(u) == u = "question"
-----------------------------------------------------------------------------
\* brief.NewState: the ledger of a brief of which nothing was asked yet.
NewStates   == [ i \in Items |-> "Unasked" ]
NewAttempts == [ i \in Items |-> 0 ]
NewReplies  == [ i \in Items |-> "none" ]

Init ==
  /\ pc = "idle" /\ turn = "Listening" /\ say = <<>> /\ at = 1
  /\ states = NewStates /\ attempts = NewAttempts /\ replies = NewReplies
  /\ cancelled = FALSE /\ result = "none"
  /\ letLie = {} /\ cutShort = FALSE /\ conducts = 0

Cancel ==
  /\ ~ cancelled /\ cancelled' = TRUE
  /\ UNCHANGED <<pc, turn, say, at, ledgerVars, result, historyVars>>

\* Conduct returns.
Return(r) == pc' = "idle" /\ result' = r /\ say' = <<>>

\* The person has finished, the reply is ready: where ghillie may speak from.
Floor == AdvanceTurn(AdvanceTurn(turn, "PersonFinished"), "ReplyReady")

\* A surface call that comes back with an error.
SurfaceFails == cancelled \/ Faults

\* An interview that never started is an error.
RefuseToStart ==
  /\ pc = "idle" /\ conducts < MaxConducts /\ cancelled
  /\ Return("not started") /\ conducts' = conducts + 1
  /\ UNCHANGED <<turn, at, ledgerVars, cancelled, letLie, cutShort>>

\* Conduct begins: a new ledger, and one quiet notice the person must answer.
Begin ==
  /\ pc = "idle" /\ conducts < MaxConducts /\ ~ cancelled
  /\ states' = NewStates /\ attempts' = NewAttempts /\ replies' = NewReplies
  /\ at' = 1 /\ turn' = Floor
  /\ letLie' = {} /\ cutShort' = FALSE /\ conducts' = conducts + 1
  /\ IF MaySpeak(Floor) THEN pc' = "invited" /\ result' = "none" /\ UNCHANGED say
     ELSE Return("violation")
  /\ UNCHANGED cancelled

\* The person speaks, whatever they say: that is the request to begin.
Invited ==
  /\ pc = "invited"
  /\ turn' = AdvanceTurn(turn, "ReplyComplete")
  /\ pc' = "next"
  /\ UNCHANGED <<say, at, ledgerVars, cancelled, result, historyVars>>

\* The notice or the question does not come back from the surface.
AskFails ==
  /\ pc \in {"invited", "asked"} /\ SurfaceFails
  /\ Return("surface")
  /\ UNCHANGED <<turn, at, ledgerVars, cancelled, historyVars>>
-----------------------------------------------------------------------------
(* speak: one line through the turn machine.                               *)

Silent == say = <<>>

\* "Leaving that one." is said of the item before the current position.
SayLine ==
  /\ ~ Silent /\ MaySpeak(Floor) /\ ~ cancelled
  /\ turn' = AdvanceTurn(Floor, "ReplyComplete")
  /\ say' = Tail(say)
  /\ letLie' = IF Head(say) = "leaving" THEN letLie \cup {Order[at - 1]} ELSE letLie
  /\ UNCHANGED <<pc, at, ledgerVars, cancelled, result, cutShort, conducts>>

\* The line cannot be said; ghillie had already taken its turn.
SayFails ==
  /\ ~ Silent
  /\ turn' = Floor
  /\ \/ ~ MaySpeak(Floor) /\ Return("violation")
     \/ MaySpeak(Floor) /\ SurfaceFails /\ Return("surface")
  /\ UNCHANGED <<at, ledgerVars, cancelled, historyVars>>
-----------------------------------------------------------------------------
(* The loop over the items, and the loop over the puts of one item.        *)

Current == Order[at]
Decision == Decide(attempts[Current], states[Current])

NextItem ==
  /\ pc = "next" /\ Silent
  /\ cutShort' = IF at <= Len(Order) /\ cancelled THEN TRUE ELSE cutShort
  /\ pc' = IF at <= Len(Order) /\ ~ cancelled THEN "put" ELSE "closing"
  /\ UNCHANGED <<turn, say, at, ledgerVars, cancelled, result, letLie, conducts>>

\* put returns without a word: cancelled, or the answer is already there.
LeaveItem ==
  /\ pc = "put" /\ Silent
  /\ cancelled \/ Decision = "AlreadyHaveIt"
  /\ pc' = "next" /\ at' = at + 1 /\ cutShort' = IF cancelled THEN TRUE ELSE cutShort
  /\ UNCHANGED <<turn, say, ledgerVars, cancelled, result, letLie, conducts>>

\* Bug: an item is let lie without telling the person.
LetItLieSilently ==
  /\ pc = "put" /\ Silent /\ ~ cancelled
  /\ Decision = "LetItLie"
  /\ pc' = "next" /\ at' = at + 1
  /\ UNCHANGED <<turn, say, ledgerVars, cancelled, result, historyVars>>

\* Letting an item lie is said out loud before the next item begins.
LetItLie ==
  /\ pc = "put" /\ Silent /\ ~ cancelled
  /\ Decision = "LetItLie"
  /\ say' = <<"leaving">>
  /\ pc' = "next" /\ at' = at + 1
  /\ UNCHANGED <<turn, ledgerVars, cancelled, result, historyVars>>

\* A put after the first is announced as such.
AskAgain ==
  /\ pc = "put" /\ Silent /\ ~ cancelled
  /\ Decision = "AskAgain"
  /\ say' = IF attempts[Current] > 0 THEN <<"again">> ELSE <<>>
  /\ pc' = "ready"
  /\ UNCHANGED <<turn, at, ledgerVars, cancelled, result, historyVars>>

\* Bug: the put is not counted.
PutOnceUncounted ==
  /\ pc = "ready" /\ Silent
  /\ turn' = Floor
  /\ states' = [ states EXCEPT ![Current] = AdvanceQuestion(@, "Ask") ]
  /\ IF cancelled THEN Return("surface")
     ELSE pc' = "asked" /\ UNCHANGED <<say, result>>
  /\ UNCHANGED <<at, attempts, replies, cancelled, historyVars>>

\* putOnce: the put is on the ledger before the question leaves.
PutOnce ==
  /\ pc = "ready" /\ Silent
  /\ turn' = Floor
  /\ IF MaySpeak(Floor)
     THEN /\ states' = [ states EXCEPT ![Current] = AdvanceQuestion(@, "Ask") ]
          /\ attempts' = [ attempts EXCEPT ![Current] = @ + 1 ]
          /\ IF cancelled THEN Return("surface")
             ELSE pc' = "asked" /\ UNCHANGED <<say, result>>
     ELSE Return("violation") /\ UNCHANGED <<states, attempts>>
  /\ UNCHANGED <<at, replies, cancelled, historyVars>>

\* The person let the question finish.  A question about the machinery is
\* answered and leaves the item asked; anything else goes to the ledger.
Replied(u) ==
  /\ pc = "asked"
  /\ turn' = AdvanceTurn(turn, "ReplyComplete")
  /\ IF IsDisclosure(u)
     THEN say' = <<"disclosure">> /\ UNCHANGED <<states, replies>>
     ELSE /\ states' = [ states EXCEPT ![Current] = AdvanceOnReply(@, HasSubstance(u)) ]
          /\ replies' = IF HasSubstance(u) THEN [ replies EXCEPT ![Current] = "answer" ]
                        ELSE replies
          /\ UNCHANGED say
  /\ pc' = "put"
  /\ UNCHANGED <<at, attempts, cancelled, result, historyVars>>

\* The person cut ghillie off: the floor is theirs, the item is interrupted,
\* and what they said instead is kept but answers nothing.
CutOff(u) ==
  /\ pc = "asked"
  /\ turn' = AdvanceTurn(turn, "CutOff")
  /\ IF MaySpeak(turn')
     THEN Return("violation") /\ UNCHANGED <<states, replies>>
     ELSE /\ states' = [ states EXCEPT ![Current] = AdvanceQuestion(@, "CutOff") ]
          /\ replies' = IF HasSubstance(u) THEN [ replies EXCEPT ![Current] = "interjection" ]
                        ELSE replies
          /\ IF IsGot(states'[Current]) THEN Return("violation")
             ELSE /\ pc' = "put" /\ UNCHANGED result
                  /\ say' = IF IsDisclosure(u)       THEN <<"right", "disclosure">>
                            ELSE IF HasSubstance(u) THEN <<"right">>
                            ELSE                         <<>>
  /\ UNCHANGED <<at, attempts, cancelled, historyVars>>
-----------------------------------------------------------------------------
Outstanding == { i \in Items : ~ IsGot(states[i]) }

Close ==
  /\ pc = "closing" /\ Silent
  /\ say' = IF Outstanding = {} THEN <<"board", "away">> ELSE <<"board", "not got", "away">>
  /\ pc' = "report"
  /\ UNCHANGED <<turn, at, ledgerVars, cancelled, result, historyVars>>

\* The ledger as it stands leaves the machine, one answer per item.
Report ==
  /\ pc = "report" /\ Silent
  /\ Return(IF \E i \in Items : IsGot(states[i]) # MayMoveOn(states[i])
            THEN "violation" ELSE "answers")
  /\ UNCHANGED <<turn, at, ledgerVars, cancelled, historyVars>>

SessionStep ==
  \/ RefuseToStart \/ Begin \/ SayLine \/ SayFails
  \/ NextItem \/ LeaveItem \/ LetItLie \/ AskAgain \/ PutOnce
  \/ Close \/ Report

PersonStep == Invited \/ AskFails \/ \E u \in Utterances : Replied(u) \/ CutOff(u)

Next == SessionStep \/ PersonStep \/ Cancel

Spec == Init /\ [][Next]_vars

\* The session's goroutine is scheduled, and the person (or the surface) comes
\* back from every question: there is no deadline in the code, so this is an
\* assumption on the person.
FairSpec == Spec /\ WF_vars(SessionStep) /\ WF_vars(PersonStep)
-----------------------------------------------------------------------------
\* Every variable has its type; in particular no item is put more often than the
\* compiled-in bound, whatever the person says or leaves unsaid.
TypeOK ==
  /\ pc \in Phases /\ turn \in TurnStates
  /\ say \in Seq(Lines)
  /\ at \in 1 .. Len(Order) + 1
  /\ states \in [Items -> QuestionStates]
  /\ attempts \in [Items -> 0 .. MaxAttempts]
  /\ replies \in [Items -> {"none", "interjection", "answer"}]
  /\ cancelled \in BOOLEAN /\ cutShort \in BOOLEAN
  /\ result \in Results
  /\ letLie \subseteq Items
  /\ conducts \in 0 .. MaxConducts

\* None of the ledger-violation errors of invite, speak, putOnce, settleInterrupted
\* and report can be returned, although the turn of a session survives every brief,
\* surface failure and cancellation.
NeverLedgerViolation == result # "violation"

\* The items are conducted one after another in the factory's order: what is behind
\* was got or put as often as the bound allows (unless the interview was cancelled),
\* what is ahead was not put at all.
InOrder ==
  \A k \in DOMAIN Order :
    /\ k < at => \/ IsGot(states[Order[k]]) \/ attempts[Order[k]] = MaxAttempts
                 \/ cancelled
    /\ k > at => attempts[Order[k]] = 0

\* An item counts as answered exactly when words that were an answer are kept for
\* it: silence, an interjection and a question about the machinery never answer.
AnsweredHasWords ==
  \A i \in Items : IsGot(states[i]) <=> replies[i] = "answer"

\* When the answers are returned and the interview was not cut short, the person
\* was told of every item that leaves without an answer, and of no other.
LetLieIsSaid ==
  pc = "idle" /\ result = "answers" /\ ~ cutShort => letLie = Outstanding

\* Words are an answer or they are not, and the ledger tells them apart: no silence,
\* interjection or question about the machinery makes an item answered.  Within one
\* brief an answer stands: the item stays answered, keeps its words and is not put again.
AnswerStands ==
  /\ \A i \in Items : IsGot(states'[i]) <=> replies'[i] = "answer"
  /\ conducts' = conducts =>
       \A i \in Items : IsGot(states[i]) =>
         /\ IsGot(states'[i]) /\ replies'[i] = replies[i] /\ attempts'[i] = attempts[i]
AnswersStand == [][AnswerStands]_vars

\* Every brief that is begun comes to an end: the attempt bound, the closing turn
\* and the error paths leave no way to go on for ever.
ConductTerminates == pc # "idle" ~> pc = "idle"

\* interview.go: an interview that started and was cut short still reports what it
\* got, because answers already given must not be thrown away.
CutShortStillReports ==
  pc = "idle" /\ cutShort /\ (\E i \in Items : IsGot(states[i])) => result = "answers"
=============================================================================
