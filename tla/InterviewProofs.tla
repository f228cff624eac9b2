-------------------------- MODULE InterviewProofs ---------------------------
(***************************************************************************)
(* Proofs about Interview, for every brief, every attempt bound and every    *)
(* number of briefs conducted by one session.                               *)
(*                                                                         *)
(* The inductive invariant IInv adds to the checked invariants where the     *)
(* session stands when it is about to put an item, has put it, or has lines   *)
(* left to say.                                                            *)
(***************************************************************************)
EXTENDS Interview, TLAPS

-----------------------------------------------------------------------------
(* Lemmas about the decision cores.                                        *)

\* Whatever the turn a session was left in by an earlier failure, ghillie may
\* speak after "the person has finished, the reply is ready".
LEMMA FloorSpeaks ==
  ASSUME turn \in TurnStates
  PROVE  /\ Floor = "Speaking"
         /\ MaySpeak(Floor)
  BY DEF TurnStates, Floor, AdvanceTurn, MaySpeak

\* The turn machine is closed, and an interruption yields from anywhere.
LEMMA TurnsClosed ==
  ASSUME NEW t \in TurnStates, NEW event \in TurnEvents
  PROVE  /\ AdvanceTurn(t, event) \in TurnStates
         /\ AdvanceTurn(t, "CutOff") = "Listening"
         /\ ~ MaySpeak(AdvanceTurn(t, "CutOff"))
  BY DEF TurnStates, TurnEvents, AdvanceTurn, MaySpeak

\* The ledger is closed; an answer is final, asking an item that is not answered
\* leaves it asked, and being cut off never answers.
LEMMA LedgerSteps ==
  ASSUME NEW q \in QuestionStates
  PROVE  /\ \A event \in LedgerEvents : AdvanceQuestion(q, event) \in QuestionStates
         /\ \A event \in LedgerEvents : IsGot(q) => IsGot(AdvanceQuestion(q, event))
         /\ ~ IsGot(q) => AdvanceQuestion(q, "Ask") = "Asked"
         /\ q = "Asked" => AdvanceQuestion(q, "CutOff") = "Interrupted"
         /\ AdvanceOnReply(q, TRUE) = "Answered"
         /\ AdvanceOnReply(q, FALSE) = q
  BY DEF QuestionStates, LedgerEvents, AdvanceQuestion, AdvanceOnReply, IsGot

\* Letting an item lie means that it is not got and that the bound is reached;
\* asking again means that it is not got and that the bound is not reached.
LEMMA Decisions ==
  ASSUME NEW n \in Nat, NEW q \in QuestionStates
  PROVE  /\ Decide(n, q) = "AlreadyHaveIt" <=> IsGot(q)
         /\ Decide(n, q) = "LetItLie" => ~ IsGot(q) /\ n >= MaxAttempts
         /\ Decide(n, q) = "AskAgain" => ~ IsGot(q) /\ n < MaxAttempts
  BY AttemptsAssumption DEF Decide, IsGot

-----------------------------------------------------------------------------
(* The inductive invariant.                                                *)

\* There is an item to put whenever one is being put.
AtItem == pc \in {"put", "ready", "asked"} => at <= Len(Order)

\* A put is licensed until it is made.
Licensed ==
  pc = "ready" => attempts[Current] < MaxAttempts /\ ~ IsGot(states[Current])

\* The item whose question is out is asked.
QuestionOut == pc = "asked" => states[Current] = "Asked"

\* Nothing is left to say between two briefs, and an item is let lie from behind.
LinesToSay ==
  /\ pc \in {"idle", "invited", "asked"} => say = <<>>
  /\ \A k \in 1 .. Len(say) : say[k] = "leaving" => at > 1

IInv ==
  /\ TypeOK /\ AtItem /\ Licensed /\ QuestionOut /\ LinesToSay
  /\ NeverLedgerViolation /\ InOrder /\ AnsweredHasWords

-----------------------------------------------------------------------------
(* Facts about the brief.                                                  *)

\* A position in the brief names an item, and no two positions the same one.
LEMMA BriefFacts ==
  /\ Len(Order) \in Nat \ {0}
  /\ DOMAIN Order = 1 .. Len(Order)
  /\ \A k \in 1 .. Len(Order) : Order[k] \in Items
  /\ \A j, k \in 1 .. Len(Order) : Order[j] = Order[k] => j = k
  /\ MaxConducts \in Nat
  BY InterviewAssumption DEF Items

-----------------------------------------------------------------------------
(* What a step that leaves the relevant variables alone preserves.          *)

\* The types, apart from the flags, which need a prover of their own.
TypeOfSession ==
  pc \in Phases /\ turn \in TurnStates /\ say \in Seq(Lines) /\ result \in Results

TypeOfLedger ==
  /\ states \in [Items -> QuestionStates]
  /\ attempts \in [Items -> 0 .. MaxAttempts]
  /\ replies \in [Items -> {"none", "interjection", "answer"}]

TypeOfProgress ==
  at \in 1 .. Len(Order) + 1 /\ letLie \subseteq Items /\ conducts \in 0 .. MaxConducts

TypeOfData == TypeOfSession /\ TypeOfLedger /\ TypeOfProgress

TypeOfFlags == cancelled \in BOOLEAN /\ cutShort \in BOOLEAN

\* The two halves of the type invariant, now and after a step.
LEMMA TypeHalves ==
  /\ TypeOK <=> TypeOfData /\ TypeOfFlags
  /\ TypeOK' <=> TypeOfData' /\ TypeOfFlags'
  BY DEF TypeOK, TypeOfData, TypeOfSession, TypeOfLedger, TypeOfProgress, TypeOfFlags

\* The queues of lines that speak is given.
LEMMA SayTypes ==
  /\ <<>> \in Seq(Lines)
  /\ \A a \in Lines : <<a>> \in Seq(Lines)
  /\ \A a, b \in Lines : <<a, b>> \in Seq(Lines)
  /\ \A a, b, c \in Lines : <<a, b, c>> \in Seq(Lines)
  /\ \A s \in Seq(Lines) : s # <<>> => Tail(s) \in Seq(Lines)
  OBVIOUS

\* InOrder speaks of the position, the ledger and the cancellation only.
LEMMA InOrderFrame ==
  ASSUME InOrder, UNCHANGED <<at, states, attempts, cancelled>>
  PROVE  InOrder'
  BY DEF InOrder

\* AnsweredHasWords speaks of the ledger only.
LEMMA WordsFrame ==
  ASSUME AnsweredHasWords, UNCHANGED <<states, replies>>
  PROVE  AnsweredHasWords'
  BY DEF AnsweredHasWords

\* Whenever an item is being put, the ledger has a line for it.
LEMMA CurrentItem ==
  ASSUME TypeOfData, AtItem, pc \in {"put", "ready", "asked"}
  PROVE  /\ at \in 1 .. Len(Order)
         /\ Current \in Items
         /\ states[Current] \in QuestionStates
         /\ attempts[Current] \in 0 .. MaxAttempts
  BY BriefFacts, AttemptsAssumption
  DEF TypeOfData, TypeOfLedger, TypeOfProgress, AtItem, Current

-----------------------------------------------------------------------------
(* Invariance.                                                             *)

\* No brief was begun: the invariant holds.
LEMMA InitIInv == Init => IInv
  <1> SUFFICES ASSUME Init PROVE IInv
    OBVIOUS
  <1>1. TypeOfData
    BY BriefFacts, AttemptsAssumption
    DEF Init, TypeOfData, TypeOfSession, TypeOfLedger, TypeOfProgress, Phases, TurnStates, Results, QuestionStates, NewStates, NewAttempts, NewReplies
  <1>2. TypeOfFlags
    BY DEF Init, TypeOfFlags
  <1>3. AtItem /\ Licensed /\ QuestionOut /\ LinesToSay /\ NeverLedgerViolation
    BY DEF Init, AtItem, Licensed, QuestionOut, LinesToSay, NeverLedgerViolation
  <1>4. InOrder
    BY BriefFacts DEF Init, InOrder, NewAttempts
  <1>5. AnsweredHasWords
    BY DEF Init, AnsweredHasWords, NewStates, NewReplies, IsGot
  <1> QED
    BY <1>1, <1>2, <1>3, <1>4, <1>5, TypeHalves DEF IInv

\* Every step of the session, the person and the context preserves the invariant.
LEMMA StepIInv == IInv /\ [Next]_vars => IInv'
  <1> SUFFICES ASSUME IInv, [Next]_vars PROVE IInv'
    OBVIOUS
  <1> USE TypeHalves DEF IInv
  <1>1. CASE RefuseToStart
    <2>1. TypeOfData'
      <3>1. TypeOfSession'
        BY <1>1, SayTypes DEF RefuseToStart, Return, TypeOfData, TypeOfSession, Phases, Results
      <3>2. TypeOfLedger'
        BY <1>1 DEF RefuseToStart, TypeOfData, TypeOfLedger, ledgerVars
      <3>3. TypeOfProgress'
        <4>1. /\ at' = at /\ letLie' = letLie
              /\ conducts < MaxConducts /\ conducts' = conducts + 1
          BY <1>1, Zenon DEF RefuseToStart
        <4> QED
          BY <4>1, BriefFacts DEF TypeOfData, TypeOfProgress
      <3> QED
        BY <3>1, <3>2, <3>3 DEF TypeOfData
    <2>2. TypeOfFlags'
      BY <1>1 DEF RefuseToStart, TypeOfFlags, historyVars
    <2>3. AtItem' /\ Licensed' /\ QuestionOut'
      BY <1>1 DEF RefuseToStart, Return, TypeOfData, TypeOfSession, TypeOfLedger, TypeOfProgress, AtItem, Licensed, QuestionOut, Current, ledgerVars
    <2>4. LinesToSay'
      BY <1>1 DEF RefuseToStart, Return, TypeOfData, TypeOfSession, TypeOfProgress, LinesToSay
    <2>5. NeverLedgerViolation'
      BY <1>1 DEF RefuseToStart, Return, TypeOfData, TypeOfSession, NeverLedgerViolation
    <2>6. InOrder'
      BY <1>1, InOrderFrame DEF RefuseToStart, ledgerVars
    <2>7. AnsweredHasWords'
      BY <1>1, WordsFrame DEF RefuseToStart, ledgerVars
    <2> QED
      BY <2>1, <2>2, <2>3, <2>4, <2>5, <2>6, <2>7
  <1>2. CASE Begin
    <2>1. TypeOfData'
      <3>1. TypeOfSession'
        BY <1>2, SayTypes, FloorSpeaks DEF Begin, Return, NewStates, NewAttempts, NewReplies, TypeOfData, TypeOfSession, Phases, Results, QuestionStates, TurnStates
      <3>2. TypeOfLedger'
        BY <1>2, BriefFacts, AttemptsAssumption, FloorSpeaks DEF Begin, Return, NewStates, NewAttempts, NewReplies, TypeOfData, TypeOfLedger, TypeOfSession, TypeOfProgress, AtItem, Licensed, QuestionStates, TurnStates
      <3>3. TypeOfProgress'
        BY <1>2, BriefFacts DEF Begin, TypeOfData, TypeOfProgress, historyVars, AtItem
      <3> QED
        BY <3>1, <3>2, <3>3 DEF TypeOfData
    <2>2. TypeOfFlags'
      BY <1>2 DEF Begin, TypeOfFlags, historyVars
    <2>3. AtItem' /\ Licensed' /\ QuestionOut'
      BY <1>2, FloorSpeaks DEF Begin, Return, NewStates, NewAttempts, NewReplies, TypeOfData, TypeOfSession, TypeOfLedger, TypeOfProgress, AtItem, Licensed, QuestionOut, Current, ledgerVars
    <2>4. LinesToSay'
      BY <1>2, FloorSpeaks DEF Begin, Return, NewStates, NewAttempts, NewReplies, TypeOfData, TypeOfSession, TypeOfProgress, LinesToSay
    <2>5. NeverLedgerViolation'
      BY <1>2, FloorSpeaks DEF Begin, Return, NewStates, NewAttempts, NewReplies, TypeOfData, TypeOfSession, NeverLedgerViolation
    <2>6. InOrder'
      BY <1>2, BriefFacts DEF Begin, InOrder, NewAttempts
    <2>7. AnsweredHasWords'
      BY <1>2 DEF Begin, AnsweredHasWords, NewStates, NewReplies, IsGot
    <2> QED
      BY <2>1, <2>2, <2>3, <2>4, <2>5, <2>6, <2>7
  <1>3. CASE Invited
    <2>1. TypeOfData'
      <3>1. TypeOfSession'
        BY <1>3, SayTypes, TurnsClosed DEF Invited, TypeOfData, TypeOfSession, Phases, Results, TurnEvents
      <3>2. TypeOfLedger'
        BY <1>3 DEF Invited, TypeOfData, TypeOfLedger, ledgerVars
      <3>3. TypeOfProgress'
        BY <1>3, BriefFacts DEF Invited, TypeOfData, TypeOfProgress, historyVars, AtItem
      <3> QED
        BY <3>1, <3>2, <3>3 DEF TypeOfData
    <2>2. TypeOfFlags'
      BY <1>3 DEF Invited, TypeOfFlags, historyVars
    <2>3. AtItem' /\ Licensed' /\ QuestionOut'
      BY <1>3, TurnsClosed DEF Invited, TypeOfData, TypeOfSession, TypeOfLedger, TypeOfProgress, AtItem, Licensed, QuestionOut, Current, ledgerVars
    <2>4. LinesToSay'
      BY <1>3, TurnsClosed DEF Invited, TypeOfData, TypeOfSession, TypeOfProgress, LinesToSay
    <2>5. NeverLedgerViolation'
      BY <1>3, TurnsClosed DEF Invited, TypeOfData, TypeOfSession, NeverLedgerViolation
    <2>6. InOrder'
      BY <1>3, InOrderFrame DEF Invited, ledgerVars
    <2>7. AnsweredHasWords'
      BY <1>3, WordsFrame DEF Invited, ledgerVars
    <2> QED
      BY <2>1, <2>2, <2>3, <2>4, <2>5, <2>6, <2>7
  <1>4. CASE AskFails
    <2>1. TypeOfData'
      <3>1. TypeOfSession'
        BY <1>4, SayTypes DEF AskFails, Return, TypeOfData, TypeOfSession, Phases, Results
      <3>2. TypeOfLedger'
        BY <1>4 DEF AskFails, TypeOfData, TypeOfLedger, ledgerVars
      <3>3. TypeOfProgress'
        BY <1>4, BriefFacts DEF AskFails, TypeOfData, TypeOfProgress, historyVars, AtItem
      <3> QED
        BY <3>1, <3>2, <3>3 DEF TypeOfData
    <2>2. TypeOfFlags'
      BY <1>4 DEF AskFails, TypeOfFlags, historyVars
    <2>3. AtItem' /\ Licensed' /\ QuestionOut'
      BY <1>4 DEF AskFails, Return, TypeOfData, TypeOfSession, TypeOfLedger, TypeOfProgress, AtItem, Licensed, QuestionOut, Current, ledgerVars
    <2>4. LinesToSay'
      BY <1>4 DEF AskFails, Return, TypeOfData, TypeOfSession, TypeOfProgress, LinesToSay
    <2>5. NeverLedgerViolation'
      BY <1>4 DEF AskFails, Return, TypeOfData, TypeOfSession, NeverLedgerViolation
    <2>6. InOrder'
      BY <1>4, InOrderFrame DEF AskFails, ledgerVars
    <2>7. AnsweredHasWords'
      BY <1>4, WordsFrame DEF AskFails, ledgerVars
    <2> QED
      BY <2>1, <2>2, <2>3, <2>4, <2>5, <2>6, <2>7
  <1>5. CASE SayLine
    <2>1. TypeOfData'
      <3>1. TypeOfSession'
        BY <1>5, SayTypes, FloorSpeaks, TurnsClosed DEF SayLine, Silent, TypeOfData, TypeOfSession, Phases, Results, TurnEvents, AdvanceTurn, TurnStates
      <3>2. TypeOfLedger'
        BY <1>5 DEF SayLine, TypeOfData, TypeOfLedger, ledgerVars
      <3>3. TypeOfProgress'
        BY <1>5, BriefFacts DEF SayLine, Silent, TypeOfData, TypeOfSession, TypeOfProgress, LinesToSay
      <3> QED
        BY <3>1, <3>2, <3>3 DEF TypeOfData
    <2>2. TypeOfFlags'
      BY <1>5 DEF SayLine, TypeOfFlags, historyVars
    <2>3. AtItem' /\ Licensed' /\ QuestionOut'
      BY <1>5, FloorSpeaks, TurnsClosed DEF SayLine, Silent, TypeOfData, TypeOfSession, TypeOfLedger, TypeOfProgress, AtItem, Licensed, QuestionOut, Current, ledgerVars
    <2>4. LinesToSay'
      BY <1>5, FloorSpeaks, TurnsClosed DEF SayLine, Silent, TypeOfData, TypeOfSession, TypeOfProgress, LinesToSay
    <2>5. NeverLedgerViolation'
      BY <1>5, FloorSpeaks, TurnsClosed DEF SayLine, Silent, TypeOfData, TypeOfSession, NeverLedgerViolation
    <2>6. InOrder'
      BY <1>5, InOrderFrame DEF SayLine, ledgerVars
    <2>7. AnsweredHasWords'
      BY <1>5, WordsFrame DEF SayLine, ledgerVars
    <2> QED
      BY <2>1, <2>2, <2>3, <2>4, <2>5, <2>6, <2>7
  <1>6. CASE SayFails
    <2>1. TypeOfData'
      <3>1. TypeOfSession'
        BY <1>6, SayTypes, FloorSpeaks DEF SayFails, Return, Silent, TypeOfData, TypeOfSession, Phases, Results, TurnStates
      <3>2. TypeOfLedger'
        BY <1>6 DEF SayFails, TypeOfData, TypeOfLedger, ledgerVars
      <3>3. TypeOfProgress'
        BY <1>6, BriefFacts DEF SayFails, TypeOfData, TypeOfProgress, historyVars, AtItem
      <3> QED
        BY <3>1, <3>2, <3>3 DEF TypeOfData
    <2>2. TypeOfFlags'
      BY <1>6 DEF SayFails, TypeOfFlags, historyVars
    <2>3. AtItem' /\ Licensed' /\ QuestionOut'
      BY <1>6, FloorSpeaks DEF SayFails, Return, Silent, TypeOfData, TypeOfSession, TypeOfLedger, TypeOfProgress, AtItem, Licensed, QuestionOut, Current, ledgerVars
    <2>4. LinesToSay'
      BY <1>6, FloorSpeaks DEF SayFails, Return, Silent, TypeOfData, TypeOfSession, TypeOfProgress, LinesToSay
    <2>5. NeverLedgerViolation'
      BY <1>6, FloorSpeaks DEF SayFails, Return, Silent, TypeOfData, TypeOfSession, NeverLedgerViolation
    <2>6. InOrder'
      BY <1>6, InOrderFrame DEF SayFails, ledgerVars
    <2>7. AnsweredHasWords'
      BY <1>6, WordsFrame DEF SayFails, ledgerVars
    <2> QED
      BY <2>1, <2>2, <2>3, <2>4, <2>5, <2>6, <2>7
  <1>7. CASE NextItem
    <2>1. TypeOfData'
      <3>1. TypeOfSession'
        BY <1>7, SayTypes DEF NextItem, Silent, TypeOfData, TypeOfSession, Phases, Results
      <3>2. TypeOfLedger'
        BY <1>7 DEF NextItem, TypeOfData, TypeOfLedger, ledgerVars
      <3>3. TypeOfProgress'
        BY <1>7, BriefFacts DEF NextItem, TypeOfData, TypeOfProgress, historyVars, AtItem
      <3> QED
        BY <3>1, <3>2, <3>3 DEF TypeOfData
    <2>2. TypeOfFlags'
      BY <1>7 DEF NextItem, TypeOfFlags, historyVars
    <2>3. AtItem' /\ Licensed' /\ QuestionOut'
      BY <1>7 DEF NextItem, Silent, TypeOfData, TypeOfSession, TypeOfLedger, TypeOfProgress, AtItem, Licensed, QuestionOut, Current, ledgerVars
    <2>4. LinesToSay'
      BY <1>7 DEF NextItem, Silent, TypeOfData, TypeOfSession, TypeOfProgress, LinesToSay
    <2>5. NeverLedgerViolation'
      BY <1>7 DEF NextItem, Silent, TypeOfData, TypeOfSession, NeverLedgerViolation
    <2>6. InOrder'
      BY <1>7, InOrderFrame DEF NextItem, ledgerVars
    <2>7. AnsweredHasWords'
      BY <1>7, WordsFrame DEF NextItem, ledgerVars
    <2> QED
      BY <2>1, <2>2, <2>3, <2>4, <2>5, <2>6, <2>7
  <1>8. CASE LeaveItem
    <2>1. TypeOfData'
      <3>1. TypeOfSession'
        BY <1>8, SayTypes, Decisions DEF LeaveItem, Silent, Decision, Current, TypeOfData, TypeOfSession, Phases, Results
      <3>2. TypeOfLedger'
        BY <1>8 DEF LeaveItem, TypeOfData, TypeOfLedger, ledgerVars
      <3>3. TypeOfProgress'
        BY <1>8, BriefFacts DEF LeaveItem, TypeOfData, TypeOfProgress, historyVars, AtItem
      <3> QED
        BY <3>1, <3>2, <3>3 DEF TypeOfData
    <2>2. TypeOfFlags'
      BY <1>8 DEF LeaveItem, TypeOfFlags, historyVars
    <2>3. AtItem' /\ Licensed' /\ QuestionOut'
      BY <1>8, Decisions DEF LeaveItem, Silent, Decision, Current, TypeOfData, TypeOfSession, TypeOfLedger, TypeOfProgress, AtItem, Licensed, QuestionOut, Current, ledgerVars
    <2>4. LinesToSay'
      BY <1>8, Decisions DEF LeaveItem, Silent, Decision, Current, TypeOfData, TypeOfSession, TypeOfProgress, LinesToSay
    <2>5. NeverLedgerViolation'
      BY <1>8, Decisions DEF LeaveItem, Silent, Decision, Current, TypeOfData, TypeOfSession, NeverLedgerViolation
    <2>6. InOrder'
      BY <1>8, BriefFacts, Decisions DEF LeaveItem, Silent, Decision, Current, ledgerVars, TypeOfData, TypeOfLedger, TypeOfProgress, InOrder, AtItem, Licensed
    <2>7. AnsweredHasWords'
      BY <1>8, WordsFrame DEF LeaveItem, ledgerVars
    <2> QED
      BY <2>1, <2>2, <2>3, <2>4, <2>5, <2>6, <2>7
  <1>9. CASE LetItLie
    <2>1. TypeOfData'
      <3>1. TypeOfSession'
        BY <1>9, SayTypes DEF LetItLie, TypeOfData, TypeOfSession, Phases, Lines
      <3>2. TypeOfLedger'
        BY <1>9 DEF LetItLie, TypeOfData, TypeOfLedger, ledgerVars
      <3>3. TypeOfProgress'
        BY <1>9, BriefFacts DEF LetItLie, TypeOfData, TypeOfProgress, historyVars, AtItem
      <3> QED
        BY <3>1, <3>2, <3>3 DEF TypeOfData
    <2>2. TypeOfFlags'
      BY <1>9 DEF LetItLie, TypeOfFlags, historyVars
    <2>3. AtItem' /\ Licensed' /\ QuestionOut'
      BY <1>9, Decisions DEF LetItLie, Silent, Decision, Current, TypeOfData, TypeOfSession, TypeOfLedger, TypeOfProgress, AtItem, Licensed, QuestionOut, Current, ledgerVars
    <2>4. LinesToSay'
      BY <1>9, Decisions DEF LetItLie, Silent, Decision, Current, TypeOfData, TypeOfSession, TypeOfProgress, LinesToSay
    <2>5. NeverLedgerViolation'
      BY <1>9, Decisions DEF LetItLie, Silent, Decision, Current, TypeOfData, TypeOfSession, NeverLedgerViolation
    <2>6. InOrder'
      <3>1. attempts[Order[at]] = MaxAttempts
        BY <1>9, CurrentItem, Decisions, AttemptsAssumption DEF LetItLie, Decision, Current
      <3> QED
        BY <1>9, <3>1, CurrentItem, BriefFacts DEF LetItLie, ledgerVars, InOrder
    <2>7. AnsweredHasWords'
      BY <1>9, WordsFrame DEF LetItLie, ledgerVars
    <2> QED
      BY <2>1, <2>2, <2>3, <2>4, <2>5, <2>6, <2>7
  <1>10. CASE AskAgain
    <2>1. TypeOfData'
      <3>1. TypeOfSession'
        BY <1>10, SayTypes DEF AskAgain, Silent, Current, TypeOfData, TypeOfSession, Phases, Results, Lines
      <3>2. TypeOfLedger'
        BY <1>10 DEF AskAgain, TypeOfData, TypeOfLedger, ledgerVars
      <3>3. TypeOfProgress'
        BY <1>10, BriefFacts DEF AskAgain, TypeOfData, TypeOfProgress, historyVars, AtItem
      <3> QED
        BY <3>1, <3>2, <3>3 DEF TypeOfData
    <2>2. TypeOfFlags'
      BY <1>10 DEF AskAgain, TypeOfFlags, historyVars
    <2>3. AtItem' /\ Licensed' /\ QuestionOut'
      <3>1. attempts[Current] < MaxAttempts /\ ~ IsGot(states[Current])
        BY <1>10, CurrentItem, Decisions, AttemptsAssumption DEF AskAgain, Decision
      <3> QED
        BY <1>10, <3>1, CurrentItem DEF AskAgain, AtItem, Licensed, QuestionOut, Current, ledgerVars
    <2>4. LinesToSay'
      BY <1>10 DEF AskAgain, Silent, Current, TypeOfData, TypeOfSession, TypeOfProgress, LinesToSay
    <2>5. NeverLedgerViolation'
      BY <1>10 DEF AskAgain, Silent, Current, TypeOfData, TypeOfSession, NeverLedgerViolation
    <2>6. InOrder'
      BY <1>10, InOrderFrame DEF AskAgain, ledgerVars
    <2>7. AnsweredHasWords'
      BY <1>10, WordsFrame DEF AskAgain, ledgerVars
    <2> QED
      BY <2>1, <2>2, <2>3, <2>4, <2>5, <2>6, <2>7
  <1>11. CASE PutOnce
    <2>1. TypeOfData'
      <3>1. TypeOfSession'
        BY <1>11, SayTypes, FloorSpeaks, LedgerSteps DEF PutOnce, Return, Silent, Current, TypeOfData, TypeOfSession, Phases, Results, LedgerEvents, QuestionStates, TurnStates
      <3>2. TypeOfLedger'
        <4>1. AdvanceQuestion(states[Current], "Ask") \in QuestionStates
          BY <1>11, CurrentItem, LedgerSteps DEF PutOnce, LedgerEvents
        <4>2. attempts[Current] + 1 \in 0 .. MaxAttempts
          BY <1>11, CurrentItem, AttemptsAssumption DEF PutOnce, Licensed
        <4> QED
          BY <1>11, <4>1, <4>2, CurrentItem DEF PutOnce, TypeOfData, TypeOfLedger
      <3>3. TypeOfProgress'
        BY <1>11, BriefFacts DEF PutOnce, TypeOfData, TypeOfProgress, historyVars, AtItem
      <3> QED
        BY <3>1, <3>2, <3>3 DEF TypeOfData
    <2>2. TypeOfFlags'
      BY <1>11 DEF PutOnce, TypeOfFlags, historyVars
    <2>3. AtItem' /\ Licensed' /\ QuestionOut'
      <3>1. AdvanceQuestion(states[Current], "Ask") = "Asked"
        BY <1>11, CurrentItem, LedgerSteps DEF PutOnce, Licensed
      <3>2. pc' = "asked" => states'[Current] = "Asked" /\ at' = at
        BY <1>11, <3>1, CurrentItem, FloorSpeaks
        DEF PutOnce, Return, TypeOfData, TypeOfSession, TypeOfLedger
      <3> QED
        BY <1>11, <3>2, CurrentItem, FloorSpeaks
        DEF PutOnce, Return, TypeOfData, TypeOfSession, AtItem, Licensed, QuestionOut, Current
    <2>4. LinesToSay'
      BY <1>11, FloorSpeaks, LedgerSteps DEF PutOnce, Return, Silent, Current, TypeOfData, TypeOfSession, TypeOfProgress, LinesToSay
    <2>5. NeverLedgerViolation'
      BY <1>11, FloorSpeaks, LedgerSteps DEF PutOnce, Return, Silent, Current, TypeOfData, TypeOfSession, NeverLedgerViolation
    <2>6. InOrder'
      BY <1>11, BriefFacts, FloorSpeaks, LedgerSteps DEF PutOnce, Return, Silent, Current, ledgerVars, TypeOfData, TypeOfLedger, TypeOfProgress, InOrder, AtItem, Licensed
    <2>7. AnsweredHasWords'
      BY <1>11, BriefFacts, FloorSpeaks, LedgerSteps DEF PutOnce, Return, Silent, Current, TypeOfData, TypeOfSession, TypeOfLedger, TypeOfProgress, AtItem, AnsweredHasWords, Licensed, IsGot
    <2> QED
      BY <2>1, <2>2, <2>3, <2>4, <2>5, <2>6, <2>7
  <1>12. CASE Close
    <2>1. TypeOfData'
      <3>1. TypeOfSession'
        <4>1. say' = <<"board", "away">> \/ say' = <<"board", "not got", "away">>
          BY <1>12 DEF Close
        <4>2. say' \in Seq(Lines)
          BY <4>1, SayTypes DEF Lines
        <4> QED
          BY <1>12, <4>2 DEF Close, TypeOfData, TypeOfSession, Phases
      <3>2. TypeOfLedger'
        BY <1>12 DEF Close, TypeOfData, TypeOfLedger, ledgerVars
      <3>3. TypeOfProgress'
        BY <1>12, BriefFacts DEF Close, TypeOfData, TypeOfProgress, historyVars, AtItem
      <3> QED
        BY <3>1, <3>2, <3>3 DEF TypeOfData
    <2>2. TypeOfFlags'
      BY <1>12 DEF Close, TypeOfFlags, historyVars
    <2>3. AtItem' /\ Licensed' /\ QuestionOut'
      BY <1>12 DEF Close, Silent, TypeOfData, TypeOfSession, TypeOfLedger, TypeOfProgress, AtItem, Licensed, QuestionOut, Current, ledgerVars
    <2>4. LinesToSay'
      <3>1. pc' = "report"
        BY <1>12 DEF Close
      <3>2. CASE say' = <<"board", "away">>
        <4>1. Len(say') = 2 /\ say'[1] = "board" /\ say'[2] = "away"
          BY <3>2
        <4> QED
          BY <3>1, <4>1 DEF LinesToSay
      <3>3. CASE say' = <<"board", "not got", "away">>
        <4>1. Len(say') = 3 /\ say'[1] = "board" /\ say'[2] = "not got" /\ say'[3] = "away"
          BY <3>3
        <4>2. \A k \in 1 .. 3 : k = 1 \/ k = 2 \/ k = 3
          OBVIOUS
        <4>3. \A k \in 1 .. Len(say') : say'[k] # "leaving"
          BY <4>1, <4>2
        <4> QED
          BY <3>1, <4>3 DEF LinesToSay
      <3> QED
        BY <1>12, <3>2, <3>3 DEF Close
    <2>5. NeverLedgerViolation'
      BY <1>12 DEF Close, Silent, TypeOfData, TypeOfSession, NeverLedgerViolation
    <2>6. InOrder'
      BY <1>12, InOrderFrame DEF Close, ledgerVars
    <2>7. AnsweredHasWords'
      BY <1>12, WordsFrame DEF Close, ledgerVars
    <2> QED
      BY <2>1, <2>2, <2>3, <2>4, <2>5, <2>6, <2>7
  <1>13. CASE Report
    <2>1. TypeOfData'
      <3>1. TypeOfSession'
        BY <1>13, SayTypes DEF Report, Return, MayMoveOn, Silent, TypeOfData, TypeOfSession, Phases, Results
      <3>2. TypeOfLedger'
        BY <1>13 DEF Report, TypeOfData, TypeOfLedger, ledgerVars
      <3>3. TypeOfProgress'
        BY <1>13, BriefFacts DEF Report, TypeOfData, TypeOfProgress, historyVars, AtItem
      <3> QED
        BY <3>1, <3>2, <3>3 DEF TypeOfData
    <2>2. TypeOfFlags'
      BY <1>13 DEF Report, TypeOfFlags, historyVars
    <2>3. AtItem' /\ Licensed' /\ QuestionOut'
      BY <1>13 DEF Report, Return, MayMoveOn, Silent, TypeOfData, TypeOfSession, TypeOfLedger, TypeOfProgress, AtItem, Licensed, QuestionOut, Current, ledgerVars
    <2>4. LinesToSay'
      BY <1>13 DEF Report, Return, MayMoveOn, Silent, TypeOfData, TypeOfSession, TypeOfProgress, LinesToSay
    <2>5. NeverLedgerViolation'
      BY <1>13 DEF Report, Return, MayMoveOn, Silent, TypeOfData, TypeOfSession, NeverLedgerViolation
    <2>6. InOrder'
      BY <1>13, InOrderFrame DEF Report, ledgerVars
    <2>7. AnsweredHasWords'
      BY <1>13, WordsFrame DEF Report, ledgerVars
    <2> QED
      BY <2>1, <2>2, <2>3, <2>4, <2>5, <2>6, <2>7
  <1>14. CASE Cancel
    <2>1. TypeOfData'
      <3>1. TypeOfSession'
        BY <1>14, SayTypes DEF Cancel, TypeOfData, TypeOfSession, Phases, Results
      <3>2. TypeOfLedger'
        BY <1>14 DEF Cancel, TypeOfData, TypeOfLedger, ledgerVars
      <3>3. TypeOfProgress'
        BY <1>14, BriefFacts DEF Cancel, TypeOfData, TypeOfProgress, historyVars, AtItem
      <3> QED
        BY <3>1, <3>2, <3>3 DEF TypeOfData
    <2>2. TypeOfFlags'
      BY <1>14 DEF Cancel, TypeOfFlags, historyVars
    <2>3. AtItem' /\ Licensed' /\ QuestionOut'
      BY <1>14 DEF Cancel, TypeOfData, TypeOfSession, TypeOfLedger, TypeOfProgress, AtItem, Licensed, QuestionOut, Current, ledgerVars
    <2>4. LinesToSay'
      BY <1>14 DEF Cancel, TypeOfData, TypeOfSession, TypeOfProgress, LinesToSay
    <2>5. NeverLedgerViolation'
      BY <1>14 DEF Cancel, TypeOfData, TypeOfSession, NeverLedgerViolation
    <2>6. InOrder'
      BY <1>14, BriefFacts DEF Cancel, ledgerVars, TypeOfData, TypeOfLedger, TypeOfProgress, InOrder, AtItem, Licensed
    <2>7. AnsweredHasWords'
      BY <1>14, WordsFrame DEF Cancel, ledgerVars
    <2> QED
      BY <2>1, <2>2, <2>3, <2>4, <2>5, <2>6, <2>7
  <1>15. ASSUME NEW u \in Utterances, Replied(u) PROVE IInv'
    <2> USE <1>15 DEF Replied
    <2>1. TypeOfData'
      <3>1. TypeOfSession'
        BY TurnsClosed, SayTypes DEF TypeOfData, TypeOfSession, Phases, Lines, TurnEvents
      <3>2. TypeOfLedger'
        <4>1. AdvanceOnReply(states[Current], HasSubstance(u)) \in QuestionStates
          BY CurrentItem, LedgerSteps DEF HasSubstance, QuestionStates
        <4> QED
          BY <4>1, CurrentItem DEF TypeOfData, TypeOfLedger
      <3>3. TypeOfProgress'
        BY DEF TypeOfData, TypeOfProgress, historyVars
      <3> QED
        BY <3>1, <3>2, <3>3 DEF TypeOfData
    <2>2. TypeOfFlags'
      BY DEF TypeOfFlags, historyVars
    <2>3. AtItem' /\ Licensed' /\ QuestionOut'
      BY DEF AtItem, Licensed, QuestionOut
    <2>4. LinesToSay'
      BY DEF LinesToSay
    <2>5. NeverLedgerViolation'
      BY DEF NeverLedgerViolation
    <2>6. InOrder'
      <3>1. \A i \in Items : IsGot(states[i]) => IsGot(states'[i])
        BY CurrentItem, LedgerSteps DEF TypeOfData, TypeOfLedger, AdvanceOnReply, AdvanceQuestion, IsGot
      <3> QED
        BY <3>1, BriefFacts DEF InOrder
    <2>7. AnsweredHasWords'
      BY CurrentItem, LedgerSteps
      DEF TypeOfData, TypeOfLedger, AnsweredHasWords, AdvanceOnReply, AdvanceQuestion, IsGot, HasSubstance, QuestionOut
    <2> QED
      BY <2>1, <2>2, <2>3, <2>4, <2>5, <2>6, <2>7
  <1>16. ASSUME NEW u \in Utterances, CutOff(u) PROVE IInv'
    <2> USE <1>16 DEF CutOff
    <2>0. /\ turn' = "Listening" /\ ~ MaySpeak(turn')
          /\ states' = [ states EXCEPT ![Current] = "Interrupted" ]
          /\ states'[Current] = "Interrupted"
          /\ pc' = "put"
      BY CurrentItem, TurnsClosed, LedgerSteps
      DEF TypeOfData, TypeOfSession, TypeOfLedger, TurnEvents, MaySpeak, QuestionOut, IsGot
    <2>1. TypeOfData'
      <3>1. TypeOfSession'
        <4>1. say' \in Seq(Lines)
          <5>1. say' = <<"right", "disclosure">> \/ say' = <<"right">> \/ say' = <<>>
            BY <2>0 DEF IsGot, MaySpeak
          <5> QED
            BY <5>1, SayTypes DEF Lines
        <4> QED
          BY <2>0, <4>1 DEF TypeOfData, TypeOfSession, Phases, TurnStates, IsGot, MaySpeak
      <3>2. TypeOfLedger'
        BY <2>0, CurrentItem DEF TypeOfData, TypeOfLedger, QuestionStates
      <3>3. TypeOfProgress'
        BY DEF TypeOfData, TypeOfProgress, historyVars
      <3> QED
        BY <3>1, <3>2, <3>3 DEF TypeOfData
    <2>2. TypeOfFlags'
      BY DEF TypeOfFlags, historyVars
    <2>3. AtItem' /\ Licensed' /\ QuestionOut'
      BY <2>0 DEF AtItem, Licensed, QuestionOut
    <2>4. LinesToSay'
      BY <2>0, SayTypes DEF LinesToSay, IsGot, MaySpeak
    <2>5. NeverLedgerViolation'
      BY <2>0 DEF NeverLedgerViolation, IsGot, MaySpeak
    <2>6. InOrder'
      <3>1. \A i \in Items : IsGot(states[i]) => IsGot(states'[i])
        BY <2>0, CurrentItem DEF TypeOfData, TypeOfLedger, IsGot, QuestionOut
      <3> QED
        BY <3>1, BriefFacts DEF InOrder
    <2>7. AnsweredHasWords'
      BY <2>0, CurrentItem DEF TypeOfData, TypeOfLedger, AnsweredHasWords, IsGot, QuestionOut
    <2> QED
      BY <2>1, <2>2, <2>3, <2>4, <2>5, <2>6, <2>7
  <1>17. CASE UNCHANGED vars
    BY <1>17, InOrderFrame, WordsFrame
    DEF vars, TypeOfData, TypeOfSession, TypeOfLedger, TypeOfProgress, TypeOfFlags, AtItem, Licensed, QuestionOut, LinesToSay, NeverLedgerViolation, Current
  <1> QED
    BY <1>1, <1>2, <1>3, <1>4, <1>5, <1>6, <1>7, <1>8, <1>9, <1>10, <1>11, <1>12, <1>13, <1>14, <1>15, <1>16, <1>17 DEF Next, SessionStep, PersonStep

-----------------------------------------------------------------------------
(* The theorems.                                                           *)

\* The inductive invariant holds throughout.
THEOREM Invariance == Spec => []IInv
  BY InitIInv, StepIInv, PTL DEF Spec

\* Type correctness, and with it the bound: no item of any brief is put more often
\* than MaxAttempts times (conduct.Decide, interview.put).
THEOREM TypeCorrectness == Spec => []TypeOK
  <1>1. IInv => TypeOK
    BY DEF IInv
  <1> QED
    BY <1>1, Invariance, PTL

\* The ledger-violation errors of interview.go are unreachable, however briefs,
\* failures and cancellations follow one another in a session.
THEOREM NoLedgerViolation == Spec => []NeverLedgerViolation
  <1>1. IInv => NeverLedgerViolation
    BY DEF IInv
  <1> QED
    BY <1>1, Invariance, PTL

\* Items are conducted to a decision one after another, in the factory's order.
THEOREM ConductedInOrder == Spec => []InOrder
  <1>1. IInv => InOrder
    BY DEF IInv
  <1> QED
    BY <1>1, Invariance, PTL

\* Answered means that an answer was given: silence, an interjection and a question
\* about the machinery never read as an answer in the report.
THEOREM AnsweredMeansWords == Spec => []AnsweredHasWords
  <1>1. IInv => AnsweredHasWords
    BY DEF IInv
  <1> QED
    BY <1>1, Invariance, PTL

-----------------------------------------------------------------------------
\* One step of one brief: an answer that was given stands and is not asked for again.
LEMMA AnswersStandStep ==
  ASSUME IInv, [Next]_vars, conducts' = conducts, NEW i \in Items, IsGot(states[i])
  PROVE  IsGot(states'[i]) /\ replies'[i] = replies[i] /\ attempts'[i] = attempts[i]
  <1> USE TypeHalves DEF IInv
  <1>1. CASE Begin
    BY <1>1, BriefFacts DEF Begin, TypeOfData, TypeOfProgress
  <1>2. CASE PutOnce
    BY <1>2, CurrentItem DEF PutOnce, Licensed, TypeOfData, TypeOfLedger
  <1>3. ASSUME NEW u \in Utterances, Replied(u) \/ CutOff(u)
        PROVE  IsGot(states'[i]) /\ replies'[i] = replies[i] /\ attempts'[i] = attempts[i]
    <2>1. Current # i
      BY <1>3, CurrentItem DEF Replied, CutOff, QuestionOut, IsGot
    <2> QED
      BY <1>3, <2>1, CurrentItem DEF Replied, CutOff, TypeOfData, TypeOfLedger
  <1>4. CASE UNCHANGED <<states, replies, attempts>>
    BY <1>4
  <1> QED
    BY <1>1, <1>2, <1>3, <1>4
    DEF Next, SessionStep, PersonStep, vars, ledgerVars, RefuseToStart, Invited, AskFails,
        SayLine, SayFails, NextItem, LeaveItem, LetItLie, AskAgain, Close, Report, Cancel

\* Only an answer answers, and within one brief it stands (brief.State.Answer,
\* conduct.Decide).
THEOREM AnswersAreFinal == Spec => AnswersStand
  <1>1. IInv /\ IInv' /\ [Next]_vars => AnswerStands
    BY AnswersStandStep DEF AnswerStands, IInv, AnsweredHasWords
  <1> QED
    BY <1>1, Invariance, PTL DEF Spec, AnswersStand

-----------------------------------------------------------------------------
(* Letting an item lie is said.  The strengthening: the items the person was *)
(* told of are exactly those left behind without an answer, except that the   *)
(* last of them may be about to be said.                                    *)

Parting == pc = "next" /\ say # <<>>

PartingLine ==
  /\ \A k \in 1 .. Len(say) : say[k] = "leaving" => pc = "next"
  /\ Parting => say = <<"leaving">> /\ at > 1 /\ ~ IsGot(states[Order[at - 1]])

Told ==
  \A k \in 1 .. Len(Order) :
    Order[k] \in letLie <=> k < at /\ ~ IsGot(states[Order[k]]) /\ ~ (Parting /\ k = at - 1)

\* The brief was gone through to its end.
Through ==
  pc \in {"closing", "report"} \/ (pc = "idle" /\ result = "answers") => cutShort \/ at = Len(Order) + 1

ToldInv ==
  /\ PartingLine /\ Through
  /\ (pc # "idle" \/ result = "answers") /\ ~ cutShort => Told

\* A step that says nothing of an item left behind keeps what the person was told.
LEMMA ToldKept ==
  ASSUME Told, ~ Parting, ~ Parting', UNCHANGED <<at, letLie>>,
         \A k \in 1 .. Len(Order) :
           k < at => (IsGot(states'[Order[k]]) <=> IsGot(states[Order[k]]))
  PROVE  Told'
  BY DEF Told

\* Before the first brief nobody was told anything.
LEMMA InitToldInv == Init => ToldInv
  BY DEF Init, ToldInv, PartingLine, Parting, Through

\* Every step preserves the correspondence.
LEMMA StepToldInv == IInv /\ ToldInv /\ [Next]_vars => ToldInv'
  <1> SUFFICES ASSUME IInv, ToldInv, [Next]_vars PROVE ToldInv'
    OBVIOUS
  <1> USE TypeHalves, BriefFacts DEF IInv, ToldInv
  <1>0. at \in 1 .. Len(Order) + 1 /\ say \in Seq(Lines) /\ cutShort \in BOOLEAN
    BY DEF TypeOfData, TypeOfSession, TypeOfProgress, TypeOfFlags
  <1>1. CASE RefuseToStart \/ AskFails \/ SayFails
    <2>1. pc' = "idle" /\ result' # "answers" /\ say' = <<>>
      BY <1>1 DEF RefuseToStart, AskFails, SayFails, Return
    <2> QED
      BY <2>1 DEF PartingLine, Parting, Through
  <1>2. CASE Begin
    <2>1. pc' = "invited" /\ at' = 1 /\ letLie' = {} /\ say' = <<>>
      BY <1>2, FloorSpeaks DEF Begin, TypeOfData, TypeOfSession, LinesToSay
    <2> QED
      BY <2>1 DEF PartingLine, Parting, Through, Told
  <1>3. CASE Invited
    <2>1. pc' = "next" /\ pc = "invited" /\ say = <<>> /\ say' = <<>>
          /\ UNCHANGED <<at, letLie, states, cutShort, result>>
      BY <1>3 DEF Invited, LinesToSay, ledgerVars, historyVars
    <2> QED
      BY <2>1, ToldKept DEF PartingLine, Parting, Through
  <1>4. CASE SayLine
    <2>1. say # <<>> /\ say' = Tail(say) /\ UNCHANGED <<pc, at, states, result, cutShort>>
      BY <1>4 DEF SayLine, Silent, ledgerVars
    <2>2. CASE Parting
      <3>1. Head(say) = "leaving" /\ say' = <<>> /\ at > 1
        BY <1>0, <2>1, <2>2 DEF PartingLine
      <3>2. letLie' = letLie \cup {Order[at - 1]}
        BY <1>4, <3>1 DEF SayLine
      <3>3. ~ cutShort => Told'
        BY <1>0, <2>1, <2>2, <3>1, <3>2 DEF Told, PartingLine, Parting
      <3> QED
        BY <2>1, <2>2, <3>1, <3>3 DEF PartingLine, Parting, Through
    <2>3. CASE ~ Parting
      <3>1. pc # "next" /\ Head(say) # "leaving"
        BY <1>0, <2>1, <2>3 DEF PartingLine, Parting
      <3>2. letLie' = letLie
        BY <1>4, <3>1 DEF SayLine
      <3>3. \A k \in 1 .. Len(say') : say'[k] # "leaving"
        BY <1>0, <2>1, <3>1 DEF PartingLine
      <3> QED
        BY <2>1, <2>3, <3>1, <3>2, <3>3, ToldKept DEF PartingLine, Parting, Through
    <2> QED
      BY <2>2, <2>3
  <1>5. CASE NextItem
    <2>1. say = <<>> /\ say' = <<>> /\ pc = "next" /\ pc' \in {"put", "closing"}
          /\ UNCHANGED <<at, letLie, states, result>>
      BY <1>5 DEF NextItem, Silent, ledgerVars
    <2>2. pc' = "closing" => cutShort' \/ at > Len(Order)
      BY <1>0, <1>5 DEF NextItem
    <2>3. ~ cutShort' => ~ cutShort
      BY <1>5 DEF NextItem
    <2> QED
      BY <1>0, <2>1, <2>2, <2>3, ToldKept DEF PartingLine, Parting, Through
  <1>6. CASE LeaveItem
    <2>1. say = <<>> /\ say' = <<>> /\ pc = "put" /\ pc' = "next" /\ at' = at + 1
          /\ UNCHANGED <<letLie, states, result>>
      BY <1>6 DEF LeaveItem, Silent, ledgerVars
    <2>2. ~ cutShort' => ~ cutShort /\ IsGot(states[Order[at]])
      BY <1>6, CurrentItem, Decisions DEF LeaveItem, Decision, Current
    <2>3. ~ cutShort' => Told'
      BY <1>0, <2>1, <2>2 DEF Told, Parting, AtItem
    <2> QED
      BY <2>1, <2>3 DEF PartingLine, Parting, Through
  <1>7. CASE LetItLie
    <2>1. say = <<>> /\ say' = <<"leaving">> /\ pc = "put" /\ pc' = "next" /\ at' = at + 1
          /\ UNCHANGED <<letLie, states, result, cutShort>>
      BY <1>7 DEF LetItLie, Silent, ledgerVars, historyVars
    <2>2. ~ IsGot(states[Order[at]])
      BY <1>7, CurrentItem, Decisions DEF LetItLie, Decision, Current
    <2>3. ~ cutShort' => Told'
      BY <1>0, <2>1, <2>2 DEF Told, Parting, AtItem
    <2> QED
      BY <1>0, <2>1, <2>2, <2>3 DEF PartingLine, Parting, Through
  <1>8. CASE AskAgain \/ Close
    <2>1. say = <<>> /\ pc \in {"put", "closing"} /\ pc' \in {"ready", "report"}
          /\ (pc' = "report" => pc = "closing")
          /\ UNCHANGED <<at, letLie, states, result, cutShort>>
      BY <1>8 DEF AskAgain, Close, Silent, ledgerVars, historyVars
    <2>2. \A k \in 1 .. Len(say') : say'[k] # "leaving"
      <3>1. say' = <<>> \/ say' = <<"again">> \/ say' = <<"board", "away">>
              \/ say' = <<"board", "not got", "away">>
        BY <1>8 DEF AskAgain, Close
      <3>2. CASE say' = <<"board", "not got", "away">>
        <4>1. Len(say') = 3 /\ say'[1] = "board" /\ say'[2] = "not got" /\ say'[3] = "away"
          BY <3>2
        <4>2. \A k \in 1 .. 3 : k = 1 \/ k = 2 \/ k = 3
          OBVIOUS
        <4> QED
          BY <4>1, <4>2
      <3>3. CASE say' = <<"board", "away">>
        <4>1. Len(say') = 2 /\ say'[1] = "board" /\ say'[2] = "away"
          BY <3>3
        <4>2. \A k \in 1 .. 2 : k = 1 \/ k = 2
          OBVIOUS
        <4> QED
          BY <4>1, <4>2
      <3>4. CASE say' = <<>> \/ say' = <<"again">>
        BY <3>4
      <3> QED
        BY <3>1, <3>2, <3>3, <3>4
    <2> QED
      BY <2>1, <2>2, ToldKept DEF PartingLine, Parting, Through
  <1>9. CASE PutOnce
    <2>1. say = <<>> /\ say' = <<>> /\ pc = "ready" /\ UNCHANGED <<at, letLie, cutShort>>
          /\ (pc' = "asked" \/ (pc' = "idle" /\ result' # "answers"))
      BY <1>9 DEF PutOnce, Silent, Return, historyVars
    <2>2. \A k \in 1 .. Len(Order) :
            k < at => (IsGot(states'[Order[k]]) <=> IsGot(states[Order[k]]))
      BY <1>9, CurrentItem DEF PutOnce, TypeOfData, TypeOfLedger, Current
    <2> QED
      BY <2>1, <2>2, ToldKept DEF PartingLine, Parting, Through
  <1>10. CASE Report
    <2>1. say = <<>> /\ say' = <<>> /\ pc = "report" /\ pc' = "idle"
          /\ UNCHANGED <<at, letLie, states, cutShort>>
      BY <1>10 DEF Report, Silent, Return, ledgerVars, historyVars
    <2> QED
      BY <2>1, ToldKept DEF PartingLine, Parting, Through
  <1>11. ASSUME NEW u \in Utterances, Replied(u) \/ CutOff(u) PROVE ToldInv'
    <2>1. say = <<>> /\ pc = "asked" /\ pc' \in {"put", "idle"}
          /\ UNCHANGED <<at, letLie, cutShort>>
      BY <1>11 DEF Replied, CutOff, LinesToSay, Return, historyVars
    <2>2. pc' = "idle" => result' # "answers"
      BY <1>11 DEF Replied, CutOff, Return
    <2>3. \A k \in 1 .. Len(say') : say'[k] # "leaving"
      <3>1. say' = <<"right", "disclosure">> \/ say' = <<"right">> \/ say' = <<>>
              \/ say' = <<"disclosure">>
        BY <1>11, <2>1 DEF Replied, CutOff, Return
      <3> QED
        BY <3>1
    <2>4. \A k \in 1 .. Len(Order) :
            k < at => (IsGot(states'[Order[k]]) <=> IsGot(states[Order[k]]))
      BY <1>11, CurrentItem DEF Replied, CutOff, Return, TypeOfData, TypeOfLedger, Current
    <2> QED
      BY <2>1, <2>2, <2>3, <2>4, ToldKept DEF PartingLine, Parting, Through
  <1>12. CASE Cancel \/ UNCHANGED vars
    <2>1. UNCHANGED <<pc, say, at, letLie, states, cutShort, result>>
      BY <1>12 DEF Cancel, vars, ledgerVars, historyVars
    <2> QED
      BY <2>1 DEF PartingLine, Parting, Through, Told
  <1> QED
    BY <1>1, <1>2, <1>3, <1>4, <1>5, <1>6, <1>7, <1>8, <1>9, <1>10, <1>11, <1>12
    DEF Next, SessionStep, PersonStep

\* When the answers are returned and nothing cut the interview short, the person was
\* told of every item that leaves without an answer, and of no other ("letting an
\* item lie is reported, never silent").
THEOREM LettingLieIsReported == Spec => []LetLieIsSaid
  <1>1. IInv /\ ToldInv => LetLieIsSaid
    <2> SUFFICES ASSUME IInv, ToldInv, pc = "idle", result = "answers", ~ cutShort
                 PROVE  letLie = Outstanding
      BY DEF LetLieIsSaid
    <2>1. at = Len(Order) + 1 /\ Told /\ pc # "next"
      BY DEF ToldInv, Through
    <2>2. \A i \in Items : \E k \in 1 .. Len(Order) : i = Order[k]
      BY BriefFacts DEF Items
    <2>3. letLie \subseteq Items
      BY TypeHalves DEF IInv, TypeOfData, TypeOfProgress
    <2>4. \A k \in 1 .. Len(Order) : Order[k] \in letLie <=> ~ IsGot(states[Order[k]])
      BY <2>1, BriefFacts DEF Told, Parting
    <2>5. \A i \in Items : i \in letLie <=> ~ IsGot(states[i])
      BY <2>2, <2>4
    <2> QED
      BY <2>3, <2>5 DEF Outstanding
  <1>2. Spec => [](IInv /\ ToldInv)
    BY InitToldInv, StepToldInv, Invariance, PTL DEF Spec
  <1> QED
    BY <1>1, <1>2, PTL

-----------------------------------------------------------------------------
(* An interview ends.  That a step is taken at all is fairness, and stays with *)
(* the runs; that the steps of one brief run out is a fact of the program.      *)

\* The items that are still to be conducted, the one at hand among them.
ItemsAhead ==
  CASE pc = "invited" -> Len(Order) + 2
    [] pc \in {"next", "put", "ready", "asked"} -> (Len(Order) + 2) - at
    [] OTHER -> 0

\* The puts the bound still allows of the item at hand.
PutsLeft ==
  IF pc \in {"next", "put", "ready", "asked"} /\ at <= Len(Order) THEN MaxAttempts - attempts[Current] ELSE 0

\* The steps of one put.
PhaseRank ==
  CASE pc = "next" -> 3 [] pc = "asked" -> 2 [] pc \in {"put", "closing"} -> 1 [] OTHER -> 0

\* Items before puts, puts before the steps of one, steps before lines, and a cancellation.
Weight(i, p, r, l, c) == (((i * (MaxAttempts + 1) + p) * 4 + r) * 4 + l) * 2 + c

LinesLeft == Len(say)

Hope == IF cancelled THEN 0 ELSE 1

Effort == Weight(ItemsAhead, PutsLeft, PhaseRank, LinesLeft, Hope)

\* Every step of a brief that does not end it, the person's and the cancellation among them, takes
\* from what is left to do.
EveryStepCounts == [][pc # "idle" => pc' = "idle" \/ (Effort \in Nat /\ Effort' \in Nat /\ Effort' < Effort)]_vars

FewLines == LinesLeft \in 0 .. 3

\* What is left of the items outweighs everything below it.
LEMMA ItemsOutweigh ==
  ASSUME NEW a \in Nat, NEW b \in Nat, b < a, NEW n \in Nat
  PROVE  /\ a * (n + 1) \in Nat /\ b * (n + 1) \in Nat
         /\ b * (n + 1) + n + 1 <= a * (n + 1)
<1>1. PICK d \in Nat : a = b + 1 + d
  <2>1. a - b - 1 \in Nat /\ a = b + 1 + (a - b - 1)
    OBVIOUS
  <2> QED
    BY <2>1
<1>2. d * (n + 1) \in Nat /\ b * (n + 1) \in Nat /\ a * (n + 1) \in Nat
  OBVIOUS
<1>3. a * (n + 1) = b * (n + 1) + (n + 1) + d * (n + 1)
  BY <1>1
<1> QED
  BY <1>2, <1>3

\* Fewer items, or as many and fewer puts, and so on down to the lines and the cancellation.
Falls(i, p, r, l, c, j, q, s, k, e) ==
  \/ j < i
  \/ j = i /\ q < p
  \/ j = i /\ q = p /\ s < r
  \/ j = i /\ q = p /\ s = r /\ k < l
  \/ j = i /\ q = p /\ s = r /\ k = l /\ e < c

\* What falls in this order falls in weight.
LEMMA EffortFalls ==
  ASSUME NEW i \in Nat, NEW p \in Nat, NEW r \in Nat, NEW l \in Nat, NEW c \in 0 .. 1,
         NEW j \in Nat, NEW q \in Nat, NEW s \in Nat, NEW k \in Nat, NEW e \in 0 .. 1,
         q <= MaxAttempts, s <= 3, k <= 3, e <= c,
         Falls(i, p, r, l, c, j, q, s, k, e)
  PROVE  /\ Weight(i, p, r, l, c) \in Nat /\ Weight(j, q, s, k, e) \in Nat
         /\ Weight(j, q, s, k, e) < Weight(i, p, r, l, c)
<1> DEFINE n == MaxAttempts
<1>0. n \in Nat
  BY AttemptsAssumption
<1> HIDE DEF n
<1>1. i * (n + 1) \in Nat /\ j * (n + 1) \in Nat
  BY <1>0
<1>2. j < i => j * (n + 1) + n + 1 <= i * (n + 1)
  BY <1>0, ItemsOutweigh
<1> DEFINE x == i * (n + 1)
           y == j * (n + 1)
<1>3. x \in Nat /\ y \in Nat /\ (j < i => y + n + 1 <= x) /\ (j = i => y = x)
  BY <1>1, <1>2
<1>5. /\ Weight(i, p, r, l, c) = (((x + p) * 4 + r) * 4 + l) * 2 + c
      /\ Weight(j, q, s, k, e) = (((y + q) * 4 + s) * 4 + k) * 2 + e
  BY DEF Weight, n
<1> HIDE DEF x, y
<1>4. y + q < x + p \/ (y + q = x + p /\ (s < r \/ (s = r /\ (k < l \/ (k = l /\ e < c)))))
  BY <1>0, <1>3 DEF n, Falls
<1> QED
  BY <1>3, <1>4, <1>5

\* What is weighed, of a state of the session.
Weighed ==
  /\ ItemsAhead \in Nat /\ PutsLeft \in 0 .. MaxAttempts /\ PhaseRank \in 0 .. 3 /\ LinesLeft \in 0 .. 3
  /\ MaxAttempts \in Nat /\ at \in Nat /\ Len(Order) \in Nat /\ at >= 1 /\ at <= Len(Order) + 1

LEMMA Weights == IInv /\ FewLines => Weighed
<1> SUFFICES ASSUME IInv, FewLines PROVE Weighed
  OBVIOUS
<1>0. TypeOfSession /\ TypeOfLedger /\ TypeOfProgress
  BY TypeHalves DEF IInv, TypeOfData
<1>1. at \in 1 .. Len(Order) + 1 /\ Len(Order) \in Nat /\ MaxAttempts \in Nat
  BY <1>0, BriefFacts, AttemptsAssumption DEF TypeOfSession, TypeOfProgress
<1>2. PutsLeft \in 0 .. MaxAttempts
  <2>1. CASE pc \in {"next", "put", "ready", "asked"} /\ at <= Len(Order)
    <3>1. attempts[Current] \in 0 .. MaxAttempts
      BY <1>0, <1>1, <2>1, BriefFacts DEF TypeOfLedger, Current
    <3> QED
      BY <1>1, <2>1, <3>1 DEF PutsLeft
  <2>2. CASE ~ (pc \in {"next", "put", "ready", "asked"} /\ at <= Len(Order))
    BY <1>1, <2>2 DEF PutsLeft
  <2> QED
    BY <2>1, <2>2
<1>3. ItemsAhead \in Nat
  BY <1>1 DEF ItemsAhead
<1>4. PhaseRank \in 0 .. 3
  BY DEF PhaseRank
<1> QED
  BY <1>1, <1>2, <1>3, <1>4 DEF Weighed, FewLines

\* No line of ghillie's is followed by more than two others.
LEMMA LinesStayFew == IInv /\ FewLines /\ [Next]_vars => FewLines'
<1> SUFFICES ASSUME IInv, FewLines, [Next]_vars PROVE FewLines'
  OBVIOUS
<1>0. say \in Seq(Lines)
  BY TypeHalves DEF IInv, TypeOfData, TypeOfSession
<1>1. \/ say' = say
      \/ say' \in { <<>>, <<"right">>, <<"again">>, <<"leaving">>, <<"disclosure">>, <<"right", "disclosure">>,
                    <<"board", "away">>, <<"board", "not got", "away">> }
      \/ say # <<>> /\ say' = Tail(say)
  <2>1. CASE RefuseToStart \/ Begin \/ Invited \/ AskFails \/ SayLine \/ SayFails \/ Cancel \/ UNCHANGED vars
    BY <2>1 DEF RefuseToStart, Begin, Invited, AskFails, SayLine, SayFails, Silent, Return, Cancel, vars
  <2>2. CASE NextItem \/ LeaveItem \/ LetItLie \/ AskAgain \/ PutOnce \/ Close \/ Report
    BY <2>2 DEF NextItem, LeaveItem, LetItLie, AskAgain, PutOnce, Close, Report, Return
  <2>3. ASSUME NEW u \in Utterances, Replied(u) \/ CutOff(u)
        PROVE  say' \in {say, <<>>, <<"right">>, <<"disclosure">>, <<"right", "disclosure">>}
    BY <2>3 DEF Replied, CutOff, Return
  <2> QED
    BY <2>1, <2>2, <2>3 DEF Next, SessionStep, PersonStep
<1>2. CASE say' = say
  BY <1>2 DEF FewLines, LinesLeft
<1>3. CASE say' \in { <<>>, <<"right">>, <<"again">>, <<"leaving">>, <<"disclosure">>, <<"right", "disclosure">>,
                    <<"board", "away">>, <<"board", "not got", "away">> }
  <2>1. /\ Len(<<>>) = 0
        /\ \A a : Len(<<a>>) = 1
        /\ \A a, b : Len(<<a, b>>) = 2
        /\ \A a, b, d : Len(<<a, b, d>>) = 3
    OBVIOUS
  <2>2. Len(say') \in {0, 1, 2, 3}
    BY <1>3, <2>1, Zenon
  <2> QED
    BY <2>2 DEF FewLines, LinesLeft
<1>4. CASE say # <<>> /\ say' = Tail(say)
  BY <1>0, <1>4 DEF FewLines, LinesLeft
<1> QED
  BY <1>1, <1>2, <1>3, <1>4

\* A step of the session, of the person or of the context that does not end the brief.
StepFalls ==
  Falls(ItemsAhead, PutsLeft, PhaseRank, LinesLeft, Hope, ItemsAhead', PutsLeft', PhaseRank', LinesLeft', Hope')

LEMMA FallsCounts ==
  ASSUME Weighed, Weighed', Hope' <= Hope, StepFalls
  PROVE  Effort \in Nat /\ Effort' \in Nat /\ Effort' < Effort
<1>1. Hope \in 0 .. 1 /\ Hope' \in 0 .. 1
  BY DEF Hope
<1> DEFINE w == Weight(ItemsAhead', PutsLeft', PhaseRank', LinesLeft', Hope')
<1>2. Effort' = w
  BY DEF Effort, Weight
<1> HIDE DEF w
<1>3. /\ ItemsAhead \in Nat /\ PutsLeft \in Nat /\ PhaseRank \in Nat /\ LinesLeft \in Nat /\ Hope \in 0 .. 1
      /\ ItemsAhead' \in Nat /\ PutsLeft' \in Nat /\ PhaseRank' \in Nat /\ LinesLeft' \in Nat /\ Hope' \in 0 .. 1
      /\ PutsLeft' <= MaxAttempts /\ PhaseRank' <= 3 /\ LinesLeft' <= 3
  BY <1>1 DEF Weighed
<1>4. /\ Weight(ItemsAhead, PutsLeft, PhaseRank, LinesLeft, Hope) \in Nat /\ w \in Nat
      /\ w < Weight(ItemsAhead, PutsLeft, PhaseRank, LinesLeft, Hope)
  BY <1>3, EffortFalls, Zenon DEF StepFalls, w
<1> QED
  BY <1>2, <1>4 DEF Effort

LEMMA NextFalls ==
  ASSUME IInv, FewLines, Next, pc # "idle", pc' # "idle"
  PROVE  Hope' <= Hope /\ StepFalls
<1>1. Weighed
  BY Weights
<1>2. AtItem /\ Licensed /\ TypeOfSession /\ TypeOfLedger
  BY TypeHalves DEF IInv, TypeOfData
<1>3. CASE Cancel
  <2>1. /\ pc' = pc /\ at' = at /\ attempts' = attempts /\ say' = say /\ Hope = 1 /\ Hope' = 0
    BY <1>3 DEF Cancel, ledgerVars, Hope
  <2>2. ItemsAhead' = ItemsAhead /\ PutsLeft' = PutsLeft /\ PhaseRank' = PhaseRank /\ LinesLeft' = LinesLeft
    BY <2>1 DEF ItemsAhead, PutsLeft, PhaseRank, LinesLeft, Current
  <2> QED
    BY <2>1, <2>2 DEF StepFalls, Falls
<1>4. ASSUME cancelled' = cancelled, Hope' = Hope => StepFalls
      PROVE  Hope' <= Hope /\ StepFalls
  <2>1. Hope' = Hope /\ Hope \in 0 .. 1
    BY <1>4 DEF Hope
  <2> QED
    BY <1>4, <2>1
<1>5. CASE SayLine
  <2>1. pc' = pc /\ at' = at /\ attempts' = attempts /\ say # <<>> /\ say' = Tail(say)
    BY <1>5 DEF SayLine, Silent, ledgerVars
  <2>2. ItemsAhead' = ItemsAhead /\ PutsLeft' = PutsLeft /\ PhaseRank' = PhaseRank
    BY <2>1 DEF ItemsAhead, PutsLeft, PhaseRank, Current
  <2>3. LinesLeft' < LinesLeft
    BY <1>2, <2>1 DEF LinesLeft, TypeOfSession
  <2> QED
    BY <1>4, <1>5, <2>2, <2>3 DEF StepFalls, Falls, SayLine
<1>6. CASE Invited
  <2>1. ItemsAhead' < ItemsAhead
    BY <1>1, <1>6 DEF Invited, ItemsAhead, Weighed
  <2> QED
    BY <1>4, <1>6, <2>1 DEF StepFalls, Falls, Invited
<1>7. CASE NextItem
  <2>1. \/ pc' = "closing" /\ ItemsAhead' < ItemsAhead
        \/ pc' = "put" /\ ItemsAhead' = ItemsAhead /\ PutsLeft' = PutsLeft /\ PhaseRank' < PhaseRank
    BY <1>1, <1>7 DEF NextItem, ItemsAhead, PutsLeft, PhaseRank, Current, Weighed, ledgerVars
  <2> QED
    BY <1>4, <1>7, <2>1 DEF StepFalls, Falls, NextItem
<1>8. CASE LeaveItem \/ LetItLie
  <2>1. pc = "put" /\ pc' = "next" /\ at' = at + 1 /\ cancelled' = cancelled
    BY <1>8 DEF LeaveItem, LetItLie
  <2>2. at <= Len(Order)
    BY <1>1, <1>2, <2>1 DEF AtItem, Weighed
  <2>3. ItemsAhead = (Len(Order) + 2) - at /\ ItemsAhead' = (Len(Order) + 2) - (at + 1)
    BY <2>1, Zenon DEF ItemsAhead
  <2>4. ItemsAhead' < ItemsAhead
    BY <1>1, <2>3 DEF Weighed
  <2>5. StepFalls
    BY <2>4, Zenon DEF StepFalls, Falls
  <2> QED
    BY <1>4, <2>1, <2>5
<1>9. CASE AskAgain
  <2>1. ItemsAhead' = ItemsAhead /\ PutsLeft' = PutsLeft /\ PhaseRank' < PhaseRank
    BY <1>1, <1>9 DEF AskAgain, ItemsAhead, PutsLeft, PhaseRank, Current, Weighed, ledgerVars
  <2> QED
    BY <1>4, <1>9, <2>1 DEF StepFalls, Falls, AskAgain
<1>10. CASE PutOnce
  <2>1. pc = "ready" /\ pc' = "asked" /\ at' = at /\ attempts' = [ attempts EXCEPT ![Current] = @ + 1 ]
        /\ cancelled' = cancelled
    BY <1>10 DEF PutOnce, Return
  <2>2. at <= Len(Order) /\ Current \in Items /\ Current' = Current /\ attempts[Current] \in Nat
    BY <1>1, <1>2, <2>1, BriefFacts, AttemptsAssumption DEF AtItem, Current, TypeOfLedger, Weighed
  <2>3. attempts'[Current] = attempts[Current] + 1
    BY <1>2, <2>1, <2>2 DEF TypeOfLedger
  <2>4. ItemsAhead' = ItemsAhead /\ PutsLeft' < PutsLeft
    BY <1>1, <2>1, <2>2, <2>3 DEF ItemsAhead, PutsLeft, Weighed
  <2>5. StepFalls
    BY <2>4, Zenon DEF StepFalls, Falls
  <2> QED
    BY <1>4, <2>1, <2>5
<1>11. ASSUME NEW u \in Utterances, Replied(u) \/ CutOff(u)
       PROVE  Hope' <= Hope /\ StepFalls
  <2>1. pc = "asked" /\ pc' = "put" /\ at' = at /\ attempts' = attempts /\ cancelled' = cancelled
    BY <1>11 DEF Replied, CutOff, Return
  <2>2. ItemsAhead' = ItemsAhead /\ PutsLeft' = PutsLeft /\ PhaseRank' < PhaseRank
    BY <2>1 DEF ItemsAhead, PutsLeft, PhaseRank, Current
  <2> QED
    BY <1>4, <2>1, <2>2 DEF StepFalls, Falls
<1>12. CASE Close
  <2>1. pc = "closing" /\ pc' = "report" /\ cancelled' = cancelled
    BY <1>12 DEF Close
  <2>2. ItemsAhead' = ItemsAhead /\ PutsLeft' = PutsLeft /\ PhaseRank' < PhaseRank
    BY <2>1 DEF ItemsAhead, PutsLeft, PhaseRank
  <2>3. StepFalls
    BY <2>2, Zenon DEF StepFalls, Falls
  <2> QED
    BY <1>4, <2>1, <2>3
<1>13. ~ (RefuseToStart \/ Begin \/ AskFails \/ SayFails \/ Report)
  BY DEF RefuseToStart, Begin, AskFails, SayFails, Report, Return
<1> QED
  BY <1>3, <1>5, <1>6, <1>7, <1>8, <1>9, <1>10, <1>11, <1>12, <1>13 DEF Next, SessionStep, PersonStep

\* interview.go, Conduct and put: the bound on the puts, the closing turn and the error paths leave
\* the steps of one brief finitely many, whatever the person says and whenever the context is
\* cancelled: what is left of its items, their puts and the lines falls with every one of them.
THEOREM InterviewsRunOut == Spec => EveryStepCounts
<1>1. IInv /\ FewLines /\ IInv' /\ FewLines' /\ [Next]_vars
        => [ pc # "idle" => pc' = "idle" \/ (Effort \in Nat /\ Effort' \in Nat /\ Effort' < Effort) ]_vars
  <2> SUFFICES ASSUME IInv, FewLines, IInv', FewLines', Next, pc # "idle", pc' # "idle"
               PROVE  Effort \in Nat /\ Effort' \in Nat /\ Effort' < Effort
    OBVIOUS
  <2>1. Weighed
    BY Weights
  <2>2. Weighed'
    BY Weights, PTL
  <2> QED
    BY <2>1, <2>2, NextFalls, FallsCounts
<1>2. Init => FewLines
  BY DEF Init, FewLines, LinesLeft
<1>3. Spec => []FewLines
  BY <1>2, LinesStayFew, Invariance, PTL DEF Spec
<1> QED
  BY <1>1, <1>3, Invariance, PTL DEF Spec, EveryStepCounts

=============================================================================
