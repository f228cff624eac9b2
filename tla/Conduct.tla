------------------------------ MODULE Conduct -------------------------------
(***************************************************************************)
(* The three decision cores of internal/conduct: who has the floor, what an  *)
(* item of the question ledger becomes, and whether a question may be put     *)
(* once more.                                                              *)
(***************************************************************************)
EXTENDS Naturals

CONSTANT MaxAttempts   \* puts of one item before it is let lie; the code compiles in 3

ASSUME AttemptsAssumption == MaxAttempts \in Nat \ {0}

-----------------------------------------------------------------------------
(* The turn machine.                                                       *)

TurnStates == { "Listening", "Thinking", "Speaking" }
TurnEvents == { "PersonFinished", "ReplyReady", "ReplyComplete", "CutOff" }

\* Bug: ghillie keeps the floor when it is cut off while speaking.
AdvanceTurnHolding(t, event) ==
  IF event = "CutOff" /\ t # "Speaking"              THEN "Listening"
  ELSE IF event = "PersonFinished" /\ t = "Listening" THEN "Thinking"
  ELSE IF event = "ReplyReady"     /\ t = "Thinking"  THEN "Speaking"
  ELSE IF event = "ReplyComplete"  /\ t = "Speaking"  THEN "Listening"
  ELSE                                                     t

\* An interruption always yields the floor; every other event moves one step round.
AdvanceTurn(t, event) ==
  IF event = "CutOff"                                THEN "Listening"
  ELSE IF event = "PersonFinished" /\ t = "Listening" THEN "Thinking"
  ELSE IF event = "ReplyReady"     /\ t = "Thinking"  THEN "Speaking"
  ELSE IF event = "ReplyComplete"  /\ t = "Speaking"  THEN "Listening"
  ELSE                                                     t

MaySpeak(t) == t = "Speaking"

-----------------------------------------------------------------------------
(* The question ledger.                                                    *)

QuestionStates == { "Unasked", "Asked", "Answered", "Interrupted" }
LedgerEvents   == { "Ask", "ReceiveAnswer", "CutOff" }

\* An answer is never lost again, and being cut off is not being answered.
AdvanceQuestion(q, event) ==
  IF event = "ReceiveAnswer"               THEN "Answered"
  ELSE IF event = "CutOff" /\ q = "Asked"  THEN "Interrupted"
  ELSE IF event = "Ask" /\ q # "Answered"  THEN "Asked"
  ELSE                                          q

IsGot(q) == q = "Answered"

\* Ghillie may treat an item as done exactly when it has it.
MayMoveOn(q) == IsGot(q)

\* A reply without substance leaves the item as it is.
AdvanceOnReply(q, hasSubstance) ==
  IF hasSubstance THEN AdvanceQuestion(q, "ReceiveAnswer") ELSE q

-----------------------------------------------------------------------------
(* The attempt bound.                                                      *)

\* Bug: the bound is compared the wrong way round by one.
DecideOneTooMany(attempts, q) ==
  IF IsGot(q)                     THEN "AlreadyHaveIt"
  ELSE IF attempts > MaxAttempts  THEN "LetItLie"
  ELSE                                 "AskAgain"

\* Bug: the count decides without looking at the ledger.
DecideByCount(attempts, q) ==
  IF attempts >= MaxAttempts THEN "LetItLie" ELSE "AskAgain"

\* What to do with an item put so many times and now in this state.
Decide(attempts, q) ==
  IF IsGot(q)                     THEN "AlreadyHaveIt"
  ELSE IF attempts >= MaxAttempts THEN "LetItLie"
  ELSE                                 "AskAgain"
=============================================================================
