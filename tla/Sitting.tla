------------------------------- MODULE Sitting -------------------------------
(***************************************************************************)
(* What stands between a brief and the person when ghillie speaks aloud:      *)
(*   internal/fill     answers items from the owner's standing rules and       *)
(*                     leaves the rest to be asked;                            *)
(*   internal/guard    passes every reply on, and nudges and counts;            *)
(*   interview/voice   renders, plays and offers the floor, then listens;       *)
(*   internal/ears     the microphone, the turn detector, the transcriber and   *)
(*                     the resident whisper-server it may start;                *)
(* wired by buildEars and run of cmd/ghillie/main.go.  How an item is conducted  *)
(* over several attempts is module Interview; here an item is put once.          *)
(* Words are left out: a reply is where it came from.                            *)
(***************************************************************************)
EXTENDS Naturals, Sequences, FiniteSets

CONSTANTS
  Items,       \* the items of a brief
  Order,       \* the items in the order of the brief
  Classes,     \* item classes a rule can name
  ClassOf,     \* the class of each item; one outside Classes matches no rule
  Options,     \* [ears, fallback, adopt, model, cli]: -ears, -voice-fallback-text,
               \* -ears-adopt-external, the model of -ears-model is there, whisper-cli is installed
  Onset, EndOfTurn, MaxFrames,  \* the turn detector, in frames
  MaxBriefs, MaxLives, MaxLines, MaxFaults,  \* bounds of the model
  Torn         \* a file cut short in the writing

ASSUME SittingAssumption ==
  /\ Items \subseteq Nat /\ IsFiniteSet(Items)
  /\ Order \in [1 .. Cardinality(Items) -> Items] /\ { Order[k] : k \in DOMAIN Order } = Items
  /\ DOMAIN ClassOf = Items
  /\ Options \subseteq [ears : BOOLEAN, fallback : BOOLEAN, adopt : BOOLEAN,
                  model : BOOLEAN, cli : BOOLEAN]
  /\ Onset \in Nat \ {0} /\ EndOfTurn \in Nat \ {0} /\ MaxFrames \in Nat \ {0}
  /\ MaxBriefs \in Nat /\ MaxLives \in Nat /\ MaxLines \in Nat /\ MaxFaults \in Nat
  /\ Torn \notin Nat

VARIABLES
  rules,      \* fill-rules.json: the classes with a licence
  tally,      \* guard-record.json
  port,       \* who answers at the whisper URL: "free", "child" or "other"
  child,      \* the whisper-server of this process: "none", "loading", "serving" or "dead"
  lines,      \* typed lines not read yet
  options,    \* how the program was called
  pc,         \* where the process is
  stopping,   \* the context of the process is cancelled
  hears,      \* the transcriber: "none", "server" or "cli"
  store,      \* the rules as they were read at the start
  count,      \* the guard's count in memory
  at,         \* the item to be decided on or asked, an index
  filled, todo, got,  \* answers from rules, items to ask, answers of the person
  levels,     \* the frames of this turn, loud or quiet
  detector,   \* [loud, quiet, speaking, spoke]
  ended,      \* the microphone stopped by itself
  report,     \* what the last Conduct returned: answers, or <<>>
  trips, lives, briefs, faults   \* history: replies that tripped; bounds

files == <<rules, tally>>
server == <<port, child>>
brief == <<at, filled, todo, got>>
turn == <<levels, detector, ended>>
wired == <<options, hears, store>>
bounds == <<lives, briefs, faults>>
vars == <<rules, tally, port, child, lines, options, pc, stopping, hears, store, count, at, filled,
          todo, got, levels, detector, ended, report, trips, lives, briefs, faults>>

Rules == [Classes -> BOOLEAN]
NoRules == [c \in Classes |-> FALSE]
Answers == [item : Items, how : {"filled", "spoken", "typed"}]
Quiet == [loud |-> 0, quiet |-> 0, speaking |-> FALSE, spoke |-> FALSE]

\* The states of Filler.Conduct and of the surface below it.
Conducting == {"deciding", "putting", "rendering", "held", "playing", "offering", "listening",
               "hearing", "typing", "nudging", "counting"}

TypeOK ==
  /\ rules \in Rules \cup {Torn} /\ tally \in Nat \cup {Torn}
  /\ port \in {"free", "child", "other"} /\ (port = "child" <=> child = "serving")
  /\ child \in {"none", "loading", "serving", "dead"} /\ (pc = "down" => child = "none")
  /\ lines \in 0 .. MaxLines /\ options \in Options
  /\ pc \in {"down", "probing", "warming", "records", "idle"} \cup Conducting
  /\ stopping \in BOOLEAN /\ hears \in {"none", "server", "cli"}
  /\ store \in Rules \cup {Torn} /\ count \in Nat
  /\ at \in 1 .. Len(Order) + 1
  /\ filled \in Seq(Answers) /\ todo \in Seq(Items) /\ got \in Seq(Answers) /\ report \in Seq(Answers)
  /\ levels \in Seq(BOOLEAN) /\ Len(levels) <= MaxFrames
  /\ detector.loud \in 0 .. MaxFrames /\ detector.quiet \in 0 .. MaxFrames
  /\ detector.speaking \in BOOLEAN /\ detector.spoke \in BOOLEAN /\ ended \in BOOLEAN
  /\ trips \in Nat /\ lives \in 0 .. MaxLives /\ briefs \in 0 .. MaxBriefs /\ faults \in 0 .. MaxFaults

Init ==
  /\ rules = NoRules /\ tally = 0 /\ port = "free" /\ child = "none" /\ lines = 0
  /\ options \in Options /\ pc = "down" /\ stopping = FALSE /\ hears = "none"
  /\ store = NoRules /\ count = 0 /\ at = 1 /\ filled = <<>> /\ todo = <<>> /\ got = <<>>
  /\ levels = <<>> /\ detector = Quiet /\ ended = FALSE /\ report = <<>>
  /\ trips = 0 /\ lives = 0 /\ briefs = 0 /\ faults = 0

Fault == faults < MaxFaults /\ faults' = faults + 1 /\ UNCHANGED <<lives, briefs>>

-----------------------------------------------------------------------------
(* The owner's verbs, each a process of its own: load, change, save in place.  *)

Verb(changed) ==
  /\ \/ rules' = changed /\ UNCHANGED bounds
     \/ rules' = Torn /\ Fault
  /\ UNCHANGED <<tally, server, lines, pc, stopping, wired, count, brief, turn, report, trips>>

Allow(c) == rules # Torn /\ Verb([rules EXCEPT ![c] = TRUE])

\* The licence goes; the answer stays and is only offered, which is a matter of wording.
Revoke(c) == rules # Torn /\ Verb([rules EXCEPT ![c] = FALSE])

\* A file nothing can be read from is removed by hand; the count begins anew.
Discard ==
  /\ pc = "down" /\ Torn \in {rules, tally}
  /\ rules' = (IF rules = Torn THEN NoRules ELSE rules)
  /\ tally' = (IF tally = Torn THEN 0 ELSE tally)
  /\ trips' = (IF tally = Torn THEN 0 ELSE trips)
  /\ UNCHANGED <<server, lines, pc, stopping, wired, count, brief, turn, report, bounds>>

-----------------------------------------------------------------------------
(* The process: start, stop, and the server it may own.                        *)

Start ==
  /\ pc = "down" /\ lives < MaxLives /\ lives' = lives + 1
  /\ pc' = IF options.ears THEN "probing" ELSE "records"
  /\ UNCHANGED <<files, server, lines, stopping, wired, count, brief, turn, report, trips, briefs, faults>>

\* Bug: the server a process owned is left running.
CloseNothing == UNCHANGED server

\* run returns: buildEars' stop closes a server this process started, and only that.
Close == /\ child' = "none"
         /\ port' = IF port = "child" THEN "free" ELSE port

Down == /\ pc' = "down" /\ stopping' = FALSE /\ hears' = "none" /\ store' = NoRules /\ count' = 0
        /\ lines' = 0 /\ at' = 1 /\ filled' = <<>> /\ todo' = <<>> /\ got' = <<>> /\ report' = <<>>
        /\ levels' = <<>> /\ detector' = Quiet /\ ended' = FALSE

\* The model is looked for before anything else: without it there is no start, whisper-cli or not.
ModelMissing ==
  /\ pc = "probing" /\ ~options.model
  /\ Down
  /\ UNCHANGED <<files, server, options, trips, bounds>>

\* No server to be had: whisper-cli for every utterance, or no start at all.
NoResident ==
  \/ /\ options.cli /\ hears' = "cli" /\ pc' = "records"
     /\ UNCHANGED <<stopping, store, count, lines, brief, turn, report>>
  \/ ~options.cli /\ Down

\* Whoever answers already is used if the owner allows it and refused if not; else a server is
\* started, if it can be.  The probe gives up on a slow answer.
StartResident ==
  /\ pc = "probing" /\ options.model
  /\ \/ /\ port # "free" /\ options.adopt /\ ~stopping /\ hears' = "server" /\ pc' = "records"
        /\ UNCHANGED <<server, stopping, store, count, lines, brief, turn, report>>
     \/ /\ ~stopping /\ child' = "loading" /\ pc' = "warming"
        /\ UNCHANGED <<port, stopping, hears, store, count, lines, brief, turn, report>>
     \/ NoResident /\ UNCHANGED server
  /\ UNCHANGED <<files, options, trips, bounds>>

\* Whoever answers now is taken for the server that was started.
Warmed ==
  /\ pc = "warming" /\ ~stopping /\ port # "free"
  /\ hears' = "server" /\ pc' = "records"
  /\ UNCHANGED <<files, server, lines, options, stopping, store, count, brief, turn, report, trips, bounds>>

\* Nothing answered in time, or the process is told to stop.
StartupWait ==
  /\ pc = "warming"
  /\ Close /\ NoResident
  /\ UNCHANGED <<files, options, trips, bounds>>

ChildBinds ==
  /\ child = "loading" /\ port = "free"
  /\ child' = "serving" /\ port' = "child"
  /\ UNCHANGED <<files, lines, pc, stopping, wired, count, brief, turn, report, trips, bounds>>

ChildDies ==
  /\ child \in {"loading", "serving"}
  /\ child' = "dead" /\ port' = IF port = "child" THEN "free" ELSE port
  /\ UNCHANGED <<files, lines, pc, stopping, wired, count, brief, turn, report, trips, bounds>>

OtherServer ==
  /\ \/ port = "free" /\ port' = "other"
     \/ port = "other" /\ port' = "free"
  /\ UNCHANGED <<files, child, lines, pc, stopping, wired, count, brief, turn, report, trips, bounds>>

\* The guard's record is refused when it cannot be read, and the process does not start; the fill
\* rules are read once, and rules that cannot be read fill nothing.
LoadRecord ==
  /\ pc = "records" /\ tally # Torn
  /\ count' = tally /\ store' = rules /\ pc' = "idle"
  /\ UNCHANGED <<files, server, lines, options, stopping, hears, brief, turn, report, trips, bounds>>

RecordRefused ==
  /\ pc = "records" /\ tally = Torn
  /\ Close /\ Down
  /\ UNCHANGED <<files, options, trips, bounds>>

\* SIGTERM.  The server was started under the context and is killed with it.
Stop ==
  /\ pc # "down" /\ ~stopping /\ stopping' = TRUE
  /\ child' = (IF child \in {"loading", "serving"} THEN "dead" ELSE child)
  /\ port' = (IF port = "child" THEN "free" ELSE port)
  /\ UNCHANGED <<files, lines, pc, wired, count, brief, turn, report, trips, bounds>>

Exit ==
  /\ pc = "idle" /\ stopping
  /\ Close /\ Down
  /\ UNCHANGED <<files, options, trips, bounds>>

\* Killed: a server of its own lives on, as somebody else's.
Crash ==
  /\ pc # "down" /\ Fault /\ Down
  /\ child' = "none" /\ port' = IF port = "child" THEN "other" ELSE port
  /\ tally' \in {tally} \cup (IF pc = "counting" THEN {Torn} ELSE {})
  /\ UNCHANGED <<rules, options, trips>>

-----------------------------------------------------------------------------
(* fill: the partition of the brief.                                          *)

NewBrief ==
  /\ pc = "idle" /\ ~stopping /\ briefs < MaxBriefs /\ briefs' = briefs + 1
  /\ pc' = "deciding" /\ at' = 1 /\ filled' = <<>> /\ todo' = <<>> /\ got' = <<>> /\ report' = <<>>
  /\ UNCHANGED <<files, server, lines, stopping, wired, count, turn, trips, lives, faults>>

\* What the rules say of an item: the two facts the decider is given.
Lookup(i) ==
  IF store = Torn THEN "no_rule_record"
  ELSE IF ClassOf[i] \in Classes /\ store[ClassOf[i]] THEN "licensed" ELSE "reaches_not"

\* The front over the proven core.  "ask_plain" and "ask_with_offer" differ in the wording.
Verdict(i) == IF Lookup(i) = "licensed" THEN "fill_silently" ELSE "asked"

\* A decider that cannot be asked, fails, or says a word nobody knows.
Unaided == "asked"

\* Bug: an item the decider was not there for is in neither part.
PartitionDropping(word) ==
  /\ filled' = IF word = "fill_silently" THEN Append(filled, [item |-> Order[at], how |-> "filled"]) ELSE filled
  /\ todo' = IF word = "asked" /\ Lookup(Order[at]) # "licensed" THEN Append(todo, Order[at]) ELSE todo

Partition(word) ==
  /\ filled' = IF word = "fill_silently" THEN Append(filled, [item |-> Order[at], how |-> "filled"]) ELSE filled
  /\ todo' = IF word = "asked" THEN Append(todo, Order[at]) ELSE todo

\* The decider has no time limit and does not hear of a stop.
Decide ==
  /\ pc = "deciding" /\ at <= Len(Order)
  /\ \E word \in {Verdict(Order[at]), Unaided} : Partition(word)
  /\ at' = at + 1
  /\ UNCHANGED <<files, server, lines, pc, stopping, wired, count, got, turn, report, trips, bounds>>

\* Conduct returns.
Returns(answers) ==
  /\ report' = answers /\ pc' = "idle"
  /\ at' = 1 /\ filled' = <<>> /\ todo' = <<>> /\ got' = <<>>
  /\ UNCHANGED <<files, server, lines, stopping, wired, count, trips, bounds>>

\* Nothing is left to ask: nobody is disturbed, and the answers leave in the order of the brief.
AllFilled ==
  /\ pc = "deciding" /\ at > Len(Order) /\ todo = <<>>
  /\ Returns(filled) /\ UNCHANGED turn

AskRest ==
  /\ pc = "deciding" /\ at > Len(Order) /\ todo # <<>>
  /\ pc' = "putting" /\ at' = 1
  /\ UNCHANGED <<files, server, lines, stopping, wired, count, filled, todo, got, turn, report, trips, bounds>>

\* sort.Slice on the item ids, no two of which are the same (brief.validate).
SortByItem(answers) ==
  LET rank(k) == Cardinality({ j \in DOMAIN answers : answers[j].item < answers[k].item }) + 1
  IN  [ r \in DOMAIN answers |-> answers[CHOOSE k \in DOMAIN answers : rank(k) = r] ]

\* Every item was asked: the two parts leave together, ordered by item.
Merge ==
  /\ pc = "putting" /\ at > Len(todo)
  /\ Returns(SortByItem(filled \o got)) /\ UNCHANGED turn

TurnOver == levels' = <<>> /\ detector' = Quiet /\ ended' = FALSE

\* The interview returns an error: what was filled goes with it.
Fails == Returns(<<>>) /\ TurnOver

-----------------------------------------------------------------------------
(* voice: one question.                                                       *)

Putting == pc = "putting" /\ at <= Len(todo)

Goes(next) ==
  /\ pc' = next
  /\ UNCHANGED <<files, server, lines, stopping, wired, count, brief, report, trips, bounds>>

Spoken(next) == ~stopping /\ UNCHANGED turn /\ Goes(next)

\* The voice is synthesised by child processes, piper and the harness.
Render == Putting /\ Spoken("rendering")

\* They end well, and the plan vouches for every breath in what they made.
Rendered == pc = "rendering" /\ Spoken("playing")

\* They end or are killed, but something they started holds their pipes, and cmd.Run, which has
\* no WaitDelay, goes on waiting.
PipesHeld == pc = "rendering" /\ UNCHANGED turn /\ Goes("held")

Play == pc = "playing" /\ Spoken("offering")

\* The breath of the bank is levelled to the question and played: the floor is offered, to the
\* ear if there is one.
OfferedFloor ==
  pc = "offering" /\ Spoken(IF hears = "none" THEN "typing" ELSE "listening")

\* Bug: the console waits for a line whatever the context says.
ConsoleAskAnyway == Goes("typing") /\ TurnOver

\* The console refuses a context that is cancelled, and else puts the question in text.
ConsoleAsk == IF stopping THEN Fails ELSE Goes("typing") /\ TurnOver

\* A part of the pipeline fails: the error is returned, or the console asks if that was asked for.
Voiceless == IF options.fallback THEN ConsoleAsk ELSE Fails

FallbackAsk ==
  /\ Putting \/ pc \in {"rendering", "playing", "offering"}
  /\ Voiceless

\* What held the pipes ends, if it ever does.
PipesClose == pc = "held" /\ (Spoken("playing") \/ Voiceless)

\* An ear that failed or heard nothing: the person is told, and asked to type.
RepromptTyped == ConsoleAsk

ReadReply ==
  /\ pc = "typing"
  /\ \/ /\ lines > 0 /\ lines' = lines - 1
        /\ got' = Append(got, [item |-> todo[at], how |-> "typed"])
        /\ pc' = "nudging"
        /\ UNCHANGED <<files, server, stopping, wired, count, at, filled, todo, turn, report, trips, bounds>>
     \/ lines = 0 /\ Fails

\* The person types, asked or not; what is typed early waits for the next question.
TypeLine ==
  /\ pc # "down" /\ lines < MaxLines /\ lines' = lines + 1
  /\ UNCHANGED <<files, server, pc, stopping, wired, count, brief, turn, report, trips, bounds>>

-----------------------------------------------------------------------------
(* ears: the turn of the person.                                              *)

\* Bug: the turn ends a frame late.
ObserveLevelLate(loud, d) ==
  LET l == IF loud THEN d.loud + 1 ELSE 0
      q == IF loud THEN 0 ELSE d.quiet + 1
      on == IF loud THEN d.speaking \/ l >= Onset ELSE d.speaking /\ q <= EndOfTurn
  IN [loud |-> l, quiet |-> q, speaking |-> on, spoke |-> d.spoke \/ on]

\* Both edges need a run of frames.
ObserveLevel(loud, d) ==
  LET l == IF loud THEN d.loud + 1 ELSE 0
      q == IF loud THEN 0 ELSE d.quiet + 1
      on == IF loud THEN d.speaking \/ l >= Onset ELSE d.speaking /\ q < EndOfTurn
  IN [loud |-> l, quiet |-> q, speaking |-> on, spoke |-> d.spoke \/ on]

\* The window closes when the person has spoken and gone quiet, or at the safety stop.
CaptureFrame ==
  /\ pc = "listening" /\ ~stopping
  /\ \E loud \in BOOLEAN :
       /\ levels' = Append(levels, loud)
       /\ detector' = ObserveLevel(loud, detector)
  /\ UNCHANGED ended
  /\ Goes(IF (detector'.spoke /\ ~detector'.speaking) \/ Len(levels') = MaxFrames
          THEN "hearing" ELSE "listening")

\* The microphone's stream ends by itself: what it gave is taken for the turn.
CaptureEnds ==
  /\ pc = "listening" /\ ~stopping /\ levels # <<>>
  /\ ended' = TRUE /\ UNCHANGED <<levels, detector>>
  /\ Goes("hearing")

\* No ffmpeg, a stream that breaks, no audio at all, or the context is cancelled.
CaptureFails == pc = "listening" /\ RepromptTyped

\* A server must be there to answer; either transcriber may fail or hear no speech.
Transcribe ==
  /\ pc = "hearing" /\ ~stopping /\ (hears = "server" => port # "free")
  /\ got' = Append(got, [item |-> todo[at], how |-> "spoken"])
  /\ pc' = "nudging" /\ TurnOver
  /\ UNCHANGED <<files, server, lines, stopping, wired, count, at, filled, todo, report, trips, bounds>>

NothingHeard == pc = "hearing" /\ RepromptTyped

\* The words were heard and cannot be shown any more.
NotShown == pc = "hearing" /\ stopping /\ Fails

-----------------------------------------------------------------------------
(* guard: the reply on its way in.                                            *)

NotTripped ==
  /\ pc = "nudging" /\ pc' = "putting" /\ at' = at + 1
  /\ UNCHANGED <<files, server, lines, stopping, wired, count, filled, todo, got, turn, report, trips, bounds>>

\* Bug: a trip counts only if the nudge could be said.
TripsSaid ==
  /\ pc = "nudging" /\ pc' = "counting"
  /\ count' = (IF stopping THEN count ELSE count + 1) /\ trips' = trips + 1
  /\ UNCHANGED <<files, server, lines, stopping, wired, brief, turn, report, bounds>>

\* Counted, then the nudge is said, or cannot be said.
Trips ==
  /\ pc = "nudging" /\ pc' = "counting"
  /\ count' = count + 1 /\ trips' = trips + 1
  /\ UNCHANGED <<files, server, lines, stopping, wired, brief, turn, report, bounds>>

\* The count goes to its file, in place; a failure is logged.
SaveRecord ==
  \/ tally' = count /\ UNCHANGED bounds
  \/ tally' \in {tally, Torn} /\ Fault

Utterance ==
  /\ pc = "counting" /\ SaveRecord
  /\ pc' = "putting" /\ at' = at + 1
  /\ UNCHANGED <<rules, server, lines, stopping, wired, count, filled, todo, got, turn, report, trips>>

-----------------------------------------------------------------------------
Ears == \/ CaptureFrame \/ CaptureEnds \/ CaptureFails \/ Transcribe \/ NothingHeard \/ NotShown

\* What goes on without anybody: not the decider, not what holds the pipes of a child that is
\* gone, and not the person at the keyboard.
Proceeds ==
  \/ ModelMissing \/ StartResident \/ Warmed \/ StartupWait \/ LoadRecord \/ RecordRefused \/ Exit
  \/ AllFilled \/ AskRest \/ Merge
  \/ Render \/ Rendered \/ Play \/ OfferedFloor \/ FallbackAsk \/ Ears
  \/ NotTripped \/ Trips \/ Utterance

Next ==
  \/ \E c \in Classes : Allow(c) \/ Revoke(c)
  \/ Discard \/ Start \/ Stop \/ Crash \/ Proceeds
  \/ ChildBinds \/ ChildDies \/ OtherServer
  \/ NewBrief \/ Decide \/ PipesHeld \/ PipesClose \/ ReadReply \/ TypeLine

Spec == Init /\ [][Next]_vars /\ WF_vars(Proceeds)

-----------------------------------------------------------------------------
(* Properties.                                                              *)

\* fill.Conduct: a report holds every item of the brief once, none was dropped between the rules,
\* the decider and the person, an answer nobody gave comes from a licence in the rules this
\* process could read, and unless all of them do they leave in the order of the items.
ReportIsWhole ==
  report # <<>> =>
    /\ { report[k].item : k \in DOMAIN report } = Items /\ Len(report) = Cardinality(Items)
    /\ \A k \in DOMAIN report : report[k].how = "filled" =>
         store # Torn /\ ClassOf[report[k].item] \in Classes /\ store[ClassOf[report[k].item]]
    /\ \/ \A k \in DOMAIN report : report[k].how = "filled"
       \/ \A j, k \in DOMAIN report : j < k => report[j].item < report[k].item

\* guard.go: "the record is still the record": the file never counts a trip that was not, and is
\* behind by no more than the failed saves and crashes, over all lives of the process.
TallyKeepsUp ==
  tally # Torn =>
    /\ tally <= trips
    /\ trips <= tally + faults + (IF pc = "counting" THEN 1 ELSE 0)

\* capture.go: the microphone stays open through every pause of less than EndOfTurn frames, and
\* closes on the first longer one after Onset loud frames in a row, at the safety stop, or when
\* the stream is over.
TurnBy(k) ==
  /\ k >= Onset + EndOfTurn
  /\ \A j \in k - EndOfTurn + 1 .. k : ~levels[j]
  /\ \E i \in Onset .. k - EndOfTurn : \A j \in i - Onset + 1 .. i : levels[j]
WindowIsTheTurn ==
  /\ pc = "listening" => \A k \in DOMAIN levels : ~TurnBy(k)
  /\ pc = "hearing" =>
       /\ TurnBy(Len(levels)) \/ Len(levels) = MaxFrames \/ ended
       /\ \A k \in 1 .. Len(levels) - 1 : ~TurnBy(k)

\* A stop ends the process, from anywhere but a decider that does not answer and a line that is
\* not typed, for neither hears of it; a question being rendered can be held up by what the killed
\* harness has left behind.
StopEnds == (stopping /\ pc \notin {"deciding", "typing"}) ~> pc \in {"down", "held"}
=============================================================================
