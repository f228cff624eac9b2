# Verification of ghillie

Ghillie is a terminal: a process on a person's machine that polls a facade for
signed instructions, admits or refuses each one by a compiled-in gate, conducts
the short interview a delivered brief asks for, and sends back outcomes and signed
submissions. Nobody connects to it from outside; everything it does starts with a
poll of its own.

This directory holds TLA+ models of that program, the TLC configurations that check
them on small instances, and TLAPS proofs of their safety properties for every
value of the constants. Paths below are relative to the repository (`src/...`).
`PROJECT.json` lists, definition by definition, the lines each one models.

## The system

| Part | State | Operations | Talks to |
|---|---|---|---|
| gate (`internal/gate`) | none | `MayCommand`, `Evaluate`, `IsFresh`, `IsKnownCommand`, `MayAct`, `MayEnrol` | called by terminal, enrol |
| terminal (`internal/terminal/terminal.go`) | `lastSeq`, `pending`, `answers`; the state file; the quarantine directory | `Run`, `poll`, `handle`, `act`, `refuse`, `saveState`, `loadState` | facade by HTTP, gate, interview |
| interview seam (`internal/terminal/interviewseam.go`) | the same queues | `deliverBrief`, `fetchBrief`, `sign`, `submit`, `postSubmission` | facade, credit, interview |
| conduct (`internal/conduct`) | none (three pure machines) | turn machine, question ledger, attempt bound | called by brief and interview |
| brief (`internal/brief`) | per item: ledger state, attempts, reply | `NewState`, `Ask`, `Answer`, `CutOff`, `Outstanding` | interview |
| interview (`internal/interview`) | `Session.turn`, one brief's ledger | `Conduct` and its helpers | a surface: console, glass or voice |
| glass (`internal/glass`) | transcript, queued replies, one waiter, sent ids, connections, pending approvals | `SayLine`, `AwaitReply`, `chat.send`, `approval.resolve`, broadcast | the person's browser, interview |
| bundle store (`internal/bundle`) | ability directories, the append-only ledger, a staging directory | `Fetch`, `Unpack`, `Install`, `Uninstall`, `Installed` | admission gate, catalogue |
| admission of abilities (`internal/admit`) | none; a deciding core in another program | `FromCatalogue`, `FromDirectory`, `Decide`, `GateFor` | bundle store, the verbs of `cmd/ghillie` |
| notes (`internal/terminal/notesfetch.go`) | ring of rendered signatures, retired correspondents | `fetchNotes`, `rememberNote` | facade, person |
| enrol (`internal/enrol`) | enrolment state, session token and expiry | `Enrol`, `Attest`, `Authorization`, `Invalidate` | facade, terminal |
| trust in a facade (`cmd/ghillie/main.go`) | the pin file `ghillie-facade.pin` | `resolveFacadeKey` | enrol, the operator |
| the double of the door (`cmd/mockfacade/brief.go`) | enrolled claws, outstanding challenges, sessions, all in memory | `handleEnrol`, `handleAttest`, `requireSession` | enrol, terminal |
| fill (`internal/fill`) | `fill-rules.json` | `Conduct`, `Lookup`, `Allow`, `Revoke` | interview, an external decider |
| guard (`internal/guard`) | the count of trips, `guard-record.json` | `LoadRecord`, `Utterance`, `Save` | a surface |
| speech (`internal/voice`, `internal/ears`, `interview/voice.go`) | the turn detector, the window, a resident whisper-server | render, play, offer, `CaptureUtterance`, `Transcribe`, `StartResident`, `Close` | child processes, microphone, person |
| connectors (`cmd/ghillie-post`, `-slack`, `-discord`, `-telegram`, `-wa`) | a credential, a watermark file, the table of grants | login, poll, decide, file, save | a mail or chat service, the delivery-policy decider |
| harnesses (`internal/acceptance`, `purposetrial`, `adversary`) | a record of each pass | `Decide`, `RunTrial`, `RunAdversarialPass` | a bundle's surface, a local model, a decider |

The other packages (keys and identity, CV disclosure, the owner's model socket, diary and
locale, the gap ledger, small clients) keep no state that another part reads while it
changes, or are I/O around external programs. `PROJECT.json` lists every one of them under
`components` with the reason it is left out.

What is hard here:

* A crash anywhere: the state file is written once per batch, after everything in
  the batch was done, and by a write that truncates first.
* A poll is a request that may be taken while its answer is lost; what is owed must
  survive that, and the queues are drained before the body is decoded.
* Twelve ways out of `handle`, each of which owes the facade exactly one outcome.
* A session whose turn machine survives failed briefs, a person who may interrupt,
  stay silent or ask about the machinery at every question, and a cancellation that
  makes every surface refuse to speak.
* The glass: words handed over between goroutines after an unlock, sends that are
  retried, a question that gives up while it is being answered, entries broadcast to
  a set of connections that changes, cursors that outlive the transcript they count.
* The bundle store: an install is a dozen file operations and one ledger line, each
  of which may fail or be the last, while whoever owns the source may still edit it.
* Trust and sessions: the first key a door presents is pinned by a write that a crash may
  cut off, and a door that restarts forgets sessions the terminal still believes in.
* The connectors: five services that remember in five ways, a watermark saved after every
  arrival, after a channel, after a batch or never, by a write that truncates, and full
  pages, tied stamps and failures between reading and saving.
* The harnesses: a surface that floods its output, overruns its time or leaves a process
  behind, a model that fails between two turns, and a record that must not read like that
  of a whole pass.
* Speech: a turn that ends on a run of quiet frames, a server that is the process's own or
  somebody else's, rules the owner changes meanwhile, and a stop that has to get through.

What makes each part correct: the gate is asked for every act and nothing happens
without an authentic frame; a frame is not accepted twice; nothing owed to the
facade is lost by a living process; every instruction ends in one outcome; the
ledger of an interview never claims an answer nobody gave and never loses one;
items are asked in order and not too often; every interview ends; words sent to the
glass are recorded once and answer at most one question, in the order they were
accepted; a pane misses no entry; an ability on disk was admitted, in those bytes, and
recorded; under one pin only one signer is believed; a session the door forgot costs one
refusal and the terminal comes back; a finished correspondence says nothing more; an arrival
is passed only after the policy was asked, and is shown again only for a fault; a bundle is
accepted only on runs that were seen whole, and a record tells what its pass did; an answer
nobody gave comes from a licence, the guard's record is behind by no more than the faults,
the microphone is open for the turn, and a stop ends the process.

## Modules

| Module | Models | Checked by | Proved in |
|---|---|---|---|
| `Gate` | admission decisions of `internal/gate` | every Terminal run | used in `TerminalProofs` |
| `Outbox` | abstract: what a process promises about what it owes | refinement, `terminal_core` | `TerminalIsAnOutbox` |
| `Terminal` | poll loop, admission path, delivery, submission, files, crashes | `MCTerminal` | `TerminalProofs` |
| `Conduct` | the three decision cores of `internal/conduct` | `MCInterview` | used in `InterviewProofs` |
| `Interview` | `Session.Conduct` and the brief's ledger | `MCInterview` | `InterviewProofs` |
| `Mailbox` | abstract: what the glass promises an interview about the person's words | refinement, `glass` | `GlassIsAMailbox` |
| `Glass` | `SayLine`, `AwaitReply`, `chat.send` and the goroutines that serve sockets | `MCGlass` | `GlassProofs` |
| `Panes` | broadcasts, pages and cursors, reconnections and restarts | `MCPanes` | `ReadersProofs` |
| `Admit` | the six facts and the table of the deciding core | every Bundle run | used in `BundleProofs` |
| `Bundle` | the life of one ability on disk: fetch, unpack, prove, install, remove | `MCBundle` | `BundleProofs` |
| `Session` | enrolment, the pin, attestation, the session and its loss, the notes | `MCSession` | `SessionProofs` |
| `Connector` | the five connectors: login, poll, decision, watermark | `MCConnector` | `ReadersProofs` |
| `Trials` | acceptance, purpose trial and adversarial pass over a bundle's surface | `MCTrials` | `TrialsProofs` |
| `Sitting` | fill rules, guard, voice, ears and the resident server around a brief | `MCSitting` | `SittingProofs` |

### Terminal

State: `pc` says where the one goroutine of `Run` stands (`top` of the loop,
`submit`, `poll`, `handle`, the three steps of a delivery, `save`, `pause`, or
`down` when there is no process). `lastSeq`, `pending` and `answers` are the fields
of the same names; `todo` and `kept` are the two halves of the queue while `submit`
walks it; `batch` is what the current poll returned and is not handled yet; `disk`
and `notices` are the files, the only state that outlives a process. `reported` and
`specs` are what the facade holds. The rest is history for the properties.

Actions: `Start` is `New` and `loadState`; `StopAtTop`/`BeginRound` the top of the
loop; `PostSubmission`/`EndSubmit` are `submit`; `PollFails`, `PollUnusable`,
`PollEmpty`, `PollInstructions` the four results of `poll`; `RefuseUnseen` the
checks before freshness is settled; `RefuseAtGate`, `Perform`, `Deliver` what
follows when the frame was seen; `CreditGranted`, `FetchBrief`, `Conduct`,
`DeliveryFails` are `deliverBrief`; `EndBatch`, `SaveState`, `Pause` the end of a
round. `Crash` may happen in every phase and inside the write of the state file.
`Cancel` is the context. A request is one atomic exchange with three fates:
answered, not taken, taken with the answer lost.

An envelope is a record of what the code looks at: does it parse, is its signature
the facade's, its protocol version, command byte, sequence number and the brief it
names. The facade may send any envelope at any time, any number of times and in any
order. The gate's consent answer is any of the three; the model takes it as
asked at each act, as the code does.

`fetchNotes`, which runs between `submit` and `poll`, touches none of this state and
is in `Session`. Interviews are one step here (`Conduct`, or
`DeliveryFails`), and a whole component in `Interview`.

Bounds: `MaxRecords` bounds outcomes and submissions ever made (`RoomFor` keeps room
so that a bound never blocks a step in the middle of a batch), `MaxLives` the starts
of the process, `MaxPolls` is the program's own flag. With `MaxPolls = 0` and
`IdleExit = 0` (the code's "never") the counters that only those flags read stay 0.
`MaxPollInstructions` is the code's limit, 1024 there, 1 or 2 here.

### Outbox

An item put in stays until the facade holds it, as long as the process lives. It may
be delivered twice. Only the end of a process forgets. `Terminal` implements it
with `held` = `pending` and `answers`, `delivered` = `reported` and `specs`; the
`Step` of the outbox is the code's promise that `poll` and `submit` clear a queue
only for what got through.

### Conduct and Interview

`Conduct` is a transcription of the three cores as operators. `Interview` is one
session conducting brief after brief. The lines ghillie has decided to say are a
queue (`say`), because every one passes through `speak`, may fail, and moves the
turn machine; nothing else happens before it is empty. `Begin`, `Invited` are
`invite`; `NextItem` the loop over the items, `LeaveItem`, `LetItLie`, `AskAgain`
the three decisions of `put`; `PutOnce`, `Replied`, `CutOff`, `AskFails` are
`putOnce`, `settleInterrupted` and `settleDisclosure`; `Close` and `Report` the end.
Every place where the code returns a "ledger violation" is a `Return("violation")`
here under the same condition, so that unreachability is something to show.

The person answers with silence, with words or with a question about the machinery,
and may do so by cutting ghillie off. A surface may fail at any line (`Faults`) and
fails at every line once the context is cancelled. The words themselves are
abstracted to "none", "interjection" or "answer".

### Mailbox and Glass

`transcript`, `replies`, `waiter` and `seenSends` are the fields of `Server` guarded
by its mutex; `waiter` holds the number of the question whose channel it is. The
interview is one goroutine (`idle`, `ask` between `SayLine` and `AwaitReply`, `wait`
in its select, `gone` between the select and the lock that clears the waiter), and
each connection is served by another (`read`, `echo` between the unlock of
`handleChatSend` and the wake-up, `answer` before the response is written). A step is
what runs under one hold of the lock, or one channel or socket operation. `Send` and
`SendAgain` are the two outcomes of the idempotency check; a socket may break anywhere,
and then the response is not written, the page may send the same key again over
another socket, and `serve` returns. `Cancel` ends the context of the interview;
`NewContext` is the caller's next one.

`Mailbox` is what an interview may rely on: words form one line in order of
acceptance, a question takes the head, words are lost only from the head with a
question that gave up. `Glass` implements it with `Box`: what was taken for the
current question (in a sender's hand or in its channel), then the queue.

### Panes

What each browser pane was shown (`known`) against the transcript. `Record` is
`appendLocked` by the interview or by a connection's `chat.send`; `Cast` copies the set
of connections under a second hold of the lock, `Tell` writes to one of them, in any
order; the two event frames of an entry (`chat` and `session.message`) show the same
entry and are one. `Load` computes the answer of `chat.startup` and `chat.history`,
`Answer` writes it. The page in the browser is not in the repository: `Show` is the
protocol as uiboot.go states it (add a page or a delta and keep its cursor; start
over after a reset, then ask again without a cursor), and a pane dials again when its
socket broke. A cursor carries the life that minted it for the model's sake only;
`History` reads its number, as the code does.

### Admit and Bundle

`Admit` is the decision: the six facts, how `FromCatalogue` and `FromDirectory`
establish each, and `Decide`, which is `internal/admit/testdata/TABLE.tsv` written as
conditions (equal to it on all 324 rows).

`Bundle` is one ability. A verb (`-get-ability`, `-install-ability` of a directory,
`-remove-ability`) is a process: `pc` is where it stands and `verb` what it has found
out; both die with it. `archive`, `staging`, `abilities` and `ledger` are the files,
`published` what the catalogue's index names, `owned` the owner's own directory. A tree
maps each path to the version whose content it has, or to `Absent`, so a tree may mix
versions, and two trees have one hash exactly when they are equal.

`Fetch`, `Unpack` and `Leave` are `runCatalogue`; `Leave` is the `defer` that clears the
staging directory, which exists only after an `Unpack` that worked. `SettleBundleProof`
is the function of that name. `Verify`, `CopyTree`, `Gate`, `Record` are `Install`, in
its order, and `Establish`, `Decisions` the gate's view of the copy. `Remove` and
`RecordRemoval` are `Uninstall`. Every step has its failure beside it. `Crash` ends a
verb in any step; the trees it was writing or removing are left with any part of the
files done. Nothing in the code repairs what a crash or a failed last step leaves (an ability
without its record, a record without its ability), and `InstalledIsDecided` says nothing of it:
`cut` is set then, and until another verb has written its record of the ability. `Publish` and `Edit` may come between any two steps.

Not told apart: a manifest that does not match is one way for `SettleBundleProof` to
fail; files that `-reprove` builds are no part of a tree; a source edited in the middle
of the copy, rather than before or after, makes the copy differ from its source, which
the gate refuses as it refuses any other difference; an archive that cannot be read again
at the gate is refused like a decider that does not answer. Assumed: the removals after a
refusal and after a failed copy work (the code ignores their errors), a ledger line is
written whole or not at all, and one verb runs at a time.

### Session

The other half of the loop: what `Terminal` calls "a request fails" is here a request
that needs a session. `pc` is `off`, a stage of the start (`enrol`, `resolve`), the
request the round is at, or `pause`; `step` is how far that request is (`ask` for an
authorization, `challenge`, `verify`, `send`). `pin` is the file and the only state that
outlives the process (`Torn`: there, but no key, since `os.WriteFile` truncates first);
`presented` and `trusted` are the two fields called `facadeKey`; `session` and `lapsed`
stand for the token and its expiry; `post`, `seenRing`, `retired` are the batch of
`fetchNotes`, the ring and the retirements (`seenNotes` is the set of the ring).
`registered`, `challenge`, `honoured` are the door's three maps as far as this claw's
entry goes.

`EnrolAnswered`, `EnrolUnusable` are `Enrol`; `Resolve` is `resolveFacadeKey` where it
yields a key, and every case in which it returns an error ends the process (`Stop`).
`UseSession` is `Authorization` up to the decision to attest, `Challenged` and `Verified`
the two exchanges of `Attest`, each of which may fail before or after the door did its
part. `Refused` is a 401: it drops the session where the code does (`Drops`), and not for
the notes and the credit question. `NoteDropped` and `NoteShown` go through a batch note
by note. `DoorRestarts` loses sessions and challenges, and the enrolment or not;
`RivalCalls` is someone else asking for a challenge, or answering one, under this claw's
id; `RemovePin` is the operator's act.

Simplified: a note that is badly formed goes the way of a note badly signed; one brief and
one submission of a round are followed, each further one being another request of the same
kind; time and the door stand still while a batch is gone through, where neither is looked
at; `refusals` stops counting at `MaxDoorLives`, where the property has already failed.
The door that presents a key and the one that serves notes are not in the repository
(the double does neither), and are modelled from what the terminal reads. The double's
sessions never end while it runs, so a session lapses at the client only, which always
happens first (`enrol.go:287`). One process at a time works on a state directory, and the
device key is there.

### Connector

One module for five programs, because they are one loop: read what arrived after the
watermark, put each arrival to the delivery policy, show or file it, move the watermark.
`kind` says which one a behaviour is of. `box` is the service (arrivals are numbers, in the
order it received them, with a stamp that may tie); `forgotten` is what a Telegram service
has dropped or a WhatsApp one has pushed; `mark` is the watermark file, 0 where it is
absent, torn or unreadable; `due`, `rest` and `reached` are the local variables of a poll.
`up` is where the process is.

`GmailPage`, `SlackPage`, `DiscordPage`, `TelegramPage` are what each service is asked for
and gives: the newest `MaxBatch`, the newest conversation by conversation in the first
`MaxBatch` conversations (`Listed`), the oldest after a snowflake (or the newest, without
one), the oldest from an offset. A discord poll reads channel after channel
(`DiscordNextChannel`) and ends with the last, or with one that could not be read
(`DiscordPollEnds`): the channels behind it wait for the next poll, which starts with the
first again. `WaPush` is whatsmeow handing a message over, `WaHandles` the handler. WhatsApp
is taken to count a pushed message as received, handled or not: whatsmeow is not in the
repository, and `main.go` asks it for nothing else. What the handler has in hand when the
process ends is then lost (`left`), and `run` waits for no handler
(`cmd/ghillie-wa/main.go:178-180`). `ParseUpdates`,
`ParseMessages`, `FromEvent` drop what has no sender. `Decide` is one arrival put to the
policy, which may say no, or not be there (`Unanswered`: nothing is presented);
`FilingFails` is the append of a digest or queue line that fails, after which `GivesUp`
leaves the rest of the batch. Each connector saves where its code does. `GmailAccessToken`
is the refresh of a lapsed token with its store written in place. `Crash`, `Stop` and `Exit`
end a process; whatever it held is gone.

Left out: what a message says, headers, quiet hours and the words of a verdict (they are two:
presented or not); days (a first gmail or slack poll looks back one). The table of grants is
chosen at each start.

### Trials

Three harnesses over the same steps: `decide` runs every check of the acceptance statement
and puts the facts to the front; `trial` and `adversary` ask a model for inputs, run the
surface on them, ask the model to judge and write a record. `pc` is where the harness is,
`child` the surface it started, `end` how that ended and what was captured, `overdue` the
time limit. `SurfaceEnds`, `SurfaceTimeout` and `Cancel` end or kill the child; a process it
left behind (`lingers`) keeps the pipes open, and the run is over only when that one ends.
`SurfaceRun` is what counts as a run, `Met` what it meets of the arms a check declares,
`Core` the table of the front. `Take` cuts a model's proposals to three or four. `Write` is
`os.WriteFile`, whole or torn. What a surface prints is the set of arms it would meet, and
statements that do not parse or expect nothing are in the instance so that they can be
refused.

### Sitting

What the process that speaks puts between a brief and the person. `Start` to `LoadRecord` is
`run` and `buildEars`: no model and no start (`ModelMissing`), adopt a server, start one, fall
back to the CLI, or refuse to start.
`NewBrief`, `Decide`, `AllFilled`, `AskRest`, `Merge`, `Fails` are `Filler.Conduct`, with the
verdict of the decider on each item; `Render`, `Rendered`, `Play`, `OfferedFloor` the voice,
whose children may leave something behind that holds their pipes (`PipesHeld`, `PipesClose`:
`cmd.Run` waits for them, and `pipeline.go:160-185` sets no `WaitDelay`);
`CaptureFrame`, `CaptureEnds`, `Transcribe` and their failures the ears; `ConsoleAsk` the
fallback and `ReadReply` the line typed; `Trips` and `Utterance` the guard's two halves,
the second with the write. `detector` is the turn detector over `levels`, the frames of this
turn. `port` says who answers at the whisper URL, `child` what became of the server this
process started; a crash makes it somebody else's. `rules` and `tally` are the two files.

The player, ffmpeg and whisper-cli are taken for programs that start no others.

Here an item is put once: attempts, cut-offs and disclosures are `Interview`. Words are where
a reply came from. The order of the answers is: by item unless every one was filled.

## Runs

| Run | Question | Instance |
|---|---|---|
| `terminal_core` | the safety properties and the refinement, across a crash and a restart | 3 envelopes (a delivery, a command above the ceiling, an unauthentic delivery), 2 briefs, 2 lives, batches of up to 2, 4 outcomes, 4 polls: 0.8 million states |
| `terminal_live` | the widest ceiling and every class of envelope; does each outcome reach the facade? | 7 envelopes, 1 life, `IdleExit = 2`, batches of 1, under `FairSpec` |
| `terminal_replay` | is a frame accepted once, over restarts? (violated) | as `terminal_core`, unlimited polls |
| `interview` | the properties of a session, and termination | 3 items, 2 briefs in a row, bound of 3 puts, faults, under `FairSpec` |
| `interview_cut_short` | does a cut-short interview still report? (violated) | 3 items, 1 brief, no faults but the cancellation |
| `glass` | one fate for every acknowledged message, order of the hand-over, no question left waiting | 2 sockets, 2 keys, 2 lines, cancellations, under `FairSpec`: 85 thousand states |
| `panes` | does a pane miss an entry? | a pane with two sockets and one with one, the interview, 2 entries, 2 lives: 2.6 million states with the two sockets symmetric |
| `bundle` | do disk, ledger and decision agree after any sequence of verbs, failures and crashes? | 3 verbs, 2 versions (one with a proof project), 2 paths, 3 sets of flags: 2.2 million states |
| `session` | one signer per pin; one refusal per restart of the door; no stragglers, no early repeats; is the terminal heard again? | 2 keys, 4 notes, a ring of 2, 2 lives, 2 lives of the door, 1 foreign call, under `FairSpec`: 0.16 million states |
| `connectors` | is an arrival passed unasked, shown twice, or never asked about? | each of the 5 connectors, 5 arrivals (two with one stamp, one without a sender), 3 channels, batches of 2, 1 fault, under `LiveSpec`: 0.36 million states |
| `trials` | does an acceptance rest on whole runs, and a record on a whole pass; does every job end? | the 3 harnesses, 2 statements that load and 2 that do not, 4 outputs, replies of up to 5 cases, 1 fault: 50 thousand states |
| `sitting` | are reports whole and licensed, is the count kept, is the window the turn, does a stop get through? | 2 items, onset and end of turn of 2 frames, windows of 6, 1 brief, 2 lives, 1 typed line, 1 fault, 3 ways of calling the program: 1.4 million states |

Two lives are enough for what crosses a restart: every property relates a process to
the file it found or to the one it left. Batches of two give an instruction waiting
behind one in hand; two briefs give a body that is not the one named; three items
give one behind, one current and one ahead; two briefs in a row give a turn left over
by the first. In `glass` two keys give words behind words, two questions give one that
gave up and one after it, two sockets a send and its retry at once. In `panes` two
sockets of one pane give a reconnection with a cursor, the other pane a second writer
and reader, two entries one before and one after a page; three goroutines broadcast.
In `bundle` three verbs give an install, its removal and an install over what either
left; two versions give a staging directory with files of another one, and a source whose
proof appears or goes between two steps; the flags are a floor that a carried proof
meets, one that needs a proof made here, and an override. In `session` two lives give a
pin written or torn by one and found by the other, two keys a door that presents another
one; a ring of two and three notes of one signer fill the ring, turn it and bring back what
it forgot, a terminal note among them (`MaxSeen` is `maxSeenNotes`, 512 in the code);
batches are of two at most.

In `connectors` batches of two make full pages of five arrivals, a tie that straddles one,
channels that share one, and a third channel that slack never lists and whose reading a discord
poll may not come to; the fault is a crash, a torn file or a failed append, and
one of them is what each property is about. In `trials` replies of up to five cases are one
more than either pass allows. In `sitting` six frames hold a turn (two loud, two quiet) and
two frames more, enough for a loud run or a quiet one that is broken off and begins again, and
for the window to close before the safety stop all the same; two items let one be filled and one asked, and are put in
the other order than they are numbered.

The last three modules state one fault because a second one only repeats it: what counts
faults (`RepeatsAreFaults`, `TallyKeepsUp`) is stated and proved for any number.

Each passing property has a mutant in the modules (the operators whose comment begins
with "Bug:"): a plausible mistake in the code under which that property fails. They
are not reachable from any specification.

`CHECK_DEADLOCK FALSE`: the process may stop for good (its lives are used up, the
session's briefs are conducted, the verbs are spent) and that is not an error.

### Fairness

`Terminal!FairSpec`: weak fairness of `RunStep`, because `Run` is one goroutine whose
every call has a timeout (the HTTP client's) and returns; strong fairness that a
facade polled for ever answers some poll with a 2xx. The second is an assumption on
the other end; without it nothing can be delivered. Neither crash nor cancellation is
fair: they may happen or not. `Interview!FairSpec`: the session's goroutine is
scheduled, and the person or the surface comes back from every question; the code has
no deadline on a question, so this too is an assumption, on the person.
`Glass!FairSpec`: goroutines are scheduled; a broadcast ends because each write has a
timeout of 30 seconds (`ws.go:99`), and the channel of a question has room for the one
value ever sent. Nothing is assumed of the panes or the network.
`Session!FairSpec`: the loop goes on, and a step of a poll (its challenge, its
verification, its refusal, its answer) that is possible again and again is not lost every
time. Nothing is assumed of the other requests: `HeardAgain` shows that they cannot keep
the poll from recovering, though notes and credit leave a refused session in place.

`Connector!LiveSpec`: the poll loop goes on, its supervisor starts it again and the owner
logs in; a service that is asked again and again answers now and then, and so does each channel
of discord when the poll gets that far (strong fairness of a reading, because a process told to
stop leaves between two, and a failure in one channel keeps the poll from the next). That a
request comes back at all is an assumption on the network: the clients are `http.DefaultClient`,
which has no time limit. `Trials!Spec`: the harness goes
on and the timer of a run fires; a surface need never end. `Sitting!Spec`: weak fairness of
`Proceeds`, which is every step with a time limit, a context or no waiting in it. The
decider (`fill.go:195` runs it with neither), a typed line, and what holds the pipes of a killed
harness are not in it, and `StopEnds` excepts exactly those three.

## What the checks found

* **A frame can be accepted once per life of the process** (`terminal_replay`,
  `AcceptedOnce`). `handle` moves `lastSeq` in memory; `Run` saves it after the
  whole batch, and a save that fails is logged and forgotten. A process that dies in
  between starts again from the older number. `src/README.md:212-213` says a frame
  seen once must never be accepted twice. What does hold is `OncePerLife`, proved, and
  `NoReplayBelowDisk`, checked and proved: within a life it is true, and what the state
  file covers stays covered, for its number never goes back.
* **An interview that is cut short loses the answers it got** (`interview_cut_short`,
  `CutShortStillReports`). `Conduct` closes before it reports, closing has to speak,
  and every surface refuses to speak under a cancelled context, so the error of
  `close` is returned in place of the answers. The comment at
  `src/internal/interview/interview.go:140-143` promises them.

What follows was met while modelling and has no run of its own.

Glass and its panes:

* A question that gave up can still swallow words. `AwaitReply` leaves its select on the
  cancelled context and clears the waiter under the lock a moment later; a `chat.send` in
  between takes that waiter, writes into a channel nobody reads, and is acknowledged.
  `chat.go:122` says such words are not dropped. `AcknowledgedOnce` shows, and its theorem
  proves, that this is their only fate: they are on the transcript, in `swallowed`, and
  nowhere else.
* A cursor of the chat is a count, so a pane that stays open over a restart may have its old
  cursor placed in the new transcript and get a delta behind entries it never saw
  (`uiboot.go:96-104`; `Panes` keeps such panes in `misplaced`, and `PaneMissesNothing` says
  that this is the only way to miss an entry).

Bundles:

* The ledger may keep the hash of bytes that were not installed: `Install` takes it from the
  source before the copy (`bundle.go:196`), and the gate's digest of the copy is dropped.
* "Verified" does not cover what was in the staging directory already: `Unpack` writes over
  the files of a verb that died, and `integrityOf` compares the copy with that mixed tree,
  where `admit.go:62-69` speaks of the digest the authority recorded.
* A directory left by an install that died after a removal is listed by `Installed` under the
  record of the removal (`catalogue.go:217-222`).

Terminal: `IdleExit` counts empty polls without being reset by a failed one, and a 2xx whose
body is unusable has already drained the queues (harmless for custody: the facade has them).

Connectors:

* gmail and slack read the newest `MaxBatch` and move the watermark to the newest of them, so
  older ones of a fuller box are never put to the policy, which
  `cmd/ghillie-post/main.go:5` says is asked about each arrival (`left` in the model; the same
  for a discord channel without a watermark). A stamp shared across the end of a batch has
  the same effect.
* slack reads the first `MaxBatch` conversations it is given and asks for no further page, where
  `slack.go:40` speaks of every conversation the token can see.
* A SIGTERM in the middle of a batch makes the remaining decisions fail, and the watermark
  passes those arrivals unpresented (`cmd/ghillie-post/main.go:186`): they were asked about,
  and the answer was the cancellation.
* A torn discord watermark falls back to the most recent page. On discord and telegram a
  filing that fails presents the whole batch again; a lost telegram offset repeats only what
  was not confirmed. One message that cannot be read blocks a gmail or slack poll
  (`cmd/ghillie-post/main.go:166-169`).
* A refresh can write an older token over the one a login has just stored (`oauth.go:203`).

Harnesses:

* `surfaceTimeout` kills the surface and not what it left behind, and without a `WaitDelay`
  the run outlasts it for as long as that holds the pipes (`run.go:57`); `JobEnds` excepts it.
* A run that could not be started is an observation like any other, and its transcript is
  complete, where `trial.go:54-55` speaks of surface runs that were all observed.
  `RecordTellsThePass` counts it as the code does.
* `trial.go:176-179` lists the hash among what a record carries; one whose model proposed
  nothing has none. When no directory can be made for the inputs nothing is written, and the
  record of an earlier pass stands.
* A pattern may be met by the prefix of an output that was cut at the cap
  (`run.go:214-219`); an exact match may not, and that is `AnswerIsObserved`.

Speech, fill and guard:

* The decider of `fill` runs without a time limit and without the context (`fill.go:195`): one
  that hangs holds the interview and a SIGTERM. So does a line to be typed (`console.go:98`), and
  whatever the killed harness of a render left behind with its pipes (`pipeline.go:185`).
* `-revoke-fill` logs that later briefs get an offer and no filled answer (`main.go:843`); a
  process that is running read the rules once, at its start (`main.go:648`), and goes on.
* Answers filled from the rules are dropped with an error of the interview over the rest
  (`fill.go:266`), and leave unsorted when every item was filled (`fill.go:261`).
* A crash in the save of `guard-record.json` leaves a file that stops every later start
  (`main.go:636`) until it is removed by hand (`Discard`).
* Whoever answers at the whisper URL while the server is loading is taken for the child that
  was started, and a child that died is noticed only by the time limit, because its state is
  set by the `Wait` nobody has called yet (`resident.go:175`). A crash leaves the child
  running; the next start meets it as somebody else's.
* A microphone that ends in the middle of a turn counts as the whole answer
  (`capture.go:227-230`), and a line typed early answers a later question.

The gap ledger, which is not modelled, appends a line per gap: a torn line joins the next one,
and `Tally` then refuses the whole file.

## Proofs

TLAPS proves, for every value of the constants allowed by the assumptions in
`Terminal`, `Gate`, `Interview`, `Conduct`, `Bundle`, `Session`, `Panes`, `Connector`, `Glass`,
`Trials` and `Sitting`:

| Theorem | Property |
|---|---|
| `TerminalProofs!TypeCorrectness` | `TypeOK` |
| `TerminalProofs!NothingOwedIsLost` | `Custody` |
| `TerminalProofs!TerminalIsAnOutbox` | `OutboxSpec`, the refinement |
| `TerminalProofs!EveryInstructionIsSettled` | `OneOutcomeEach` |
| `TerminalProofs!NothingWithoutAFrame` | `ActsTraceToFrames` |
| `TerminalProofs!AcceptedOncePerLife` | `OncePerLife` |
| `TerminalProofs!NothingReplayedFromDisk` | `NoReplayBelowDisk` |
| `InterviewProofs!TypeCorrectness` | `TypeOK` |
| `InterviewProofs!NoLedgerViolation` | `NeverLedgerViolation` |
| `InterviewProofs!ConductedInOrder` | `InOrder` |
| `InterviewProofs!AnsweredMeansWords` | `AnsweredHasWords` |
| `InterviewProofs!AnswersAreFinal` | `AnswersStand` |
| `InterviewProofs!LettingLieIsReported` | `LetLieIsSaid` |
| `InterviewProofs!InterviewsRunOut` | `EveryStepCounts`, the variant of a brief |
| `BundleProofs!TypeCorrectness` | `TypeOK` |
| `BundleProofs!DiskIsLedger` | `InstalledIsDecided` |
| `BundleProofs!FloorIsMet` | `MeetsFloor` |
| `BundleProofs!FilesAreNotReplaced` | `NeverReplaced` |
| `SessionProofs!TypeCorrectness` | `TypeOK` |
| `SessionProofs!TrustOnFirstUse` | `OneSigner` |
| `SessionProofs!ForgottenSessionsCostOne` | `OneRefusalPerRestart` |
| `SessionProofs!StragglersAreDropped` | `NoStragglers` |
| `SessionProofs!RepeatsTakeARing` | `RepeatsOnlyAfterTheRing` |
| `ReadersProofs!TypeCorrectness` | `TypeOK` of `Panes` |
| `ReadersProofs!NoEntryIsMissed` | `PaneMissesNothing` |
| `ReadersProofs!ConnectorTypeCorrectness` | `ConnectorTypeOK` |
| `ReadersProofs!RepeatsOnlyForFaults` | `RepeatsAreFaults` |
| `ReadersProofs!NothingIsPassedUnasked` | `AskedBeforePassed` |
| `GlassProofs!TypeCorrectness` | `TypeOK` |
| `GlassProofs!AcknowledgedWordsOnce` | `AcknowledgedOnce` |
| `GlassProofs!GlassIsAMailbox` | `MailboxSpec`, the refinement |
| `TrialsProofs!TypeCorrectness` | `TypeOK` |
| `TrialsProofs!AcceptedWasObserved` | `AnswerIsObserved` |
| `TrialsProofs!RecordIsEarned` | `RecordTellsThePass` |
| `TrialsProofs!JobsRunOut` | `EveryStepCounts`, the variant of a job |
| `SittingProofs!TypeCorrectness` | `TypeOK` |
| `SittingProofs!ReportsAreWhole` | `ReportIsWhole` |
| `SittingProofs!TheRecordIsStillTheRecord` | `TallyKeepsUp` |
| `SittingProofs!TheWindowIsTheTurn` | `WindowIsTheTurn` |
| `SittingProofs!BriefsRunOut` | `EveryStepCounts`, the variant of a brief |

One proof module holds the two readers that resume where they stopped, a pane with its cursor
and a connector with its watermark; the names of `Connector` carry its own for that reason
(`ConnectorSpec`, `ConnectorTypeOK`), since a module that is proved about is extended: an
assumption reached through INSTANCE is not the prover's to use.

`OncePerLife`, `InOrder`, `AnsweredHasWords` and `NeverReplaced` are proved and in no run: they follow from the invariants that the runs and the other theorems
rest on, and say less than the properties that are run. The three `EveryStepCounts` are in no
run either: the runs check the liveness they serve (`ConductTerminates`, `JobEnds`, `StopEnds`).

The assumptions are those of the modules: envelopes are records of the given shape,
the "none" values are none of the real ones, the ceiling is a command, the attempt
bound is at least one, the item ids of a brief are positive and not repeated
(`brief.validate`), a version of an ability has a file, and its proof project is a path;
a note has one correspondent and one signer, and a torn pin is no key; a key is neither the
role of the interview nor the mark of an empty channel; each socket is of one pane and each
goroutine has entries of its own; onset and end of a turn take a frame at least, and a torn
file is no number; stamps never fall from one arrival to the next, and a batch holds one at least.

**The argument for Terminal.** `IInv` is inductive: the types in the groups that
change together; `Where` (a batch is in hand only while it is handled, a delivery has
an instruction, submissions are half posted only in `submit`); `Minted` (identities
are handed out in order, so a new outcome is new, and there are never more
submissions than outcomes); `Room` (the outcomes still to come fit the bound). `Minted` and
`Room` are what type correctness of `Record` needs: without them the next identity
could exceed the bound. On top of it there are layers, each of which adds just what one
property needs to be inductive. Each layer first proves a lemma that sorts the steps
into the few kinds that matter to it (`SeqCases`, `DebtCases`, `TraceCases`,
`CountCases`) and then argues by kind:

* `SeqInv`: in a living process the file is not ahead of memory, and a number beyond
  `lastSeq` was accepted by earlier lives only. It gives the sequence properties.
* `DebtInv`: `Custody`, and during `submit` a submission that is neither waiting nor
  kept is with the facade. It gives custody and the step of the refinement at
  `EndSubmit`, where the queue is replaced by what was kept.
* `TraceInv`: a delivery in progress was quarantined, for a person in good standing,
  and the body in hand is the one it named.
* `OneOutcomeEach` is inductive over `IInv` alone; the work is in counting outcomes
  of instructions in a set that grows by one.

**The argument for Interview.** `IInv` joins the types, four facts that tie the phase
to the ledger (`AtItem`: a phase that puts a question has an item to put; `Licensed`:
a put in progress was licensed by the bound and its item is not answered;
`QuestionOut`: the item whose answer is awaited was asked; `LinesToSay`: which lines can
be queued in which phase), and the three properties `NeverLedgerViolation`, `InOrder`
and `AnsweredHasWords`, which are inductive only together. The turn machine needs no
invariant of its own: `FloorSpeaks` shows that from any turn state at all the two moves
of `invite` give ghillie the floor, which is why a brief that ended badly cannot spoil
the next. `LetLieIsSaid` has a layer that ties the lines queued to the items let lie.

**The argument for Bundle.** The three statements are about moments when no verb runs;
`IInv` says what holds inside one. `InHand`: the source of an install is never an empty
tree, so what was copied can be seen, and the copy is made where nothing is, which alone
gives `NeverReplaced`. `OneRecord`: a verb that can still write its record has not written
one, without which "no more records than verbs" is not inductive. `Agree`: outside an
install the ledger's last word matches the disk; inside one it is not yet an install, so
that every refusal, which empties the directory, leaves the two in agreement.
`DecisionHolds` carries what the gate saw from `Gate` to `Record` (the copy does not
change between, and `DecideAnswers` reads off the table that an admission has the proof its
floor asks for), and `RecordHolds` carries it on for as long as the ability is installed.

**The argument for Session.** `TypeOK` is inductive, and on it stand four layers that know
nothing of each other. `Retirement`: a terminal note that was rendered has its correspondent
in `retired`, which only the end of the process empties. `RingIsTheEnd`: the ring is the end
of the sequence of rendered notes, all of it or its last `MaxSeen`, and a note passes only
when it is not there. `NoteHistory` sorts the steps for both (nothing moves, all is
forgotten, or a note is shown); `Shown` says what a shown note adds to the history and
`RingStep` what the ring is after it. `Trust`: the trusted key is the
pin unless it came by hand, and is none while no process runs; a torn pin can only take the
place of no pin, under which nothing was rendered. `Allowance`: as long as the client holds a session
the door forgot, the door has restarted once more than it has refused.

**The argument for Panes.** What a pane will have been shown is what it was (`known`), the
page in hand (`PageFits`) and the frames still coming to it. `CursorsCount` says what a
cursor of this life is worth, `Attached` and `OneSocket` that the socket a pane reads is one
that broadcasts go to, `FrameInHand` that a goroutine which broadcasts has an entry. An
entry recorded between the reading of a page and its writing is in neither: it is coming,
because the socket was attached before the page was read.

**The argument for Glass.** `Handed` says what each goroutine has in hand: `Questions` (a
question is its line; nothing was taken for one that was not asked), `OneWaits` (while a
question is in `waiter` no words are queued), `TakenOnce` (its channel is written by one
sender at most, and only after that sender took it out of `waiter`). From it every step is of
one of four kinds (`StepKinds`): the line of words stays, grows at the end by words never seen
before, gives its head to a question, or loses it. The refinement is then a case for each
kind, and `OneFate` (no words twice on the transcript; line, heard and swallowed are apart
and together are what was accepted) is preserved by each. `AcknowledgedOnce` follows by
counting.

**The argument for Trials.** `IInv` says what a job holds where it is: nothing is decided
while it runs and a run the caller cut short leaves it cancelled (`JobIsOpen`), there is a
child only for a run still to be observed (`ChildIsWanted`), what is put to the core was
observed of a statement that was loaded (`DecisionIsFed`), a pass runs what it may
(`PassIsBounded`), and the record in the making is of one of two kinds (`DraftIsEarned`).

**The argument for Connector.** `Reach` (`ChannelReach` for a channel of discord) is what the
watermark will be once the work in hand is saved, which only the file knows after a crash. Three
forms of one statement follow from how a service is read. `OffsetInv`, telegram: below the offset
to come, everything was put to the policy or is in hand; a page is the oldest of what is there
(`OldestFirst`), so nothing falls between two pages. `ChannelInv`, discord: the same of each
channel, and of what is older than an arrival in hand; a channel without a watermark is read from
its newest, and what that leaves is in `left`. `StampInv`, gmail and slack: what is older than an
arrival in hand is in hand too, was put to the policy, left out, or has the stamp of one that
was (`Settled`), so that saving a stamp after each arrival passes nothing else. `PushInv` is the
plain count of WhatsApp. A crash or a torn file only moves `Reach` back, and all four survive
that. `Repeats` is the converse: what is still ahead of `Reach` or in hand (`Ahead`) has been
shown for faults only, and what is shown is behind from then on unless a fault brought it back
(`RepeatsKeep`). `Phases` says between which steps nothing is in hand.

**The argument for Sitting.** Six invariants. `CountInv` relates memory to the trips of all lives
as `TallyKeepsUp` relates the file; a start takes the file's account over, and only a save, a
fault or a trip changes either. `WindowInv`: while the microphone is open the detector's two
counters are the runs the frames end in, it has heard speech exactly when they hold a run of
`Onset` loud ones, and no prefix of them is a turn (`Follows`). `FrameFollows` is the algorithm:
one frame more preserves this or completes a turn. `FrameInv` adds the room left in the window,
`ServerInv` that a process which has not started a server has no child, `ProcessInv` the other
types. `BriefInv` carries `ReportIsWhole`: the items decided so far are parted into those filled,
each with its licence in the rules as they were read, and those to ask, in the brief's order and
none twice (`Parts`); a reply stands at the place of its question (`Replies`). `PartsWhole` and
`Sorting` turn that into the report: the two parts together hold every item once, and ordering
them by item keeps every answer with its item.

**That work runs out.** A brief or a job ends because its steps are taken, which is fairness and
left to the runs, and because there are only so many of them, which is proved, without fairness
and for every size. `Effort` is what is left to do, a natural number, and every step that does
not end the work makes it smaller (`EveryStepCounts`). In `InterviewProofs` it orders items before
the puts the bound still allows, puts before the steps of one, those before the lines still to be
said, and last the cancellation; a line of ghillie's is followed by two others at most
(`LinesStayFew`), and the items outweigh all below them (`ItemsOutweigh`). In `SittingProofs` an
item outweighs the way of a question, whose longest part is the window: `MaxFrames`, the safety
stop of the microphone, is what makes listening finite. In `TrialsProofs` a run that is over,
however it went, is one run less. The environment's steps count too, a cancellation, a timer, a
stop; only what is beside the brief does not (`Beside`: the owner's verbs, the server's comings
and goings, lines typed early).

Only model-checked: the liveness properties `OutcomesReachTheFacade`, `ConductTerminates`,
`WaitingHears`, `HeardAgain`, `EventuallyAsked`, `JobEnds` and `StopEnds` (fairness is beyond the
prover; three of them rest on the variants above), and the two violated statements. Every invariant, action property and refinement that a
passing run checks is a theorem.

## Plan

In order; each with its MC module, runs, mutants and, where marked, proofs.

1. `Bundle` with a second installer, on an instance small enough for it: two installs of
   one name both pass the check for a directory, and the refusal of one removes the other's
   copy. Archives named by the owner and confidential deliveries as further sources.
2. `Session` with a second process: two first starts both create the device key
   (`loadOrCreateDeviceKey` reads, then writes), two both pin; is an identity that enrolled
   ever overwritten? Composition with `Terminal`, whose failed requests it explains.
3. `Sitting` over `Interview`: an item put several times through the ears, with the
   interruptions `Interview` has and the voice surface maps to silence.
4. Breadth: pending approvals of the glass, once something raises one; the double's script
   of instructions.

Not modelled, and why: parsing, encoding and formatting (`frame`, `protocol`, `diary`,
`locale`) and cryptography and key files (`keys`, `identity`, `bind`) are functions without
state, below the level of the models; signal processing and synthesis in `voice` and `ears`
are external programs around the steps that are modelled; the CV gate, the owner's model
socket and the small commands ask once and end; the Gobra copies are for another verifier.
