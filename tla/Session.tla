------------------------------ MODULE Session ------------------------------
(***************************************************************************)
(* How a terminal comes to trust a facade and to be heard by it: enrolment  *)
(* and the pinned key (cmd/ghillie), the challenge, the session and its     *)
(* loss (internal/enrol, cmd/mockfacade), and the notes that ride on both    *)
(* (internal/notes, terminal/notesfetch.go).                                *)
(*                                                                         *)
(* One process at a time works on a state directory.  What it knows dies     *)
(* with it, but for the pin.  The door may restart as well and forgets the   *)
(* sessions and challenges, perhaps the enrolments.  A request may fail       *)
(* before the door saw it or after.                                         *)
(***************************************************************************)
EXTENDS Naturals, Sequences

CONSTANTS
  Keys,          \* facade signing keys a door may present
  NoKey,         \* no key
  Torn,          \* a pin file that is there and holds no key
  Notes,         \* notes a facade may serve
  MaxSeen,       \* maxSeenNotes
  MaxShown,      \* bound of the model: notes rendered in one life
  MaxLives,      \* bound of the model: times the process is started
  MaxDoorLives,  \* bound of the model: times the door is started
  MaxRivals      \* bound of the model: calls of others under the same claw id

ASSUME SessionAssumption ==
  /\ NoKey \notin Keys /\ Torn \notin Keys /\ Torn # NoKey
  /\ Notes \subseteq [ id: Nat, correspondent: Nat, terminal: BOOLEAN, signer: Keys ]
  /\ MaxSeen \in Nat \ {0} /\ MaxDoorLives \in Nat \ {0}
  /\ MaxShown \in Nat /\ MaxLives \in Nat /\ MaxRivals \in Nat

VARIABLES
  pin,        \* the file ghillie-facade.pin
  pc,         \* "off", a stage of the start, or the request the loop is at
  step,       \* how far that request is: its session, then the request
  explicit,   \* the key of -facade-key-file, until it is resolved
  presented,  \* Client.facadeKey
  trusted,    \* Terminal.facadeKey
  byHand,     \* the trusted key is the operator's word, not the pin's
  session,    \* Client.session is not empty
  lapsed,     \* Client.expires is in the past
  post,       \* notes of the last fetch not yet gone through
  seenRing,   \* Terminal.seenRing; seenNotes holds the same signatures
  retired,    \* Terminal.retired
  registered, \* the door: registry.claws has this claw
  challenge,  \* the door: whose nonce registry.challenges holds for this claw
  honoured,   \* the door: registry.sessions has the session the client holds
  life, doorLife, rivals, \* history: starts and foreign calls, for the bounds
  log,        \* history: the notes rendered in this life
  signers,    \* history: who signed what lives under the present pin rendered
  refusals    \* history: 401s on submissions, polls and briefs, up to MaxDoorLives

doorVars   == <<registered, challenge, honoured>>
noteVars   == <<post, seenRing, retired, log, signers>>
keyVars    == <<pin, explicit, presented, trusted, byHand>>
boundVars  == <<life, doorLife, rivals>>

vars == <<pin, pc, step, explicit, presented, trusted, byHand, session, lapsed, post,
          seenRing, retired, registered, challenge, honoured, life, doorLife, rivals,
          log, signers, refusals>>

Requests == { "submit", "notes", "poll", "credit", "brief" }
Running  == pc \in Requests \cup {"pause"}

\* What the loop does when a request is over, however it ended.
After(request) ==
  CASE request = "submit" -> "notes"
    [] request = "notes"  -> "poll"
    [] OTHER              -> "pause"

\* Bug: a poll answered 401 keeps its session.
DropsWithoutPoll == { "submit", "brief" }

\* Bug: a submission answered 401 keeps its session.
DropsWithoutSubmit == { "poll", "brief" }

\* The requests on which a 401 drops the session; the notes and the credit
\* question leave it to the next of these.
Drops == { "submit", "poll", "brief" }
-----------------------------------------------------------------------------
Init ==
  /\ pin = NoKey /\ pc = "off" /\ step = "ask"
  /\ explicit = NoKey /\ presented = NoKey /\ trusted = NoKey /\ byHand = FALSE
  /\ session = FALSE /\ lapsed = FALSE
  /\ post = <<>> /\ seenRing = <<>> /\ retired = {} /\ log = <<>> /\ signers = {}
  /\ registered = FALSE /\ challenge = "none" /\ honoured = FALSE
  /\ life = 0 /\ doorLife = 1 /\ rivals = 0 /\ refusals = 0

\* The command line decides whether this life enrols and whether it was given a
\* key.  Everything else in memory starts empty.
Start ==
  /\ pc = "off" /\ life < MaxLives
  /\ life' = life + 1
  /\ pc' \in { "enrol", "resolve" }
  /\ explicit' \in Keys \cup {NoKey}
  /\ UNCHANGED <<pin, step, presented, trusted, byHand, session, lapsed, noteVars,
                 doorVars, doorLife, rivals, refusals>>

Forget ==
  /\ pc' = "off" /\ step' = "ask"
  /\ explicit' = NoKey /\ presented' = NoKey /\ trusted' = NoKey /\ byHand' = FALSE
  /\ session' = FALSE /\ lapsed' = FALSE /\ honoured' = FALSE
  /\ post' = <<>> /\ seenRing' = <<>> /\ retired' = {} /\ log' = <<>>

\* This life is about to write the pin.
Pinning == pc = "resolve" /\ pin = NoKey /\ explicit = NoKey /\ presented # NoKey

\* The process ends: it crashed, was stopped, or a stage of its start failed.
\* os.WriteFile truncates first, so an end inside the write leaves a torn pin.
Stop ==
  /\ pc # "off"
  /\ Forget
  /\ pin' \in IF Pinning THEN {pin, Torn} ELSE {pin}
  /\ UNCHANGED <<registered, challenge, boundVars, signers, refusals>>

\* Re-pinning is the operator's act.
RemovePin ==
  /\ pc = "off" /\ pin # NoKey
  /\ pin' = NoKey /\ signers' = {}
  /\ UNCHANGED <<pc, step, explicit, presented, trusted, byHand, session, lapsed, post,
                 seenRing, retired, log, doorVars, boundVars, refusals>>
-----------------------------------------------------------------------------
(* Enrolment.                                                              *)

\* The door records the device key, whatever becomes of its answer.  A door may
\* present its key or none.
EnrolAnswered ==
  /\ pc = "enrol"
  /\ registered' = TRUE
  /\ presented' \in Keys \cup {NoKey}
  /\ pc' = "resolve"
  /\ UNCHANGED <<pin, step, explicit, trusted, byHand, session, lapsed, noteVars,
                 challenge, honoured, boundVars, refusals>>

\* The answer was lost, or carried a key that cannot be one: enrolment is
\* refused here and stands there.
EnrolUnusable ==
  /\ pc = "enrol"
  /\ registered' = TRUE
  /\ Forget
  /\ UNCHANGED <<pin, challenge, boundVars, signers, refusals>>

\* Two parties claim to be the same facade.
Mismatch ==
  /\ presented # NoKey
  /\ \/ explicit # NoKey /\ explicit # presented
     \/ pin # NoKey /\ pin # presented

\* Bug: a key the door presents is pinned over the one that is there.
ResolveRepinning ==
  /\ pc = "resolve" /\ pin # Torn
  /\ pin' = IF explicit = NoKey /\ presented # NoKey THEN presented ELSE pin
  /\ trusted' = IF explicit # NoKey THEN explicit ELSE pin'
  /\ trusted' # NoKey
  /\ byHand' = (explicit # NoKey)
  /\ explicit' = NoKey /\ presented' = NoKey
  /\ pc' = "pause"
  /\ UNCHANGED <<step, session, lapsed, noteVars, doorVars, boundVars, refusals>>

\* resolveFacadeKey: the operator's word, else the pin, else the first key a door
\* presents, which becomes the pin.  Every other case ends the process (Stop).
Resolve ==
  /\ pc = "resolve" /\ pin # Torn /\ ~ Mismatch
  /\ pin' = IF Pinning THEN presented ELSE pin
  /\ trusted' = IF explicit # NoKey THEN explicit ELSE pin'
  /\ trusted' # NoKey
  /\ byHand' = (explicit # NoKey)
  /\ explicit' = NoKey /\ presented' = NoKey
  /\ pc' = "pause"
  /\ UNCHANGED <<step, session, lapsed, noteVars, doorVars, boundVars, refusals>>
-----------------------------------------------------------------------------
(* Authorization: a live session, or a challenge answered with a signature. *)

Keeping == UNCHANGED <<keyVars, noteVars, boundVars>>

\* Time and the door are not looked at while a batch of notes is gone through: the
\* model lets them move before it or after.
Unobserved == post = <<>>

\* The next round; submissions are posted when there are any.
Round ==
  /\ pc = "pause"
  /\ pc' \in { "submit", "notes" }
  /\ UNCHANGED <<step, session, lapsed, doorVars, refusals>> /\ Keeping

\* The request is given up and the loop goes on.
GiveUp == pc' = After(pc) /\ step' = "ask"

UseSession ==
  /\ pc \in Requests /\ step = "ask" /\ post = <<>>
  /\ step' = IF session /\ ~ lapsed THEN "send" ELSE "challenge"
  /\ UNCHANGED <<pc, session, lapsed, doorVars, refusals>> /\ Keeping

\* A challenge replaces the one that was outstanding for this claw.
Challenged ==
  /\ step = "challenge"
  /\ challenge' = "ours" /\ step' = "verify"
  /\ UNCHANGED <<pc, session, lapsed, registered, honoured, refusals>> /\ Keeping

ChallengeFails ==
  /\ step = "challenge"
  /\ challenge' \in {challenge, "ours"}
  /\ GiveUp
  /\ UNCHANGED <<session, lapsed, registered, honoured, refusals>> /\ Keeping

\* The door takes the challenge out before it looks at anything.
Verified ==
  /\ step = "verify" /\ registered /\ challenge = "ours"
  /\ challenge' = "none" /\ honoured' = TRUE
  /\ session' = TRUE /\ lapsed' = FALSE /\ step' = "send"
  /\ UNCHANGED <<pc, registered, refusals>> /\ Keeping

\* Refused, or lost on either way: the client keeps the session it had, if any.
VerifyFails ==
  /\ step = "verify"
  /\ challenge' \in {challenge, "none"}
  /\ GiveUp
  /\ UNCHANGED <<session, lapsed, registered, honoured, refusals>> /\ Keeping

\* Time passes: the client stops trusting its session before the door would.
Lapse ==
  /\ session /\ ~ lapsed /\ Unobserved
  /\ lapsed' = TRUE
  /\ UNCHANGED <<pc, step, session, doorVars, refusals>> /\ Keeping
-----------------------------------------------------------------------------
(* The requests.                                                           *)

\* A poll that brings a brief leads to the credit question and to its body.
PollAnswered ==
  /\ pc = "poll" /\ step = "send" /\ honoured
  /\ pc' \in { "pause", "credit" } /\ step' = "ask"
  /\ UNCHANGED <<session, lapsed, doorVars, refusals>> /\ Keeping

Answered ==
  /\ pc \in { "submit", "credit", "brief" } /\ step = "send" /\ honoured
  /\ pc' = (IF pc = "credit" THEN "brief" ELSE After(pc)) /\ step' = "ask"
  /\ UNCHANGED <<session, lapsed, doorVars, refusals>> /\ Keeping

\* 401: the door does not know the session.
Refused ==
  /\ step = "send" /\ ~ honoured
  /\ GiveUp
  /\ IF pc \in Drops THEN session' = FALSE /\ lapsed' = FALSE
                    ELSE UNCHANGED <<session, lapsed>>
  /\ refusals' = IF pc \in {"notes", "credit"} \/ refusals = MaxDoorLives
                 THEN refusals ELSE refusals + 1
  /\ UNCHANGED doorVars /\ Keeping

\* No answer, or one that says no more than that it failed.
Unanswered ==
  /\ step = "send"
  /\ GiveUp
  /\ UNCHANGED <<session, lapsed, doorVars, refusals>> /\ Keeping
-----------------------------------------------------------------------------
(* fetchNotes.                                                             *)

\* A facade without the channel, or without notes, answers with none.
NotesFetched ==
  /\ pc = "notes" /\ step = "send" /\ honoured
  /\ \/ post' = <<>> /\ GiveUp           \* the loop goes on to the poll
     \/ /\ Len(log) < MaxShown
        /\ post' \in { <<n>> : n \in Notes } \cup { <<m, n>> : m, n \in Notes }
        /\ step' = "ask" /\ UNCHANGED pc
  /\ UNCHANGED <<keyVars, boundVars, session, lapsed, seenRing, retired, log, signers,
                 doorVars, refusals>>

InRing(n) == \E i \in DOMAIN seenRing : seenRing[i] = n

\* Bug: the ring gives up its oldest signature one note too early.
RememberingFewer(n) ==
  IF Len(seenRing) >= MaxSeen - 1 THEN Tail(Append(seenRing, n)) ELSE Append(seenRing, n)

\* Bug: the ring never gives a signature up.
RememberingAll(n) == Append(seenRing, n)

\* The ring gives up its oldest signature when it is full.
Remembering(n) ==
  IF Len(seenRing) >= MaxSeen THEN Append(Tail(seenRing), n) ELSE Append(seenRing, n)

\* Bug: what retired a correspondent is looked for in the ring.
StragglerByRing(n) ==
  \E i \in DOMAIN seenRing :
    seenRing[i].terminal /\ seenRing[i].correspondent = n.correspondent

\* A note of a correspondent that has said its last.
Straggler(n) == n.correspondent \in retired

NoteDone ==
  /\ post' = Tail(post)
  /\ pc' = IF Len(post) = 1 THEN "poll" ELSE pc

\* The facade's signature, by the key this terminal trusts.
Verifies(n) == n.signer = trusted

\* Not signed by the trusted key, rendered before, or a straggler.
NoteDropped ==
  /\ post # <<>>
  /\ LET n == Head(post)
     IN  ~ Verifies(n) \/ InRing(n) \/ Straggler(n)
  /\ NoteDone
  /\ UNCHANGED <<keyVars, boundVars, step, session, lapsed, seenRing, retired, log,
                 signers, doorVars, refusals>>

NoteShown ==
  /\ post # <<>>
  /\ LET n == Head(post)
     IN  /\ Verifies(n) /\ ~ InRing(n) /\ ~ Straggler(n)
         /\ seenRing' = Remembering(n)
         /\ retired' = IF n.terminal THEN retired \cup {n.correspondent} ELSE retired
         /\ log' = Append(log, n)
         /\ signers' = IF byHand THEN signers ELSE signers \cup {n.signer}
  /\ NoteDone
  /\ UNCHANGED <<keyVars, boundVars, step, session, lapsed, doorVars, refusals>>
-----------------------------------------------------------------------------
(* The door, and others who call it.                                        *)

\* The registry is in memory in the test double; a door that keeps it may have
\* the enrolments still.  Sessions and challenges are gone in both.
DoorRestarts ==
  /\ doorLife < MaxDoorLives /\ Unobserved
  /\ doorLife' = doorLife + 1
  /\ registered' \in {registered, FALSE}
  /\ challenge' = "none" /\ honoured' = FALSE
  /\ UNCHANGED <<keyVars, noteVars, pc, step, session, lapsed, life, rivals, refusals>>

\* The door hands a nonce to anyone who names the claw, and takes the outstanding
\* one out for anyone who presents a signature.
RivalCalls ==
  /\ rivals < MaxRivals /\ Unobserved
  /\ rivals' = rivals + 1
  /\ challenge' \in {"other", "none"}
  /\ UNCHANGED <<keyVars, noteVars, pc, step, session, lapsed, registered, honoured,
                 life, doorLife, refusals>>

\* What the running process does of itself.
LoopStep ==
  \/ Round \/ UseSession \/ Challenged \/ ChallengeFails \/ Verified \/ VerifyFails
  \/ PollAnswered \/ Answered \/ Refused \/ Unanswered
  \/ NotesFetched \/ NoteDropped \/ NoteShown

Next ==
  \/ Start \/ Stop \/ RemovePin
  \/ EnrolAnswered \/ EnrolUnusable \/ Resolve
  \/ LoopStep \/ Lapse
  \/ DoorRestarts \/ RivalCalls

Spec == Init /\ [][Next]_vars

\* A process that runs goes on.  The loop polls in every round and never gives up,
\* so it must suppose that a step of a poll that is tried again and again is
\* answered some time.  Nothing is supposed of the other requests.
Fairness ==
  /\ WF_vars(LoopStep)
  /\ SF_vars(pc = "poll" /\ Challenged) /\ SF_vars(pc = "poll" /\ Verified)
  /\ SF_vars(pc = "poll" /\ Refused) /\ SF_vars(PollAnswered)

FairSpec == Spec /\ Fairness
-----------------------------------------------------------------------------
KeysOrNone == Keys \cup {NoKey}

TypeOfKeys ==
  /\ pin \in KeysOrNone \cup {Torn}
  /\ explicit \in KeysOrNone /\ presented \in KeysOrNone /\ trusted \in KeysOrNone
  /\ byHand \in BOOLEAN

TypeOfLoop ==
  /\ pc \in Requests \cup { "off", "enrol", "resolve", "pause" }
  /\ step \in { "ask", "challenge", "verify", "send" }
  /\ step # "ask" => pc \in Requests
  /\ session \in BOOLEAN /\ lapsed \in BOOLEAN
  /\ session \/ lapsed => Running

TypeOfNotes ==
  /\ post \in Seq(Notes) /\ log \in Seq(Notes)
  /\ post # <<>> => pc = "notes" /\ step = "ask"
  /\ seenRing \in Seq(Notes) /\ Len(seenRing) <= MaxSeen
  /\ retired \subseteq Nat
  /\ signers \subseteq Keys

TypeOfDoor ==
  /\ registered \in BOOLEAN /\ challenge \in {"none", "ours", "other"}
  /\ honoured \in BOOLEAN
  /\ honoured => session

TypeOfBounds ==
  /\ life \in 0 .. MaxLives /\ doorLife \in 1 .. MaxDoorLives
  /\ rivals \in 0 .. MaxRivals /\ refusals \in 0 .. MaxDoorLives

(* Every variable holds a value of its kind, and only a running process has     *)
(* a request under way or a session.                                          *)
TypeOK == TypeOfKeys /\ TypeOfLoop /\ TypeOfNotes /\ TypeOfDoor /\ TypeOfBounds

(* Trust on first use (resolveFacadeKey): until the operator removes the pin,    *)
(* every life that was given no key by hand renders notes of one signer only,     *)
(* whatever keys doors presented in between and however starts failed.          *)
OneSigner == signers \subseteq {pin}

(* A session the door forgot costs one refused request of those that matter:     *)
(* the refused request drops it and the next one attests again, so there are      *)
(* never more such refusals than restarts of the door.                          *)
OneRefusalPerRestart == refusals < doorLife

(* A finished correspondence says nothing more in this life (State.Terminal):     *)
(* no straggler is rendered after the terminal note, even once the ring has        *)
(* forgotten the note that retired it.                                        *)
NoStragglers ==
  \A i, j \in DOMAIN log :
    i < j /\ log[i].terminal => log[j].correspondent # log[i].correspondent

(* A note is rendered again only when the ring of maxSeenNotes signatures has      *)
(* gone all the way round since.                                              *)
RepeatsOnlyAfterTheRing ==
  \A i, j \in DOMAIN log : i < j /\ log[i] = log[j] => j - i > MaxSeen

(* A terminal that keeps running against a door that keeps its enrolment is heard   *)
(* again and again, whatever sessions and challenges were lost on the way.         *)
HeardAgain ==
  <>[](Running /\ registered) => []<><<PollAnswered>>_vars
=============================================================================
