------------------------------ MODULE Connector ------------------------------
(***************************************************************************)
(* The five read-side connectors (cmd/ghillie-post, -slack, -discord,       *)
(* -telegram, -wa): a process reads what arrived at a service after a        *)
(* durable watermark, puts every arrival to the delivery-policy decider,     *)
(* shows or files it, and advances the watermark.  They share one loop and   *)
(* differ in how the service is asked, what the watermark is, and when it is  *)
(* saved: after every arrival (gmail, slack), after a channel (discord),      *)
(* after the batch (telegram), never (wa, where the service pushes).          *)
(*                                                                         *)
(* An arrival is a number, in the order the service received them; the       *)
(* service's stamp on it (Stamp) may tie with the one before.  A message's    *)
(* words are left out.  All of an instance happens within the day that a     *)
(* first gmail or slack poll looks back on.                                  *)
(***************************************************************************)
EXTENDS Naturals, Sequences, FiniteSets

CONSTANTS
  Services,   \* the connectors of this instance
  MaxMail,    \* bound of the model: arrivals
  Stamp,      \* the service's time stamp of each arrival
  Place,      \* the channel or conversation of each arrival
  Sender,     \* who sent each arrival
  Nobody,     \* arrivals with no sender, and the owner's own (wa)
  ChannelList,\* the channels in the order they are read
  MaxBatch,   \* -max-batch
  MaxFaults   \* bound of the model: crashes and failed writes

Mail == 1 .. MaxMail
Channels == { ChannelList[i] : i \in DOMAIN ChannelList }
Senders == { Sender[m] : m \in Mail }

ASSUME ConnectorAssumption ==
  /\ Services \subseteq {"gmail", "slack", "discord", "telegram", "wa"}
  /\ MaxMail \in Nat /\ MaxBatch \in Nat \ {0} /\ MaxFaults \in Nat
  /\ ChannelList \in Seq(Channels) /\ ChannelList # <<>>
  /\ Stamp \in [Mail -> Nat \ {0}] /\ Place \in [Mail -> Channels]
  /\ Nobody \subseteq Mail
  /\ \A m, n \in Mail : m < n => Stamp[m] <= Stamp[n]

VARIABLES
  kind,       \* which connector this is
  box,        \* the service: arrivals so far
  forgotten,  \* the service: telegram, updates below this are confirmed and gone; wa, how many
              \* it has pushed
  key,        \* the stored credential: "none", "stale" or "fresh"
  mark,       \* the watermark file, per channel; 0 = absent, torn or unreadable
  up,         \* the process: "down", "idle", "deciding", "saving", "next"
  cancelled,  \* the process was told to stop
  table,      \* the senders with a live grant, read once at start
  rest,       \* discord: the channels this poll has still to read
  due,        \* arrivals fetched and not yet put to the decider
  reached,    \* the watermark the next save will write
  shown,      \* history: how often an arrival was shown or filed
  asked,      \* history: arrivals in the order they were first put to the decider
  left,       \* history: arrivals a full page left out for good, or lost with a process that
              \* had them in hand
  faults,     \* history: crashes and failed writes so far
  lost        \* history: the watermark file was lost

service == <<box, forgotten>>
process == <<cancelled, table>>
history == <<shown, asked, left, faults, lost>>
connectorVars == <<kind, box, forgotten, key, mark, up, cancelled, table, rest, due, reached,
          shown, asked, left, faults, lost>>

ConnectorTypeOK ==
  /\ kind \in Services /\ box \in 0 .. MaxMail /\ forgotten \in 0 .. MaxMail + 1
  /\ key \in {"none", "stale", "fresh"}
  /\ mark \in [Channels -> Nat]
  /\ up \in {"down", "idle", "deciding", "saving", "next"}
  /\ cancelled \in BOOLEAN /\ table \subseteq Senders
  /\ rest \in Seq(Channels) /\ reached \in Nat
  /\ due \subseteq 1 .. box
  /\ shown \in [Mail -> 0 .. MaxFaults + 1]
  /\ asked \in Seq(1 .. box)
  /\ left \subseteq 1 .. box /\ faults \in 0 .. MaxFaults
  /\ lost \in BOOLEAN

ConnectorInit ==
  /\ kind \in Services /\ box = 0 /\ forgotten = 0 /\ key = "none"
  /\ mark = [c \in Channels |-> 0] /\ up = "down"
  /\ cancelled = FALSE /\ table = {}
  /\ rest = <<>> /\ due = {} /\ reached = 0
  /\ shown = [m \in Mail |-> 0] /\ asked = <<>>
  /\ left = {} /\ faults = 0 /\ lost = FALSE

-----------------------------------------------------------------------------
(* The service and the owner.                                               *)

Arrive ==
  /\ box < MaxMail
  /\ box' = box + 1
  /\ UNCHANGED <<kind, forgotten, key, mark, up, process, rest, due, reached, history>>

\* The one-time consent: a listener on the loopback waits for the browser, the code is
\* exchanged, and a reply without a refresh token is refused before anything is stored.
GmailLogin ==
  /\ kind = "gmail" /\ key # "fresh"
  /\ key' = "fresh"
  /\ UNCHANGED <<kind, service, mark, up, process, rest, due, reached, history>>

SlackLogin ==
  /\ kind = "slack" /\ key = "none"
  /\ key' = "fresh"
  /\ UNCHANGED <<kind, service, mark, up, process, rest, due, reached, history>>

\* Pairing as a linked device; an already paired store is left alone.
Pair ==
  /\ kind = "wa" /\ key = "none"
  /\ key' = "fresh"
  /\ UNCHANGED <<kind, service, mark, up, process, rest, due, reached, history>>

\* The owner pastes a bot token into the token file.
PasteToken ==
  /\ kind \in {"discord", "telegram"} /\ key = "none"
  /\ key' = "fresh"
  /\ UNCHANGED <<kind, service, mark, up, process, rest, due, reached, history>>

\* A Google access token lives an hour; the refresh token stays.
TokenAges ==
  /\ kind = "gmail" /\ key = "fresh"
  /\ key' = "stale"
  /\ UNCHANGED <<kind, service, mark, up, process, rest, due, reached, history>>

\* A stale access token is exchanged for a live one, which is stored before it is used.
\* The store is rewritten in place: a write cut short leaves no readable token.
GmailAccessToken ==
  /\ kind = "gmail" /\ up = "idle" /\ ~cancelled /\ key = "stale"
  /\ \/ key' = "fresh" /\ UNCHANGED faults
     \/ key' = "none" /\ faults < MaxFaults /\ faults' = faults + 1
  /\ UNCHANGED <<kind, service, mark, up, process, rest, due, reached, shown, asked,
                 left, lost>>

-----------------------------------------------------------------------------
(* The process.                                                             *)

\* The grants file: absent is the empty table, malformed ends the process.
LoadTable == SUBSET Senders

Boot ==
  /\ up = "down"
  /\ up' = "idle"
  /\ table' \in LoadTable
  /\ UNCHANGED <<kind, service, key, mark, cancelled, rest, due, reached, history>>

\* gmail and slack start without a token and meet its absence at every poll; the other three
\* refuse to start.
GmailRun == kind = "gmail" /\ Boot
SlackRun == kind = "slack" /\ Boot
DiscordRun == kind = "discord" /\ key # "none" /\ Boot
TelegramRun == kind = "telegram" /\ key # "none" /\ Boot
WaRun == kind = "wa" /\ key # "none" /\ Boot

Run == GmailRun \/ SlackRun \/ DiscordRun \/ TelegramRun \/ WaRun

\* SIGTERM: the context is cancelled and whatever runs goes on to its next check.
Stop ==
  /\ up # "down" /\ ~cancelled
  /\ cancelled' = TRUE
  /\ UNCHANGED <<kind, service, key, mark, up, table, rest, due, reached, history>>

\* What a process has in hand is fetched again, but for what WhatsApp has pushed.
Ended == /\ up' = "down" /\ cancelled' = FALSE /\ table' = {}
         /\ rest' = <<>> /\ due' = {} /\ reached' = 0
         /\ left' = IF kind = "wa" THEN left \cup due ELSE left

\* The loop ends between polls; wa waits for no handler.
Exit ==
  /\ cancelled /\ (up = "idle" \/ (kind = "wa" /\ up = "deciding"))
  /\ Ended
  /\ UNCHANGED <<kind, service, key, mark, shown, asked, faults, lost>>

Crash ==
  /\ up # "down" /\ faults < MaxFaults
  /\ Ended /\ faults' = faults + 1
  /\ UNCHANGED <<kind, service, key, mark, shown, asked, lost>>

-----------------------------------------------------------------------------
(* Reading the service.                                                     *)

\* The n newest and the n oldest of a set of arrivals.
Newest(S, n) == { m \in S : Cardinality({ x \in S : x > m }) < n }
Oldest(S, n) == { m \in S : Cardinality({ x \in S : x < m }) < n }

Arrived == 1 .. box

\* gmail, slack and telegram keep one watermark; the model keeps it in every cell.
Since == mark[Head(ChannelList)]
In(c) == { m \in Arrived : Place[m] = c }
After(since) == { m \in Arrived : Stamp[m] > since }

\* Gmail lists newest first, at most MaxBatch, from the whole second of the watermark on; each
\* is then fetched and one not after the watermark is dropped.
GmailPage(since) ==
  { m \in Newest({ x \in Arrived : Stamp[x] >= since }, MaxBatch) : Stamp[m] > since }

\* Bug: a message at the watermark is read again.
SlackPageInclusive(since) ==
  { m \in Newest(Arrived, MaxBatch) : Stamp[m] >= since }

\* Slack lists at most MaxBatch conversations; they are read one at a time, newest first, and the
\* reading ends when MaxBatch messages are in hand.
Listed == DOMAIN ChannelList \cap 1 .. MaxBatch
SlackPage(since) ==
  LET late(c) == In(c) \cap After(since)
      before(i) == UNION { late(ChannelList[j]) : j \in 1 .. i - 1 }
      room(i) == IF Cardinality(before(i)) < MaxBatch THEN MaxBatch - Cardinality(before(i)) ELSE 0
  IN UNION { Newest(late(ChannelList[i]), room(i)) : i \in Listed }

\* Discord gives the messages after a snowflake, oldest of them first, or the most recent when no
\* snowflake is named.
DiscordPage(c) ==
  IF mark[c] = 0 THEN Newest(In(c), MaxBatch)
                 ELSE Oldest({ m \in In(c) : m > mark[c] }, MaxBatch)

\* Telegram gives the oldest updates it still holds, from the offset on.
TelegramPage(offset) == Oldest({ m \in Arrived : m >= offset /\ m >= forgotten }, MaxBatch)

\* A failed reading ends the poll and changes nothing.
Reading ==
  /\ up = "idle" /\ ~cancelled /\ key = "fresh"
  /\ UNCHANGED <<kind, box, key, mark, process, shown, asked, faults, lost>>

GmailFetch ==
  /\ kind = "gmail" /\ Reading
  /\ due' = GmailPage(Since)
  /\ left' = left \cup (After(Since) \ due')
  /\ up' = IF due' = {} THEN "idle" ELSE "deciding"
  /\ UNCHANGED <<forgotten, rest, reached>>

SlackFetch ==
  /\ kind = "slack" /\ Reading
  /\ due' = SlackPage(Since)
  /\ left' = left \cup (After(Since) \ due')
  /\ up' = IF due' = {} THEN "idle" ELSE "deciding"
  /\ UNCHANGED <<forgotten, rest, reached>>

Last(S) == CHOOSE m \in S : \A x \in S : x <= m

\* Bug: the next offset is the last update instead of the one after it.
ParseUpdatesAgain(page, offset) ==
  [arrivals |-> page \ Nobody, next |-> IF page = {} THEN offset ELSE Last(page)]

\* Updates without a sender move the offset on and are nobody's arrival.
ParseUpdates(page, offset) ==
  [arrivals |-> page \ Nobody, next |-> IF page = {} THEN offset ELSE Last(page) + 1]

\* getUpdates: asking from an offset on is what tells the service to forget the rest.
TelegramFetch ==
  /\ kind = "telegram" /\ Reading
  /\ LET updates == ParseUpdates(TelegramPage(Since), Since)
     IN due' = updates.arrivals /\ reached' = updates.next
  /\ forgotten' = IF Since > forgotten THEN Since ELSE forgotten
  /\ up' = IF due' = {} THEN "saving" ELSE "deciding"
  /\ UNCHANGED <<rest, left>>

\* Messages without an author are dropped from a page and do not move the watermark.
ParseMessages(page) == page \ Nobody

HigherSnowflake(a, b) == IF a > b THEN a ELSE b

\* One channel of a discord poll.
ReadChannel(c) ==
  LET page == DiscordPage(c)
  IN /\ due' = ParseMessages(page)
     /\ reached' = mark[c]
     /\ left' = IF mark[c] = 0 THEN left \cup (In(c) \ page) ELSE left
     /\ up' = IF due' = {} THEN "next" ELSE "deciding"
     /\ UNCHANGED <<kind, box, forgotten, key, mark, process, shown, asked, faults, lost>>

DiscordFetch ==
  /\ kind = "discord" /\ up = "idle" /\ ~cancelled /\ key = "fresh"
  /\ rest' = ChannelList
  /\ ReadChannel(Head(ChannelList))

DiscordNextChannel(c) ==
  /\ kind = "discord" /\ up = "next" /\ ~cancelled
  /\ Tail(rest) # <<>> /\ c = Head(Tail(rest))
  /\ rest' = Tail(rest)
  /\ ReadChannel(c)

\* The poll is over: every channel was read, or one could not be, and with it the channels behind
\* it.  The next poll starts with the first again.
DiscordPollEnds ==
  /\ kind = "discord" /\ up = "next"
  /\ up' = "idle" /\ rest' = <<>>
  /\ UNCHANGED <<kind, service, key, mark, process, due, reached, history>>

-----------------------------------------------------------------------------
(* Putting an arrival to the decider.                                        *)

\* The loop takes arrivals oldest first; telegram's in cursor order; ties in either order.
Precedes(a, b) == IF kind = "telegram" THEN a < b ELSE Stamp[a] < Stamp[b]
Next1(m) == m \in due /\ \A x \in due : ~Precedes(x, m)

\* No decider, a broken one, an unknown word, or a cancelled context: nothing is presented.
Unanswered == UNCHANGED <<shown, faults>>

\* A sender without a live grant is refused by the decider; it may refuse anyone.
Refused == ~cancelled /\ UNCHANGED <<shown, faults>>

Delivered(m) ==
  /\ ~cancelled /\ Sender[m] \in table
  /\ shown' = [shown EXCEPT ![m] = @ + 1]

\* A word that shows or files the arrival.
Presented(m) == Delivered(m) /\ UNCHANGED faults

Decide(m) == Unanswered \/ Refused \/ Presented(m)

\* digest or queue_until, and the append failed, before or after the line reached the file.
FilingFails(m) ==
  /\ ~cancelled /\ Sender[m] \in table
  /\ faults < MaxFaults /\ faults' = faults + 1
  /\ UNCHANGED shown \/ Delivered(m)

\* pollOnce gives up on the rest of its batch when a line cannot be filed.
GivesUp(m) ==
  /\ FilingFails(m)
  /\ due' = {} /\ rest' = <<>> /\ reached' = 0 /\ up' = "idle"

Handled == { asked[i] : i \in DOMAIN asked }
Ask(m) == asked' = IF m \in Handled THEN asked ELSE Append(asked, m)

Taking(m) ==
  /\ up = "deciding" /\ Next1(m)
  /\ Ask(m)
  /\ UNCHANGED <<kind, service, key, mark, process, left, lost>>

\* Every arrival is followed by a save of its stamp.
EachThenSave(m) ==
  /\ Decide(m)
  /\ due' = due \ {m} /\ reached' = Stamp[m] /\ up' = "saving"
  /\ UNCHANGED rest

GmailHandles(m) == kind = "gmail" /\ Taking(m) /\ (EachThenSave(m) \/ GivesUp(m))
SlackHandles(m) == kind = "slack" /\ Taking(m) /\ (EachThenSave(m) \/ GivesUp(m))

\* The highest snowflake of the channel is saved when the channel is done.
DiscordHandles(m) ==
  /\ kind = "discord" /\ Taking(m)
  /\ \/ /\ Decide(m)
        /\ due' = due \ {m}
        /\ reached' = HigherSnowflake(reached, m)
        /\ up' = IF due' = {} THEN "saving" ELSE "deciding"
        /\ UNCHANGED rest
     \/ GivesUp(m)

\* Bug: the offset is saved although a line could not be filed.
TelegramHandlesAnyway(m) ==
  /\ kind = "telegram" /\ Taking(m)
  /\ \/ /\ Decide(m)
        /\ due' = due \ {m}
        /\ up' = IF due' = {} THEN "saving" ELSE "deciding"
        /\ UNCHANGED <<rest, reached>>
     \/ /\ FilingFails(m)
        /\ due' = {} /\ up' = "saving"
        /\ UNCHANGED <<rest, reached>>

\* The offset is saved when the batch is done.
TelegramHandles(m) ==
  /\ kind = "telegram" /\ Taking(m)
  /\ \/ /\ Decide(m)
        /\ due' = due \ {m}
        /\ up' = IF due' = {} THEN "saving" ELSE "deciding"
        /\ UNCHANGED <<rest, reached>>
     \/ GivesUp(m)

\* Bug: a message in a group is dropped.
FromEventDirect(m) == IF m \in Nobody \/ Place[m] # Head(ChannelList) THEN {} ELSE {m}

\* The owner's own messages come back, and they and those without a sender are nobody's arrival.
FromEvent(m) == IF m \in Nobody THEN {} ELSE {m}

\* WhatsApp pushes, and takes what it has pushed for received.
WaPush ==
  /\ kind = "wa" /\ up = "idle" /\ forgotten < box
  /\ forgotten' = forgotten + 1
  /\ due' = FromEvent(forgotten')
  /\ up' = IF due' = {} THEN "idle" ELSE "deciding"
  /\ UNCHANGED <<kind, box, key, mark, process, rest, reached, history>>

\* There is no watermark, and a failed append is only logged.
WaHandles(m) ==
  /\ kind = "wa" /\ Taking(m)
  /\ Decide(m) \/ FilingFails(m)
  /\ due' = due \ {m} /\ up' = "idle"
  /\ UNCHANGED <<rest, reached>>

-----------------------------------------------------------------------------
(* Saving the watermark: the file is rewritten in place, and a failure is     *)
(* logged and leaves nothing that can be read.                               *)

Saved(cells) ==
  /\ up = "saving" /\ reached' = 0
  /\ \/ /\ mark' = [c \in Channels |-> IF c \in cells THEN reached ELSE mark[c]]
        /\ UNCHANGED <<faults, lost>>
     \/ /\ faults < MaxFaults /\ faults' = faults + 1
        /\ mark' = [c \in Channels |-> 0] /\ lost' = TRUE
  /\ UNCHANGED <<kind, service, key, process, rest, due, shown, asked, left>>

GmailSave == kind = "gmail" /\ Saved(Channels) /\ up' = IF due = {} THEN "idle" ELSE "deciding"
SlackSave == kind = "slack" /\ Saved(Channels) /\ up' = IF due = {} THEN "idle" ELSE "deciding"
DiscordSave == kind = "discord" /\ Saved({Head(rest)}) /\ up' = "next"
TelegramSave == kind = "telegram" /\ Saved(Channels) /\ up' = "idle"

-----------------------------------------------------------------------------
Fetch == GmailFetch \/ SlackFetch \/ TelegramFetch \/ DiscordFetch
DiscordGoesOn == DiscordPollEnds \/ \E c \in Channels : DiscordNextChannel(c)
Handle == \E m \in due : \/ GmailHandles(m) \/ SlackHandles(m) \/ DiscordHandles(m)
                         \/ TelegramHandles(m) \/ WaHandles(m)
Save == GmailSave \/ SlackSave \/ DiscordSave \/ TelegramSave
Login == GmailLogin \/ SlackLogin \/ Pair \/ PasteToken

ConnectorNext ==
  \/ Arrive \/ Login \/ TokenAges \/ GmailAccessToken
  \/ Run \/ Stop \/ Exit \/ Crash
  \/ Fetch \/ DiscordGoesOn \/ WaPush \/ Handle \/ Save

\* The loop polls for ever and its supervisor starts it again; the owner logs in; a request comes
\* back, answered or not; and a service asked again and again answers now and then, for each of the
\* channels (strong fairness: a process told to stop leaves between two readings).
Fairness ==
  /\ WF_connectorVars(Run) /\ WF_connectorVars(Login) /\ WF_connectorVars(Exit)
  /\ WF_connectorVars(Handle \/ Save \/ DiscordGoesOn)
  /\ SF_connectorVars(Fetch \/ WaPush)
  /\ \A i \in 2 .. Len(ChannelList) : SF_connectorVars(DiscordNextChannel(ChannelList[i]))

ConnectorSpec == ConnectorInit /\ [][ConnectorNext]_connectorVars
LiveSpec == ConnectorSpec /\ Fairness

-----------------------------------------------------------------------------
(* Properties.                                                              *)

\* An arrival is shown or filed once, and once more only for a crash or a failed write: the
\* watermark is behind what was shown by no more than the work in hand (the comment on
\* watermark.save, "re-presents mail next run").
RepeatsAreFaults == \A m \in Mail : shown[m] <= 1 + faults

\* What a telegram service has forgotten and what a watermark has passed was put to the decider,
\* or was left out of a page that was full (gmail and slack read the newest MaxBatch, slack in the
\* first MaxBatch channels, discord the newest of a channel it has no watermark of), or bears the
\* stamp of one that was.  What WhatsApp has pushed is in hand, was put to the decider, or ended
\* with the process that had it in hand.
Passed(m) == CASE kind = "telegram" -> m < forgotten
               [] kind = "discord" -> m <= mark[Place[m]]
               [] kind = "wa" -> m <= forgotten /\ m \notin due
               [] OTHER -> Stamp[m] <= Since
AskedBeforePassed ==
  \A m \in Arrived \ Nobody :
     Passed(m) => \/ m \in Handled \cup left
                  \/ kind \in {"gmail", "slack"} /\ \E x \in Handled : Stamp[x] = Stamp[m]

\* What a service holds for the owner: for discord, behind a watermark its channel has.
Awaited(m) ==
  /\ m \in Arrived
  /\ kind = "discord" => 0 < mark[Place[m]] /\ mark[Place[m]] < m

\* It was put to the decider; or discord's watermark was lost, or wa ended with it in hand.
SeenTo(m) ==
  \/ m \in Handled
  \/ kind = "discord" /\ lost
  \/ kind = "wa" /\ m \in left

\* An arrival telegram, discord or WhatsApp holds for the owner is put to the decider in the end,
\* unless discord's watermark is lost on the way, or wa ends with the arrival in hand (pollOnce;
\* the event handler of ghillie-wa).
EventuallyAsked ==
  kind \in {"telegram", "discord", "wa"} =>
     \A m \in Mail \ Nobody : Awaited(m) ~> SeenTo(m)
=============================================================================
