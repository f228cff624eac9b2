------------------------------- MODULE Glass --------------------------------
(***************************************************************************)
(* The chat half of internal/glass: the interview says lines and waits for   *)
(* replies (SayLine, AwaitReply), and browser panes send words over sockets   *)
(* (chat.send), again when an acknowledgement was lost.                      *)
(*                                                                         *)
(* Every connection is served by a goroutine of its own and the interview by  *)
(* another.  Server.mu guards the chat state; what is done after an unlock    *)
(* (the broadcast, waking the interview, the response) is a step of its own.   *)
(* What a broadcast shows to whom is modelled in Panes.                       *)
(***************************************************************************)
EXTENDS Naturals, Sequences, FiniteSets

CONSTANTS
  Keys,       \* idempotency keys; two sends with one key carry the same words
  NoKey,      \* an empty channel, or no request in hand
  Conns,      \* sockets that may ever be opened
  Ghillie,    \* the role of what the interview says
  MaxLines    \* bound of the model: lines the interview says

ASSUME GlassAssumption ==
  /\ Ghillie \notin Keys /\ NoKey \notin Keys
  /\ MaxLines \in Nat

VARIABLES
  transcript,  \* Server.transcript: who said each entry, by role or key
  replies,     \* Server.replies: words nobody was waiting for
  waiter,      \* Server.waiter: the question that waits, 0 for nil
  seenSends,   \* Server.seenSends
  interview,   \* where the goroutine of the interview is
  line,        \* lines said; a question is known by its line
  chan,        \* the channel of each question
  cancelled,   \* the context of the interview is cancelled
  serving,     \* where the goroutine of each connection is
  request,     \* the key it is serving
  hand,        \* the question it took out of waiter, 0 for none
  socket,      \* "unused", "up" or "down"
  acked,       \* history: keys whose send was acknowledged
  heard,       \* history: what questions were answered with
  swallowed    \* history: words that went with a question that gave up

chatVars    == <<transcript, replies, waiter, seenSends>>
askVars     == <<interview, line, chan, cancelled>>
connVars    == <<serving, request, hand, socket>>
historyVars == <<acked, heard, swallowed>>

vars == <<chatVars, askVars, connVars, historyVars>>
-----------------------------------------------------------------------------
Init ==
  /\ transcript = <<>> /\ replies = <<>> /\ waiter = 0 /\ seenSends = {}
  /\ interview = "idle" /\ line = 0 /\ cancelled = FALSE
  /\ chan = [ q \in 1 .. MaxLines |-> NoKey ]
  /\ serving = [ c \in Conns |-> "off" ]
  /\ request = [ c \in Conns |-> NoKey ] /\ hand = [ c \in Conns |-> 0 ]
  /\ socket = [ c \in Conns |-> "unused" ]
  /\ acked = {} /\ heard = <<>> /\ swallowed = {}
-----------------------------------------------------------------------------
(* Sockets.                                                                *)

Dial(c) ==
  /\ socket[c] = "unused"
  /\ socket' = [ socket EXCEPT ![c] = "up" ]
  /\ serving' = [ serving EXCEPT ![c] = "read" ]
  /\ UNCHANGED <<chatVars, askVars, request, hand, historyVars>>

\* The socket breaks; the goroutine that serves it does not know yet.
Drop(c) ==
  /\ socket[c] = "up"
  /\ socket' = [ socket EXCEPT ![c] = "down" ]
  /\ UNCHANGED <<chatVars, askVars, serving, request, hand, historyVars>>

\* The read fails and serve returns.
ReadEnds(c) ==
  /\ serving[c] = "read" /\ socket[c] = "down"
  /\ serving' = [ serving EXCEPT ![c] = "off" ]
  /\ UNCHANGED <<chatVars, askVars, request, hand, socket, historyVars>>

\* A request came in over the socket.
Requested(c) == serving[c] = "read" /\ socket[c] = "up"
-----------------------------------------------------------------------------
(* chat.send.                                                              *)

\* A send that was seen before is acknowledged and does nothing else.
SendAgain(c, k) ==
  /\ Requested(c) /\ k \in seenSends
  /\ request' = [ request EXCEPT ![c] = k ]
  /\ serving' = [ serving EXCEPT ![c] = "answer" ]
  /\ UNCHANGED <<chatVars, askVars, hand, socket, historyVars>>

\* Bug: the key is remembered only when nobody waits.
SendForgetting(c, k) ==
  /\ Requested(c) /\ k \notin seenSends
  /\ transcript' = Append(transcript, k)
  /\ IF waiter # 0
     THEN hand' = [ hand EXCEPT ![c] = waiter ] /\ waiter' = 0
          /\ UNCHANGED <<replies, seenSends>>
     ELSE replies' = Append(replies, k) /\ seenSends' = seenSends \cup {k}
          /\ UNCHANGED <<hand, waiter>>
  /\ request' = [ request EXCEPT ![c] = k ]
  /\ serving' = [ serving EXCEPT ![c] = "echo" ]
  /\ UNCHANGED <<askVars, socket, historyVars>>

\* Words that nobody sent before: on the transcript, and to the question that
\* waits or into the queue, all under the lock.
Send(c, k) ==
  /\ Requested(c) /\ k \notin seenSends
  /\ seenSends' = seenSends \cup {k}
  /\ transcript' = Append(transcript, k)
  /\ IF waiter # 0
     THEN hand' = [ hand EXCEPT ![c] = waiter ] /\ waiter' = 0 /\ UNCHANGED replies
     ELSE replies' = Append(replies, k) /\ UNCHANGED <<hand, waiter>>
  /\ request' = [ request EXCEPT ![c] = k ]
  /\ serving' = [ serving EXCEPT ![c] = "echo" ]
  /\ UNCHANGED <<askVars, socket, historyVars>>

\* The broadcasts are out: wake the interview if this sender took its channel.
Echoed(c) ==
  /\ serving[c] = "echo"
  /\ chan' = IF hand[c] # 0 THEN [ chan EXCEPT ![hand[c]] = request[c] ] ELSE chan
  /\ hand' = [ hand EXCEPT ![c] = 0 ]
  /\ serving' = [ serving EXCEPT ![c] = "answer" ]
  /\ UNCHANGED <<chatVars, interview, line, cancelled, request, socket, historyVars>>

\* serve writes the response, or returns when the peer is gone.
Answer(c) ==
  /\ serving[c] = "answer"
  /\ request' = [ request EXCEPT ![c] = NoKey ]
  /\ IF socket[c] = "up"
     THEN acked' = acked \cup {request[c]} /\ serving' = [ serving EXCEPT ![c] = "read" ]
     ELSE serving' = [ serving EXCEPT ![c] = "off" ] /\ UNCHANGED acked
  /\ UNCHANGED <<chatVars, askVars, hand, socket, heard, swallowed>>
-----------------------------------------------------------------------------
(* The interview.                                                          *)

\* A line is a remark, or a question whose reply is awaited.
SayLine ==
  /\ interview = "idle" /\ ~ cancelled /\ line < MaxLines
  /\ line' = line + 1
  /\ transcript' = Append(transcript, Ghillie)
  /\ interview' \in {"idle", "ask"}
  /\ UNCHANGED <<replies, waiter, seenSends, chan, cancelled, connVars, historyVars>>

Hears(k) == heard' = Append(heard, k) /\ interview' = "idle"

\* Bug: the newest words in the queue answer first.
AwaitReplyNewest ==
  /\ interview = "ask"
  /\ IF replies # <<>>
     THEN /\ Hears(replies[Len(replies)])
          /\ replies' = SubSeq(replies, 1, Len(replies) - 1)
          /\ UNCHANGED waiter
     ELSE waiter' = line /\ interview' = "wait" /\ UNCHANGED <<replies, heard>>
  /\ UNCHANGED <<transcript, seenSends, line, chan, cancelled, connVars, acked, swallowed>>

\* Bug: the queue is not looked at before waiting.
AwaitReplyAnyway ==
  /\ interview = "ask"
  /\ waiter' = line /\ interview' = "wait"
  /\ UNCHANGED <<transcript, replies, seenSends, line, chan, cancelled, connVars, historyVars>>

\* AwaitReply: queued words answer at once, otherwise the question waits.
AwaitReply ==
  /\ interview = "ask"
  /\ IF replies # <<>>
     THEN Hears(Head(replies)) /\ replies' = Tail(replies) /\ UNCHANGED waiter
     ELSE waiter' = line /\ interview' = "wait" /\ UNCHANGED <<replies, heard>>
  /\ UNCHANGED <<transcript, seenSends, line, chan, cancelled, connVars, acked, swallowed>>

\* Bug: a closed or empty channel counts as a reply.
WokenUnchecked ==
  /\ interview = "wait"
  /\ Hears(chan[line])
  /\ chan' = [ chan EXCEPT ![line] = NoKey ]
  /\ UNCHANGED <<chatVars, line, cancelled, connVars, acked, swallowed>>

Woken ==
  /\ interview = "wait" /\ chan[line] # NoKey
  /\ Hears(chan[line])
  /\ chan' = [ chan EXCEPT ![line] = NoKey ]
  /\ UNCHANGED <<chatVars, line, cancelled, connVars, acked, swallowed>>

\* select takes ctx.Done, whether or not the channel has words too.
GiveUp ==
  /\ interview = "wait" /\ cancelled
  /\ interview' = "gone"
  /\ UNCHANGED <<chatVars, line, chan, cancelled, connVars, historyVars>>

\* The words that were taken for a question and have not reached it.
TakenFor(q) ==
  { k \in Keys : chan[q] = k \/ \E c \in Conns : hand[c] = q /\ request[c] = k }

\* Bug: the waiter is left behind.
ClientGoneWaiting ==
  /\ interview = "gone"
  /\ swallowed' = swallowed \cup TakenFor(line)
  /\ interview' = "idle"
  /\ UNCHANGED <<chatVars, line, chan, cancelled, connVars, acked, heard>>

\* ErrClientGone: the waiter is cleared if it is still this question's.
ClientGone ==
  /\ interview = "gone"
  /\ waiter' = IF waiter = line THEN 0 ELSE waiter
  /\ swallowed' = swallowed \cup TakenFor(line)
  /\ interview' = "idle"
  /\ UNCHANGED <<transcript, replies, seenSends, line, chan, cancelled, connVars,
                 acked, heard>>

Cancel ==
  /\ ~ cancelled /\ cancelled' = TRUE
  /\ UNCHANGED <<chatVars, interview, line, chan, connVars, historyVars>>

\* Another interview over the same server, under a context of its own.
NewContext ==
  /\ interview = "idle" /\ cancelled /\ cancelled' = FALSE
  /\ UNCHANGED <<chatVars, interview, line, chan, connVars, historyVars>>
-----------------------------------------------------------------------------
InterviewStep == SayLine \/ AwaitReply \/ Woken \/ GiveUp \/ ClientGone

\* What the goroutine of a connection does without a new request.
ServeStep(c) == Echoed(c) \/ Answer(c) \/ ReadEnds(c)

PaneStep(c) == Dial(c) \/ Drop(c) \/ \E k \in Keys : Send(c, k) \/ SendAgain(c, k)

Next ==
  \/ InterviewStep \/ Cancel \/ NewContext
  \/ \E c \in Conns : ServeStep(c) \/ PaneStep(c)

Spec == Init /\ [][Next]_vars

\* Goroutines are scheduled, and a write to a peer ends within its timeout.
FairSpec ==
  /\ Spec
  /\ WF_vars(InterviewStep)
  /\ \A c \in Conns : WF_vars(ServeStep(c))
-----------------------------------------------------------------------------
TypeOK ==
  /\ transcript \in Seq(Keys \cup {Ghillie}) /\ replies \in Seq(Keys)
  /\ waiter \in 0 .. MaxLines /\ seenSends \subseteq Keys
  /\ interview \in {"idle", "ask", "wait", "gone"}
  /\ line \in 0 .. MaxLines /\ chan \in [1 .. MaxLines -> Keys \cup {NoKey}]
  /\ cancelled \in BOOLEAN
  /\ serving \in [Conns -> {"off", "read", "echo", "answer"}]
  /\ request \in [Conns -> Keys \cup {NoKey}] /\ hand \in [Conns -> 0 .. MaxLines]
  /\ socket \in [Conns -> {"unused", "up", "down"}]
  /\ acked \subseteq Keys /\ heard \in Seq(Keys) /\ swallowed \subseteq Keys

\* Words accepted and not yet heard, oldest first: those taken for the question that
\* waits, then the queue.
Box ==
  IF interview \in {"wait", "gone"} /\ TakenFor(line) # {}
  THEN <<CHOOSE k \in Keys : k \in TakenFor(line)>> \o replies
  ELSE replies

\* The hand-over between chat.send and AwaitReply, with its queue, its waiter and
\* the wake-up after the unlock, is one line of words in the order of acceptance.
Words == INSTANCE Mailbox WITH box <- Box, lost <- swallowed
MailboxSpec == Words!Spec

\* Words that were acknowledged are on the transcript once, however often and over
\* whatever connection they were sent, and have one fate: they wait, were heard by
\* one question, or went with a question that gave up.
AcknowledgedOnce ==
  \A k \in Keys :
    LET said   == { n \in DOMAIN transcript : transcript[n] = k }
        waits  == { n \in DOMAIN Box : Box[n] = k }
        hears  == { n \in DOMAIN heard : heard[n] = k }
    IN  /\ Cardinality(said) = IF k \in seenSends THEN 1 ELSE 0
        /\ k \in acked => said # {}
        /\ Cardinality(waits) + Cardinality(hears) + Cardinality(swallowed \cap {k})
             = Cardinality(said)

\* A question does not wait for ever while accepted words are there for it.
WaitingHears == (interview = "wait" /\ Box # <<>>) ~> interview # "wait"
=============================================================================
