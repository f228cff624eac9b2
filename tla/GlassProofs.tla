---------------------------- MODULE GlassProofs -----------------------------
(***************************************************************************)
(* The invariants of Glass and its refinement of Mailbox, for any number of *)
(* sockets, keys and lines.                                                 *)
(***************************************************************************)
EXTENDS Glass, SequenceTheorems, FiniteSetTheorems, TLAPS

-----------------------------------------------------------------------------
(* The inductive invariant.                                                 *)

\* What a goroutine has in hand belongs to a request it serves.
Serving ==
  \A c \in Conns :
    /\ socket[c] = "unused" => serving[c] = "off"
    /\ hand[c] # 0 => serving[c] = "echo"
    /\ serving[c] \in {"echo", "answer"} => request[c] \in seenSends

\* A question is known by its line, and has a channel of its own.
Questions ==
  /\ interview # "idle" => line # 0
  /\ \A c \in Conns : hand[c] <= line
  /\ \A q \in 1 .. MaxLines : q > line => chan[q] = NoKey
  /\ interview = "ask" => chan[line] = NoKey /\ \A c \in Conns : hand[c] # line

\* Only the question that waits is in waiter, and no words wait with it.
OneWaits ==
  waiter # 0 => waiter = line /\ interview \in {"wait", "gone"} /\ replies = <<>>

\* A question is taken by one sender at most: while it is in waiter nobody took it, and its
\* words are in a sender's hand or in its channel.
TakenOnce ==
  /\ \A c \in Conns : hand[c] # 0 => hand[c] # waiter /\ chan[hand[c]] = NoKey
  /\ \A c, d \in Conns : hand[c] = hand[d] /\ hand[c] # 0 => c = d
  /\ waiter # 0 => chan[waiter] = NoKey

Handed == TypeOK /\ Serving /\ Questions /\ OneWaits /\ TakenOnce

Occurring(s) == { s[n] : n \in DOMAIN s }
Distinct(s) == \A m, n \in DOMAIN s : s[m] = s[n] => m = n

\* Words that were accepted are on the transcript, and in one place of their way.
OneFate ==
  /\ \A m, n \in DOMAIN transcript : transcript[m] = transcript[n] /\ transcript[m] \in Keys => m = n
  /\ Occurring(transcript) \cap Keys = seenSends
  /\ Distinct(Box) /\ Distinct(heard)
  /\ Occurring(Box) \cup Occurring(heard) \cup swallowed = seenSends
  /\ Occurring(Box) \cap Occurring(heard) = {}
  /\ Occurring(Box) \cap swallowed = {} /\ Occurring(heard) \cap swallowed = {}
  /\ acked \subseteq seenSends

IInv == Handed /\ OneFate

-----------------------------------------------------------------------------
(* What a socket, a sender and the interview have in hand.                   *)

LEMMA FirstHanded == Init => Handed
<1> SUFFICES ASSUME Init PROVE Handed
  OBVIOUS
<1>0. 0 \in 0 .. MaxLines
  BY GlassAssumption
<1>1. TypeOK
  <2>1. <<>> \in Seq(Keys) /\ <<>> \in Seq(Keys \cup {Ghillie})
    BY EmptySeq
  <2>2. transcript \in Seq(Keys \cup {Ghillie}) /\ replies \in Seq(Keys) /\ heard \in Seq(Keys)
    BY <2>1 DEF Init
  <2>3. waiter \in 0 .. MaxLines /\ line \in 0 .. MaxLines /\ cancelled \in BOOLEAN
    BY <1>0 DEF Init
  <2>4. /\ chan \in [1 .. MaxLines -> Keys \cup {NoKey}]
        /\ serving \in [Conns -> {"off", "read", "echo", "answer"}]
        /\ request \in [Conns -> Keys \cup {NoKey}] /\ hand \in [Conns -> 0 .. MaxLines]
        /\ socket \in [Conns -> {"unused", "up", "down"}]
    BY <1>0 DEF Init
  <2> QED
    BY <2>2, <2>3, <2>4 DEF Init, TypeOK
<1>2. Serving /\ OneWaits /\ TakenOnce
  BY DEF Init, Serving, OneWaits, TakenOnce
<1>3. Questions
  BY GlassAssumption DEF Init, Questions
<1> QED
  BY <1>1, <1>2, <1>3 DEF Handed

\* Words taken for a question are words, and belong to that question only.
LEMMA Taken ==
  ASSUME Handed, NEW q \in 1 .. MaxLines
  PROVE  /\ TakenFor(q) \subseteq Keys
         /\ \A j, k \in TakenFor(q) : j = k
         /\ waiter = q => TakenFor(q) = {}
         /\ chan[q] # NoKey => TakenFor(q) = {chan[q]}
<1>1. q # 0
  BY GlassAssumption
<1>2. TakenFor(q) \subseteq Keys
  BY DEF TakenFor
<1>3. CASE chan[q] # NoKey
  <2>1. \A c \in Conns : hand[c] # q
    BY <1>1, <1>3 DEF Handed, TakenOnce
  <2>2. chan[q] \in Keys
    BY <1>3 DEF Handed, TypeOK
  <2> QED
    BY <1>1, <1>3, <2>1, <2>2 DEF TakenFor, Handed, TakenOnce
<1>4. CASE chan[q] = NoKey
  <2>1. \A k \in Keys : chan[q] # k
    BY <1>4, GlassAssumption
  <2>2. \A c, d \in Conns : hand[c] = q /\ hand[d] = q => c = d
    BY <1>1 DEF Handed, TakenOnce
  <2>3. waiter = q => \A c \in Conns : hand[c] # q
    BY <1>1 DEF Handed, TakenOnce
  <2> QED
    BY <1>2, <1>4, <2>1, <2>2, <2>3 DEF TakenFor
<1> QED
  BY <1>3, <1>4

\* The sockets.
LEMMA SocketsHanded ==
  ASSUME Handed, NEW c \in Conns, Dial(c) \/ Drop(c) \/ ReadEnds(c)
  PROVE  Handed'
<1> USE DEF Handed, TypeOK, Serving, Questions, OneWaits, TakenOnce, chatVars, askVars, historyVars
<1>1. CASE Dial(c)
  BY <1>1 DEF Dial
<1>2. CASE Drop(c)
  BY <1>2 DEF Drop
<1>3. CASE ReadEnds(c)
  BY <1>3 DEF ReadEnds
<1> QED
  BY <1>1, <1>2, <1>3

\* A chat.send, up to the moment its words are with a question or in the queue.
LEMMA SendHanded ==
  ASSUME Handed, NEW c \in Conns, NEW k \in Keys, Send(c, k)
  PROVE  Handed'
<1> USE DEF Handed, askVars, historyVars
<1>1. /\ serving[c] = "read" /\ hand[c] = 0
      /\ serving' = [ serving EXCEPT ![c] = "echo" ] /\ request' = [ request EXCEPT ![c] = k ]
      /\ seenSends' = seenSends \cup {k} /\ transcript' = Append(transcript, k)
      /\ UNCHANGED <<interview, line, chan, cancelled, socket, acked, heard, swallowed>>
  BY DEF Send, Requested, Serving, TypeOK
<1>2. \/ waiter # 0 /\ hand' = [ hand EXCEPT ![c] = waiter ] /\ waiter' = 0 /\ replies' = replies
      \/ waiter = 0 /\ replies' = Append(replies, k) /\ hand' = hand /\ waiter' = 0
  BY DEF Send
<1>3. /\ transcript' \in Seq(Keys \cup {Ghillie})
      /\ Append(replies, k) \in Seq(Keys) /\ replies \in Seq(Keys)
  <2>1. transcript \in Seq(Keys \cup {Ghillie}) /\ k \in Keys \cup {Ghillie} /\ replies \in Seq(Keys)
    BY DEF TypeOK
  <2> QED
    BY <1>1, <2>1, AppendProperties
<1>4. TypeOK'
  <2>1. replies' \in Seq(Keys) /\ waiter' \in 0 .. MaxLines /\ hand' \in [Conns -> 0 .. MaxLines]
    <3>1. 0 \in 0 .. MaxLines /\ waiter \in 0 .. MaxLines /\ hand \in [Conns -> 0 .. MaxLines]
      BY GlassAssumption DEF TypeOK
    <3>2. [ hand EXCEPT ![c] = waiter ] \in [Conns -> 0 .. MaxLines]
      BY <3>1
    <3> QED
      BY <1>2, <1>3, <3>1, <3>2
  <2>2. /\ serving' \in [Conns -> {"off", "read", "echo", "answer"}]
        /\ request' \in [Conns -> Keys \cup {NoKey}] /\ seenSends' \subseteq Keys
    BY <1>1 DEF TypeOK
  <2> QED
    BY <1>1, <1>3, <2>1, <2>2 DEF TypeOK
<1>5. Serving'
  BY <1>1, <1>2 DEF Serving, TypeOK
<1>6. waiter # 0 => interview # "ask" /\ waiter \in 1 .. line /\ waiter = line
  BY GlassAssumption DEF OneWaits, TypeOK
<1>7. line <= line
  BY GlassAssumption DEF TypeOK
<1>8. Questions'
  BY <1>1, <1>2, <1>6, <1>7 DEF Questions, TypeOK
<1>9. OneWaits'
  BY <1>2 DEF OneWaits
<1>10. TakenOnce'
  <2>1. CASE waiter # 0 /\ hand' = [ hand EXCEPT ![c] = waiter ] /\ waiter' = 0
    <3>1. \A d \in Conns : d # c => hand'[d] = hand[d] /\ (hand[d] # 0 => hand[d] # waiter)
      BY <2>1 DEF TakenOnce, TypeOK
    <3>2. hand'[c] = waiter /\ chan[waiter] = NoKey /\ chan' = chan
      BY <1>1, <2>1 DEF TakenOnce, TypeOK
    <3> QED
      BY <2>1, <3>1, <3>2 DEF TakenOnce
  <2>2. CASE hand' = hand /\ waiter' = 0
    BY <1>1, <2>2 DEF TakenOnce
  <2> QED
    BY <1>2, <2>1, <2>2
<1> QED
  BY <1>4, <1>5, <1>8, <1>9, <1>10

LEMMA SendAgainHanded ==
  ASSUME Handed, NEW c \in Conns, NEW k \in Keys, SendAgain(c, k)
  PROVE  Handed'
BY DEF SendAgain, Requested, Handed, TypeOK, Serving, Questions, OneWaits, TakenOnce, chatVars,
       askVars, historyVars

LEMMA EchoedHanded ==
  ASSUME Handed, NEW c \in Conns, Echoed(c)
  PROVE  Handed'
<1> USE DEF Handed, chatVars, historyVars
<1>1. request[c] \in Keys /\ request[c] \in seenSends
  BY DEF Echoed, Serving, TypeOK
<1>2. CASE hand[c] = 0
  BY <1>1, <1>2 DEF Echoed, TypeOK, Serving, Questions, OneWaits, TakenOnce
<1>3. CASE hand[c] # 0
  <2>1. /\ hand[c] \in 1 .. MaxLines /\ hand[c] <= line /\ hand[c] # waiter /\ 0 <= line
        /\ interview = "ask" => hand[c] # line
    BY <1>3, GlassAssumption DEF TypeOK, Questions, TakenOnce
  <2>2. \A d \in Conns : d # c => hand[d] # hand[c]
    BY <1>3 DEF TakenOnce
  <2>3. /\ chan' = [ chan EXCEPT ![hand[c]] = request[c] ] /\ hand' = [ hand EXCEPT ![c] = 0 ]
        /\ serving' = [ serving EXCEPT ![c] = "answer" ] /\ serving[c] = "echo"
        /\ UNCHANGED <<transcript, replies, waiter, seenSends, interview, line, cancelled, request,
                       socket, acked, heard, swallowed>>
    BY <1>3 DEF Echoed
  <2>4. TypeOK'
    BY <1>1, <2>1, <2>3, GlassAssumption DEF TypeOK
  <2>5. Serving'
    BY <2>3 DEF Serving, TypeOK
  <2>6. \A q \in 1 .. MaxLines : q > line => q # hand[c]
    BY <2>1, GlassAssumption DEF TypeOK
  <2>7. Questions'
    BY <2>1, <2>3, <2>6 DEF Questions, TypeOK
  <2>8. OneWaits'
    BY <2>3 DEF OneWaits
  <2>9. TakenOnce'
    BY <2>1, <2>2, <2>3 DEF TakenOnce, TypeOK
  <2> QED
    BY <2>4, <2>5, <2>7, <2>8, <2>9
<1> QED
  BY <1>2, <1>3

LEMMA AnswerHanded ==
  ASSUME Handed, NEW c \in Conns, Answer(c)
  PROVE  Handed'
<1>1. request[c] \in Keys /\ hand[c] = 0
  BY DEF Handed, Answer, Serving, TypeOK
<1>2. /\ serving[c] = "answer" /\ serving' \in {[ serving EXCEPT ![c] = "read" ], [ serving EXCEPT ![c] = "off" ]}
      /\ request' = [ request EXCEPT ![c] = NoKey ] /\ acked' \subseteq acked \cup {request[c]}
      /\ UNCHANGED <<chatVars, askVars, hand, socket, heard, swallowed>>
      /\ socket[c] = "up" \/ serving'[c] = "off"
  BY DEF Answer, Handed, TypeOK
<1> USE DEF chatVars, askVars
<1>3. TypeOK'
  <2>1. serving' \in [Conns -> {"off", "read", "echo", "answer"}] /\ request' \in [Conns -> Keys \cup {NoKey}]
    BY <1>2 DEF Handed, TypeOK
  <2> QED
    BY <1>1, <1>2, <2>1 DEF Handed, TypeOK
<1>4. Serving'
  BY <1>1, <1>2 DEF Handed, Serving, TypeOK
<1>5. Questions' /\ OneWaits' /\ TakenOnce'
  BY <1>2 DEF Handed, Questions, OneWaits, TakenOnce
<1> QED
  BY <1>3, <1>4, <1>5 DEF Handed

\* The interview.
LEMMA InterviewHanded ==
  ASSUME Handed, SayLine \/ AwaitReply \/ Woken \/ GiveUp \/ ClientGone \/ Cancel \/ NewContext
  PROVE  Handed'
<1> USE DEF chatVars, askVars, connVars, historyVars
<1>1. CASE SayLine
  <2>1. /\ interview = "idle" /\ line' = line + 1 /\ interview' \in {"idle", "ask"}
        /\ UNCHANGED <<replies, waiter, seenSends, chan, cancelled, connVars, historyVars>>
        /\ transcript' = Append(transcript, Ghillie) /\ line < MaxLines
    BY <1>1 DEF SayLine
  <2>2. waiter = 0
    BY <2>1 DEF Handed, OneWaits
  <2>3. line \in Nat /\ line' \in 1 .. MaxLines /\ line' \in 0 .. MaxLines
    BY <2>1, GlassAssumption DEF Handed, TypeOK
  <2>4. transcript' \in Seq(Keys \cup {Ghillie})
    BY <2>1, AppendProperties DEF Handed, TypeOK
  <2>5. TypeOK'
    BY <2>1, <2>3, <2>4 DEF Handed, TypeOK
  <2>6. Questions'
    <3>1. line' # 0 /\ \A q \in 1 .. MaxLines : q > line' => q > line
      BY <2>1, <2>3
    <3>2. chan[line'] = NoKey
      BY <2>1, <2>3 DEF Handed, Questions
    <3>3. \A c \in Conns : hand[c] <= line' /\ hand[c] # line'
      BY <2>1, <2>3, GlassAssumption DEF Handed, Questions, TypeOK
    <3> QED
      BY <2>1, <3>1, <3>2, <3>3 DEF Handed, Questions
  <2>7. Serving' /\ OneWaits' /\ TakenOnce'
    BY <2>1, <2>2 DEF Handed, Serving, OneWaits, TakenOnce
  <2> QED
    BY <2>5, <2>6, <2>7 DEF Handed
<1>2. CASE AwaitReply
  <2>1. interview = "ask" /\ waiter = 0 /\ line # 0 /\ line \in 0 .. MaxLines
    BY <1>2 DEF AwaitReply, Handed, OneWaits, Questions, TypeOK
  <2>2. UNCHANGED <<transcript, seenSends, line, chan, cancelled, connVars, acked, swallowed>>
    BY <1>2 DEF AwaitReply
  <2>3. CASE replies # <<>>
    <3>1. /\ heard' = Append(heard, Head(replies)) /\ interview' = "idle" /\ replies' = Tail(replies)
          /\ waiter' = waiter
      BY <1>2, <2>3 DEF AwaitReply, Hears
    <3>2. replies \in Seq(Keys) /\ heard \in Seq(Keys)
      BY DEF Handed, TypeOK
    <3>3. Tail(replies) \in Seq(Keys) /\ Append(heard, Head(replies)) \in Seq(Keys)
      BY <2>3, <3>2, HeadTailProperties, AppendProperties
    <3>4. TypeOK'
      BY <2>2, <3>1, <3>3 DEF Handed, TypeOK
    <3> QED
      BY <2>1, <2>2, <3>1, <3>4 DEF Handed, Serving, Questions, OneWaits, TakenOnce
  <2>4. CASE replies = <<>>
    <3>1. waiter' = line /\ interview' = "wait" /\ replies' = replies /\ heard' = heard
      BY <1>2, <2>4 DEF AwaitReply
    <3>2. TypeOK'
      BY <2>1, <2>2, <3>1 DEF Handed, TypeOK
    <3>3. chan[line] = NoKey /\ \A c \in Conns : hand[c] # line
      BY <2>1 DEF Handed, Questions
    <3> QED
      BY <2>1, <2>2, <2>4, <3>1, <3>2, <3>3 DEF Handed, Serving, Questions, OneWaits, TakenOnce
  <2> QED
    BY <2>3, <2>4
<1>3. CASE Woken
  <2>1. /\ interview = "wait" /\ chan[line] # NoKey
        /\ heard' = Append(heard, chan[line]) /\ interview' = "idle"
        /\ chan' = [ chan EXCEPT ![line] = NoKey ]
        /\ UNCHANGED <<chatVars, line, cancelled, connVars, acked, swallowed>>
    BY <1>3 DEF Woken, Hears
  <2>2. line \in 1 .. MaxLines
    BY <2>1, GlassAssumption DEF Handed, Questions, TypeOK
  <2>3. chan[line] \in Keys /\ heard \in Seq(Keys)
    BY <2>1, <2>2 DEF Handed, TypeOK
  <2>4. Append(heard, chan[line]) \in Seq(Keys)
    BY <2>3, AppendProperties
  <2>5. waiter = 0
    BY <2>1 DEF Handed, OneWaits, TakenOnce
  <2>6. TypeOK'
    BY <2>1, <2>4 DEF Handed, TypeOK
  <2>7. \A q \in 1 .. MaxLines : chan'[q] = NoKey \/ chan'[q] = chan[q]
    BY <2>1 DEF Handed, TypeOK
  <2>8. \A c \in Conns : hand[c] # 0 => hand[c] \in 1 .. MaxLines
    BY GlassAssumption DEF Handed, TypeOK
  <2> QED
    BY <2>1, <2>5, <2>6, <2>7, <2>8 DEF Handed, Serving, Questions, OneWaits, TakenOnce
<1>4. CASE GiveUp
  BY <1>4 DEF GiveUp, Handed, TypeOK, Serving, Questions, OneWaits, TakenOnce
<1>5. CASE ClientGone
  <2>1. /\ interview = "gone" /\ interview' = "idle" /\ waiter' = 0
        /\ swallowed' = swallowed \cup TakenFor(line)
        /\ UNCHANGED <<transcript, replies, seenSends, line, chan, cancelled, connVars, acked, heard>>
    BY <1>5 DEF ClientGone, Handed, OneWaits
  <2>2. TakenFor(line) \subseteq Keys /\ 0 \in 0 .. MaxLines
    BY GlassAssumption DEF TakenFor
  <2>3. TypeOK'
    BY <2>1, <2>2 DEF Handed, TypeOK
  <2> QED
    BY <2>1, <2>3 DEF Handed, Serving, Questions, OneWaits, TakenOnce
<1>6. CASE Cancel \/ NewContext
  <2>1. cancelled' \in BOOLEAN
    BY <1>6 DEF Cancel, NewContext
  <2> QED
    BY <1>6, <2>1 DEF Cancel, NewContext, Handed, TypeOK, Serving, Questions, OneWaits, TakenOnce
<1> QED
  BY <1>1, <1>2, <1>3, <1>4, <1>5, <1>6

LEMMA StaysHanded == Handed /\ [Next]_vars => Handed'
<1> SUFFICES ASSUME Handed, [Next]_vars PROVE Handed'
  OBVIOUS
<1>1. CASE UNCHANGED vars
  BY <1>1 DEF vars, chatVars, askVars, connVars, historyVars, Handed, TypeOK, Serving, Questions,
              OneWaits, TakenOnce
<1>2. CASE InterviewStep \/ Cancel \/ NewContext
  BY <1>2, InterviewHanded DEF InterviewStep
<1>3. ASSUME NEW c \in Conns, ServeStep(c) \/ PaneStep(c)
      PROVE  Handed'
  BY <1>3, SocketsHanded, SendHanded, SendAgainHanded, EchoedHanded, AnswerHanded
     DEF ServeStep, PaneStep
<1> QED
  BY <1>1, <1>2, <1>3 DEF Next

-----------------------------------------------------------------------------
(* What a step does to the words that wait.                                  *)

\* Box, of the parts it is read off: where the interview is, what was taken for it, the queue.
BoxOf(where, taken, queue) ==
  IF where \in {"wait", "gone"} /\ taken # {}
  THEN <<CHOOSE k \in Keys : k \in taken>> \o queue
  ELSE queue

LEMMA BoxOfOne ==
  ASSUME NEW where \in {"wait", "gone"}, NEW k \in Keys, NEW queue \in Seq(Keys)
  PROVE  /\ BoxOf(where, {k}, queue) = <<k>> \o queue
         /\ BoxOf(where, {k}, queue) \in Seq(Keys) /\ BoxOf(where, {k}, queue) # <<>>
         /\ Head(BoxOf(where, {k}, queue)) = k /\ Tail(BoxOf(where, {k}, queue)) = queue
<1>1. (CHOOSE j \in Keys : j \in {k}) = k
  OBVIOUS
<1>2. BoxOf(where, {k}, queue) = <<k>> \o queue
  BY <1>1 DEF BoxOf
<1>3. <<k>> \in Seq(Keys) /\ Len(<<k>>) = 1 /\ <<k>>[1] = k
  OBVIOUS
<1>4. /\ <<k>> \o queue \in Seq(Keys) /\ Len(<<k>> \o queue) = 1 + Len(queue)
      /\ Len(queue) \in Nat
      /\ \A i \in 1 .. 1 + Len(queue) :
           (<<k>> \o queue)[i] = IF i <= 1 THEN <<k>>[i] ELSE queue[i - 1]
  BY <1>3, ConcatProperties, LenProperties
<1>5. <<k>> \o queue # <<>>
  BY <1>4, EmptySeq
<1>6. Head(<<k>> \o queue) = k
  BY <1>3, <1>4, <1>5
<1>7. Tail(<<k>> \o queue) = queue
  <2>1. /\ Tail(<<k>> \o queue) \in Seq(Keys) /\ Len(Tail(<<k>> \o queue)) = Len(queue)
        /\ \A i \in 1 .. Len(queue) : Tail(<<k>> \o queue)[i] = (<<k>> \o queue)[i + 1]
    BY <1>4, <1>5, HeadTailProperties
  <2>2. \A i \in 1 .. Len(queue) : Tail(<<k>> \o queue)[i] = queue[i]
    BY <1>4, <2>1
  <2> QED
    BY <2>1, <2>2, SeqEqual
<1> QED
  BY <1>2, <1>4, <1>5, <1>6, <1>7

\* Words at the end of the queue are at the end of the line, whether or not one was taken out.
LEMMA BoxOfMore ==
  ASSUME NEW where, NEW taken \in SUBSET Keys, NEW queue \in Seq(Keys), NEW k \in Keys,
         where \in {"wait", "gone"} => taken = {} \/ \E j \in Keys : taken = {j}
  PROVE  /\ BoxOf(where, taken, queue) \in Seq(Keys)
         /\ BoxOf(where, taken, Append(queue, k)) = Append(BoxOf(where, taken, queue), k)
<1>1. CASE where \in {"wait", "gone"} /\ taken # {}
  <2>1. PICK j \in Keys : taken = {j}
    BY <1>1
  <2>2. Append(queue, k) \in Seq(Keys)
    BY AppendProperties
  <2>3. /\ BoxOf(where, taken, queue) = <<j>> \o queue /\ BoxOf(where, taken, queue) \in Seq(Keys)
        /\ BoxOf(where, taken, Append(queue, k)) = <<j>> \o Append(queue, k)
    <3>1. \A q \in Seq(Keys) : /\ BoxOf(where, {j}, q) = <<j>> \o q
                               /\ BoxOf(where, {j}, q) \in Seq(Keys)
      BY <1>1, BoxOfOne
    <3>2. /\ BoxOf(where, {j}, queue) = <<j>> \o queue /\ BoxOf(where, {j}, queue) \in Seq(Keys)
          /\ BoxOf(where, {j}, Append(queue, k)) = <<j>> \o Append(queue, k)
      BY <2>2, <3>1
    <3> QED
      BY <2>1, <3>2
  <2>4. <<j>> \in Seq(Keys) /\ <<k>> \in Seq(Keys)
    OBVIOUS
  <2>5. /\ Append(queue, k) = queue \o <<k>>
        /\ Append(<<j>> \o queue, k) = (<<j>> \o queue) \o <<k>>
    BY <2>3, AppendIsConcat
  <2> QED
    BY <2>3, <2>4, <2>5, ConcatAssociative
<1>2. CASE ~ (where \in {"wait", "gone"} /\ taken # {})
  BY <1>2 DEF BoxOf
<1> QED
  BY <1>1, <1>2

\* The parts Box is read off, and their kind.
Out == TakenFor(line)

LEMMA BoxParts ==
  ASSUME Handed
  PROVE  /\ Box = BoxOf(interview, Out, replies)
         /\ Out \in SUBSET Keys
         /\ interview \in {"wait", "gone"} => Out = {} \/ \E j \in Keys : Out = {j}
         /\ Box \in Seq(Keys)
<1>1. Box = BoxOf(interview, Out, replies)
  BY DEF Box, BoxOf, Out
<1>2. Out \in SUBSET Keys
  BY DEF Out, TakenFor
<1>3. interview \in {"wait", "gone"} => Out = {} \/ \E j \in Keys : Out = {j}
  <2> SUFFICES ASSUME interview \in {"wait", "gone"}, NEW j \in Out
               PROVE  Out = {j}
    BY <1>2
  <2>1. line \in 1 .. MaxLines
    BY GlassAssumption DEF Handed, Questions, TypeOK
  <2> QED
    BY <2>1, Taken DEF Out
<1>4. replies \in Seq(Keys)
  BY DEF Handed, TypeOK
<1>5. BoxOf(interview, Out, replies) \in Seq(Keys)
  <2>1. CASE interview \in {"wait", "gone"} /\ Out # {}
    BY <1>3, <1>4, <2>1, BoxOfOne
  <2>2. CASE ~ (interview \in {"wait", "gone"} /\ Out # {})
    BY <1>4, <2>2 DEF BoxOf
  <2> QED
    BY <2>1, <2>2
<1> QED
  BY <1>1, <1>2, <1>3, <1>5

\* The kinds of steps.
Stays   == Box' = Box /\ UNCHANGED <<heard, swallowed, seenSends>>
Accepts(k) ==
  /\ k \notin seenSends /\ seenSends' = seenSends \cup {k}
  /\ transcript' = Append(transcript, k) /\ Box' = Append(Box, k)
  /\ UNCHANGED <<heard, swallowed, acked>>
Takes ==
  /\ Box # <<>> /\ Box' = Tail(Box) /\ heard' = Append(heard, Head(Box))
  /\ UNCHANGED <<swallowed, seenSends, transcript, acked>>
Loses ==
  /\ Box # <<>> /\ Box' = Tail(Box) /\ swallowed' = swallowed \cup {Head(Box)}
  /\ UNCHANGED <<heard, seenSends, transcript, acked>>
Kept ==
  /\ Stays
  /\ transcript' = transcript \/ transcript' = Append(transcript, Ghillie)
  /\ acked' \subseteq acked \cup seenSends

Kinds == Kept \/ (\E k \in Keys : Accepts(k)) \/ Takes \/ Loses

\* A step that leaves the interview, the queue and what was taken for the question alone.
LEMMA BoxStays ==
  ASSUME interview' = interview, replies' = replies,
         interview \in {"wait", "gone"} => Out' = Out
  PROVE  Box' = Box
<1>1. Box = BoxOf(interview, Out, replies) /\ Box' = BoxOf(interview', Out', replies')
  BY DEF Box, BoxOf, Out
<1> QED
  BY <1>1 DEF BoxOf

LEMMA SocketKinds ==
  ASSUME Handed, NEW c \in Conns, Dial(c) \/ Drop(c) \/ ReadEnds(c)
  PROVE  Kept
<1>1. /\ UNCHANGED <<interview, replies, line, chan, hand, request>>
      /\ UNCHANGED <<heard, swallowed, seenSends, transcript, acked>>
  BY DEF Dial, Drop, ReadEnds, chatVars, askVars, historyVars
<1>2. Out' = Out
  BY <1>1 DEF Out, TakenFor
<1> QED
  BY <1>1, <1>2, BoxStays DEF Kept, Stays

LEMMA SendKinds ==
  ASSUME Handed, NEW c \in Conns, NEW k \in Keys, Send(c, k)
  PROVE  Accepts(k)
<1>1. /\ hand[c] = 0 /\ k \notin seenSends /\ request' = [ request EXCEPT ![c] = k ]
      /\ seenSends' = seenSends \cup {k} /\ transcript' = Append(transcript, k)
      /\ UNCHANGED <<interview, line, chan, acked, heard, swallowed>>
  BY DEF Send, Requested, Handed, Serving, TypeOK, askVars, historyVars
<1>2. request \in [Conns -> Keys \cup {NoKey}] /\ hand \in [Conns -> 0 .. MaxLines]
  BY DEF Handed, TypeOK
<1>3. CASE waiter # 0
  <2>1. /\ hand' = [ hand EXCEPT ![c] = line ] /\ replies' = replies /\ replies = <<>>
        /\ interview \in {"wait", "gone"} /\ line # 0
    BY <1>3 DEF Send, Handed, OneWaits, Questions
  <2>2. chan[line] = NoKey /\ \A d \in Conns : hand[d] # line
    BY <1>3, <2>1 DEF Handed, OneWaits, TakenOnce
  <2>3. Out = {}
    BY <2>2, GlassAssumption DEF Out, TakenFor
  <2>4. Out' = {k}
    <3>1. Out' = { j \in Keys : chan'[line'] = j \/ \E d \in Conns : hand'[d] = line' /\ request'[d] = j }
      BY DEF Out, TakenFor
    <3>2. \A j \in Keys : chan'[line'] # j
      BY <1>1, <2>2, GlassAssumption
    <3>3. \A d \in Conns : hand'[d] = line' <=> d = c
      BY <1>1, <1>2, <2>1, <2>2
    <3>4. request'[c] = k
      BY <1>1, <1>2
    <3> QED
      BY <3>1, <3>2, <3>3, <3>4
  <2>5. Box = <<>>
    BY <2>1, <2>3, BoxParts DEF BoxOf
  <2>6. Box' = BoxOf(interview', Out', replies')
    BY DEF Box, BoxOf, Out
  <2>7. Box' = <<k>> \o <<>>
    <3>1. interview' \in {"wait", "gone"} /\ replies' = <<>> /\ <<>> \in Seq(Keys)
      BY <1>1, <2>1, EmptySeq
    <3>2. BoxOf(interview', {k}, <<>>) = <<k>> \o <<>>
      BY <3>1, BoxOfOne
    <3> QED
      BY <2>4, <2>6, <3>1, <3>2
  <2>8. <<k>> \o <<>> = Append(<<>>, k)
    BY EmptySeq, ConcatEmptySeq, AppendIsConcat
  <2> QED
    BY <1>1, <2>5, <2>7, <2>8 DEF Accepts
<1>4. CASE waiter = 0
  <2>1. hand' = hand /\ replies' = Append(replies, k)
    BY <1>4 DEF Send
  <2>2. CASE interview \in {"wait", "gone"}
    <3>1. line # 0
      BY <2>2 DEF Handed, Questions
    <3>2. Out' = Out
      <4>1. Out' = { j \in Keys : chan'[line'] = j \/ \E d \in Conns : hand'[d] = line' /\ request'[d] = j }
        BY DEF Out, TakenFor
      <4>2. \A d \in Conns : hand[d] = line => request'[d] = request[d]
        BY <1>1, <1>2, <3>1
      <4> QED
        BY <1>1, <2>1, <4>1, <4>2 DEF Out, TakenFor
    <3>3. Box' = BoxOf(interview, Out, Append(replies, k))
      BY <1>1, <2>1, <3>2 DEF Box, BoxOf, Out
    <3>4. Box' = Append(Box, k)
      <4>1. replies \in Seq(Keys)
        BY DEF Handed, TypeOK
      <4>2. BoxOf(interview, Out, Append(replies, k)) = Append(BoxOf(interview, Out, replies), k)
        BY <4>1, BoxParts, BoxOfMore
      <4>3. Box = BoxOf(interview, Out, replies)
        BY BoxParts
      <4> QED
        BY <3>3, <4>2, <4>3
    <3> QED
      BY <1>1, <3>4 DEF Accepts
  <2>3. CASE interview \notin {"wait", "gone"}
    BY <1>1, <2>1, <2>3 DEF Accepts, Box
  <2> QED
    BY <2>2, <2>3
<1> QED
  BY <1>3, <1>4

\* A goroutine with no question in hand changes nothing by the request it serves.
LEMMA EmptyHanded ==
  ASSUME Handed, NEW c \in Conns, NEW k, hand[c] = 0, request' = [ request EXCEPT ![c] = k ],
         UNCHANGED <<interview, line, chan, hand, replies>>
  PROVE  Box' = Box
<1>1. CASE interview \in {"wait", "gone"}
  <2>1. line # 0
    BY <1>1 DEF Handed, Questions
  <2>2. \A d \in Conns : hand[d] = line => request'[d] = request[d]
    BY <2>1 DEF Handed, TypeOK
  <2>3. Out' = { j \in Keys : chan'[line'] = j \/ \E d \in Conns : hand'[d] = line' /\ request'[d] = j }
    BY DEF Out, TakenFor
  <2>4. Out' = Out
    BY <2>2, <2>3 DEF Out, TakenFor
  <2> QED
    BY <2>4, BoxStays
<1>2. CASE interview \notin {"wait", "gone"}
  BY <1>2, BoxStays
<1> QED
  BY <1>1, <1>2

LEMMA SendAgainKinds ==
  ASSUME Handed, NEW c \in Conns, NEW k \in Keys, SendAgain(c, k)
  PROVE  Kept
<1>1. /\ hand[c] = 0 /\ request' = [ request EXCEPT ![c] = k ]
      /\ UNCHANGED <<interview, line, chan, hand, replies>>
      /\ UNCHANGED <<heard, swallowed, seenSends, transcript, acked>>
  BY DEF SendAgain, Requested, Handed, Serving, TypeOK, chatVars, askVars, historyVars
<1> QED
  BY <1>1, EmptyHanded DEF Kept, Stays

LEMMA AnswerKinds ==
  ASSUME Handed, NEW c \in Conns, Answer(c)
  PROVE  Kept
<1>1. /\ hand[c] = 0 /\ request' = [ request EXCEPT ![c] = NoKey ] /\ request[c] \in seenSends
      /\ UNCHANGED <<interview, line, chan, hand, replies>>
      /\ UNCHANGED <<heard, swallowed, seenSends, transcript>>
      /\ acked' = acked \/ acked' = acked \cup {request[c]}
  BY DEF Answer, Handed, Serving, TypeOK, chatVars, askVars
<1> QED
  BY <1>1, EmptyHanded DEF Kept, Stays

LEMMA EchoedKinds ==
  ASSUME Handed, NEW c \in Conns, Echoed(c)
  PROVE  Kept
<1>1. /\ chan' = IF hand[c] # 0 THEN [ chan EXCEPT ![hand[c]] = request[c] ] ELSE chan
      /\ hand' = [ hand EXCEPT ![c] = 0 ]
      /\ UNCHANGED <<interview, line, request, replies>>
      /\ UNCHANGED <<heard, swallowed, seenSends, transcript, acked>>
  BY DEF Echoed, chatVars, historyVars
<1>2. CASE interview \in {"wait", "gone"}
  <2>1. line # 0 /\ line \in 1 .. MaxLines
    BY <1>2, GlassAssumption DEF Handed, Questions, TypeOK
  <2>2. Out' = { j \in Keys : chan'[line] = j \/ \E d \in Conns : hand'[d] = line /\ request[d] = j }
    BY <1>1 DEF Out, TakenFor
  <2>3. CASE hand[c] = line
    <3>1. chan[line] = NoKey /\ \A d \in Conns : hand[d] = line => d = c
      BY <2>1, <2>3 DEF Handed, TakenOnce
    <3>2. chan'[line] = request[c] /\ \A d \in Conns : hand'[d] # line
      BY <1>1, <2>1, <2>3, <3>1 DEF Handed, TypeOK
    <3>3. Out = { j \in Keys : request[c] = j }
      BY <2>3, <3>1, GlassAssumption DEF Out, TakenFor
    <3>4. Out' = Out
      BY <2>2, <3>2, <3>3
    <3> QED
      BY <1>1, <3>4, BoxStays DEF Kept, Stays
  <2>4. CASE hand[c] # line
    <3>1. chan'[line] = chan[line] /\ \A d \in Conns : hand'[d] = line <=> hand[d] = line
      BY <1>1, <2>1, <2>4 DEF Handed, TypeOK
    <3>2. Out' = Out
      BY <2>2, <3>1 DEF Out, TakenFor
    <3> QED
      BY <1>1, <3>2, BoxStays DEF Kept, Stays
  <2> QED
    BY <2>3, <2>4
<1>3. CASE interview \notin {"wait", "gone"}
  BY <1>1, <1>3, BoxStays DEF Kept, Stays
<1> QED
  BY <1>2, <1>3

LEMMA InterviewKinds ==
  ASSUME Handed, SayLine \/ AwaitReply \/ Woken \/ GiveUp \/ ClientGone \/ Cancel \/ NewContext
  PROVE  Kept \/ Takes \/ Loses
<1> USE DEF chatVars, askVars, connVars, historyVars
<1>1. CASE SayLine
  BY <1>1 DEF SayLine, Kept, Stays, Box
<1>2. CASE AwaitReply /\ replies # <<>>
  <2>1. Box = replies /\ Box' = Tail(replies)
    BY <1>2 DEF AwaitReply, Hears, Box
  <2> QED
    BY <1>2, <2>1 DEF AwaitReply, Hears, Takes
<1>3. CASE AwaitReply /\ replies = <<>>
  <2>1. /\ interview = "ask" /\ interview' = "wait" /\ UNCHANGED <<replies, line, chan, hand, request>>
        /\ UNCHANGED <<heard, swallowed, seenSends, transcript, acked>>
    BY <1>3 DEF AwaitReply
  <2>2. chan[line] = NoKey /\ \A c \in Conns : hand[c] # line
    BY <2>1 DEF Handed, Questions
  <2>3. Out' = {}
    <3>1. Out' = Out
      BY <2>1 DEF Out, TakenFor
    <3>2. Out = {}
      BY <2>2, GlassAssumption DEF Out, TakenFor
    <3> QED
      BY <3>1, <3>2
  <2>4. Box = replies /\ Box' = replies'
    BY <2>1, <2>3 DEF Box, Out
  <2> QED
    BY <2>1, <2>4 DEF Kept, Stays
<1>4. CASE Woken
  <2>1. /\ interview = "wait" /\ interview' = "idle" /\ chan[line] # NoKey
        /\ heard' = Append(heard, chan[line])
        /\ UNCHANGED <<replies, swallowed, seenSends, transcript, acked>>
    BY <1>4 DEF Woken, Hears
  <2>2. line \in 1 .. MaxLines
    BY <2>1, GlassAssumption DEF Handed, Questions, TypeOK
  <2>3. chan[line] \in Keys /\ replies \in Seq(Keys)
    BY <2>1, <2>2 DEF Handed, TypeOK
  <2>4. Out = {chan[line]}
    BY <2>1, <2>2, Taken DEF Out
  <2>5. Box # <<>> /\ Head(Box) = chan[line] /\ Tail(Box) = replies
    <3>1. Box = BoxOf("wait", {chan[line]}, replies)
      BY <2>1, <2>4, BoxParts
    <3> QED
      BY <2>3, <3>1, BoxOfOne
  <2>6. Box' = replies
    BY <2>1 DEF Box
  <2> QED
    BY <2>1, <2>5, <2>6 DEF Takes
<1>5. CASE GiveUp
  <2>1. /\ interview = "wait" /\ interview' = "gone" /\ UNCHANGED <<replies, line, chan, hand, request>>
        /\ UNCHANGED <<heard, swallowed, seenSends, transcript, acked>>
    BY <1>5 DEF GiveUp
  <2>2. Out' = Out
    BY <2>1 DEF Out, TakenFor
  <2>3. Box' = Box
    BY <2>1, <2>2 DEF Box, Out
  <2> QED
    BY <2>1, <2>3 DEF Kept, Stays
<1>6. CASE ClientGone
  <2>1. /\ interview = "gone" /\ interview' = "idle" /\ swallowed' = swallowed \cup Out
        /\ UNCHANGED <<replies, heard, seenSends, transcript, acked>>
    BY <1>6 DEF ClientGone, Out
  <2>2. Box' = replies /\ replies \in Seq(Keys)
    BY <2>1 DEF Box, Handed, TypeOK
  <2>3. CASE Out = {}
    <3>1. Box = replies
      BY <2>3, BoxParts DEF BoxOf
    <3> QED
      BY <2>1, <2>2, <2>3, <3>1 DEF Kept, Stays
  <2>4. CASE Out # {}
    <3>1. PICK k \in Keys : Out = {k}
      BY <2>1, <2>4, BoxParts
    <3>2. Box # <<>> /\ Head(Box) = k /\ Tail(Box) = replies
      BY <2>1, <2>2, <3>1, BoxParts, BoxOfOne
    <3> QED
      BY <2>1, <2>2, <3>1, <3>2 DEF Loses
  <2> QED
    BY <2>3, <2>4
<1>7. CASE Cancel \/ NewContext
  <2>1. /\ UNCHANGED <<interview, replies, line, chan, hand, request>>
        /\ UNCHANGED <<heard, swallowed, seenSends, transcript, acked>>
    BY <1>7 DEF Cancel, NewContext
  <2>2. Out' = Out
    BY <2>1 DEF Out, TakenFor
  <2> QED
    BY <2>1, <2>2, BoxStays DEF Kept, Stays
<1> QED
  BY <1>1, <1>2, <1>3, <1>4, <1>5, <1>6, <1>7

LEMMA StepKinds ==
  ASSUME Handed, [Next]_vars
  PROVE  Kinds
<1>1. CASE UNCHANGED vars
  <2>1. /\ UNCHANGED <<interview, replies, line, chan, hand, request>>
        /\ UNCHANGED <<heard, swallowed, seenSends, transcript, acked>>
    BY <1>1 DEF vars, chatVars, askVars, connVars, historyVars
  <2>2. Out' = Out
    BY <2>1 DEF Out, TakenFor
  <2> QED
    BY <2>1, <2>2, BoxStays DEF Kinds, Kept, Stays
<1>2. CASE InterviewStep \/ Cancel \/ NewContext
  BY <1>2, InterviewKinds DEF InterviewStep, Kinds
<1>3. ASSUME NEW c \in Conns, ServeStep(c) \/ PaneStep(c)
      PROVE  Kinds
  BY <1>3, SocketKinds, SendKinds, SendAgainKinds, EchoedKinds, AnswerKinds
     DEF ServeStep, PaneStep, Kinds
<1> QED
  BY <1>1, <1>2, <1>3 DEF Next

-----------------------------------------------------------------------------
(* What occurs in a sequence, and where.                                     *)

LEMMA AppendOccurring ==
  ASSUME NEW S, NEW s \in Seq(S), NEW e \in S
  PROVE  /\ Occurring(Append(s, e)) = Occurring(s) \cup {e}
         /\ Distinct(s) /\ e \notin Occurring(s) => Distinct(Append(s, e))
<1> DEFINE t == Append(s, e)
<1>1. /\ Len(s) \in Nat /\ Len(t) = Len(s) + 1
      /\ DOMAIN s = 1 .. Len(s) /\ DOMAIN t = 1 .. Len(s) + 1
      /\ \A n \in 1 .. Len(s) : t[n] = s[n]
      /\ t[Len(s) + 1] = e
  BY AppendProperties, LenProperties
<1> HIDE DEF t
<1>2. \A n \in DOMAIN t : n \in DOMAIN s \/ n = Len(s) + 1
  BY <1>1
<1>3. DOMAIN s \subseteq DOMAIN t /\ Len(s) + 1 \in DOMAIN t
  BY <1>1
<1>4. Occurring(t) = Occurring(s) \cup {e}
  BY <1>1, <1>2, <1>3 DEF Occurring
<1>5. ASSUME Distinct(s), e \notin Occurring(s)
      PROVE  Distinct(t)
  BY <1>1, <1>2, <1>5 DEF Distinct, Occurring
<1> QED
  BY <1>4, <1>5 DEF t

LEMMA TailOccurring ==
  ASSUME NEW S, NEW s \in Seq(S), s # <<>>
  PROVE  /\ Occurring(s) = Occurring(Tail(s)) \cup {Head(s)}
         /\ Distinct(s) => Distinct(Tail(s)) /\ Head(s) \notin Occurring(Tail(s))
<1> DEFINE t == Tail(s)
<1>1. /\ Len(s) \in Nat \ {0} /\ Len(t) = Len(s) - 1 /\ Head(s) = s[1]
      /\ DOMAIN s = 1 .. Len(s) /\ DOMAIN t = 1 .. Len(t)
      /\ \A n \in 1 .. Len(t) : t[n] = s[n + 1]
  <2>1. t \in Seq(S) /\ Len(t) = Len(s) - 1 /\ \A n \in 1 .. Len(t) : t[n] = s[n + 1]
    BY HeadTailProperties
  <2>2. Len(s) \in Nat \ {0} /\ DOMAIN s = 1 .. Len(s) /\ DOMAIN t = 1 .. Len(t)
    BY <2>1, EmptySeq, LenProperties
  <2>3. Head(s) = s[1]
    OBVIOUS
  <2> QED
    BY <2>1, <2>2, <2>3
<1> HIDE DEF t
<1>2. \A n \in DOMAIN t : n + 1 \in DOMAIN s /\ n + 1 # 1 /\ t[n] = s[n + 1] /\ n \in Nat
  BY <1>1
<1>3. \A n \in DOMAIN s : n = 1 \/ \E m \in DOMAIN t : t[m] = s[n]
  <2> SUFFICES ASSUME NEW n \in 1 .. Len(s), n # 1 PROVE n - 1 \in DOMAIN t /\ t[n - 1] = s[n]
    BY <1>1
  <2>1. n - 1 \in 1 .. Len(t) /\ (n - 1) + 1 = n
    BY <1>1
  <2> QED
    BY <1>1, <2>1
<1>4. 1 \in DOMAIN s
  BY <1>1
<1>5. Occurring(s) = Occurring(t) \cup {Head(s)}
  <2>1. \A e \in Occurring(s) : e \in Occurring(t) \/ e = Head(s)
    BY <1>1, <1>3 DEF Occurring
  <2>2. Head(s) \in Occurring(s)
    BY <1>1, <1>4 DEF Occurring
  <2>3. \A e \in Occurring(t) : e \in Occurring(s)
    BY <1>2 DEF Occurring
  <2> QED
    BY <2>1, <2>2, <2>3
<1>6. ASSUME Distinct(s)
      PROVE  Distinct(t) /\ Head(s) \notin Occurring(t)
  <2>1. \A m, n \in DOMAIN t : t[m] = t[n] => m = n
    <3> TAKE m, n \in DOMAIN t
    <3>1. s[m + 1] = s[n + 1] => m + 1 = n + 1
      BY <1>2, <1>6 DEF Distinct
    <3> QED
      BY <1>2, <3>1
  <2>2. \A n \in DOMAIN t : t[n] # s[1]
    BY <1>2, <1>4, <1>6 DEF Distinct
  <2> QED
    BY <1>1, <2>1, <2>2 DEF Distinct, Occurring
<1> QED
  BY <1>5, <1>6 DEF t

\* What occurs once is in one place, what does not occur in none.
LEMMA Places ==
  ASSUME NEW s, NEW k, \A m, n \in DOMAIN s : s[m] = s[n] /\ s[m] = k => m = n
  PROVE  Cardinality({ n \in DOMAIN s : s[n] = k }) = IF k \in Occurring(s) THEN 1 ELSE 0
<1>1. CASE k \in Occurring(s)
  <2>1. PICK p \in DOMAIN s : s[p] = k
    BY <1>1 DEF Occurring
  <2>2. { n \in DOMAIN s : s[n] = k } = {p}
    BY <2>1
  <2> QED
    BY <1>1, <2>2, FS_Singleton
<1>2. CASE k \notin Occurring(s)
  <2>1. { n \in DOMAIN s : s[n] = k } = {}
    BY <1>2 DEF Occurring
  <2> QED
    BY <1>2, <2>1, FS_EmptySet
<1> QED
  BY <1>1, <1>2

-----------------------------------------------------------------------------
(* Words have one fate.                                                      *)

SaidOnce ==
  /\ \A m, n \in DOMAIN transcript : transcript[m] = transcript[n] /\ transcript[m] \in Keys => m = n
  /\ Occurring(transcript) \cap Keys = seenSends

OnePlace ==
  /\ Distinct(Box) /\ Distinct(heard)
  /\ Occurring(Box) \cup Occurring(heard) \cup swallowed = seenSends
  /\ Occurring(Box) \cap Occurring(heard) = {}
  /\ Occurring(Box) \cap swallowed = {} /\ Occurring(heard) \cap swallowed = {}

LEMMA OneFateParts == OneFate <=> SaidOnce /\ OnePlace /\ acked \subseteq seenSends
BY DEF OneFate, SaidOnce, OnePlace

LEMMA SaidOnceStays ==
  ASSUME Handed, SaidOnce, Kinds
  PROVE  SaidOnce'
<1> DEFINE S == Keys \cup {Ghillie}
<1>1. transcript \in Seq(S)
  BY DEF Handed, TypeOK
<1>2. CASE transcript' = transcript /\ seenSends' = seenSends
  BY <1>2 DEF SaidOnce, Occurring
<1>3. ASSUME NEW e \in S, transcript' = Append(transcript, e),
             e \in Keys => e \notin seenSends,
             seenSends' = seenSends \cup ({e} \cap Keys)
      PROVE  SaidOnce'
  <2>1. /\ Len(transcript) \in Nat /\ Len(transcript') = Len(transcript) + 1
        /\ DOMAIN transcript = 1 .. Len(transcript) /\ DOMAIN transcript' = 1 .. Len(transcript) + 1
        /\ \A n \in 1 .. Len(transcript) : transcript'[n] = transcript[n]
        /\ transcript'[Len(transcript) + 1] = e
    BY <1>1, <1>3, AppendProperties, LenProperties
  <2>2. \A n \in DOMAIN transcript' : n \in DOMAIN transcript \/ n = Len(transcript) + 1
    BY <2>1
  <2>3. Occurring(transcript)' = Occurring(transcript) \cup {e}
    <3>1. Occurring(Append(transcript, e)) = Occurring(transcript) \cup {e}
      BY <1>1, AppendOccurring
    <3> QED
      BY <1>3, <3>1 DEF Occurring
  <2>4. Occurring(transcript)' \cap Keys = seenSends'
    BY <1>3, <2>3 DEF SaidOnce
  <2>5. \A n \in DOMAIN transcript : transcript[n] \in Keys => transcript[n] \in seenSends
    BY DEF SaidOnce, Occurring
  <2>6. \A m, n \in DOMAIN transcript' : transcript'[m] = transcript'[n] /\ transcript'[m] \in Keys => m = n
    <3> SUFFICES ASSUME NEW m \in DOMAIN transcript', NEW n \in DOMAIN transcript',
                        transcript'[m] = transcript'[n], transcript'[m] \in Keys
                 PROVE  m = n
      OBVIOUS
    <3>1. CASE m \in DOMAIN transcript /\ n \in DOMAIN transcript
      BY <2>1, <3>1 DEF SaidOnce
    <3>2. CASE m \in DOMAIN transcript /\ n = Len(transcript) + 1
      BY <1>3, <2>1, <2>5, <3>2
    <3>3. CASE m = Len(transcript) + 1 /\ n \in DOMAIN transcript
      BY <1>3, <2>1, <2>5, <3>3
    <3> QED
      BY <2>2, <3>1, <3>2, <3>3
  <2> QED
    BY <2>4, <2>6 DEF SaidOnce
<1>4. CASE Kept
  <2>1. CASE transcript' = Append(transcript, Ghillie)
    <3>1. Ghillie \in S /\ Ghillie \notin Keys /\ seenSends' = seenSends \cup ({Ghillie} \cap Keys)
      BY <1>4, GlassAssumption DEF Kept, Stays
    <3> QED
      BY <1>3, <2>1, <3>1
  <2> QED
    BY <1>2, <1>4, <2>1 DEF Kept, Stays
<1>5. ASSUME NEW k \in Keys, Accepts(k)
      PROVE  SaidOnce'
  <2>1. k \in S /\ {k} \cap Keys = {k}
    OBVIOUS
  <2> QED
    BY <1>3, <1>5, <2>1 DEF Accepts
<1> QED
  BY <1>2, <1>4, <1>5 DEF Kinds, Takes, Loses

LEMMA OnePlaceStays ==
  ASSUME Handed, OnePlace, Kinds
  PROVE  OnePlace'
<1>1. Box \in Seq(Keys) /\ heard \in Seq(Keys)
  BY BoxParts DEF Handed, TypeOK
<1>2. CASE Kept
  <2>1. Box' = Box /\ heard' = heard /\ swallowed' = swallowed /\ seenSends' = seenSends
    BY <1>2 DEF Kept, Stays
  <2> QED
    BY <2>1 DEF OnePlace, Occurring, Distinct
<1>3. ASSUME NEW k \in Keys, Accepts(k)
      PROVE  OnePlace'
  <2>1. /\ Box' = Append(Box, k) /\ k \notin seenSends /\ seenSends' = seenSends \cup {k}
        /\ heard' = heard /\ swallowed' = swallowed
    BY <1>3 DEF Accepts
  <2>2. k \notin Occurring(Box) /\ k \notin Occurring(heard) /\ k \notin swallowed
    BY <2>1 DEF OnePlace
  <2>3. /\ Occurring(Append(Box, k)) = Occurring(Box) \cup {k} /\ Distinct(Append(Box, k))
    BY <1>1, <2>2, AppendOccurring DEF OnePlace
  <2>4. /\ Occurring(Box)' = Occurring(Box) \cup {k} /\ Distinct(Box)'
        /\ Occurring(heard)' = Occurring(heard) /\ Distinct(heard)'
    BY <2>1, <2>3 DEF Occurring, Distinct, OnePlace
  <2> QED
    BY <2>1, <2>2, <2>4 DEF OnePlace
<1>4. ASSUME Box # <<>>, Box' = Tail(Box)
      PROVE  /\ Distinct(Box)' /\ Occurring(Box) = Occurring(Box)' \cup {Head(Box)}
             /\ Head(Box) \notin Occurring(Box)' /\ Head(Box) \in Keys
  <2>1. /\ Occurring(Box) = Occurring(Tail(Box)) \cup {Head(Box)}
        /\ Distinct(Tail(Box)) /\ Head(Box) \notin Occurring(Tail(Box))
    BY <1>1, <1>4, TailOccurring DEF OnePlace
  <2>2. Occurring(Box)' = Occurring(Tail(Box)) /\ (Distinct(Box)' <=> Distinct(Tail(Box)))
    BY <1>4 DEF Occurring, Distinct
  <2>3. Head(Box) \in Keys
    BY <1>1, <1>4, HeadTailProperties
  <2> QED
    BY <2>1, <2>2, <2>3
<1>5. CASE Takes
  <2>1. /\ Box # <<>> /\ Box' = Tail(Box) /\ heard' = Append(heard, Head(Box))
        /\ swallowed' = swallowed /\ seenSends' = seenSends
    BY <1>5 DEF Takes
  <2>2. Head(Box) \notin Occurring(heard) /\ Head(Box) \notin swallowed
    BY <1>4, <2>1 DEF OnePlace
  <2>3. /\ Occurring(Append(heard, Head(Box))) = Occurring(heard) \cup {Head(Box)}
        /\ Distinct(Append(heard, Head(Box)))
    BY <1>1, <1>4, <2>1, <2>2, AppendOccurring DEF OnePlace
  <2>4. Occurring(heard)' = Occurring(heard) \cup {Head(Box)} /\ Distinct(heard)'
    BY <2>1, <2>3 DEF Occurring, Distinct
  <2> QED
    BY <1>4, <2>1, <2>2, <2>4 DEF OnePlace
<1>6. CASE Loses
  <2>1. /\ Box # <<>> /\ Box' = Tail(Box) /\ swallowed' = swallowed \cup {Head(Box)}
        /\ heard' = heard /\ seenSends' = seenSends
    BY <1>6 DEF Loses
  <2>2. Head(Box) \notin Occurring(heard)
    BY <1>4, <2>1 DEF OnePlace
  <2>3. Occurring(heard)' = Occurring(heard) /\ (Distinct(heard)' <=> Distinct(heard))
    BY <2>1 DEF Occurring, Distinct
  <2> QED
    BY <1>4, <2>1, <2>2, <2>3 DEF OnePlace
<1> QED
  BY <1>2, <1>3, <1>5, <1>6 DEF Kinds

LEMMA Initially == Init => IInv
<1> SUFFICES ASSUME Init PROVE IInv
  OBVIOUS
<1>1. Box = <<>> /\ heard = <<>> /\ transcript = <<>> /\ swallowed = {} /\ seenSends = {} /\ acked = {}
  BY DEF Init, Box
<1>2. DOMAIN <<>> = {}
  OBVIOUS
<1>3. OneFate
  BY <1>1, <1>2 DEF OneFate, Occurring, Distinct
<1> QED
  BY <1>3, FirstHanded DEF IInv

LEMMA Steps == IInv /\ [Next]_vars => IInv'
<1> SUFFICES ASSUME IInv, [Next]_vars PROVE IInv'
  OBVIOUS
<1>1. Handed /\ SaidOnce /\ OnePlace /\ acked \subseteq seenSends
  BY OneFateParts DEF IInv
<1>2. Handed'
  BY <1>1, StaysHanded
<1>3. Kinds
  BY <1>1, StepKinds
<1>4. SaidOnce' /\ OnePlace'
  BY <1>1, <1>3, SaidOnceStays, OnePlaceStays
<1>5. acked' \subseteq seenSends'
  BY <1>1, <1>3 DEF Kinds, Kept, Stays, Accepts, Takes, Loses
<1>6. OneFate'
  BY <1>4, <1>5 DEF OneFate, SaidOnce, OnePlace
<1> QED
  BY <1>2, <1>6 DEF IInv

-----------------------------------------------------------------------------
(* The theorems.                                                             *)

\* The inductive invariant: what each goroutine has in hand, and where accepted words are.
THEOREM Invariance == Spec => []IInv
<1> QED
  BY Initially, Steps, PTL DEF Spec

\* Every variable keeps its type: the waiter is a question that was asked, a channel holds words.
THEOREM TypeCorrectness == Spec => []TypeOK
<1>1. IInv => TypeOK
  BY DEF IInv, Handed
<1> QED
  BY <1>1, Invariance, PTL

\* handleChatSend and AwaitReply: words that were acknowledged are on the transcript once and
\* have one fate, for any number of sockets, re-sends and questions that give up.
THEOREM AcknowledgedWordsOnce == Spec => []AcknowledgedOnce
<1>1. IInv => AcknowledgedOnce
  <2> SUFFICES ASSUME IInv, NEW k \in Keys
               PROVE  LET said   == { n \in DOMAIN transcript : transcript[n] = k }
                          waits  == { n \in DOMAIN Box : Box[n] = k }
                          hears  == { n \in DOMAIN heard : heard[n] = k }
                      IN  /\ Cardinality(said) = IF k \in seenSends THEN 1 ELSE 0
                          /\ k \in acked => said # {}
                          /\ Cardinality(waits) + Cardinality(hears) + Cardinality(swallowed \cap {k})
                               = Cardinality(said)
    BY DEF AcknowledgedOnce
  <2> DEFINE said   == { n \in DOMAIN transcript : transcript[n] = k }
             waits  == { n \in DOMAIN Box : Box[n] = k }
             hears  == { n \in DOMAIN heard : heard[n] = k }
  <2>1. k \in seenSends <=> k \in Occurring(transcript)
    BY DEF IInv, OneFate
  <2>2. Cardinality(said) = IF k \in seenSends THEN 1 ELSE 0
    <3>1. \A m, n \in DOMAIN transcript : transcript[m] = transcript[n] /\ transcript[m] = k => m = n
      BY DEF IInv, OneFate
    <3> QED
      BY <2>1, <3>1, Places
  <2>3. Cardinality(waits) = IF k \in Occurring(Box) THEN 1 ELSE 0
    <3>1. \A m, n \in DOMAIN Box : Box[m] = Box[n] /\ Box[m] = k => m = n
      BY DEF IInv, OneFate, Distinct
    <3> QED
      BY <3>1, Places
  <2>4. Cardinality(hears) = IF k \in Occurring(heard) THEN 1 ELSE 0
    <3>1. \A m, n \in DOMAIN heard : heard[m] = heard[n] /\ heard[m] = k => m = n
      BY DEF IInv, OneFate, Distinct
    <3> QED
      BY <3>1, Places
  <2>5. Cardinality(swallowed \cap {k}) = IF k \in swallowed THEN 1 ELSE 0
    <3>1. CASE k \in swallowed
      <4>1. swallowed \cap {k} = {k}
        BY <3>1
      <4> QED
        BY <3>1, <4>1, FS_Singleton
    <3>2. CASE k \notin swallowed
      <4>1. swallowed \cap {k} = {}
        BY <3>2
      <4> QED
        BY <3>2, <4>1, FS_EmptySet
    <3> QED
      BY <3>1, <3>2
  <2>6. k \in acked => said # {}
    BY <2>1 DEF IInv, OneFate, Occurring
  <2>7. Cardinality(waits) + Cardinality(hears) + Cardinality(swallowed \cap {k}) = Cardinality(said)
    <3>1. /\ k \in seenSends <=> k \in Occurring(Box) \/ k \in Occurring(heard) \/ k \in swallowed
          /\ ~ (k \in Occurring(Box) /\ k \in Occurring(heard))
          /\ ~ (k \in Occurring(Box) /\ k \in swallowed)
          /\ ~ (k \in Occurring(heard) /\ k \in swallowed)
      BY DEF IInv, OneFate
    <3> HIDE DEF said, waits, hears
    <3> QED
      BY <2>2, <2>3, <2>4, <2>5, <3>1
  <2> QED
    BY <2>2, <2>6, <2>7
<1> QED
  BY <1>1, Invariance, PTL

\* The queue, the waiter and the wake-up after the unlock are one line of words: Glass
\* implements module Mailbox.
THEOREM GlassIsAMailbox == Spec => MailboxSpec
<1>1. Init => Words!Init
  BY DEF Init, Words!Init, Box
<1>2. Handed /\ [Next]_vars => [Words!Next]_(Words!vars)
  <2> SUFFICES ASSUME Handed, [Next]_vars PROVE [Words!Next]_(Words!vars)
    OBVIOUS
  <2>1. Kinds
    BY StepKinds
  <2>2. CASE Kept
    BY <2>2 DEF Kept, Stays, Words!vars
  <2>3. CASE \E k \in Keys : Accepts(k)
    BY <2>3 DEF Accepts, Words!Next, Words!Accept
  <2>4. CASE Takes
    BY <2>4 DEF Takes, Words!Next, Words!Take
  <2>5. CASE Loses
    BY <2>5 DEF Loses, Words!Next, Words!Lose
  <2> QED
    BY <2>1, <2>2, <2>3, <2>4, <2>5 DEF Kinds
<1>3. IInv => Handed
  BY DEF IInv
<1> QED
  BY <1>1, <1>2, <1>3, Invariance, PTL DEF Spec, MailboxSpec, Words!Spec
=============================================================================
